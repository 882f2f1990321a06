CONSTANTS
  Script = {"channels", "manager"}
  MaxCommands = 2
  MaxAnswers = 1
  MaxToasts = 2
SPECIFICATION FairSpec
INVARIANT TypeOK ConfirmedIsServed
PROPERTY OneToastPerScript SilentWhenUnsubscribed AlertsForAdmins AdminsAreServed
