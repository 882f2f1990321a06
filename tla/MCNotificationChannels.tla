----------------------- MODULE MCNotificationChannels -----------------------
(***************************************************************************)
(* NotificationChannels for TLC: its constants are sets of strings and     *)
(* bounds, which the configurations give.                                  *)
(***************************************************************************)
EXTENDS NotificationChannels, TLC
=============================================================================
