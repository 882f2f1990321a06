CONSTANTS
  Day = {mon, tue}
  Time <- MCTime
  Blank = Blank
  ClaimList <- MCClaimList
  FormRows = 3
SPECIFICATION Spec
INVARIANT TypeOK HashIsSet HoursAgree OverlapsAgree
PROPERTY EmptyDaysAreGivenBack DaysAreTidied
