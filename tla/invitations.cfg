CONSTANTS
  Place = {p1}
  Invitation = {i1, i2}
  Worker = {w1, w2}
  NoRequest = NoRequest
  NoRow = NoRow
  MayCrash = TRUE
SPECIFICATION FairSpec
INVARIANT TypeOK TwinsNeedARace SendersKnowTheAnswer
PROPERTY AcceptingJoins JoinsAreAccepted RequestsEnd
