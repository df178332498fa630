SPECIFICATION Spec
CONSTANTS
  t1 = t1
  t2 = t2
  r1 = r1
  Tokens = {t1, t2}
  Asked = {t1}
  Requests = {r1}
  MaxPicked = 1
  PageLimit = 2
  BlockSize = 2
  MaxActivity = 3
  MaxFail = 1
  NoRow = NoRow
  NoToken = NoToken
CONSTRAINT Scenario
ACTION_CONSTRAINT OnlyAsked
INVARIANTS TypeOK StatusMirrorsChain PickedWasTaken
PROPERTY OfferNeverReopens
