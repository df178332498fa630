SPECIFICATION Spec
CONSTANTS
  t1 = t1
  t2 = t2
  r1 = r1
  r2 = r2
  Tokens = {t1, t2}
  Asked = {t1, t2}
  Requests = {r1, r2}
  MaxPicked = 1
  PageLimit = 2
  BlockSize = 1
  MaxActivity = 2
  MaxFail = 0
  NoRow = NoRow
  NoToken = NoToken
SYMMETRY Symmetry
INVARIANT PickLimitHolds
