SPECIFICATION Spec
CONSTANTS
  executed = executed
  nft = token
  u1 = u1
  t1 = t1
  n1 = n1
  n2 = n2
  w1 = w1
  w2 = w2
  Jobs = {executed, nft}
  CoinJobs = {}
  Users = {u1}
  Careless = {}
  Txs = {t1}
  Ends = {n1, n2}
  Workers = {w1, w2}
  Registered = {}
  Newcomers = {u1}
  PageLimit = 1
  Limit = 2
  MaxHeight = 2
  MaxFail = 1
  MaxReset = 1
  NoJob = NoJob
  NoUser = NoUser
CONSTRAINT Scenario
SYMMETRY JobSymmetry
INVARIANTS TypeOK OnlyKnownLosses OneRowPerAttempt QuotaBackedByRows RowsOfADayAreBounded
PROPERTY CursorNeverRegresses
