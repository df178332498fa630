SPECIFICATION Spec
CONSTANTS
  coin = coin
  u1 = u1
  t1 = t1
  n1 = n1
  w1 = w1
  Jobs = {coin}
  CoinJobs = {coin}
  Users = {u1}
  Careless = {}
  Txs = {t1}
  Ends = {n1}
  Workers = {w1}
  Registered = {}
  Newcomers = {}
  PageLimit = 1
  Limit = 3
  MaxHeight = 2
  MaxFail = 0
  MaxReset = 0
  NoJob = NoJob
  NoUser = NoUser
PROPERTY UnderLimitEntriesAreRead
