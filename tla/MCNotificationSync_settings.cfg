SPECIFICATION Spec
CONSTANTS
  coin = coin
  u1 = u1
  t1 = t1
  n1 = n1
  w1 = w1
  Jobs = {coin}
  CoinJobs = {coin}
  Users = {u1}
  Careless = {u1}
  Txs = {t1}
  Ends = {n1}
  Workers = {w1}
  Registered = {u1}
  Newcomers = {}
  PageLimit = 1
  Limit = 3
  MaxHeight = 1
  MaxFail = 0
  MaxReset = 0
  NoJob = NoJob
  NoUser = NoUser
PROPERTY SettingsAreRead
