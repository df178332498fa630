SPECIFICATION Spec
CONSTANTS
  executed = executed
  coin = coin
  u1 = u1
  t1 = t1
  n1 = n1
  w1 = w1
  w2 = w2
  Jobs = {executed, coin}
  CoinJobs = {coin}
  Users = {u1}
  Careless = {}
  Txs = {t1}
  Ends = {n1}
  Workers = {w1, w2}
  Registered = {u1}
  Newcomers = {}
  PageLimit = 1
  Limit = 2
  MaxHeight = 2
  MaxFail = 0
  MaxReset = 0
  NoJob = NoJob
  NoUser = NoUser
SYMMETRY Symmetry
INVARIANT LimitIsProcessed
