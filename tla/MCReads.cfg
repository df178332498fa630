SPECIFICATION ReadsSpec
CONSTANTS
  w1 = w1
  w2 = w2
  u1 = u1
  u2 = u2
  a1 = a1
  a2 = a2
  t1 = t1
  t2 = t2
  Off = Off
  Workers = {w1, w2}
  Window = 2
  PageLimit = 1
  MaxClock = 3
  MaxAssets = 2
  MaxChanges = 2
  MaxFail = 1
  Users = {u1, u2}
  Addresses = {a1, a2}
  Txs = {t1, t2}
  Restakes = {t1}
  Amounts = {0, 1, 2}
  ExportPage = 2
  MaxLoop = 2
  ExportLimit = 4
  MaxHeight = 3
  MaxRecords = 5
  MaxMoves = 2
  MaxEntries = 2
  Validators = {1, 2}
  PageSize = 1
  Coins = 2
  MaxChainMoves = 2
  PoolCount = 2
  PoolWindow = 2
  Graph = 2
  MaxDeeds = 3
  MaxTrades = 4
  DayLength = 2
  MaxTime = 5
  MaxHolders = 1
SYMMETRY Symmetry
INVARIANTS TypeOK SweptIsStored NoTimeIsSkipped EachRecordOnce OnlyKnownGaps
INVARIANTS NoticesFollowSettings TotalIsNearWorth
INVARIANTS QuestsStayDone ShownStatisticsStay CountsAreOfTheirDay
