SPECIFICATION RecordsSpec
CONSTANTS
  e1 = e1
  e2 = e2
  a1 = a1
  a2 = a2
  a3 = a3
  a4 = a4
  n1 = n1
  n2 = n2
  r1 = r1
  r2 = r2
  k1 = k1
  k2 = k2
  i1 = i1
  i2 = i2
  Explorers = {e1, e2}
  Addresses = {a1, a2, a3, a4}
  Names = {n1, n2}
  Requests = {r1, r2}
  Limit = 2
  MaxRequests = 4
  Removed = Removed
  NoName = NoName
  Keys = {k1, k2}
  Others = {n1, n2}
  Instances = {i1, i2}
  MaxAdminRequests = 3
  MaxStarts = 5
  Urls = {"tags", "next"}
  NextPages = {"next"}
  Steps = 3
  InfraStep = 2
  MaxAttempts = 2
  Tries = 3
  MaxPages = 4
  Ttl = 2
  m1 = m1
  m2 = m2
  c1 = c1
  c2 = c2
  Minters = {m1, m2}
  Contracts = {c1, c2}
  MaxTokens = 2
  MaxClock = 3
  MaxVersion = 1
SYMMETRY Symmetry
INVARIANTS TypeOK OvershootIsBounded NamesAreUniqueAlone
INVARIANTS KeyErrorsAreKnown RowsAreAsAsked DuplicatesAreTold SecretsAreReadable
INVARIANTS VerifiedOnce EmptyMeansTried AnswersAreFresh
INVARIANTS RejectionsHold
PROPERTIES ImplementsTable PollsTellAStory
