SPECIFICATION Spec
CONSTANTS
  r1 = r1
  r2 = r2
  Requests = {r1, r2}
  MaxPerDay = 1
  Gap = 1
  Day = 2
  MaxClock = 2
  MaxRequests = 3
  MaxFail = 0
  NoUser = NoUser
  None = None
SYMMETRY Symmetry
INVARIANT MailLimitHolds
