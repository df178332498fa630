SPECIFICATION Spec
CONSTANTS
  r1 = r1
  r2 = r2
  Requests = {r1, r2}
  MaxPerDay = 1
  Gap = 1
  Day = 2
  MaxClock = 3
  MaxRequests = 4
  MaxFail = 1
  NoUser = NoUser
  None = None
SYMMETRY Symmetry
INVARIANTS TypeOK EveryStoredSecretWasMailed OldSessionsAreRefused MailLimitHoldsAlone
PROPERTY VerificationStays
