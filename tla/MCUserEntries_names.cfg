SPECIFICATION Spec
CONSTANTS
  e1 = e1
  e2 = e2
  a1 = a1
  a2 = a2
  n1 = n1
  n2 = n2
  r1 = r1
  Explorers = {e1, e2}
  Addresses = {a1, a2}
  Names = {n1, n2}
  Requests = {r1}
  Limit = 2
  MaxRequests = 4
  Removed = Removed
  NoName = NoName
SYMMETRY Symmetry
INVARIANT NamesAreUnique
