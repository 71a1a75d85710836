CONSTANTS
  c1 = c1  c2 = c2  a = a  b = b  u1 = u1  u2 = u2
  Client = {c1, c2}
  User = {u1, u2}
  Url = {a, b}
  Length = {1, 2}
  MaxCount = 1
  MaxStores = 2
  MaxRequests = 3
  MaxChanges = 1
  NoUser = NoUser
SPECIFICATION Spec
INVARIANT Persisted
PROPERTY Restored
SYMMETRY Symmetric
CHECK_DEADLOCK FALSE
