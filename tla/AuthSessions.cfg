SPECIFICATION Spec
CONSTANTS
  Requests = {r1, r2, r3}
  Emails = {e1, e2, e3}
  Owner = Owner
  None = None
  MaxUsers = 2
  MaxActive = 3
  MaxFaults = 2
SYMMETRY Interchangeable
INVARIANTS
  RevokedIsRefused
  HeldIsUsable
  KeysMatch
  RegisteredIsKept
