SPECIFICATION PendingFairSpec
CONSTANTS
  Requests = {r0, r1, r2}
  First = r0
  Drafts = {d1}
  Entities = {e1}
  NoDraft = NoDraft
  NoOne = NoOne
  MAX_GENERATION_ATTEMPTS = 1
  MaxActive = 2
  Faults = FALSE
PROPERTIES
  GateSpec
  TurnsEnd
