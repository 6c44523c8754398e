SPECIFICATION Spec
CONSTANTS
  Requests = {r1, r2}
  First = NoOne
  Drafts = {d1}
  Entities = {e1}
  NoDraft = NoDraft
  NoOne = NoOne
  MAX_GENERATION_ATTEMPTS = 2
  MaxActive = 2
  Faults = FALSE
SYMMETRY Symmetry
INVARIANTS
  MessageSparesPendingReview
