SPECIFICATION MixedSpec
CONSTANTS
  Requests = {r0, r1, r2, r3}
  First = r0
  Drafts = {d1, d2}
  Entities = {e1}
  NoDraft = NoDraft
  NoOne = NoOne
  MAX_GENERATION_ATTEMPTS = 2
  MaxActive = 1
  Faults = TRUE
SYMMETRY Symmetry
INVARIANTS
  TypeOK
  OnlyApprovedIsWritten
  RegenerationIsSettled
  RegistryMatchesThread
  ApprovedWasShown
  ProposalWrittenOnce
  WritesAreAccounted
CONSTRAINT FewMishaps
