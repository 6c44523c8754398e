SPECIFICATION Spec
CONSTANTS
  a = a
  b = b
  x = x
  y = y
  z = z
  old = old
  new = new
  other = other
  e1 = e1
  e2 = e2
  Ids = {a, b, n1, n2, n3, n4}
  EdgeIds = {x, y, z}
  Titles = {old, new, other}
  Refs = {e1, e2}
  Unborn = Unborn
  Gone = Gone
  Proposals <- MCProposals
  Standing <- MCStanding
  Standings <- MCStandings
  DmEdits = 2
  Cancels = TRUE
SYMMETRY Symmetry
INVARIANTS
  PreflightSuffices
  CompensatedIfUsable
  FailureDestroysNothing
  NothingSilentlyDropped
