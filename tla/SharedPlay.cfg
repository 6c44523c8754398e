SPECIFICATION Spec
CONSTANTS
  Players = {p1, p2}
  Entities = {e1}
  Keys = {k1}
  Notes = {n1}
  Files = {f1}
  Requests = {r1, r2}
  None = None
  MaxActive = 2
INVARIANTS AnswersWereVisible FlagsFollowTheGameMaster RowsHaveFiles
SYMMETRY Interchangeable
CONSTRAINTS OneTopic OneReader
CHECK_DEADLOCK FALSE
