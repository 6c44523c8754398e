SPECIFICATION SyncSpec
CONSTANTS
  e1 = e1 e2 = e2 e3 = e3 t1 = t1 t2 = t2 t3 = t3 f1 = f1 f2 = f2
  Entities = {e1, e2, e3}
  Titles = {t1, t2}
  First <- FewEntities
  Npcs = {e1, e2, e3}
  Requests = {r1, r2}
  Clients = {c1, c2}
  Journals = {j1, j2}
  Actors = {a1, a2}
  ByTitle = ByTitle
  Files = {f1, f2}
  FileOf <- AllDifferent
  None = None
  Gone = Gone
  Kinds = {"foundry", "obsidian", "mcp"}
  MaxActive = 2
  MaxEdits = 1
  MaxMishaps = 1
INVARIANTS ClientsAreOwned DocumentsAreReal NotesSurvive
SYMMETRY Interchangeable
CONSTRAINT InBounds
CHECK_DEADLOCK FALSE
