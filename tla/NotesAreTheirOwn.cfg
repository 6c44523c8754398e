SPECIFICATION SyncSpec
CONSTANTS
  e1 = e1 e2 = e2 e3 = e3 t1 = t1 t2 = t2 t3 = t3 f1 = f1 f2 = f2
  Entities = {e1, e2, e3}
  Titles = {t1, t2, t3}
  First <- FewEntities
  Npcs = {}
  Requests = {r1}
  Clients = {}
  Journals = {}
  Actors = {}
  ByTitle = ByTitle
  Files = {f1, f2}
  FileOf <- SanitizedAlike
  None = None
  Gone = Gone
  Kinds = {"obsidian"}
  MaxActive = 1
  MaxEdits = 3
  MaxMishaps = 0
PROPERTY NotesAreTheirOwn
CHECK_DEADLOCK FALSE
