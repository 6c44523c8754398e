SPECIFICATION FairSpec
CONSTANTS
  Imports = {i1}
  Decisions = {d1, d2}
  None = None
  Similar <- MCSimilar
  Documents <- MCDocuments
  PAGE = 2
  MaxActive = 2
  MaxFaults = 1
INVARIANTS
  OnlyDecidedPages
  JobsTellTheTruth
  LinksAreWritten
PROPERTIES
  JobSettles
