SPECIFICATION Spec
CONSTANTS
  Entities = {e1}
  Sources = {s1, s2}
  Requests = {r1, r2}
  Patches <- MCPatches
  Places = {1}
  Cut <- MCCut
  Absent = Absent
  MaxActive = 2
  MaxVersion = 2
  MaxEvents = 2
INVARIANTS ConfigurationHolds OneModelPerCollection MirrorsRows
CHECK_DEADLOCK FALSE
SYMMETRY Interchangeable
CONSTRAINTS SecondEventEarly OneKind TwoDocumentsAtPeace
