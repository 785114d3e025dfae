SPECIFICATION Spec
CONSTANTS
  Sources = {s1, s2}
  ClientTypes = {"tick"}
  SourceSeqs = {0, 1, 2}
  OutputCounts = {0, 2}
  Workers = {w1, w2}
  MaxPending = 2
  MaxSources = 1
  Bounds <- StoreBounds
INVARIANTS RecoveryInv SourceOrder CursorsMatchJournal
PROPERTIES NoLostUpdate ResultsAreCurrent Refines
SYMMETRY WorkerSymmetry
