\* Three observations at any times, checkpoints and restarts.
SPECIFICATION Spec
CONSTANTS
  Bounds <- SmallBounds
  Values = {1, 3, 4, 9}
  MaxTime = 5
  Threshold = 2
  MaxSeen = 3
  None = None
  MiB = 4
  MatureWindow = 3
  MatureLog = 1
  Currents <- FewSpecs
  Default <- DefaultPolicy
  HoursPerTime = 1
INVARIANTS TypeOK PercentilesAreTrue WeightsAreBounded PeakIsCovered SnapshotIsCautious
PROPERTIES HistoryEarnsTrust
