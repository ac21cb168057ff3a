\* The operator's recommendations against those of a scan.
SPECIFICATION Spec
CONSTANTS
  Bounds <- SmallBounds
  Values = {1, 3, 4, 9}
  MaxTime = 3
  Threshold = 2
  MaxSeen = 3
  None = None
  MiB = 4
  MatureWindow = 3
  MatureLog = 1
  Currents <- Unlimited
  Default <- DefaultPolicy
  HoursPerTime = 1
INVARIANTS PublishedMirrorsScan
