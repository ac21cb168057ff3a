\* Three workloads, two workers: every order of their goroutines.
SPECIFICATION FairSpec
CONSTANTS
  N = 3
  Workers = 2
  Containers = {c1, c2}
  Clusters <- SmallClusters
  Sites <- SmallSites
  Default <- DefaultPolicy
  Configured <- Unit
  NoiseFloor = 2
  CPUEps = 3
  MemoryEps = 3
  Failed = Failed
  NoController = NoController
  Lookback = 2
  MiB = 4
  MatureWindow = 2
  MatureLog = 4
INVARIANTS TypeOK WorkerLimit ResultIsSequential ProgressIsComplete HonestHeadline CoverageKept PeakOfOnePodCovered ShrinkingSaves
PROPERTIES Terminates
