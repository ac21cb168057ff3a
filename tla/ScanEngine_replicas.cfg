\* One workload of two pods, of which Prometheus returns one series each.
SPECIFICATION Spec
CONSTANTS
  N = 1
  Workers = 2
  Containers = {c1, c2}
  Clusters <- TwoPods
  Sites <- SmallSites
  Default <- DefaultPolicy
  Configured <- Unit
  NoiseFloor = 2
  CPUEps = 3
  MemoryEps = 3
  Failed = Failed
  NoController = NoController
  Lookback = 2
  MiB = 4
  MatureWindow = 2
  MatureLog = 4
INVARIANTS EveryPodCovered
