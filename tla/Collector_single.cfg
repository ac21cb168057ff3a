\* Two single-container workloads, one instance that crashes and restarts; w1 is
\* checkpointed although every call about w2 may fail forever.
SPECIFICATION FairSpec
CONSTANTS
  Operators = {o1}
  Workloads = {w1, w2}
  Containers = {c1}
  Readings <- AlwaysBusy
  Flaky = {w2}
  MaxNow = 2
  MaxCount = 2
  MaxDisruptions = 2
  None = None
INVARIANTS TypeOK SampleCountSound
PROPERTIES EventuallyDurable
