\* Two containers: every restart inflates the sample count.
SPECIFICATION Spec
CONSTANTS
  Operators = {o1}
  Workloads = {w1}
  Containers = {c1, c2}
  Readings <- AlwaysBusy
  Flaky = {}
  MaxNow = 1
  MaxCount = 6
  MaxDisruptions = 1
  None = None
INVARIANTS SampleCountSound
