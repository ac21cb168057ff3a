\* One workload of two containers: containers drop out of the template and come
\* back, and samples are inflated by restarts.
SPECIFICATION Spec
CONSTANTS
  Operators = {o1}
  Workloads = {w1}
  Containers = {c1, c2}
  Readings <- BusyOrIdle
  Flaky = {}
  MaxNow = 2
  MaxCount = 2
  MaxDisruptions = 3
  None = None
INVARIANTS WindowCoversHistory
PROPERTIES HistoryKept ImplementsDurableHistory
