\* A rolling update of two instances; all calls about workload 2 may fail forever. Three
\* workloads compete for two places in the summary.
SPECIFICATION FairSpec
CONSTANTS
  Operators = {o1, o2}
  Newest = o2
  Workloads = {1, 2, 3}
  Containers = {"app", "proxy"}
  Advices <- FewAdvices
  Cluster = Cluster
  Flaky = {2}
  TopN = 2
  MaxNow = 2
  MaxDisruptions = 1
  None = None
INVARIANTS TypeOK ScoresRank TargetsLead AdviceRaisesScore
PROPERTIES StatusFollowsSpec EverythingPublished
