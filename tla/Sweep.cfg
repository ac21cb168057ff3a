\* Sweeps of everything or one namespace, with two changes while each runs.
SPECIFICATION Spec
CONSTANTS
  Universe <- FewObjects
  Starts <- FewStarts
  Scopes = {"shop", "kube-system", All}
  All = All
  System = {"kube-system"}
  MaxChanges = 2
  None = None
  Failed = Failed
INVARIANTS TypeOK StandingFindingsHold IdleUnlessNew NothingStandingMissed
