SPECIFICATION FairSpec
CONSTANTS
  Commands <- SomeCommands
  MaxFailures = 1
INVARIANTS TypeOK CompleteIsInstalled OperatorFindsCRDs
PROPERTIES OthersKept Converges
