\* Changes of others, changes of usage and failed writes between pr commands; all
\* quantities are strings.
SPECIFICATION Spec
CONSTANTS
  Objects <- Workloads
  Containers = {"api", "web"}
  Kind <- KindOf
  Nodes = 3
  FileName <- Named
  Place <- Listed
  Mains <- Repositories
  Changes <- Proposals
  Needs <- UsageCases
  Tops = {0, 1}
  Prices <- PriceSources
  Rate <- UnitPrice
  NoiseFloor = 1
  Eps = 1
  Budget = 4
  MaxEvents = 2
  Unset = Unset
  None = None
  Truncated = Truncated
  NoController = NoController
INVARIANTS TypeOK CompleteWhenAnnounced SavingsAreReal
PROPERTIES BudgetHolds
