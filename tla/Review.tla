-------------------------------- MODULE Review --------------------------------
(***************************************************************************)
(* The review loop around a repository of manifests: kubetidy pr turns the  *)
(* recommendations of a scan into a change set (internal/gitops, cli/pr.go,  *)
(* internal/patch), an author brings its files into a branch, kubetidy cost  *)
(* (internal/manifest, cli/cost.go) guards what is merged.  What is on the   *)
(* main branch is what runs; authors, CI and the cluster are external.      *)
(*                                                                         *)
(* A scan is one step here (ScanEngine has the rest) and proposes need, the  *)
(* requests that usage asks for.                                           *)
(***************************************************************************)
EXTENDS Pricing, Sequences

CONSTANTS
  Objects,     \* workloads, by kind, namespace and name
  Containers,  \* container names
  Kind,        \* Kind[o]: "Deployment", "StatefulSet" or "DaemonSet"
  Nodes,       \* the number of pods a DaemonSet schedules
  FileName,    \* FileName[<<o, c>>]: patchFileName
  Place,       \* Place[<<o, c>>]: its place in the order of the scan
  Mains,       \* what the repository may hold at first
  Changes,     \* what others may make of a workload: <<o, manifest>>
  Needs,       \* what usage may ask for: functions from <<o, c>> to amounts
  Tops,        \* values of --top
  Prices,      \* what selectPriceProvider may come to: functions from workloads
               \* to prices, the same for all or OpenCost's
  Rate,        \* the price of cost: manifest.DefaultPrice
  NoiseFloor,  \* noiseFloorDollars
  Eps,         \* the epsilon of isNoise
  Budget,      \* --fail-over
  MaxEvents,   \* bound on others' changes, changes of usage and failed writes
  Unset,       \* no replicas in the manifest
  None, Truncated

Keys == Objects \X Containers

Amounts == [cpu : Nat, memory : Nat]

ASSUME NodesIsNatural == Nodes \in Nat
ASSUME BudgetIsNatural == Budget \in Nat
ASSUME MaxEventsIsNatural == MaxEvents \in Nat
ASSUME TopsAreIntegers == Tops \subseteq Int
ASSUME RateIsPrice == Rate \in Price
ASSUME PricesAreTyped == \A prices \in Prices : \A o \in Objects : prices[o] \in Price
ASSUME TruncatedIsNoPatch == Truncated \notin [container : Containers, requests : Amounts]

\* No two containers have the same place.
ASSUME PlacesDiffer ==
  \A k \in Keys : Place[k] \in Nat /\ \A l \in Keys : Place[k] = Place[l] => k = l

ASSUME NeedsAreAmounts ==
  \A asked \in Needs : DOMAIN asked \subseteq Keys /\ \A k \in DOMAIN asked : asked[k] \in Amounts

\* A container's requests, and whether its quantities are written as strings.
Requests == [cpu : Nat, memory : Nat, quoted : BOOLEAN]

IsManifest(m) ==
  /\ DOMAIN m = {"replicas", "requests"}
  /\ m.replicas \in Nat \cup {Unset}
  /\ DOMAIN m.requests \subseteq Containers
  /\ IsFiniteSet(DOMAIN m.requests)
  /\ \A c \in DOMAIN m.requests : m.requests[c] \in Requests

\* Manifests by the object they describe.
IsRepository(repo) ==
  /\ DOMAIN repo \subseteq Objects
  /\ IsFiniteSet(DOMAIN repo)
  /\ \A o \in DOMAIN repo : IsManifest(repo[o])

ASSUME MainsAreRepositories == \A repo \in Mains : IsRepository(repo)
ASSUME ChangesAreManifests == \A x \in Changes : x[1] \in Objects /\ IsManifest(x[2])

VARIABLES
  main,       \* the manifests that are merged, and deployed
  need,       \* what usage asks for
  dir,        \* the patch files in --out, by name
  command,    \* the pr command that is running, or None
  announced,  \* the change set the last pr command reported, or None
  branch,     \* the branch under review, or None
  events

vars == <<main, need, dir, command, announced, branch, events>>
-----------------------------------------------------------------------------
(* Discovery and scan *)

\* kube.Discover: a DaemonSet has as many replicas as it has pods.
Discovered(o, repo) ==
  IF Kind[o] = "DaemonSet" THEN (IF Nodes = 0 THEN 1 ELSE Nodes)
  ELSE IF repo[o].replicas = Unset THEN 1 ELSE repo[o].replicas

AmountsOf(r) == [cpu |-> r.cpu, memory |-> r.memory]

\* A metric without data keeps what is requested (Rightsizer!Recommend).
Proposed(current, asked) ==
  [cpu |-> IF asked.cpu > 0 THEN asked.cpu ELSE current.cpu,
   memory |-> IF asked.memory > 0 THEN asked.memory ELSE current.memory]

Near(a, b) == a - b < Eps /\ b - a < Eps

\* isNoise
IsNoise(r) ==
  /\ -NoiseFloor < r.saving /\ r.saving < NoiseFloor
  /\ Near(r.current.cpu, r.proposed.cpu) /\ Near(r.current.memory, r.proposed.memory)

\* analyzeWorkload prices a workload by its provider's answer for it.
Recommendation(repo, asked, prices, o, c) ==
  LET current == AmountsOf(repo[o].requests[c])
      proposed == Proposed(current, asked[<<o, c>>])
  IN [of |-> o, container |-> c, current |-> current, proposed |-> proposed,
      saving |-> MonthlySavings(current, proposed, prices[o], Discovered(o, repo))]

Scan(repo, asked, prices) ==
  {r \in UNION {{Recommendation(repo, asked, prices, o, c) :
                   c \in {c \in DOMAIN repo[o].requests : <<o, c>> \in DOMAIN asked}} :
                o \in DOMAIN repo} : ~IsNoise(r)}
-----------------------------------------------------------------------------
(* gitops.Build *)

Key(r) == <<r.of, r.container>>

\* Without --include-grow only what saves.
Selected(recs, grow) == {r \in recs : grow \/ r.saving >= 0}

\* The largest savings first, in the scan's order where they are equal.
Precedes(r, q) ==
  r.saving > q.saving \/ (r.saving = q.saving /\ Place[Key(r)] < Place[Key(q)])

\* How many of them are before r.
Before(recs, r) == Cardinality({q \in recs : Precedes(q, r)})

SelectRecommendations(recs, top, grow) ==
  LET out == Selected(recs, grow)
      kept == IF top > 0 /\ top < Cardinality(out) THEN top ELSE Cardinality(out)
  IN [i \in 1 .. kept |-> CHOOSE r \in out : Before(out, r) = i - 1]

\* StrategicMergePatch: the container and its requests; neither kind nor name.
PatchOf(r) == [container |-> r.container, requests |-> r.proposed]

NameOf(r) == FileName[Key(r)]

\* Bug: what grows is taken off the total.
NetSaved(recs) == SumFunction([r \in recs |-> r.saving])

TotalSaved(recs) == SumFunction([r \in recs |-> IF r.saving > 0 THEN r.saving ELSE 0])
-----------------------------------------------------------------------------
(* kubetidy pr *)

\* The directory after a file is written, over one of that name.
Written(name, contents) ==
  [n \in DOMAIN dir \cup {name} |-> IF n = name THEN contents ELSE dir[n]]

\* Scan and Build, at the prices that are found now. With nothing to do the command says
\* so and leaves the directory alone; whatever an earlier one reported no longer counts.
Generate(top, grow, prices) ==
  LET set == SelectRecommendations(Scan(main, need, prices), top, grow)
  IN /\ command = None
     /\ command' = IF set = <<>> THEN None
                   ELSE [queue |-> set, top |-> top, grow |-> grow,
                         set |-> Range(set), base |-> main, asked |-> need,
                         prices |-> prices]
     /\ announced' = None
     /\ UNCHANGED <<main, need, dir, branch, events>>

\* Bug: a file that exists is not written again.
WriteNew ==
  /\ command # None /\ command.queue # <<>>
  /\ LET r == Head(command.queue)
     IN dir' = IF NameOf(r) \in DOMAIN dir THEN dir ELSE Written(NameOf(r), PatchOf(r))
  /\ command' = [command EXCEPT !.queue = Tail(@)]
  /\ UNCHANGED <<main, need, announced, branch, events>>

\* os.WriteFile of the next patch.
WriteFile ==
  /\ command # None /\ command.queue # <<>>
  /\ LET r == Head(command.queue)
     IN dir' = Written(NameOf(r), PatchOf(r))
  /\ command' = [command EXCEPT !.queue = Tail(@)]
  /\ UNCHANGED <<main, need, announced, branch, events>>

\* A write fails: the command ends with an error, and leaves a file it had
\* begun with less than it should hold.
WriteFails ==
  /\ command # None /\ events < MaxEvents
  /\ \/ dir' = dir
     \/ /\ command.queue # <<>>
        /\ dir' = Written(NameOf(Head(command.queue)), Truncated)
  /\ command' = None
  /\ events' = events + 1
  /\ UNCHANGED <<main, need, announced, branch>>

\* The body and the summary: "Wrote N patch file(s)".
Announce ==
  /\ command # None /\ command.queue = <<>>
  /\ announced' = [set |-> command.set, saved |-> TotalSaved(command.set),
                   grow |-> command.grow, base |-> command.base,
                   asked |-> command.asked, prices |-> command.prices]
  /\ command' = None
  /\ UNCHANGED <<main, need, dir, branch, events>>
-----------------------------------------------------------------------------
(* kubetidy cost *)

\* workloadFromUnstructured: a DaemonSet is one pod.
Parsed(o, repo) ==
  IF Kind[o] = "DaemonSet" \/ repo[o].replicas = Unset THEN 1 ELSE repo[o].replicas

\* Quantities are strings, or none of them is read: the error of NestedStringMap
\* is dropped.
ParsedRequests(r) == IF r.quoted THEN AmountsOf(r) ELSE [cpu |-> 0, memory |-> 0]

\* CostWorkloads: there is no cluster to ask for prices.
WorkloadCost(o, repo) ==
  SumFunction([c \in DOMAIN repo[o].requests |->
                 MonthlyCost(ParsedRequests(repo[o].requests[c]), Rate)])
    * Billed(Parsed(o, repo))

CostAt(o, repo) == IF o \in DOMAIN repo THEN WorkloadCost(o, repo) ELSE 0

\* Bug: what is new in head is not compared with anything.
NetDeltaOfShared(base, head) ==
  SumFunction([o \in DOMAIN head \cap DOMAIN base |-> CostAt(o, head) - CostAt(o, base)])

\* Compare: what is in head, then what is in base only.
NetDelta(base, head) ==
  SumFunction([o \in DOMAIN head \cup DOMAIN base |-> CostAt(o, head) - CostAt(o, base)])

ExceedsBudget(base, head) == NetDelta(base, head) > Budget
-----------------------------------------------------------------------------
(* Authors and CI *)

\* A strategic merge of requests leaves what the patch does not name; what it
\* names is a string.
Patched(r, patch) ==
  [cpu |-> IF patch.cpu > 0 THEN patch.cpu ELSE r.cpu,
   memory |-> IF patch.memory > 0 THEN patch.memory ELSE r.memory,
   quoted |-> r.quoted \/ (patch.cpu > 0 /\ patch.memory > 0)]

\* Every file in the directory, merged into the container its name and contents
\* stand for.
Merged(repo, files) ==
  [o \in DOMAIN repo |->
     [repo[o] EXCEPT !.requests =
        [c \in DOMAIN repo[o].requests |->
           LET name == FileName[<<o, c>>]
           IN IF /\ name \in DOMAIN files
                 /\ files[name] # Truncated
                 /\ files[name].container = c
                THEN Patched(repo[o].requests[c], files[name].requests)
                ELSE repo[o].requests[c]]]]

\* Files of earlier commands that the announced change set has not written again.
Leftovers == DOMAIN dir \ {NameOf(r) : r \in announced.set}

\* All of the directory is brought into the branch, for the announced change set.
OpenBranch ==
  /\ branch = None
  /\ announced # None
  /\ branch' = [head |-> Merged(main, dir),
                of |-> IF Leftovers = {} THEN announced ELSE None]
  /\ UNCHANGED <<main, need, dir, command, announced, events>>

\* Somebody else adds or changes a workload, or removes one.
Propose ==
  /\ branch = None /\ events < MaxEvents
  /\ \/ \E x \in Changes :
          branch' = [head |-> [p \in DOMAIN main \cup {x[1]} |->
                                 IF p = x[1] THEN x[2] ELSE main[p]],
                     of |-> None]
     \/ \E o \in DOMAIN main :
          branch' = [head |-> [p \in DOMAIN main \ {o} |-> main[p]], of |-> None]
  /\ events' = events + 1
  /\ UNCHANGED <<main, need, dir, command, announced>>

\* CI runs kubetidy cost on main and branch; what it lets through is merged.
Guard ==
  /\ branch # None
  /\ main' = IF ExceedsBudget(main, branch.head) THEN main ELSE branch.head
  /\ branch' = None
  /\ UNCHANGED <<need, dir, command, announced, events>>

UsageChanges ==
  /\ events < MaxEvents
  /\ need' \in Needs \ {need}
  /\ events' = events + 1
  /\ UNCHANGED <<main, dir, command, announced, branch>>
-----------------------------------------------------------------------------
Init ==
  /\ main \in Mains
  /\ need \in Needs
  /\ dir = [n \in {} |-> Truncated]
  /\ command = None
  /\ announced = None
  /\ branch = None
  /\ events = 0

Next ==
  \/ \E top \in Tops, grow \in BOOLEAN, prices \in Prices : Generate(top, grow, prices)
  \/ WriteFile \/ WriteFails \/ Announce
  \/ OpenBranch \/ Propose \/ Guard
  \/ UsageChanges

Spec == Init /\ [][Next]_vars
-----------------------------------------------------------------------------
(* Properties *)

IsRecommendation(r) ==
  /\ r.of \in Objects /\ r.container \in Containers
  /\ r.current \in Amounts /\ r.proposed \in Amounts
  /\ r.saving \in Int

\* Types; a headline never speaks of negative savings.
TypeOK ==
  /\ IsRepository(main)
  /\ need \in Needs
  /\ \A n \in DOMAIN dir : dir[n] # Truncated =>
       dir[n].container \in Containers /\ dir[n].requests \in Amounts
  /\ command # None =>
       /\ \A r \in command.set : IsRecommendation(r)
       /\ Range(command.queue) \subseteq command.set
       /\ IsRepository(command.base) /\ command.prices \in Prices
  /\ announced # None => announced.saved \in Nat
  /\ branch # None => IsRepository(branch.head)
  /\ events \in 0 .. MaxEvents

NamesDiffer(set) == \A r, s \in set : r # s => NameOf(r) # NameOf(s)

\* pr.go:28, "writes one strategic-merge patch file per rightsizing
\* recommendation": what a successful command reports is in the directory,
\* whatever earlier commands left or began there, as long as names differ.
CompleteWhenAnnounced ==
  announced # None /\ NamesDiffer(announced.set) =>
    \A r \in announced.set :
      NameOf(r) \in DOMAIN dir /\ dir[NameOf(r)] = PatchOf(r)

\* A patch names its container only: whose it is has to be told from the file's name.
Unambiguous(set) ==
  \A r \in set : \A o \in DOMAIN main : \A c \in DOMAIN main[o].requests :
    FileName[<<o, c>>] = NameOf(r) => <<o, c>> = Key(r)

\* The branch is a change set and nothing else, on what was scanned.
Faithful ==
  /\ branch # None
  /\ branch.of # None
  /\ branch.of.base = main
  /\ Unambiguous(branch.of.set)

\* What one replica costs by its manifest, however its quantities are written.
ReplicaCost(o, repo, price) ==
  SumFunction([c \in DOMAIN repo[o].requests |->
                 MonthlyCost(AmountsOf(repo[o].requests[c]), price)])

\* The monthly bill at some prices, counted as discovery does.
FleetCost(repo, prices) ==
  SumFunction([o \in DOMAIN repo |->
                 ReplicaCost(o, repo, prices[o]) * Billed(Discovered(o, repo))])

\* What the growing workloads of the change set's table add to the bill.
Growth(set) == SumFunction([r \in set |-> IF r.saving < 0 THEN -r.saving ELSE 0])

\* Every quantity is written as a string.
StringsOnly(repo) ==
  \A o \in DOMAIN repo : \A c \in DOMAIN repo[o].requests : repo[o].requests[c].quoted

\* Where the two tools agree about the changes: strings, no DaemonSet among them, and
\* cost's price for all of them.
CountedAlike ==
  /\ StringsOnly(main)
  /\ \A r \in branch.of.set : Kind[r.of] # "DaemonSet" /\ branch.of.prices[r.of] = Rate

\* Nothing asks for more, of CPU or of memory.
OnlyReduces(set) ==
  \A r \in set : r.proposed.cpu <= r.current.cpu /\ r.proposed.memory <= r.current.memory

\* gitops.go:127, "Estimated savings": at the prices of its scan, merging the change set
\* lowers the bill by what its headline says, less what its growing workloads cost;
\* kubetidy cost finds as much where the tools agree, and whatever the prices were, no
\* increase in a change set that only reduces: the guardrail lets it pass.
SavingsAreReal ==
  Faithful =>
    LET set == branch.of.set
        saved == branch.of.saved - Growth(set)
    IN /\ FleetCost(main, branch.of.prices) - FleetCost(branch.head, branch.of.prices) = saved
       /\ CountedAlike => NetDelta(main, branch.head) = -saved
       /\ StringsOnly(main) /\ OnlyReduces(set) => NetDelta(main, branch.head) <= 0

\* The monthly cost of what the manifests ask for, as kubetidy cost counts and prices it.
ManifestCost(repo) ==
  SumFunction([o \in DOMAIN repo |-> ReplicaCost(o, repo, Rate) * Billed(Parsed(o, repo))])

\* cost.go:34, "fail CI when the net increase exceeds a budget": nothing is merged
\* that raises what the manifests ask for by more than the budget, whoever wrote it
\* and whatever it adds or removes.
BudgetHolds == [][ManifestCost(main') - ManifestCost(main) <= Budget]_main
=============================================================================
