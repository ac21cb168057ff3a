------------------------------ MODULE ScanEngine ------------------------------
(***************************************************************************)
(* A scan: Engine.Run of internal/scan/scan.go with the providers that      *)
(* internal/cli/scan.go selects for it and the progress line it feeds.      *)
(*                                                                         *)
(* Run starts one goroutine per workload, at most Workers at a time, waits  *)
(* for all of them and flattens what they left in their slots.             *)
(* analyzeWorkload touches nothing that is shared, so it is one step here;  *)
(* what is true of the cluster and of each workload is fixed beforehand     *)
(* (site, world), so that what a scan must find does not depend on when it  *)
(* asks.                                                                   *)
(***************************************************************************)
EXTENDS Evidence, Pricing

CONSTANTS
  N,           \* number of workloads
  Workers,     \* scanWorkers
  Containers,  \* container names
  Clusters,    \* what may be true of the workloads, see IsWorld
  Sites,       \* what may be true of the cluster, see IsScanSite
  Default,     \* DefaultPolicy
  Configured,  \* the price of pricing.Config
  NoiseFloor,  \* noiseFloorDollars
  CPUEps, MemoryEps  \* the epsilons of isNoise

ASSUME NIsNatural == N \in Nat
ASSUME WorkersArePositive == Workers \in Nat \ {0}
ASSUME DefaultIsPolicy == Default \in Policy
ASSUME ConfiguredIsPositive == Configured \in [cpu : Nat \ {0}, memory : Nat \ {0}]

Workload == 1 .. N

\* The evidence tiers of model.go that usage comes with, in their order.
Tiers == {"snapshot", "operator", "historical"}
Rank(tier) == CASE tier = "snapshot" -> 1 [] tier = "operator" -> 2
                [] tier = "historical" -> 3

\* What discovery found of a workload, and what the sources answer about it:
\* Prometheus, its UsageProfile and metrics-server.
IsWorld(x) ==
  /\ DOMAIN x.current \subseteq Containers /\ IsFiniteSet(DOMAIN x.current)
  /\ \A c \in DOMAIN x.current : x.current[c] \in ResourceSpec
  /\ x.replicas \in Nat
  /\ \A readings \in {x.series, x.snapshot} \ {Failed} :
       /\ IsFiniteSet(readings)
       /\ \A r \in readings : IsReading(r) /\ r.container \in Containers
  /\ x.profile # Failed =>
       /\ DOMAIN x.profile \subseteq Containers
       /\ \A c \in DOMAIN x.profile :
            x.profile[c] \in Usage /\ x.profile[c].tier = "operator"

\* Is there an OpenCost that answers, and what has it allocated.
IsScanSite(s) ==
  /\ IsSite(s)
  /\ s.opencost \in {"absent", "mute", "answers"}
  /\ IsFiniteSet(s.allocations) /\ \A a \in s.allocations : IsAllocation(a)

ASSUME ClustersAreWorlds ==
  \A x \in Clusters : DOMAIN x = Workload /\ \A w \in Workload : IsWorld(x[w])
ASSUME SitesAreSites == \A s \in Sites : IsScanSite(s)

VARIABLES
  site,      \* what is true of the cluster
  world,     \* world[w]: what is true of workload w
  pc,        \* the goroutine of Run: "loop", "returned"
  next,      \* the loop variable of Run
  phase,     \* phase[w]: what the goroutine of w is doing
  sem,       \* tokens in the channel sem
  wg,        \* the WaitGroup's counter
  slot,      \* perWorkload
  done,      \* the atomic counter of completed workloads
  number,    \* number[w]: what w's goroutine got from the counter
  shown,     \* the number on the progress line
  result     \* the ScanResult

vars == <<site, world, pc, next, phase, sem, wg, slot, done, number, shown,
          result>>
-----------------------------------------------------------------------------
(* One workload *)

Provider == SelectUsageProvider(site)

Answers(w) == ProviderAnswers(Provider, world[w])

UsesOpenCost == site.opencost = "answers" /\ HasCostData(site.allocations)

\* ResourcePrice of the selected provider; neither of the two ever fails.
PriceOf(w) == IF UsesOpenCost THEN OpenCostPrice(site.allocations, w) ELSE Configured

\* The notes that the two selections leave, which the report shows first.
Notes == SelectionNotes(site) \cup
         IF site.opencost = "absent" THEN {}
         ELSE {IF UsesOpenCost THEN "opencost" ELSE "no opencost"}

Far(a, b, epsilon) == a - b >= epsilon \/ b - a >= epsilon

IsNoise(current, proposed, saving) ==
  /\ -NoiseFloor < saving /\ saving < NoiseFloor
  /\ ~Far(current.requests.cpu, proposed.requests.cpu, CPUEps)
  /\ ~Far(current.requests.memory, proposed.requests.memory, MemoryEps)

\* What is proposed for container c of workload w from its usage.
Recommendation(w, c, usage) ==
  LET current == world[w].current[c]
      proposed == Recommend(current, usage, Default)
  IN [of |-> w, container |-> c, tier |-> usage.tier, current |-> current,
      proposed |-> proposed,
      saving |-> MonthlySavings(current.requests, proposed.requests, PriceOf(w),
                                world[w].replicas)]

Kept(r) == ~IsNoise(r.current, r.proposed, r.saving)

Waste(recs) == SumFunction([r \in recs |-> IF r.saving > 0 THEN r.saving ELSE 0])

\* analyzeWorkload, given the answer of the usage provider.
AnalyzeWorkload(w, answer) ==
  IF answer = Failed
    THEN [recs |-> {}, warnings |-> {<<"failed", w>>}, waste |-> 0]
    ELSE LET recs == {r \in {Recommendation(w, c, answer[c]) :
                               c \in DOMAIN world[w].current \cap DOMAIN answer} : Kept(r)}
         IN [recs |-> recs, warnings |-> {}, waste |-> Waste(recs)]

\* dominantTier goes over the tiers in the random order of a Go map: the answers
\* it may give when it begins with the first recommendation's tier.
Count(recs, tier) == Cardinality({r \in recs : r.tier = tier})

\* Bug: on a tie the later tier wins.
BetterOrEqual(recs, tier, best) == Count(recs, tier) >= Count(recs, best)

Better(recs, tier, best) ==
  \/ Count(recs, tier) > Count(recs, best)
  \/ Count(recs, tier) = Count(recs, best) /\ Rank(tier) > Rank(best)

DominantTiers(recs) ==
  LET tiers == {r.tier : r \in recs}
      Step(best, tier) == IF Better(recs, tier, best) THEN tier ELSE best
      orders == {p \in tiers \X tiers \X tiers : {p[1], p[2], p[3]} = tiers}
  IN {Step(Step(Step(first, p[1]), p[2]), p[3]) : first \in tiers, p \in orders}

DeclaredTier == CASE Provider = "metrics-server" -> "snapshot"
                  [] Provider = "operator" -> "operator"
                  [] Provider = "prometheus" -> "historical"
-----------------------------------------------------------------------------
(* Engine.Run *)

NoResult == [recs |-> {}, warnings |-> {}, waste |-> 0]

Init ==
  /\ site \in Sites
  /\ world \in Clusters
  /\ pc = "loop"
  /\ next = 1
  /\ phase = [w \in Workload |-> "none"]
  /\ sem = 0
  /\ wg = 0
  /\ slot = [w \in Workload |-> NoResult]
  /\ done = 0
  /\ number = [w \in Workload |-> 0]
  /\ shown = 0
  /\ result = [recs |-> {}, warnings |-> {}, notes |-> {}, waste |-> 0,
               tier |-> DeclaredTier, caveat |-> FALSE]

Enter(w, p) == phase' = [phase EXCEPT ![w] = p]

\* Bug: the token is taken inside the goroutine, not before it is started.
SpawnUnbounded ==
  /\ pc = "loop"
  /\ next <= N
  /\ wg' = wg + 1
  /\ sem' = IF sem < Workers THEN sem + 1 ELSE sem
  /\ Enter(next, "analyze")
  /\ next' = next + 1
  /\ UNCHANGED <<site, world, pc, slot, done, number, shown, result>>

\* wg.Add, sem <- struct{}{} (blocks while the channel is full), go.
Spawn ==
  /\ pc = "loop"
  /\ next <= N
  /\ sem < Workers
  /\ wg' = wg + 1
  /\ sem' = sem + 1
  /\ Enter(next, "analyze")
  /\ next' = next + 1
  /\ UNCHANGED <<site, world, pc, slot, done, number, shown, result>>

\* Bug: the goroutine captures the loop variable.
AnalyzeLoopVariable(w) ==
  /\ phase[w] = "analyze"
  /\ \E u \in Answers(next - 1) : slot' = [slot EXCEPT ![next - 1] = AnalyzeWorkload(next - 1, u)]
  /\ Enter(w, "count")
  /\ UNCHANGED <<site, world, pc, next, sem, wg, done, number, shown, result>>

Analyze(w) ==
  /\ phase[w] = "analyze"
  /\ \E u \in Answers(w) : slot' = [slot EXCEPT ![w] = AnalyzeWorkload(w, u)]
  /\ Enter(w, "count")
  /\ UNCHANGED <<site, world, pc, next, sem, wg, done, number, shown, result>>

\* Bug: the number from before the increment is reported.
CountBefore(w) ==
  /\ phase[w] = "count"
  /\ done' = done + 1
  /\ number' = [number EXCEPT ![w] = done]
  /\ Enter(w, "report")
  /\ UNCHANGED <<site, world, pc, next, sem, wg, slot, shown, result>>

\* atomic.AddInt64, before Progress is called with its result.
CountDone(w) ==
  /\ phase[w] = "count"
  /\ done' = done + 1
  /\ number' = [number EXCEPT ![w] = done + 1]
  /\ Enter(w, "report")
  /\ UNCHANGED <<site, world, pc, next, sem, wg, slot, shown, result>>

\* Progress: spinner.update, under the spinner's mutex.
Report(w) ==
  /\ phase[w] = "report"
  /\ shown' = number[w]
  /\ Enter(w, "release")
  /\ UNCHANGED <<site, world, pc, next, sem, wg, slot, done, number, result>>

\* Bug: a workload without usage keeps its token.
ReleaseUnlessFailed(w) ==
  /\ phase[w] = "release"
  /\ sem' = IF slot[w].warnings # {} THEN sem ELSE sem - 1
  /\ Enter(w, "leave")
  /\ UNCHANGED <<site, world, pc, next, wg, slot, done, number, shown, result>>

\* Bug: the token is given back by hand and by the deferred call.
ReleaseTwice(w) ==
  /\ phase[w] = "release"
  /\ sem' = sem - 2
  /\ Enter(w, "leave")
  /\ UNCHANGED <<site, world, pc, next, wg, slot, done, number, shown, result>>

\* The deferred calls, last first: <-sem, then wg.Done.
Release(w) ==
  /\ phase[w] = "release"
  /\ sem' = sem - 1
  /\ Enter(w, "leave")
  /\ UNCHANGED <<site, world, pc, next, wg, slot, done, number, shown, result>>

Leave(w) ==
  /\ phase[w] = "leave"
  /\ wg' = wg - 1
  /\ Enter(w, "gone")
  /\ UNCHANGED <<site, world, pc, next, sem, slot, done, number, shown, result>>

Flatten(tier) ==
  [recs |-> UNION {slot[w].recs : w \in Workload},
   warnings |-> UNION {slot[w].warnings : w \in Workload}, notes |-> Notes,
   waste |-> SumFunction([w \in Workload |-> slot[w].waste]),
   tier |-> tier, caveat |-> tier = "snapshot"]

Finish ==
  LET recs == UNION {slot[w].recs : w \in Workload}
  IN \E tier \in IF recs = {} THEN {DeclaredTier} ELSE DominantTiers(recs) :
       /\ result' = Flatten(tier)
       /\ pc' = "returned"
       /\ UNCHANGED <<site, world, next, phase, sem, wg, slot, done, number, shown>>

\* wg.Wait, then everything up to the return happens in this goroutine alone.
Return == pc = "loop" /\ next > N /\ wg = 0 /\ Finish

Goroutine(w) ==
  Analyze(w) \/ CountDone(w) \/ Report(w) \/ Release(w) \/ Leave(w)

Terminated == pc = "returned" /\ UNCHANGED vars

Next == Spawn \/ Return \/ (\E w \in Workload : Goroutine(w)) \/ Terminated

Spec == Init /\ [][Next]_vars

\* The Go scheduler runs every goroutine that can go on, and every call about a
\* workload returns, with an error if need be.
FairSpec ==
  /\ Spec
  /\ WF_vars(Spawn) /\ WF_vars(Return)
  /\ \A w \in Workload : WF_vars(Goroutine(w))
-----------------------------------------------------------------------------
(* Properties *)

Phases == {"none", "analyze", "count", "report", "release", "leave", "gone"}

\* The types of the variables; the channel is never overfull, nor the WaitGroup's
\* counter negative (which would panic).
TypeOK ==
  /\ site \in Sites
  /\ world \in Clusters
  /\ pc \in {"loop", "returned"}
  /\ next \in 1 .. N + 1
  /\ phase \in [Workload -> Phases]
  /\ sem \in 0 .. Workers
  /\ wg \in 0 .. N
  /\ \A w \in Workload :
       /\ DOMAIN slot[w] = {"recs", "warnings", "waste"}
       /\ \A r \in slot[w].recs : r.of = w /\ r.tier \in Tiers
  /\ done \in 0 .. N
  /\ number \in [Workload -> 0 .. N]
  /\ shown \in 0 .. N

Running == {w \in Workload : phase[w] \in {"analyze", "count", "report", "release"}}

\* scan.go:108, "scanWorkers bounds how many workloads are analyzed concurrently":
\* taking the token before the goroutine starts and giving it back after the
\* last call keeps the API server from seeing more.
WorkerLimit == Cardinality(Running) <= Workers

\* scan.go:44, "the scan continues, rather than failing the whole run": in
\* whatever order goroutines run and whichever calls fail, the result is that of
\* a sequential loop: of each workload it holds what one analysis of it gives,
\* nothing lost, doubled or mixed up.
ResultIsSequential ==
  pc = "returned" =>
    \A w \in Workload : \E u \in Answers(w) :
      /\ {r \in result.recs : r.of = w} = AnalyzeWorkload(w, u).recs
      /\ {x \in result.warnings : x[2] = w} = AnalyzeWorkload(w, u).warnings

\* scan.go:31, "called once per workload as it is analyzed, with the number
\* completed so far": by the time Run returns each of 1 .. N was reported, and no
\* number ran ahead of the workloads completed.
ProgressIsComplete ==
  /\ pc = "returned" => {number[w] : w \in Workload} = Workload
  /\ shown <= Cardinality({w \in Workload :
                             phase[w] \in {"report", "release", "leave", "gone"}})

\* scan.go:86, "Report the tier that ACTUALLY backed the findings": the headline
\* does not depend on the order of a Go map, no other tier backs more findings,
\* the caveat is there exactly when it is a snapshot, and the waste is that of the
\* findings, each counted once and growth not set off against it.
HonestHeadline ==
  pc = "returned" =>
    /\ result.waste = Waste(result.recs)
    /\ result.caveat = (result.tier = "snapshot")
    /\ IF result.recs = {} THEN result.tier = DeclaredTier
       ELSE /\ Count(result.recs, result.tier) > 0
            /\ \A t \in Tiers \ {result.tier} :
                 \/ Count(result.recs, t) < Count(result.recs, result.tier)
                 \/ /\ Count(result.recs, t) = Count(result.recs, result.tier)
                    /\ Rank(t) < Rank(result.tier)

\* fallback.go:12, "installing the operator never reduces coverage during its
\* warm-up": a workload whose history is not there yet, or cannot be read, is
\* sized as it would be without the operator.
CoverageKept ==
  pc = "returned" /\ Provider = "operator" =>
    \A w \in Workload : world[w].profile \in {Failed, NoData} =>
      {r \in result.recs : r.of = w} =
        AnalyzeWorkload(w, FromMetricsServer(world[w].snapshot)).recs

\* prometheus.go:90, "we use max-over-window for memory rather than a percentile
\* to stay safe against OOMs": with one pod, the memory proposed from Prometheus
\* is no less than the peak of that very container.
PeakOfOnePodCovered ==
  pc = "returned" =>
    \A r \in result.recs : r.tier = "historical" =>
      \A s \in OfContainer(world[r.of].series, r.container) :
        OfContainer(world[r.of].series, r.container) = {s}
          => r.proposed.requests.memory >= s.memory

\* The same for every pod of the workload.
EveryPodCovered ==
  pc = "returned" =>
    \A r \in result.recs : r.tier = "historical" =>
      \A s \in OfContainer(world[r.of].series, r.container) :
        s.own => r.proposed.requests.memory >= s.memory

\* opencost.go:147, "It errors when no priceable cost data is present, so the caller
\* can fall back": whichever source prices a workload, asking for less of both
\* resources saves money and asking for more costs some, at any number of replicas.
ShrinkingSaves ==
  pc = "returned" =>
    \A r \in result.recs :
      LET now == r.current.requests  then == r.proposed.requests
      IN /\ then.cpu < now.cpu /\ then.memory < now.memory => r.saving > 0
         /\ then.cpu > now.cpu /\ then.memory > now.memory => r.saving < 0

\* No goroutine is left waiting for a token, and Run returns.
Terminates == <>(pc = "returned" /\ \A w \in Workload : phase[w] = "gone")
=============================================================================
