------------------------------ MODULE ScanProofs ------------------------------
(***************************************************************************)
(* Theorems about ScanEngine, for any number of workloads and workers and    *)
(* whatever is true of the cluster: the pool keeps its limit, every          *)
(* workload is counted once, and the result is that of a sequential loop;    *)
(* memory is proposed above its peak, savings have their sign, and the       *)
(* headline is that of the findings.                                        *)
(***************************************************************************)
EXTENDS ScanEngine, Arithmetic

-----------------------------------------------------------------------------
(* Analysing one workload *)

\* Every provider answers with statistics of its own tier.
LEMMA AnswerTiers ==
  ASSUME NEW x, IsWorld(x),
         NEW provider \in {"prometheus", "operator", "metrics-server"},
         NEW u \in ProviderAnswers(provider, x), u # Failed,
         NEW c \in DOMAIN u
  PROVE  u[c].tier \in Tiers
<1>1. ASSUME NEW readings, u = FromMetricsServer(readings)
      PROVE  u[c].tier = "snapshot"
  BY <1>1 DEF FromMetricsServer
<1>2. ASSUME u = x.profile, x.profile # Failed
      PROVE  u[c].tier = "operator"
  BY <1>2 DEF IsWorld
<1>3. CASE provider = "prometheus"
  <2>1. u \in MergeResults(x.series)
    BY <1>3 DEF ProviderAnswers, FromPrometheus
  <2>2. u[c].tier = "historical"
    BY <2>1 DEF MergeResults, Historical
  <2> QED
    BY <2>2 DEF Tiers
<1>4. CASE provider = "operator"
  <2>1. u = Fallback(FromOperator(x.profile), FromMetricsServer(x.snapshot))
    BY <1>4 DEF ProviderAnswers
  <2>2. \/ u = FromMetricsServer(x.snapshot)
        \/ x.profile # Failed /\ u = x.profile
    BY <2>1 DEF Fallback, FromOperator
  <2> QED
    BY <2>2, <1>1, <1>2 DEF Tiers
<1>5. CASE provider = "metrics-server"
  <2>1. u = FromMetricsServer(x.snapshot)
    BY <1>5 DEF ProviderAnswers
  <2> QED
    BY <2>1, <1>1 DEF Tiers
<1> QED
  BY <1>3, <1>4, <1>5

\* Only Prometheus has a history of the whole window.
LEMMA HistoricalIsPrometheus ==
  ASSUME NEW x, IsWorld(x),
         NEW provider \in {"prometheus", "operator", "metrics-server"},
         NEW u \in ProviderAnswers(provider, x), u # Failed,
         NEW c \in DOMAIN u, u[c].tier = "historical"
  PROVE  u \in MergeResults(x.series) /\ x.series # Failed
<1>1. u # FromMetricsServer(x.snapshot)
  <2> SUFFICES ASSUME u = FromMetricsServer(x.snapshot)
               PROVE  FALSE
    OBVIOUS
  <2>1. u[c].tier = "snapshot"
    BY DEF FromMetricsServer
  <2> QED
    BY <2>1
<1>2. ~ (u = x.profile /\ x.profile # Failed)
  BY DEF IsWorld
<1>3. CASE provider = "prometheus"
  BY <1>3 DEF ProviderAnswers, FromPrometheus
<1>4. CASE provider = "operator"
  <2>1. u = Fallback(FromOperator(x.profile), FromMetricsServer(x.snapshot))
    BY <1>4 DEF ProviderAnswers
  <2> QED
    BY <1>1, <1>2, <2>1 DEF Fallback, FromOperator
<1>5. CASE provider = "metrics-server"
  BY <1>1, <1>5 DEF ProviderAnswers
<1> QED
  BY <1>3, <1>4, <1>5

\* One of the three providers is selected.
LEMMA ProviderType ==
  ASSUME site \in Sites
  PROVE  Provider \in {"prometheus", "operator", "metrics-server"}
<1>1. IsSite(site)
  BY SitesAreSites DEF IsScanSite
<1>2. site.url \in {"none", "bad", "good"}
  BY <1>1 DEF IsSite
<1> QED
  BY <1>2 DEF Provider, SelectUsageProvider

\* What an analysis returns is about its workload.
LEMMA AnalysisType ==
  ASSUME site \in Sites, world \in Clusters,
         NEW w \in Workload, NEW u \in Answers(w)
  PROVE  /\ DOMAIN AnalyzeWorkload(w, u) = {"recs", "warnings", "waste"}
         /\ \A r \in AnalyzeWorkload(w, u).recs : r.of = w /\ r.tier \in Tiers
         /\ \A x \in AnalyzeWorkload(w, u).warnings : x[2] = w
<1>1. IsWorld(world[w])
  BY ClustersAreWorlds
<1>2. CASE u = Failed
  BY <1>2 DEF AnalyzeWorkload
<1>3. CASE u # Failed
  <2>1. \A c \in DOMAIN u : u[c].tier \in Tiers
    BY <1>1, <1>3, ProviderType, AnswerTiers DEF Answers
  <2>2. \A c : Recommendation(w, c, u[c]).of = w /\ Recommendation(w, c, u[c]).tier = u[c].tier
    BY DEF Recommendation
  <2> QED
    BY <1>3, <2>1, <2>2 DEF AnalyzeWorkload
<1> QED
  BY <1>2, <1>3

\* It depends on nothing that a scan changes.
LEMMA AnalysisFixed ==
  ASSUME site' = site, world' = world, NEW w, NEW u
  PROVE  /\ AnalyzeWorkload(w, u)' = AnalyzeWorkload(w, u)
         /\ Answers(w)' = Answers(w)
<1>1. \A c, usage : Recommendation(w, c, usage)' = Recommendation(w, c, usage)
  BY DEF Recommendation, PriceOf, UsesOpenCost
<1>2. Answers(w)' = Answers(w)
  BY DEF Answers, Provider
<1> QED
  BY <1>1, <1>2 DEF AnalyzeWorkload
-----------------------------------------------------------------------------
(* The pool *)

\* The workloads whose goroutine is in one of the phases A.
In(p, A) == {w \in Workload : p[w] \in A}

Holding == {"analyze", "count", "report", "release"}
Active == Holding \cup {"leave"}
Counted == {"report", "release", "leave", "gone"}

\* What becomes of the goroutines in a set of phases when that of w goes on to q.
LEMMA FiniteIn ==
  ASSUME NEW p, NEW A
  PROVE  IsFiniteSet(In(p, A))
<1>1. IsFiniteSet(Workload)
  BY NIsNatural, FS_Interval DEF Workload
<1>2. In(p, A) \in SUBSET Workload
  BY DEF In
<1> QED
  BY <1>1, <1>2, FS_Subset

LEMMA Goes ==
  ASSUME phase \in [Workload -> Phases], NEW w \in Workload, NEW q \in Phases, Enter(w, q)
  PROVE  /\ phase' \in [Workload -> Phases]
         /\ phase'[w] = q
         /\ \A v \in Workload : v # w => phase'[v] = phase[v]
BY DEF Enter

LEMMA Joins ==
  ASSUME phase \in [Workload -> Phases], NEW w \in Workload, NEW q \in Phases, Enter(w, q),
         NEW A, q \in A, phase[w] \notin A
  PROVE  /\ In(phase', A) = In(phase, A) \cup {w}
         /\ Cardinality(In(phase', A)) = Cardinality(In(phase, A)) + 1
<1>1. In(phase', A) = In(phase, A) \cup {w} /\ w \notin In(phase, A)
  BY Goes DEF In
<1>2. Cardinality(In(phase, A) \cup {w}) = Cardinality(In(phase, A)) + 1
  BY <1>1, FiniteIn, FS_AddElement
<1> QED
  BY <1>1, <1>2

LEMMA Parts ==
  ASSUME phase \in [Workload -> Phases], NEW w \in Workload, NEW q \in Phases, Enter(w, q),
         NEW A, q \notin A, phase[w] \in A
  PROVE  /\ In(phase', A) = In(phase, A) \ {w}
         /\ Cardinality(In(phase', A)) = Cardinality(In(phase, A)) - 1
<1>1. In(phase', A) = In(phase, A) \ {w} /\ w \in In(phase, A)
  BY Goes DEF In
<1>2. Cardinality(In(phase, A) \ {w}) = Cardinality(In(phase, A)) - 1
  BY <1>1, FiniteIn, FS_RemoveElement
<1> QED
  BY <1>1, <1>2

LEMMA Stays ==
  ASSUME phase \in [Workload -> Phases], NEW w \in Workload, NEW q \in Phases, Enter(w, q),
         NEW A, q \in A <=> phase[w] \in A
  PROVE  In(phase', A) = In(phase, A)
BY Goes DEF In

\* No set of phases holds more than all the workloads.
LEMMA CardinalityBound ==
  ASSUME NEW p, NEW A
  PROVE  /\ IsFiniteSet(In(p, A))
         /\ Cardinality(In(p, A)) \in 0 .. N
         /\ Cardinality(In(p, A)) = N => In(p, A) = Workload
         /\ Cardinality(In(p, A)) = 0 => In(p, A) = {}
<1>1. IsFiniteSet(Workload) /\ Cardinality(Workload) = N
  BY NIsNatural, FS_Interval DEF Workload
<1>2. In(p, A) \in SUBSET Workload
  BY DEF In
<1>3. /\ IsFiniteSet(In(p, A))
      /\ Cardinality(In(p, A)) <= N
      /\ Cardinality(In(p, A)) = N => In(p, A) = Workload
  BY <1>1, <1>2, FS_Subset
<1> QED
  BY <1>3, FS_CardinalityType, FS_EmptySet, NIsNatural

\* The channel holds a token, and the WaitGroup counts one, for each goroutine that
\* has not given it back; goroutines are started in order; those that have counted
\* got the numbers up to the counter.
PoolInv ==
  /\ next \in 1 .. N + 1
  /\ phase \in [Workload -> Phases]
  /\ \A w \in Workload : phase[w] = "none" <=> w >= next
  /\ sem = Cardinality(In(phase, Holding))
  /\ sem <= Workers
  /\ wg = Cardinality(In(phase, Active))
  /\ done = Cardinality(In(phase, Counted))
  /\ number \in [Workload -> 0 .. N]
  /\ {number[w] : w \in In(phase, Counted)} = 1 .. done
  /\ shown \in 0 .. done
  /\ pc = "returned" => next > N /\ wg = 0

LEMMA PoolInit == Init => PoolInv
<1> SUFFICES ASSUME Init PROVE PoolInv
  OBVIOUS
<1>1. /\ In(phase, Holding) = {} /\ In(phase, Active) = {} /\ In(phase, Counted) = {}
  BY DEF Init, In, Holding, Active, Counted
<1>2. Cardinality({}) = 0
  BY FS_EmptySet
<1>3. phase \in [Workload -> Phases] /\ number \in [Workload -> 0 .. N]
  BY NIsNatural DEF Init, Phases
<1>4. \A w \in Workload : phase[w] = "none" /\ w >= 1
  BY NIsNatural DEF Init, Workload
<1>5. {number[w] : w \in {}} = 1 .. 0
  OBVIOUS
<1> QED
  BY <1>1, <1>2, <1>3, <1>4, <1>5, NIsNatural, WorkersArePositive DEF Init, PoolInv

LEMMA PoolSpawn ==
  ASSUME PoolInv, Spawn
  PROVE  PoolInv'
<1>1. next \in Workload /\ next \in Nat
  BY NIsNatural DEF PoolInv, Spawn, Workload
<1>2. phase[next] = "none" /\ Enter(next, "analyze")
  BY <1>1 DEF PoolInv, Spawn
<1>3. "analyze" \in Phases /\ "none" \notin Holding \cup Active \cup Counted
  BY DEF Phases, Holding, Active, Counted
<1>4. "analyze" \in Holding /\ "analyze" \in Active /\ "analyze" \notin Counted
  BY DEF Holding, Active, Counted
<1>5. /\ phase' \in [Workload -> Phases]
      /\ Cardinality(In(phase', Holding)) = Cardinality(In(phase, Holding)) + 1
      /\ Cardinality(In(phase', Active)) = Cardinality(In(phase, Active)) + 1
      /\ In(phase', Counted) = In(phase, Counted)
  <2>1. phase \in [Workload -> Phases]
    BY DEF PoolInv
  <2>2. phase[next] \notin Holding /\ phase[next] \notin Active /\ phase[next] \notin Counted
    BY <1>2, <1>3
  <2>3. phase' \in [Workload -> Phases]
    BY <1>1, <1>2, <1>3, <2>1, Goes
  <2>4. Cardinality(In(phase', Holding)) = Cardinality(In(phase, Holding)) + 1
    BY <1>1, <1>2, <1>3, <1>4, <2>1, <2>2, Joins
  <2>5. Cardinality(In(phase', Active)) = Cardinality(In(phase, Active)) + 1
    BY <1>1, <1>2, <1>3, <1>4, <2>1, <2>2, Joins
  <2>6. In(phase', Counted) = In(phase, Counted)
    BY <1>1, <1>2, <1>3, <1>4, <2>1, <2>2, Stays
  <2> QED
    BY <2>3, <2>4, <2>5, <2>6
<1>6. \A w \in Workload : phase'[w] = "none" <=> w >= next'
  <2>1. next' = next + 1
    BY DEF Spawn
  <2>2. \A w \in Workload : w \in Int /\ phase'[w] = IF w = next THEN "analyze" ELSE phase[w]
    BY <1>1, <1>2, <1>3, Goes DEF PoolInv, Workload
  <2> QED
    BY <1>1, <2>1, <2>2 DEF PoolInv
<1>7. sem' <= Workers
  BY CardinalityBound, WorkersArePositive, NIsNatural DEF PoolInv, Spawn
<1>8. pc' = "loop" /\ next' \in 1 .. N + 1
  BY <1>1, NIsNatural DEF Spawn, Workload
<1> QED
  BY <1>5, <1>6, <1>7, <1>8 DEF PoolInv, Spawn
\* A goroutine that has not given its WaitGroup count back keeps Run waiting.
LEMMA RunWaits ==
  ASSUME PoolInv, NEW w \in Workload, phase[w] \in Active
  PROVE  pc # "returned"
<1>1. w \in In(phase, Active)
  BY DEF In
<1>2. Cardinality(In(phase, Active)) # 0
  BY <1>1, CardinalityBound
<1> QED
  BY <1>2 DEF PoolInv

\* What a step of a goroutine that has been started leaves alone.
LEMMA Started ==
  ASSUME PoolInv, NEW w \in Workload, NEW q \in Phases, Enter(w, q), UNCHANGED <<next, pc>>,
         phase[w] \in Active, q # "none"
  PROVE  /\ next' \in 1 .. N + 1
         /\ phase' \in [Workload -> Phases]
         /\ \A v \in Workload : phase'[v] = "none" <=> v >= next'
         /\ pc' # "returned"
         /\ sem \in Nat /\ wg \in Nat /\ done \in 0 .. N
<1>1. phase[w] # "none"
  BY DEF Active, Holding
<1>2. /\ phase' \in [Workload -> Phases]
      /\ \A v \in Workload : phase'[v] = IF v = w THEN q ELSE phase[v]
  BY Goes DEF PoolInv
<1>3. pc # "returned"
  BY RunWaits
<1>4. sem \in Nat /\ wg \in Nat /\ done \in 0 .. N
  BY CardinalityBound, NIsNatural DEF PoolInv
<1> QED
  BY <1>1, <1>2, <1>3, <1>4 DEF PoolInv

LEMMA PoolAnalyze ==
  ASSUME PoolInv, NEW w \in Workload, Analyze(w)
  PROVE  PoolInv'
<1>1. phase[w] = "analyze" /\ Enter(w, "count") /\ phase \in [Workload -> Phases]
  BY DEF Analyze, PoolInv
<1>2. /\ "count" \in Phases
      /\ "count" \in Holding /\ "count" \in Active /\ "count" \notin Counted
      /\ "analyze" \in Holding /\ "analyze" \in Active /\ "analyze" \notin Counted
  BY DEF Phases, Holding, Active, Counted
<1>3. UNCHANGED <<next, pc, sem, wg, done, number, shown>>
  BY DEF Analyze
<1>4. /\ In(phase', Holding) = In(phase, Holding)
      /\ In(phase', Active) = In(phase, Active)
      /\ In(phase', Counted) = In(phase, Counted)
  BY <1>1, <1>2, Stays
<1>5. /\ phase' \in [Workload -> Phases]
      /\ \A v \in Workload : phase'[v] = "none" <=> v >= next'
      /\ pc' # "returned"
  BY <1>1, <1>2, <1>3, Started
<1> QED
  BY <1>3, <1>4, <1>5 DEF PoolInv

LEMMA PoolCountDone ==
  ASSUME PoolInv, NEW w \in Workload, CountDone(w)
  PROVE  PoolInv'
<1>1. phase[w] = "count" /\ Enter(w, "report") /\ phase \in [Workload -> Phases]
  BY DEF CountDone, PoolInv
<1>2. /\ "report" \in Phases
      /\ "report" \in Holding /\ "report" \in Active /\ "report" \in Counted
      /\ "count" \in Holding /\ "count" \in Active /\ "count" \notin Counted
  BY DEF Phases, Holding, Active, Counted
<1>3. /\ UNCHANGED <<next, pc, sem, wg, shown>>
      /\ done' = done + 1 /\ number' = [number EXCEPT ![w] = done + 1]
  BY DEF CountDone
<1>4. /\ In(phase', Holding) = In(phase, Holding)
      /\ In(phase', Active) = In(phase, Active)
  BY <1>1, <1>2, Stays
<1>5. /\ In(phase', Counted) = In(phase, Counted) \cup {w}
      /\ Cardinality(In(phase', Counted)) = Cardinality(In(phase, Counted)) + 1
  BY <1>1, <1>2, Joins
<1>6. /\ phase' \in [Workload -> Phases]
      /\ \A v \in Workload : phase'[v] = "none" <=> v >= next'
      /\ pc' # "returned" /\ done \in 0 .. N
  BY <1>1, <1>2, <1>3, Started
<1>7. done' = Cardinality(In(phase', Counted)) /\ done' \in 0 .. N
  BY <1>3, <1>5, CardinalityBound DEF PoolInv
<1>8. number' \in [Workload -> 0 .. N]
  BY <1>3, <1>7 DEF PoolInv
<1>9. {number'[v] : v \in In(phase', Counted)} = 1 .. done'
  <2>1. w \notin In(phase, Counted) /\ In(phase, Counted) \subseteq Workload
    BY <1>1, <1>2 DEF In
  <2>2. number'[w] = done + 1 /\ \A v \in In(phase, Counted) : number'[v] = number[v]
    BY <1>3, <2>1 DEF PoolInv
  <2>3. {number'[v] : v \in In(phase', Counted)} =
          {number[v] : v \in In(phase, Counted)} \cup {done + 1}
    BY <1>5, <2>2
  <2>4. {number[v] : v \in In(phase, Counted)} = 1 .. done
    BY DEF PoolInv
  <2>5. (1 .. done) \cup {done + 1} = 1 .. done + 1
    BY <1>6
  <2> QED
    BY <1>3, <2>3, <2>4, <2>5
<1>10. shown' \in 0 .. done'
  BY <1>3, <1>6 DEF PoolInv
<1> QED
  BY <1>3, <1>4, <1>6, <1>7, <1>8, <1>9, <1>10 DEF PoolInv

LEMMA PoolReport ==
  ASSUME PoolInv, NEW w \in Workload, Report(w)
  PROVE  PoolInv'
<1>1. phase[w] = "report" /\ Enter(w, "release") /\ phase \in [Workload -> Phases]
  BY DEF Report, PoolInv
<1>2. /\ "release" \in Phases
      /\ "release" \in Holding /\ "release" \in Active /\ "release" \in Counted
      /\ "report" \in Holding /\ "report" \in Active /\ "report" \in Counted
  BY DEF Phases, Holding, Active, Counted
<1>3. UNCHANGED <<next, pc, sem, wg, done, number>> /\ shown' = number[w]
  BY DEF Report
<1>4. /\ In(phase', Holding) = In(phase, Holding)
      /\ In(phase', Active) = In(phase, Active)
      /\ In(phase', Counted) = In(phase, Counted)
  BY <1>1, <1>2, Stays
<1>5. /\ phase' \in [Workload -> Phases]
      /\ \A v \in Workload : phase'[v] = "none" <=> v >= next'
      /\ pc' # "returned" /\ done \in 0 .. N
  BY <1>1, <1>2, <1>3, Started
<1>6. number[w] \in 1 .. done
  <2>1. w \in In(phase, Counted)
    BY <1>1, <1>2 DEF In
  <2> QED
    BY <2>1 DEF PoolInv
<1>7. shown' \in 0 .. done'
  BY <1>3, <1>5, <1>6
<1> QED
  BY <1>3, <1>4, <1>5, <1>7 DEF PoolInv

LEMMA PoolRelease ==
  ASSUME PoolInv, NEW w \in Workload, Release(w)
  PROVE  PoolInv'
<1>1. phase[w] = "release" /\ Enter(w, "leave") /\ phase \in [Workload -> Phases]
  BY DEF Release, PoolInv
<1>2. /\ "leave" \in Phases
      /\ "leave" \notin Holding /\ "leave" \in Active /\ "leave" \in Counted
      /\ "release" \in Holding /\ "release" \in Active /\ "release" \in Counted
  BY DEF Phases, Holding, Active, Counted
<1>3. UNCHANGED <<next, pc, wg, done, number, shown>> /\ sem' = sem - 1
  BY DEF Release
<1>4. /\ In(phase', Active) = In(phase, Active)
      /\ In(phase', Counted) = In(phase, Counted)
  BY <1>1, <1>2, Stays
<1>5. Cardinality(In(phase', Holding)) = Cardinality(In(phase, Holding)) - 1
  BY <1>1, <1>2, Parts
<1>6. /\ phase' \in [Workload -> Phases]
      /\ \A v \in Workload : phase'[v] = "none" <=> v >= next'
      /\ pc' # "returned" /\ sem \in Nat
  BY <1>1, <1>2, <1>3, Started
<1>7. sem' <= Workers
  BY <1>3, <1>6, WorkersArePositive DEF PoolInv
<1> QED
  BY <1>3, <1>4, <1>5, <1>6, <1>7 DEF PoolInv

LEMMA PoolLeave ==
  ASSUME PoolInv, NEW w \in Workload, Leave(w)
  PROVE  PoolInv'
<1>1. phase[w] = "leave" /\ Enter(w, "gone") /\ phase \in [Workload -> Phases]
  BY DEF Leave, PoolInv
<1>2. /\ "gone" \in Phases
      /\ "gone" \notin Holding /\ "gone" \notin Active /\ "gone" \in Counted
      /\ "leave" \notin Holding /\ "leave" \in Active /\ "leave" \in Counted
  BY DEF Phases, Holding, Active, Counted
<1>3. UNCHANGED <<next, pc, sem, done, number, shown>> /\ wg' = wg - 1
  BY DEF Leave
<1>4. /\ In(phase', Holding) = In(phase, Holding)
      /\ In(phase', Counted) = In(phase, Counted)
  BY <1>1, <1>2, Stays
<1>5. Cardinality(In(phase', Active)) = Cardinality(In(phase, Active)) - 1
  BY <1>1, <1>2, Parts
<1>6. /\ phase' \in [Workload -> Phases]
      /\ \A v \in Workload : phase'[v] = "none" <=> v >= next'
      /\ pc' # "returned"
  BY <1>1, <1>2, <1>3, Started, Zenon DEF Phases
<1> QED
  BY <1>3, <1>4, <1>5, <1>6 DEF PoolInv

LEMMA PoolStep == PoolInv /\ [Next]_vars => PoolInv'
<1> SUFFICES ASSUME PoolInv, [Next]_vars PROVE PoolInv'
  OBVIOUS
<1>1. CASE Spawn
  BY <1>1, PoolSpawn
<1>2. CASE Return
  <2>1. UNCHANGED <<next, phase, sem, wg, done, number, shown>> /\ next > N /\ wg = 0
    BY <1>2 DEF Return, Finish
  <2> QED
    BY <2>1 DEF PoolInv
<1>3. ASSUME NEW w \in Workload, Goroutine(w) PROVE PoolInv'
  BY <1>3, PoolAnalyze, PoolCountDone, PoolReport, PoolRelease, PoolLeave DEF Goroutine
<1>4. CASE UNCHANGED vars
  BY <1>4 DEF vars, PoolInv
<1> QED
  BY <1>1, <1>2, <1>3, <1>4 DEF Next, Terminated
-----------------------------------------------------------------------------
(* The slots *)

\* A slot is written once, by the goroutine of its workload, with what an analysis
\* of that workload gives; Run returns when every slot has been written.
SlotInv ==
  /\ site \in Sites /\ world \in Clusters
  /\ pc \in {"loop", "returned"}
  /\ DOMAIN slot = Workload
  /\ \A w \in Workload :
       IF phase[w] \in {"none", "analyze"} THEN slot[w] = NoResult
       ELSE \E u \in Answers(w) : slot[w] = AnalyzeWorkload(w, u)
  /\ pc = "returned" =>
       /\ result.recs = UNION {slot[w].recs : w \in Workload}
       /\ result.warnings = UNION {slot[w].warnings : w \in Workload}

LEMMA SlotInit == Init => SlotInv
BY DEF Init, SlotInv

\* When Run waits no longer, every goroutine is gone.
LEMMA AllGone ==
  ASSUME PoolInv, next > N, wg = 0, NEW w \in Workload
  PROVE  phase[w] = "gone"
<1>1. In(phase, Active) = {}
  BY CardinalityBound DEF PoolInv
<1>2. phase[w] \notin Active
  BY <1>1 DEF In
<1>3. phase[w] # "none"
  BY NIsNatural DEF PoolInv, Workload
<1>4. phase[w] \in Phases
  BY DEF PoolInv
<1> QED
  BY <1>2, <1>3, <1>4 DEF Active, Holding, Phases

\* A step that writes no slot keeps what is known of the slots.
LEMMA SlotKept ==
  ASSUME SlotInv, UNCHANGED <<site, world, slot>>, pc' = "loop",
         \A w \in Workload : phase'[w] \in {"none", "analyze"}
                               <=> phase[w] \in {"none", "analyze"}
  PROVE  SlotInv'
<1>1. \A w \in Workload :
        IF phase'[w] \in {"none", "analyze"} THEN slot'[w] = NoResult
        ELSE \E u \in Answers(w)' : slot'[w] = AnalyzeWorkload(w, u)'
  <2> SUFFICES ASSUME NEW w \in Workload
               PROVE  IF phase'[w] \in {"none", "analyze"} THEN slot'[w] = NoResult
                      ELSE \E u \in Answers(w)' : slot'[w] = AnalyzeWorkload(w, u)'
    OBVIOUS
  <2>1. CASE phase[w] \in {"none", "analyze"}
    BY <2>1 DEF SlotInv
  <2>2. CASE phase[w] \notin {"none", "analyze"}
    <3>1. PICK u \in Answers(w) : slot[w] = AnalyzeWorkload(w, u)
      BY <2>2 DEF SlotInv
    <3>2. u \in Answers(w)' /\ slot'[w] = AnalyzeWorkload(w, u)'
      BY <3>1, AnalysisFixed
    <3> QED
      BY <2>2, <3>2
  <2> QED
    BY <2>1, <2>2
<1>2. NoResult' = NoResult
  BY DEF NoResult
<1> QED
  BY <1>1, <1>2 DEF SlotInv

LEMMA SlotStep == PoolInv /\ SlotInv /\ [Next]_vars => SlotInv'
<1> SUFFICES ASSUME PoolInv, SlotInv, [Next]_vars PROVE SlotInv'
  OBVIOUS
<1>0. phase \in [Workload -> Phases] /\ next \in 1 .. N + 1
  BY DEF PoolInv
<1>1. CASE Spawn
  <2>1. next \in Workload /\ phase[next] = "none" /\ Enter(next, "analyze")
    BY <1>1, NIsNatural DEF PoolInv, Spawn, Workload
  <2>2. "analyze" \in Phases
    BY DEF Phases
  <2>3. \A w \in Workload : phase'[w] \in {"none", "analyze"}
                              <=> phase[w] \in {"none", "analyze"}
    BY <1>0, <2>1, <2>2, Goes
  <2> QED
    BY <1>1, <2>3, SlotKept DEF Spawn
<1>2. CASE Return
  <2>1. /\ UNCHANGED <<site, world, phase, slot>> /\ pc' = "returned" /\ next > N /\ wg = 0
        /\ \E tier : result' = Flatten(tier)
    BY <1>2 DEF Return, Finish
  <2>2. /\ result'.recs = UNION {slot'[w].recs : w \in Workload}
        /\ result'.warnings = UNION {slot'[w].warnings : w \in Workload}
    BY <2>1 DEF Flatten
  <2>3. \A w \in Workload : \E u \in Answers(w)' : slot'[w] = AnalyzeWorkload(w, u)'
    <3> SUFFICES ASSUME NEW w \in Workload
                 PROVE  \E u \in Answers(w)' : slot'[w] = AnalyzeWorkload(w, u)'
      OBVIOUS
    <3>1. phase[w] = "gone"
      BY <2>1, AllGone
    <3>2. PICK u \in Answers(w) : slot[w] = AnalyzeWorkload(w, u)
      BY <3>1 DEF SlotInv
    <3>3. u \in Answers(w)' /\ slot'[w] = AnalyzeWorkload(w, u)'
      BY <2>1, <3>2, AnalysisFixed
    <3> QED
      BY <3>3
  <2>4. \A w \in Workload : phase'[w] = "gone"
    BY <2>1, AllGone
  <2> QED
    BY <2>1, <2>2, <2>3, <2>4 DEF SlotInv
<1>3. ASSUME NEW w \in Workload, Analyze(w) PROVE SlotInv'
  <2>1. phase[w] = "analyze" /\ Enter(w, "count") /\ UNCHANGED <<site, world, pc>>
    BY <1>3 DEF Analyze
  <2>2. "count" \in Phases /\ phase[w] \in Active
    BY <2>1 DEF Phases, Active, Holding
  <2>3. phase'[w] = "count" /\ \A v \in Workload : v # w => phase'[v] = phase[v]
    BY <1>0, <2>1, <2>2, Goes
  <2>4. pc = "loop"
    BY <2>2, RunWaits DEF SlotInv
  <2>5. PICK u \in Answers(w) : slot' = [slot EXCEPT ![w] = AnalyzeWorkload(w, u)]
    BY <1>3 DEF Analyze
  <2>6. /\ DOMAIN slot' = Workload /\ slot'[w] = AnalyzeWorkload(w, u)
        /\ \A v \in Workload : v # w => slot'[v] = slot[v]
    BY <2>5 DEF SlotInv
  <2>7. ASSUME NEW v \in Workload
        PROVE  IF phase'[v] \in {"none", "analyze"} THEN slot'[v] = NoResult
               ELSE \E a \in Answers(v)' : slot'[v] = AnalyzeWorkload(v, a)'
    <3>1. CASE v = w
      <4>1. u \in Answers(w)' /\ slot'[w] = AnalyzeWorkload(w, u)'
        BY <2>1, <2>6, AnalysisFixed
      <4> QED
        BY <3>1, <4>1, <2>3
    <3>2. CASE v # w /\ phase[v] \in {"none", "analyze"}
      BY <2>3, <2>6, <3>2 DEF SlotInv
    <3>3. CASE v # w /\ phase[v] \notin {"none", "analyze"}
      <4>1. PICK a \in Answers(v) : slot[v] = AnalyzeWorkload(v, a)
        BY <3>3 DEF SlotInv
      <4>2. a \in Answers(v)' /\ slot'[v] = AnalyzeWorkload(v, a)'
        BY <2>1, <2>6, <3>3, <4>1, AnalysisFixed
      <4> QED
        BY <4>2, <2>3, <3>3
    <3> QED
      BY <3>1, <3>2, <3>3
  <2>8. NoResult' = NoResult
    BY DEF NoResult
  <2> HIDE DEF NoResult
  <2> QED
    BY <2>1, <2>4, <2>6, <2>7, <2>8 DEF SlotInv
<1>4. ASSUME NEW w \in Workload, NEW q \in Phases \ {"none", "analyze"}, Enter(w, q),
             phase[w] \in Active \ {"analyze"}, UNCHANGED <<site, world, slot, pc>>
      PROVE  SlotInv'
  <2>1. phase[w] \in Active /\ phase[w] \notin {"none", "analyze"}
    BY <1>4 DEF Active, Holding
  <2>2. pc = "loop"
    BY <2>1, RunWaits DEF SlotInv
  <2>3. \A v \in Workload : phase'[v] \in {"none", "analyze"}
                              <=> phase[v] \in {"none", "analyze"}
    BY <1>0, <1>4, <2>1, Goes
  <2> QED
    BY <1>4, <2>2, <2>3, SlotKept
<1>5. ASSUME NEW w \in Workload, CountDone(w) PROVE SlotInv'
  BY <1>4, <1>5 DEF CountDone, Active, Holding, Phases
<1>6. ASSUME NEW w \in Workload, Report(w) PROVE SlotInv'
  BY <1>4, <1>6 DEF Report, Active, Holding, Phases
<1>7. ASSUME NEW w \in Workload, Release(w) PROVE SlotInv'
  BY <1>4, <1>7 DEF Release, Active, Holding, Phases
<1>8. ASSUME NEW w \in Workload, Leave(w) PROVE SlotInv'
  BY <1>4, <1>8 DEF Leave, Active, Holding, Phases
<1>9. CASE UNCHANGED vars
  <2>1. UNCHANGED <<site, world, pc, phase, slot, result>>
    BY <1>9 DEF vars
  <2>2. CASE pc = "loop"
    BY <2>1, <2>2, SlotKept
  <2>3. CASE pc # "loop"
    <3>1. \A w \in Workload : phase[w] = "gone"
      BY <2>3, AllGone DEF PoolInv, SlotInv
    <3>2. \A w \in Workload : \E u \in Answers(w)' : slot'[w] = AnalyzeWorkload(w, u)'
      <4> SUFFICES ASSUME NEW w \in Workload
                   PROVE  \E u \in Answers(w)' : slot'[w] = AnalyzeWorkload(w, u)'
        OBVIOUS
      <4>1. PICK u \in Answers(w) : slot[w] = AnalyzeWorkload(w, u)
        BY <3>1 DEF SlotInv
      <4> QED
        BY <2>1, <4>1, AnalysisFixed
    <3> QED
      BY <2>1, <3>1, <3>2 DEF SlotInv
  <2> QED
    BY <2>2, <2>3
<1> QED
  BY <1>1, <1>2, <1>3, <1>5, <1>6, <1>7, <1>8, <1>9 DEF Next, Terminated, Goroutine

LEMMA Invariants == Spec => [](PoolInv /\ SlotInv)
<1>1. Init => PoolInv /\ SlotInv
  BY PoolInit, SlotInit
<1>2. PoolInv /\ SlotInv /\ [Next]_vars => (PoolInv /\ SlotInv)'
  BY PoolStep, SlotStep
<1> QED
  BY <1>1, <1>2, PTL DEF Spec
-----------------------------------------------------------------------------
(* Theorems *)

\* The types of the variables: the channel is never overfull and the WaitGroup's
\* counter is the number of goroutines that have not left.
THEOREM TypeCorrect == Spec => []TypeOK
<1>1. PoolInv /\ SlotInv => TypeOK
  <2> SUFFICES ASSUME PoolInv, SlotInv PROVE TypeOK
    OBVIOUS
  <2>1. \A w \in Workload :
          /\ DOMAIN slot[w] = {"recs", "warnings", "waste"}
          /\ \A r \in slot[w].recs : r.of = w /\ r.tier \in Tiers
    <3> SUFFICES ASSUME NEW w \in Workload
                 PROVE  /\ DOMAIN slot[w] = {"recs", "warnings", "waste"}
                        /\ \A r \in slot[w].recs : r.of = w /\ r.tier \in Tiers
      OBVIOUS
    <3>1. CASE slot[w] = NoResult
      BY <3>1 DEF NoResult
    <3>2. CASE \E u \in Answers(w) : slot[w] = AnalyzeWorkload(w, u)
      BY <3>2, AnalysisType DEF SlotInv
    <3> QED
      BY <3>1, <3>2 DEF SlotInv
  <2>2. sem \in 0 .. Workers /\ wg \in 0 .. N /\ done \in 0 .. N
    BY CardinalityBound, NIsNatural, WorkersArePositive DEF PoolInv
  <2>3. shown \in 0 .. N
    BY <2>2, NIsNatural DEF PoolInv
  <2> QED
    BY <2>1, <2>2, <2>3 DEF PoolInv, SlotInv, TypeOK
<1> QED
  BY <1>1, Invariants, PTL

\* No more workloads are analysed at a time than there are workers, however many
\* workloads there are: a goroutine holds a token from before it starts until
\* after its last call.
THEOREM PoolLimit == Spec => []WorkerLimit
<1>1. PoolInv => WorkerLimit
  <2>1. Running = In(phase, Holding)
    BY DEF Running, In, Holding
  <2> QED
    BY <2>1 DEF PoolInv, WorkerLimit
<1> QED
  BY <1>1, Invariants, PTL

\* Each workload is counted once, and nothing is shown before it is counted.
THEOREM ProgressComplete == Spec => []ProgressIsComplete
<1>1. PoolInv => ProgressIsComplete
  <2> SUFFICES ASSUME PoolInv PROVE ProgressIsComplete
    OBVIOUS
  <2>1. {w \in Workload : phase[w] \in {"report", "release", "leave", "gone"}}
          = In(phase, Counted)
    BY DEF In, Counted
  <2>2. shown <= Cardinality(In(phase, Counted))
    BY CardinalityBound, NIsNatural DEF PoolInv
  <2>3. ASSUME pc = "returned" PROVE {number[w] : w \in Workload} = Workload
    <3>1. \A w \in Workload : phase[w] = "gone"
      BY <2>3, AllGone DEF PoolInv
    <3>2. In(phase, Counted) = Workload
      BY <3>1 DEF In, Counted
    <3>3. done = N
      BY <3>2, NIsNatural, FS_Interval DEF PoolInv, Workload
    <3>4. {number[w] : w \in In(phase, Counted)} = 1 .. done
      BY DEF PoolInv
    <3> QED
      BY <3>2, <3>3, <3>4 DEF Workload
  <2> QED
    BY <2>1, <2>2, <2>3 DEF ProgressIsComplete
<1> QED
  BY <1>1, Invariants, PTL

\* What the result holds of a workload is what its slot holds.
LEMMA OwnSlot ==
  ASSUME PoolInv, SlotInv, pc = "returned", NEW w \in Workload
  PROVE  \E u \in Answers(w) :
           /\ {r \in result.recs : r.of = w} = AnalyzeWorkload(w, u).recs
           /\ {x \in result.warnings : x[2] = w} = AnalyzeWorkload(w, u).warnings
<1>1. \A v \in Workload : \E u \in Answers(v) : slot[v] = AnalyzeWorkload(v, u)
  <2>1. \A v \in Workload : phase[v] = "gone"
    BY AllGone DEF PoolInv
  <2> QED
    BY <2>1 DEF SlotInv
<1>2. \A v \in Workload : /\ \A r \in slot[v].recs : r.of = v
                          /\ \A x \in slot[v].warnings : x[2] = v
  BY <1>1, AnalysisType DEF SlotInv
<1>3. /\ {r \in result.recs : r.of = w} = slot[w].recs
      /\ {x \in result.warnings : x[2] = w} = slot[w].warnings
  BY <1>2 DEF SlotInv
<1> QED
  BY <1>1, <1>3

\* However the goroutines are interleaved, the result is that of a sequential loop.
THEOREM Sequential == Spec => []ResultIsSequential
<1>1. PoolInv /\ SlotInv => ResultIsSequential
  BY OwnSlot DEF ResultIsSequential
<1> QED
  BY <1>1, Invariants, PTL

\* With the operator as the provider, a workload without a history is sized from
\* metrics-server as if there were no operator.
THEOREM CoverageNeverLost == Spec => []CoverageKept
<1>1. PoolInv /\ SlotInv => CoverageKept
  <2> SUFFICES ASSUME PoolInv, SlotInv, pc = "returned", Provider = "operator",
                      NEW w \in Workload, world[w].profile \in {Failed, NoData}
               PROVE  {r \in result.recs : r.of = w} =
                        AnalyzeWorkload(w, FromMetricsServer(world[w].snapshot)).recs
    BY DEF CoverageKept
  <2>1. Answers(w) = {Fallback(FromOperator(world[w].profile),
                               FromMetricsServer(world[w].snapshot))}
    BY DEF Answers, ProviderAnswers
  <2>2. FromOperator(world[w].profile) \in {Failed, NoData}
    BY DEF FromOperator
  <2>3. Answers(w) = {FromMetricsServer(world[w].snapshot)}
    BY <2>1, <2>2 DEF Fallback
  <2> QED
    BY <2>3, OwnSlot
<1> QED
  BY <1>1, Invariants, PTL

-----------------------------------------------------------------------------
(* Sizes *)

\* What is sized from usage, and needs no more of it than this.
Measured(u) == u.p95 \in Nat /\ u.max \in Nat /\ u.window \in Int /\ u.samples \in Nat

LEMMA AverageType ==
  ASSUME NEW S, IsFiniteSet(S), S # {}, NEW f, \A x \in S : f[x] \in Nat, DOMAIN f = S
  PROVE  SumFunction(f) \div Cardinality(S) \in Nat
<1>1. SumFunction(f) \in Nat
  BY SumIsNatural DEF SumFunction
<1>2. Cardinality(S) \in Nat \ {0}
  BY FS_CardinalityType, FS_EmptySet
<1> QED
  BY <1>1, <1>2

\* The statistics of every provider are typed.
LEMMA AnswerMeasured ==
  ASSUME NEW x, IsWorld(x),
         NEW provider \in {"prometheus", "operator", "metrics-server"},
         NEW u \in ProviderAnswers(provider, x), u # Failed,
         NEW c \in DOMAIN u
  PROVE  Measured(u[c])
<1>1. ASSUME u = FromMetricsServer(x.snapshot)
      PROVE  Measured(u[c])
  <2> DEFINE mine == OfContainer(x.snapshot, c)
  <2>1. x.snapshot # Failed
    BY <1>1 DEF FromMetricsServer
  <2>2. c \in ContainersIn(x.snapshot)
    BY <1>1, <2>1 DEF FromMetricsServer
  <2>3. /\ IsFiniteSet(x.snapshot)
        /\ \A r \in x.snapshot : r.cpu \in Nat /\ r.memory \in Nat
    BY <2>1 DEF IsWorld, IsReading
  <2>4. IsFiniteSet(mine) /\ mine # {} /\ mine \subseteq x.snapshot
    BY <2>2, <2>3, FS_Subset DEF ContainersIn, OfContainer
  <2> HIDE DEF mine
  <2>5. /\ SumFunction([r \in mine |-> r.cpu]) \div Cardinality(mine) \in Nat
        /\ SumFunction([r \in mine |-> r.memory]) \div Cardinality(mine) \in Nat
    BY <2>3, <2>4, AverageType
  <2>6. Cardinality(mine) \in Nat
    BY <2>4, FS_CardinalityType
  <2>7. u[c] = [p95 |-> SumFunction([r \in mine |-> r.cpu]) \div Cardinality(mine),
                max |-> SumFunction([r \in mine |-> r.memory]) \div Cardinality(mine),
                window |-> 0, samples |-> Cardinality(mine), cv |-> 0,
                tier |-> "snapshot"]
    BY <1>1, <2>1, <2>2 DEF FromMetricsServer, mine
  <2> QED
    BY <2>5, <2>6, <2>7 DEF Measured
<1>2. ASSUME u = x.profile, x.profile # Failed
      PROVE  Measured(u[c])
  BY <1>2 DEF IsWorld, Usage, Measured
<1>3. CASE provider = "prometheus"
  <2>1. u \in MergeResults(x.series) /\ x.series # Failed
    BY <1>3 DEF ProviderAnswers, FromPrometheus
  <2>2. PICK last \in [ContainersIn(x.series) -> x.series \X x.series] :
          u = [d \in ContainersIn(x.series) |->
                 Historical(last[d][1].cpu, last[d][2].memory)]
    BY <2>1 DEF MergeResults
  <2>3. last[c] \in x.series \X x.series /\ u[c] = Historical(last[c][1].cpu, last[c][2].memory)
    BY <2>2
  <2>4. last[c][1].cpu \in Nat /\ last[c][2].memory \in Nat
    BY <2>1, <2>3 DEF IsWorld, IsReading
  <2>5. Lookback \in Nat /\ 12 * Lookback \in Nat
    BY LookbackIsPositive
  <2> QED
    BY <2>3, <2>4, <2>5 DEF Historical, Measured
<1>4. CASE provider = "operator"
  <2>1. u = Fallback(FromOperator(x.profile), FromMetricsServer(x.snapshot))
    BY <1>4 DEF ProviderAnswers
  <2>2. \/ u = FromMetricsServer(x.snapshot)
        \/ x.profile # Failed /\ u = x.profile
    BY <2>1 DEF Fallback, FromOperator
  <2> QED
    BY <2>2, <1>1, <1>2
<1>5. CASE provider = "metrics-server"
  <2>1. u = FromMetricsServer(x.snapshot)
    BY <1>5 DEF ProviderAnswers
  <2> QED
    BY <2>1, <1>1
<1> QED
  BY <1>3, <1>4, <1>5

\* Headrooms are natural numbers.
LEMMA HeadroomType ==
  ASSUME NEW policy \in Policy, NEW usage, Measured(usage)
  PROVE  CPUHeadroom(usage, policy) \in Nat /\ MemoryHeadroom(usage, policy) \in Nat
<1>1. /\ policy.cpuHeadroom \in Nat /\ policy.memoryHeadroom \in Nat
      /\ policy.snapshotHeadroom \in Nat /\ policy.immatureSafety \in Nat
  BY DEF Policy
<1>2. DataMaturity(usage) \in 0 .. 100
  <2>1. IsFiniteSet(1 .. usage.samples)
    <3>1. usage.samples \in Int /\ 1 \in Int
      BY DEF Measured
    <3>2. \A a, b \in Int : IsFiniteSet(a .. b)
      BY FS_Interval
    <3> QED
      BY <3>1, <3>2
  <2>2. IsFiniteSet({k \in 1 .. usage.samples : 2 ^ k <= usage.samples})
    BY <2>1, FS_Subset
  <2>3. Log2(usage.samples) \in Nat
    BY <2>2, FS_CardinalityType DEF Log2
  <2>4. /\ (100 * usage.window) \div MatureWindow \in Int
        /\ (100 * Log2(usage.samples)) \div MatureLog \in Int
    <3> DEFINE n == Log2(usage.samples)
    <3>1. n \in Nat /\ usage.window \in Int
      BY <2>3 DEF Measured
    <3> HIDE DEF n
    <3>2. 100 * usage.window \in Int /\ 100 * n \in Int
      BY <3>1
    <3>3. MatureWindow \in Nat \ {0} /\ MatureLog \in Nat \ {0}
      BY UnitsArePositive
    <3>4. (100 * usage.window) \div MatureWindow \in Int /\ (100 * n) \div MatureLog \in Int
      BY <3>2, <3>3
    <3> QED
      BY <3>4 DEF n
  <2>5. \A n \in Int : Clamp100(n) \in 0 .. 100
    BY DEF Clamp100, Greatest, Least
  <2> QED
    BY <2>4, <2>5 DEF DataMaturity, Least
<1>3. (100 - DataMaturity(usage)) * policy.immatureSafety \in Nat
  BY <1>1, <1>2
<1> QED
  BY <1>1, <1>3 DEF CPUHeadroom, MemoryHeadroom

\* Memory before it is shrunk to what is asked for now is no less than the peak.
LEMMA MemoryCovers ==
  ASSUME NEW policy \in Policy, NEW usage, Measured(usage)
  PROVE  LET m == Greatest(RoundUpMiB(WithHeadroom(usage.max, MemoryHeadroom(usage, policy))),
                           RoundUpMiB(policy.minMemory))
         IN m \in Nat /\ m >= usage.max
<1> DEFINE w == WithHeadroom(usage.max, MemoryHeadroom(usage, policy))
<1>1. w \in Nat /\ w >= usage.max
  BY HeadroomType, SurchargeAdds DEF WithHeadroom, Measured
<1> HIDE DEF w
<1>2. RoundUpMiB(w) \in Nat /\ RoundUpMiB(w) >= w
  BY <1>1, UnitsArePositive, CeilingCovers DEF RoundUpMiB
<1>3. policy.minMemory \in Nat
  BY DEF Policy
<1>4. RoundUpMiB(policy.minMemory) \in Nat
  BY <1>3, UnitsArePositive, CeilingCovers DEF RoundUpMiB
<1>5. usage.max \in Nat
  BY DEF Measured
<1>6. Greatest(RoundUpMiB(w), RoundUpMiB(policy.minMemory)) \in Nat
  BY <1>2, <1>4 DEF Greatest
<1>7. Greatest(RoundUpMiB(w), RoundUpMiB(policy.minMemory)) >= usage.max
  BY <1>1, <1>2, <1>4, <1>5 DEF Greatest
<1> QED
  BY <1>6, <1>7 DEF w

LEMMA RecommendType ==
  ASSUME NEW policy \in Policy, NEW usage, Measured(usage), NEW current \in ResourceSpec
  PROVE  Recommend(current, usage, policy).requests \in Resources
<1> DEFINE cpu == CPURequest(current.requests.cpu, usage, policy)
           memory == MemoryRequest(current.requests.memory, usage, policy)
<1>1. current.requests.cpu \in Nat /\ current.requests.memory \in Nat
  BY DEF ResourceSpec, Resources
<1>2. \A p, q \in Nat : Shrunk(p, q, usage, policy) \in Nat
  BY DEF Shrunk, Least
<1>3. cpu \in Nat
  <2>1. WithHeadroom(usage.p95, CPUHeadroom(usage, policy)) \in Nat
    BY HeadroomType, SurchargeAdds DEF WithHeadroom, Measured
  <2>2. policy.minCPU \in Nat
    BY DEF Policy
  <2> QED
    BY <1>1, <1>2, <2>1, <2>2 DEF CPURequest, Greatest
<1>4. memory \in Nat
  BY <1>1, <1>2, MemoryCovers DEF MemoryRequest
<1>5. Recommend(current, usage, policy).requests =
        [cpu |-> IF usage.p95 > 0 THEN cpu ELSE current.requests.cpu,
         memory |-> IF usage.max > 0 THEN memory ELSE current.requests.memory]
  BY DEF Recommend
<1> HIDE DEF cpu, memory
<1> QED
  BY <1>1, <1>3, <1>4, <1>5 DEF Resources

-----------------------------------------------------------------------------
(* Findings *)

\* Where a finding of the result comes from.
LEMMA FindingIsOf ==
  ASSUME PoolInv, SlotInv, pc = "returned", NEW r \in result.recs
  PROVE  \E w \in Workload : \E u \in Answers(w) \ {Failed} :
           \E c \in DOMAIN world[w].current \cap DOMAIN u :
             r = Recommendation(w, c, u[c]) /\ IsWorld(world[w])
<1>1. PICK w \in Workload : r \in slot[w].recs
  BY DEF SlotInv
<1>2. PICK u \in Answers(w) : slot[w] = AnalyzeWorkload(w, u)
  <2>1. phase[w] = "gone"
    BY AllGone DEF PoolInv
  <2> QED
    BY <2>1 DEF SlotInv
<1>3. u # Failed
  BY <1>1, <1>2 DEF AnalyzeWorkload
<1>4. r \in {Recommendation(w, c, u[c]) : c \in DOMAIN world[w].current \cap DOMAIN u}
  BY <1>1, <1>2, <1>3 DEF AnalyzeWorkload
<1>5. IsWorld(world[w])
  BY ClustersAreWorlds DEF SlotInv
<1> QED
  BY <1>1, <1>3, <1>4, <1>5

LEMMA FindingType ==
  ASSUME site \in Sites, NEW w \in Workload, IsWorld(world[w]),
         NEW u \in Answers(w), u # Failed,
         NEW c \in DOMAIN world[w].current \cap DOMAIN u
  PROVE  LET r == Recommendation(w, c, u[c])
         IN /\ r.of = w /\ r.container = c /\ r.tier = u[c].tier /\ Measured(u[c])
            /\ r.current = world[w].current[c] /\ r.current \in ResourceSpec
            /\ r.proposed = Recommend(r.current, u[c], Default)
            /\ r.proposed.requests \in Resources
            /\ r.saving = MonthlySavings(r.current.requests, r.proposed.requests,
                                         PriceOf(w), world[w].replicas)
<1>1. world[w].current[c] \in ResourceSpec
  BY DEF IsWorld
<1>2. Measured(u[c])
  BY ProviderType, AnswerMeasured DEF Answers
<1>3. Recommend(world[w].current[c], u[c], Default).requests \in Resources
  BY <1>1, <1>2, DefaultIsPolicy, RecommendType
<1> QED
  BY <1>1, <1>2, <1>3 DEF Recommendation

\* With a single pod's series the memory request covers its peak.
THEOREM PeakCovered == Spec => []PeakOfOnePodCovered
<1>1. PoolInv /\ SlotInv => PeakOfOnePodCovered
  <2> SUFFICES ASSUME PoolInv, SlotInv, pc = "returned", NEW r \in result.recs,
                      r.tier = "historical",
                      NEW s \in OfContainer(world[r.of].series, r.container),
                      OfContainer(world[r.of].series, r.container) = {s}
               PROVE  r.proposed.requests.memory >= s.memory
    BY DEF PeakOfOnePodCovered
  <2>1. PICK w \in Workload : \E u \in Answers(w) \ {Failed} :
          \E c \in DOMAIN world[w].current \cap DOMAIN u :
            r = Recommendation(w, c, u[c]) /\ IsWorld(world[w])
    BY FindingIsOf
  <2>2. PICK u \in Answers(w) \ {Failed} :
          \E c \in DOMAIN world[w].current \cap DOMAIN u :
            r = Recommendation(w, c, u[c]) /\ IsWorld(world[w])
    BY <2>1
  <2>3. PICK c \in DOMAIN world[w].current \cap DOMAIN u :
          r = Recommendation(w, c, u[c]) /\ IsWorld(world[w])
    BY <2>2
  <2>4. site \in Sites
    BY DEF SlotInv
  <2>5. /\ r.of = w /\ r.container = c /\ r.tier = u[c].tier /\ Measured(u[c])
        /\ r.current \in ResourceSpec
        /\ r.proposed = Recommend(r.current, u[c], Default)
    BY <2>3, <2>4, FindingType
  <2>6. u \in MergeResults(world[w].series) /\ world[w].series # Failed
    <3>1. u[c].tier = "historical"
      BY <2>5
    <3>2. u \in ProviderAnswers(Provider, world[w]) /\ u # Failed /\ c \in DOMAIN u
      BY DEF Answers
    <3> QED
      BY <2>3, <2>4, <3>1, <3>2, ProviderType, HistoricalIsPrometheus
  <2>7. u[c].max = s.memory
    <3>1. PICK last \in [ContainersIn(world[w].series) ->
                           world[w].series \X world[w].series] :
            /\ \A d \in ContainersIn(world[w].series) : last[d][2].container = d
            /\ u = [d \in ContainersIn(world[w].series) |->
                      Historical(last[d][1].cpu, last[d][2].memory)]
      BY <2>6 DEF MergeResults
    <3>2. /\ c \in ContainersIn(world[w].series)
          /\ u[c] = Historical(last[c][1].cpu, last[c][2].memory)
      BY <3>1
    <3>3. last[c][2] \in world[w].series /\ last[c][2].container = c
      BY <3>1, <3>2
    <3>4. last[c][2] = s
      BY <2>5, <3>3 DEF OfContainer
    <3> QED
      BY <3>2, <3>4 DEF Historical
  <2>8. CASE u[c].max > 0
    <3> DEFINE m == Greatest(RoundUpMiB(WithHeadroom(u[c].max, MemoryHeadroom(u[c], Default))),
                             RoundUpMiB(Default.minMemory))
    <3>1. m \in Nat /\ m >= u[c].max
      BY <2>5, DefaultIsPolicy, MemoryCovers
    <3>2. ~ IsSnapshot(u[c])
      BY <2>5 DEF IsSnapshot
    <3>3. r.proposed.requests.memory = m
      BY <2>5, <2>8, <3>2 DEF Recommend, MemoryRequest, Shrunk
    <3> QED
      BY <2>7, <3>1, <3>3
  <2>9. CASE ~ (u[c].max > 0)
    <3>1. u[c].max = 0
      BY <2>5, <2>9 DEF Measured
    <3>2. r.proposed.requests.memory = r.current.requests.memory
      BY <2>5, <2>9 DEF Recommend
    <3> QED
      BY <2>5, <2>7, <3>1, <3>2 DEF ResourceSpec, Resources
  <2> QED
    BY <2>8, <2>9
<1> QED
  BY <1>1, Invariants, PTL

-----------------------------------------------------------------------------
(* Prices *)

\* What has a cost has a rate.
LEMMA RateType ==
  ASSUME NEW cost \in Nat, NEW quantity \in Nat
  PROVE  /\ UnitRate(cost, quantity) \in Nat
         /\ UnitRate(cost, quantity) > 0 <=> cost > 0 /\ quantity > 0
<1>1. CASE quantity = 0
  BY <1>1 DEF UnitRate
<1>2. CASE quantity > 0
  <2> DEFINE rate == (cost + quantity - 1) \div quantity
  <2>1. UnitRate(cost, quantity) = rate
    BY <1>2 DEF UnitRate
  <2>2. /\ rate \in Int /\ quantity * rate <= cost + quantity - 1
        /\ cost + quantity - 1 < quantity * rate + quantity
    BY <1>2, Quotient
  <2> HIDE DEF rate
  <2>3. rate \in Nat
    <3> SUFFICES ASSUME rate + 1 <= 0 PROVE FALSE
      BY <2>2
    <3>1. (rate + 1) * quantity <= 0 * quantity
      BY <2>2, ProductGrows
    <3> QED
      BY <1>2, <2>2, <3>1
  <2>4. ASSUME cost > 0 PROVE rate > 0
    <3> SUFFICES ASSUME rate = 0 PROVE FALSE
      BY <2>3
    <3> QED
      BY <2>2, <2>4
  <2>5. ASSUME rate > 0 PROVE cost > 0
    <3>1. 1 * quantity <= rate * quantity
      BY <2>3, <2>5, ProductGrows
    <3> QED
      BY <2>2, <3>1
  <2> QED
    BY <1>2, <2>1, <2>3, <2>4, <2>5
<1> QED
  BY <1>1, <1>2

\* A price that something costs.
Positive(price) ==
  price.cpu \in Nat /\ price.memory \in Nat /\ (price.cpu > 0 \/ price.memory > 0)

LEMMA AllocationType ==
  ASSUME NEW a, IsAllocation(a)
  PROVE  /\ a.cpuCost \in Nat /\ a.cpuHours \in Nat /\ a.ramCost \in Nat /\ a.ramHours \in Nat
         /\ RateOf(a).cpu \in Nat /\ RateOf(a).memory \in Nat
<1>1. a.cpuCost \in Nat /\ a.cpuHours \in Nat /\ a.ramCost \in Nat /\ a.ramHours \in Nat
  BY DEF IsAllocation
<1> QED
  BY <1>1, RateType DEF RateOf

\* Of any two quantities of the allocations: the rate of their sums is a number, and
\* there is one if a single allocation has one.
LEMMA TotalsType ==
  ASSUME NEW S, IsFiniteSet(S), NEW cost, NEW hours, DOMAIN cost = S, DOMAIN hours = S,
         \A a \in S : cost[a] \in Nat /\ hours[a] \in Nat
  PROVE  LET rate == UnitRate(SumFunction(cost), SumFunction(hours))
         IN /\ rate \in Nat
            /\ \A a \in S : cost[a] > 0 /\ hours[a] > 0 => rate > 0
<1>1. SumFunction(cost) \in Nat /\ SumFunction(hours) \in Nat
  BY SumIsNatural DEF SumFunction
<1>2. \A a \in S : SumFunction(cost) >= cost[a] /\ SumFunction(hours) >= hours[a]
  BY SumCovers DEF SumFunction
<1>3. ASSUME NEW a \in S, cost[a] > 0, hours[a] > 0
      PROVE  SumFunction(cost) > 0 /\ SumFunction(hours) > 0
  BY <1>1, <1>2, <1>3
<1> QED
  BY <1>1, <1>3, RateType

\* An OpenCost that is taken for a price source has a price for every workload.
LEMMA OpenCostIsPositive ==
  ASSUME NEW data, IsFiniteSet(data), \A a \in data : IsAllocation(a), HasCostData(data),
         NEW w
  PROVE  Positive(OpenCostPrice(data, w))
<1>1. CASE \E a \in ByWorkload(data) : a.controller = w
  <2> DEFINE mine == CHOOSE a \in ByWorkload(data) : a.controller = w
  <2>1. mine \in ByWorkload(data)
    BY <1>1
  <2>2. OpenCostPrice(data, w) = RateOf(mine)
    BY <1>1 DEF OpenCostPrice
  <2> HIDE DEF mine
  <2>3. IsAllocation(mine) /\ (RateOf(mine).cpu > 0 \/ RateOf(mine).memory > 0)
    BY <2>1 DEF ByWorkload, RealAllocations
  <2> QED
    BY <2>2, <2>3, AllocationType DEF Positive
<1>2. CASE ~ \E a \in ByWorkload(data) : a.controller = w
  <2> DEFINE real == RealAllocations(data)
             cpuCost == [a \in real |-> a.cpuCost]
             cpuHours == [a \in real |-> a.cpuHours]
             ramCost == [a \in real |-> a.ramCost]
             ramHours == [a \in real |-> a.ramHours]
             cpu == UnitRate(SumFunction(cpuCost), SumFunction(cpuHours))
             memory == UnitRate(SumFunction(ramCost), SumFunction(ramHours))
  <2>1. IsFiniteSet(real) /\ \A a \in real : IsAllocation(a)
    BY FS_Subset DEF RealAllocations
  <2>2. /\ \A a \in real : cpuCost[a] \in Nat /\ cpuHours[a] \in Nat
        /\ \A a \in real : ramCost[a] \in Nat /\ ramHours[a] \in Nat
    BY <2>1, AllocationType
  <2>3. /\ DOMAIN cpuCost = real /\ DOMAIN cpuHours = real
        /\ DOMAIN ramCost = real /\ DOMAIN ramHours = real
    OBVIOUS
  <2>4. \A a \in real : /\ cpuCost[a] = a.cpuCost /\ cpuHours[a] = a.cpuHours
                        /\ ramCost[a] = a.ramCost /\ ramHours[a] = a.ramHours
    OBVIOUS
  <2>5. OpenCostPrice(data, w) = Blended(data)
    BY <1>2 DEF OpenCostPrice
  <2>6. Blended(data) = [cpu |-> cpu, memory |-> memory]
    BY DEF Blended
  <2> HIDE DEF cpuCost, cpuHours, ramCost, ramHours
  <2>7. cpu \in Nat /\ \A a \in real : cpuCost[a] > 0 /\ cpuHours[a] > 0 => cpu > 0
    BY <2>1, <2>2, <2>3, TotalsType
  <2>8. memory \in Nat /\ \A a \in real : ramCost[a] > 0 /\ ramHours[a] > 0 => memory > 0
    BY <2>1, <2>2, <2>3, TotalsType
  <2>9. ASSUME NEW a \in ByWorkload(data)
        PROVE  cpu > 0 \/ memory > 0
    <3>1. a \in real /\ IsAllocation(a) /\ (RateOf(a).cpu > 0 \/ RateOf(a).memory > 0)
      BY <2>1 DEF ByWorkload
    <3>2. \/ a.cpuCost > 0 /\ a.cpuHours > 0
          \/ a.ramCost > 0 /\ a.ramHours > 0
      BY <3>1, AllocationType, RateType DEF RateOf
    <3> QED
      BY <2>4, <2>7, <2>8, <3>1, <3>2
  <2> HIDE DEF cpu, memory, real
  <2>10. cpu > 0 \/ memory > 0
    BY <2>6, <2>9 DEF HasCostData
  <2> QED
    BY <2>5, <2>6, <2>7, <2>8, <2>10 DEF Positive
<1> QED
  BY <1>1, <1>2

\* Whatever the price source, requests cost something.
LEMMA PriceIsPositive ==
  ASSUME site \in Sites, NEW w
  PROVE  Positive(PriceOf(w))
<1>1. IsScanSite(site)
  BY SitesAreSites
<1>2. CASE UsesOpenCost
  BY <1>1, <1>2, OpenCostIsPositive DEF PriceOf, UsesOpenCost, IsScanSite
<1>3. CASE ~ UsesOpenCost
  BY <1>3, ConfiguredIsPositive DEF PriceOf, Positive
<1> QED
  BY <1>2, <1>3

\* Who asks for more of both pays more.
LEMMA MoreCostsMore ==
  ASSUME NEW p \in Resources, NEW q \in Resources, p.cpu < q.cpu, p.memory < q.memory,
         NEW price, Positive(price)
  PROVE  /\ MonthlyCost(p, price) \in Int /\ MonthlyCost(q, price) \in Int
         /\ MonthlyCost(q, price) - MonthlyCost(p, price) >= 1
<1>1. /\ p.cpu \in Nat /\ p.memory \in Nat /\ q.cpu \in Nat /\ q.memory \in Nat
      /\ price.cpu \in Nat /\ price.memory \in Nat /\ (price.cpu > 0 \/ price.memory > 0)
  BY DEF Resources, Positive
<1>2. \A r \in Resources :
        MonthlyCost(r, price) = r.cpu * price.cpu + r.memory * price.memory
  BY <1>1 DEF MonthlyCost, NonNegative
<1>3. \A a, b, k \in Nat : a < b => a * k \in Nat /\ b * k \in Nat /\ a * k + k <= b * k
  <2> SUFFICES ASSUME NEW a \in Nat, NEW b \in Nat, NEW k \in Nat, a < b
               PROVE  a * k \in Nat /\ b * k \in Nat /\ a * k + k <= b * k
    OBVIOUS
  <2>1. (a + 1) * k <= b * k
    BY ProductGrows
  <2>2. (a + 1) * k = a * k + k
    OBVIOUS
  <2> QED
    BY <2>1, <2>2
<1>4. /\ p.cpu * price.cpu \in Nat /\ q.cpu * price.cpu \in Nat
      /\ p.cpu * price.cpu + price.cpu <= q.cpu * price.cpu
  BY <1>1, <1>3
<1>5. /\ p.memory * price.memory \in Nat /\ q.memory * price.memory \in Nat
      /\ p.memory * price.memory + price.memory <= q.memory * price.memory
  BY <1>1, <1>3
<1> QED
  BY <1>1, <1>2, <1>4, <1>5

LEMMA SavingsFollow ==
  ASSUME NEW now \in Resources, NEW new \in Resources, NEW price, Positive(price),
         NEW replicas \in Nat
  PROVE  LET saving == MonthlySavings(now, new, price, replicas)
         IN /\ new.cpu < now.cpu /\ new.memory < now.memory => saving > 0
            /\ new.cpu > now.cpu /\ new.memory > now.memory => saving < 0
<1> DEFINE a == MonthlyCost(now, price)
           b == MonthlyCost(new, price)
           n == Billed(replicas)
<1>1. n \in Nat \ {0}
  BY DEF Billed
<1>2. MonthlySavings(now, new, price, replicas) = (a - b) * n
  BY DEF MonthlySavings
<1>3. ASSUME new.cpu < now.cpu, new.memory < now.memory
      PROVE  a \in Int /\ b \in Int /\ a - b >= 1
  BY <1>3, MoreCostsMore
<1>4. ASSUME new.cpu > now.cpu, new.memory > now.memory
      PROVE  a \in Int /\ b \in Int /\ b - a >= 1
  <2>1. now.cpu < new.cpu /\ now.memory < new.memory
    BY <1>4 DEF Resources
  <2> QED
    BY <2>1, MoreCostsMore
<1> HIDE DEF a, b, n
<1>5. \A x \in Int : x >= 1 => x * n > 0
  BY <1>1, ProductIsPositive
<1>6. ASSUME a \in Int, b \in Int
      PROVE  (b - a) * n = - ((a - b) * n) /\ (a - b) * n \in Int
  BY <1>1, <1>6
<1>7. ASSUME new.cpu < now.cpu, new.memory < now.memory
      PROVE  (a - b) * n > 0
  BY <1>3, <1>5, <1>7
<1>8. ASSUME new.cpu > now.cpu, new.memory > now.memory
      PROVE  (a - b) * n < 0
  <2>1. a \in Int /\ b \in Int /\ b - a >= 1
    BY <1>4, <1>8
  <2>2. (b - a) * n > 0
    BY <1>5, <2>1
  <2> QED
    BY <1>6, <2>1, <2>2
<1> QED
  BY <1>2, <1>7, <1>8

\* Whichever source prices a workload, shrinking both requests saves and growing both
\* costs.
THEOREM SavingsHaveTheirSign == Spec => []ShrinkingSaves
<1>1. PoolInv /\ SlotInv => ShrinkingSaves
  <2> SUFFICES ASSUME PoolInv, SlotInv, pc = "returned", NEW r \in result.recs
               PROVE  LET now == r.current.requests  then == r.proposed.requests
                      IN /\ then.cpu < now.cpu /\ then.memory < now.memory => r.saving > 0
                         /\ then.cpu > now.cpu /\ then.memory > now.memory => r.saving < 0
    BY DEF ShrinkingSaves
  <2>1. PICK w \in Workload : \E u \in Answers(w) \ {Failed} :
          \E c \in DOMAIN world[w].current \cap DOMAIN u :
            r = Recommendation(w, c, u[c]) /\ IsWorld(world[w])
    BY FindingIsOf
  <2>2. PICK u \in Answers(w) \ {Failed} :
          \E c \in DOMAIN world[w].current \cap DOMAIN u :
            r = Recommendation(w, c, u[c]) /\ IsWorld(world[w])
    BY <2>1
  <2>3. PICK c \in DOMAIN world[w].current \cap DOMAIN u :
          r = Recommendation(w, c, u[c]) /\ IsWorld(world[w])
    BY <2>2
  <2>4. site \in Sites
    BY DEF SlotInv
  <2>5. /\ r.current \in ResourceSpec /\ r.proposed.requests \in Resources
        /\ r.saving = MonthlySavings(r.current.requests, r.proposed.requests,
                                     PriceOf(w), world[w].replicas)
    BY <2>3, <2>4, FindingType
  <2>6. r.current.requests \in Resources /\ world[w].replicas \in Nat
    BY <2>3, <2>5 DEF ResourceSpec, IsWorld
  <2>7. Positive(PriceOf(w))
    BY <2>4, PriceIsPositive
  <2> QED
    BY <2>5, <2>6, <2>7, SavingsFollow
<1> QED
  BY <1>1, Invariants, PTL

-----------------------------------------------------------------------------
(* The headline *)

\* What Run returned is what it flattened last.
HeadlineInv ==
  pc = "returned" =>
    /\ result.waste = SumFunction([w \in Workload |-> slot[w].waste])
    /\ result.caveat = (result.tier = "snapshot")
    /\ result.tier \in IF result.recs = {} THEN {DeclaredTier} ELSE DominantTiers(result.recs)

LEMMA HeadlineStep == PoolInv /\ HeadlineInv /\ [Next]_vars => HeadlineInv'
<1> SUFFICES ASSUME PoolInv, HeadlineInv, [Next]_vars, pc' = "returned" PROVE HeadlineInv'
  BY DEF HeadlineInv
<1>1. CASE Return
  <2> DEFINE recs == UNION {slot[w].recs : w \in Workload}
  <2>1. UNCHANGED <<site, slot>>
    BY <1>1 DEF Return, Finish
  <2>2. PICK tier \in IF recs = {} THEN {DeclaredTier} ELSE DominantTiers(recs) :
          result' = Flatten(tier)
    BY <1>1 DEF Return, Finish
  <2>3. /\ result'.recs = recs /\ result'.tier = tier
        /\ result'.caveat = (tier = "snapshot")
        /\ result'.waste = SumFunction([w \in Workload |-> slot[w].waste])
    BY <2>2 DEF Flatten
  <2>4. DeclaredTier' = DeclaredTier
    BY <2>1 DEF DeclaredTier, Provider
  <2>5. tier \in IF result'.recs = {} THEN {DeclaredTier'} ELSE DominantTiers(result'.recs)
    BY <2>2, <2>3, <2>4
  <2>6. DominantTiers(result.recs)' = DominantTiers(result'.recs)
    OBVIOUS
  <2> HIDE DEF recs
  <2> QED
    BY <2>1, <2>3, <2>5, <2>6 DEF HeadlineInv
<1>2. CASE UNCHANGED vars
  <2>1. UNCHANGED <<site, pc, slot, result>>
    BY <1>2 DEF vars
  <2>2. DeclaredTier' = DeclaredTier
    BY <2>1 DEF DeclaredTier, Provider
  <2> QED
    BY <2>1, <2>2 DEF HeadlineInv
<1>3. ASSUME NEW w \in Workload, Goroutine(w)
      PROVE  FALSE
  <2>1. phase[w] \in Active /\ pc' = pc
    BY <1>3 DEF Goroutine, Analyze, CountDone, Report, Release, Leave, Active, Holding
  <2> QED
    BY <2>1, RunWaits
<1>4. ~ Spawn
  BY DEF Spawn
<1> QED
  BY <1>1, <1>2, <1>3, <1>4 DEF Next, Terminated

\* The waste is that of the findings: of the slots', which share none.
LEMMA SavingType ==
  ASSUME site \in Sites, NEW w \in Workload, IsWorld(world[w]),
         NEW u \in Answers(w), u # Failed,
         NEW c \in DOMAIN world[w].current \cap DOMAIN u
  PROVE  Recommendation(w, c, u[c]).saving \in Int
<1> DEFINE r == Recommendation(w, c, u[c])
<1>1. /\ r.current \in ResourceSpec /\ r.proposed.requests \in Resources
      /\ r.saving = MonthlySavings(r.current.requests, r.proposed.requests,
                                   PriceOf(w), world[w].replicas)
  BY FindingType
<1>2. r.current.requests \in Resources /\ world[w].replicas \in Nat
  BY <1>1 DEF ResourceSpec, IsWorld
<1> HIDE DEF r
<1>3. PriceOf(w).cpu \in Nat /\ PriceOf(w).memory \in Nat
  BY PriceIsPositive DEF Positive
<1>4. \A q \in Resources : MonthlyCost(q, PriceOf(w)) \in Int
  BY <1>3 DEF MonthlyCost, NonNegative, Resources
<1>5. Billed(world[w].replicas) \in Int
  BY <1>2 DEF Billed
<1>6. r.saving \in Int
  BY <1>1, <1>2, <1>4, <1>5 DEF MonthlySavings
<1> QED
  BY <1>6 DEF r

LEMMA SlotType ==
  ASSUME site \in Sites, world \in Clusters, NEW w \in Workload, NEW u \in Answers(w),
         slot[w] = AnalyzeWorkload(w, u)
  PROVE  /\ IsFiniteSet(slot[w].recs)
         /\ \A r \in slot[w].recs : r.of = w /\ r.tier \in Tiers /\ r.saving \in Int
         /\ slot[w].waste = Waste(slot[w].recs)
<1>1. IsWorld(world[w])
  BY ClustersAreWorlds
<1>2. \A r \in slot[w].recs : r.of = w /\ r.tier \in Tiers
  BY AnalysisType
<1>3. CASE u = Failed
  <2>1. slot[w].recs = {} /\ slot[w].waste = 0
    BY <1>3 DEF AnalyzeWorkload
  <2>2. Waste({}) = 0
    <3>1. DOMAIN [r \in {} |-> IF r.saving > 0 THEN r.saving ELSE 0] = {}
      OBVIOUS
    <3> QED
      BY <3>1, SumOfNone DEF Waste, SumFunction
  <2> QED
    BY <1>2, <2>1, <2>2, FS_EmptySet
<1>4. CASE u # Failed
  <2> DEFINE both == DOMAIN world[w].current \cap DOMAIN u
             f == [c \in both |-> Recommendation(w, c, u[c])]
  <2>1. IsFiniteSet(both)
    BY <1>1, FS_Subset DEF IsWorld
  <2>2. IsFiniteSet({f[c] : c \in both})
    BY <2>1, ImageIsFinite
  <2>3. /\ slot[w].recs \subseteq {f[c] : c \in both}
        /\ slot[w].waste = Waste(slot[w].recs)
    BY <1>4 DEF AnalyzeWorkload
  <2>4. \A c \in both : f[c].saving \in Int
    BY <1>1, <1>4, SavingType
  <2> HIDE DEF f
  <2>5. \A r \in slot[w].recs : r.saving \in Int
    BY <2>3, <2>4
  <2> QED
    BY <1>2, <2>2, <2>3, <2>5, FS_Subset
<1> QED
  BY <1>3, <1>4

LEMMA AllSlots ==
  ASSUME PoolInv, SlotInv, pc = "returned", NEW w \in Workload
  PROVE  /\ IsFiniteSet(slot[w].recs)
         /\ \A r \in slot[w].recs : r.of = w /\ r.tier \in Tiers /\ r.saving \in Int
         /\ slot[w].waste = Waste(slot[w].recs)
<1>1. phase[w] = "gone"
  BY AllGone DEF PoolInv
<1>2. \E u \in Answers(w) : slot[w] = AnalyzeWorkload(w, u)
  BY <1>1 DEF SlotInv
<1>3. site \in Sites /\ world \in Clusters
  BY DEF SlotInv
<1> QED
  BY <1>2, <1>3, SlotType

LEMMA WasteIsTotal ==
  ASSUME PoolInv, SlotInv, HeadlineInv, pc = "returned"
  PROVE  IsFiniteSet(result.recs) /\ result.waste = Waste(result.recs)
<1> DEFINE F == [w \in Workload |-> slot[w].recs]
           g == [w \in Workload |-> slot[w].waste]
           all == UNION {slot[w].recs : w \in Workload}
           f == [r \in all |-> IF r.saving > 0 THEN r.saving ELSE 0]
<1>1. IsFiniteSet(Workload)
  BY NIsNatural, FS_Interval DEF Workload
<1>2. \A w \in Workload : /\ IsFiniteSet(slot[w].recs)
                          /\ \A r \in slot[w].recs : r.of = w /\ r.saving \in Int
                          /\ slot[w].waste = Waste(slot[w].recs)
  BY AllSlots
<1>3. \A w \in Workload : \A r \in slot[w].recs : f[r] \in Int
  BY <1>2
<1>4. \A w \in Workload : slot[w].waste = SumFunctionOnSet(f, slot[w].recs)
  <2> SUFFICES ASSUME NEW w \in Workload
               PROVE  slot[w].waste = SumFunctionOnSet(f, slot[w].recs)
    OBVIOUS
  <2> DEFINE h == [r \in slot[w].recs |-> IF r.saving > 0 THEN r.saving ELSE 0]
  <2>1. DOMAIN h = slot[w].recs /\ \A r \in slot[w].recs : h[r] \in Int /\ h[r] = f[r]
    BY <1>2
  <2>2. slot[w].waste = SumFunction(h)
    BY <1>2 DEF Waste
  <2> HIDE DEF h, f
  <2>3. SumFunction(h) = SumFunctionOnSet(h, slot[w].recs)
    BY <2>1 DEF SumFunction
  <2>4. SumFunctionOnSet(h, slot[w].recs) = SumFunctionOnSet(f, slot[w].recs)
    BY <1>2, <2>1, SumOfSame
  <2> QED
    BY <2>2, <2>3, <2>4
<1>5. /\ \A w \in Workload : F[w] = slot[w].recs /\ g[w] = slot[w].waste
      /\ DOMAIN g = Workload /\ DOMAIN f = all
  OBVIOUS
<1>6. SumFunction(g) = result.waste /\ result.recs = all
  BY DEF HeadlineInv, SlotInv
<1>7. Waste(all) = SumFunction(f)
  BY DEF Waste
<1>8. {slot[w].recs : w \in Workload} = {F[w] : w \in Workload}
  BY <1>5
<1>9. UNION {F[w] : w \in Workload} = all
  BY <1>8
<1> HIDE DEF F, f, g, all
<1>10. \A v, w \in Workload : v # w => F[v] \cap F[w] = {}
  BY <1>2, <1>5
<1>11. /\ IsFiniteSet(UNION {F[w] : w \in Workload})
       /\ SumFunctionOnSet(f, UNION {F[w] : w \in Workload}) = SumFunctionOnSet(g, Workload)
  <2>1. \A w \in Workload : IsFiniteSet(F[w]) /\ g[w] = SumFunctionOnSet(f, F[w])
    BY <1>2, <1>4, <1>5
  <2>2. \A w \in Workload : \A r \in F[w] : f[r] \in Int
    BY <1>3, <1>5
  <2> QED
    BY <1>1, <1>10, <2>1, <2>2, SumOfFamily
<1>12. IsFiniteSet(all) /\ SumFunctionOnSet(f, all) = SumFunctionOnSet(g, Workload)
  BY <1>9, <1>11, Zenon
<1> QED
  BY <1>5, <1>6, <1>7, <1>12 DEF SumFunction

\* Of the tiers that back a finding, the dominant one comes before every other.
Leader(recs, tier) ==
  /\ \E r \in recs : r.tier = tier
  /\ \A r \in recs : r.tier # tier => Better(recs, tier, r.tier)

LEMMA BetterIsOrder ==
  ASSUME NEW recs, IsFiniteSet(recs),
         NEW a \in Tiers, NEW b \in Tiers, NEW c \in Tiers
  PROVE  /\ a = b \/ Better(recs, a, b) \/ Better(recs, b, a)
         /\ ~ (Better(recs, a, b) /\ Better(recs, b, a))
         /\ Better(recs, a, b) /\ Better(recs, b, c) => Better(recs, a, c)
<1>1. \A t \in Tiers : Count(recs, t) \in Nat
  <2> SUFFICES ASSUME NEW t \in Tiers PROVE Count(recs, t) \in Nat
    OBVIOUS
  <2>1. IsFiniteSet({r \in recs : r.tier = t})
    BY FS_Subset
  <2> QED
    BY <2>1, FS_CardinalityType DEF Count
<1>2. /\ \A t \in Tiers : Rank(t) \in Nat
      /\ \A s, t \in Tiers : Rank(s) = Rank(t) => s = t
  <2>1. Rank("snapshot") = 1 /\ Rank("operator") = 2 /\ Rank("historical") = 3
    BY DEF Rank
  <2> HIDE DEF Rank
  <2> QED
    BY <2>1 DEF Tiers
<1> HIDE DEF Rank, Count, Tiers
<1>3. /\ Count(recs, a) \in Nat /\ Count(recs, b) \in Nat /\ Count(recs, c) \in Nat
      /\ Rank(a) \in Nat /\ Rank(b) \in Nat /\ Rank(c) \in Nat
      /\ Rank(a) = Rank(b) => a = b
  BY <1>1, <1>2
<1> QED
  BY <1>3 DEF Better

LEMMA DominantLeads ==
  ASSUME NEW recs, IsFiniteSet(recs), \A r \in recs : r.tier \in Tiers,
         NEW tier \in DominantTiers(recs)
  PROVE  Leader(recs, tier)
<1> DEFINE tiers == {r.tier : r \in recs}
           Step(best, t) == IF Better(recs, t, best) THEN t ELSE best
<1>1. \E first \in tiers : \E p \in tiers \X tiers \X tiers :
        /\ {p[1], p[2], p[3]} = tiers
        /\ tier = Step(Step(Step(first, p[1]), p[2]), p[3])
  BY DEF DominantTiers
<1>2. PICK first \in tiers, p \in tiers \X tiers \X tiers :
        /\ {p[1], p[2], p[3]} = tiers
        /\ tier = Step(Step(Step(first, p[1]), p[2]), p[3])
  BY <1>1
<1> DEFINE NoLess(a, b) == a = b \/ Better(recs, a, b)
<1>3. tiers \subseteq Tiers
  OBVIOUS
<1>4. \A a, b \in tiers : /\ Step(a, b) \in tiers
                          /\ NoLess(Step(a, b), a) /\ NoLess(Step(a, b), b)
  BY <1>3, BetterIsOrder
<1>5. \A a, b, c \in tiers : NoLess(a, b) /\ NoLess(b, c) => NoLess(a, c)
  BY <1>3, BetterIsOrder
<1> HIDE DEF Step, NoLess
<1> DEFINE one == Step(first, p[1])
           two == Step(one, p[2])
<1>6. p[1] \in tiers /\ p[2] \in tiers /\ p[3] \in tiers
  OBVIOUS
<1>7. one \in tiers /\ NoLess(one, p[1])
  BY <1>4, <1>6
<1>8. two \in tiers /\ NoLess(two, one) /\ NoLess(two, p[2])
  BY <1>4, <1>6, <1>7
<1>9. tier \in tiers /\ NoLess(tier, two) /\ NoLess(tier, p[3])
  BY <1>2, <1>4, <1>6, <1>8
<1>10. NoLess(tier, p[2]) /\ NoLess(tier, p[1])
  BY <1>5, <1>6, <1>7, <1>8, <1>9
<1>11. \A t \in tiers : NoLess(tier, t)
  BY <1>2, <1>9, <1>10
<1> QED
  BY <1>9, <1>11 DEF Leader, NoLess

LEMMA LeaderHolds ==
  ASSUME NEW recs, IsFiniteSet(recs), \A r \in recs : r.tier \in Tiers,
         NEW tier, Leader(recs, tier)
  PROVE  /\ Count(recs, tier) > 0
         /\ \A t \in Tiers \ {tier} :
              \/ Count(recs, t) < Count(recs, tier)
              \/ Count(recs, t) = Count(recs, tier) /\ Rank(t) < Rank(tier)
<1>1. \A t : /\ Count(recs, t) \in Nat
             /\ Count(recs, t) = 0 <=> ~ \E r \in recs : r.tier = t
  <2> SUFFICES ASSUME NEW t
               PROVE  /\ Count(recs, t) \in Nat
                      /\ Count(recs, t) = 0 <=> ~ \E r \in recs : r.tier = t
    OBVIOUS
  <2> DEFINE mine == {r \in recs : r.tier = t}
  <2>1. IsFiniteSet(mine)
    BY FS_Subset
  <2>2. Cardinality(mine) \in Nat /\ (Cardinality(mine) = 0 <=> mine = {})
    BY <2>1, FS_CardinalityType, FS_EmptySet
  <2> QED
    BY <2>2 DEF Count
<1>2. Count(recs, tier) > 0
  BY <1>1 DEF Leader
<1>3. ASSUME NEW t \in Tiers \ {tier}, \E r \in recs : r.tier = t
      PROVE  \/ Count(recs, t) < Count(recs, tier)
             \/ Count(recs, t) = Count(recs, tier) /\ Rank(t) < Rank(tier)
  <2>1. Better(recs, tier, t)
    BY <1>3 DEF Leader
  <2>2. tier \in Tiers /\ t \in Tiers
    BY DEF Leader
  <2>3. Rank(tier) \in Nat /\ Rank(t) \in Nat
    BY <2>2 DEF Rank, Tiers
  <2> HIDE DEF Rank
  <2> QED
    BY <1>1, <2>1, <2>3 DEF Better
<1> QED
  BY <1>1, <1>2, <1>3

\* The headline is that of the findings.
THEOREM HeadlineIsHonest == Spec => []HonestHeadline
<1>1. Init => HeadlineInv
  BY DEF Init, HeadlineInv
<1>2. PoolInv /\ SlotInv /\ HeadlineInv => HonestHeadline
  <2> SUFFICES ASSUME PoolInv, SlotInv, HeadlineInv, pc = "returned" PROVE HonestHeadline
    BY DEF HonestHeadline
  <2>1. IsFiniteSet(result.recs) /\ result.waste = Waste(result.recs)
    BY WasteIsTotal
  <2>2. \A r \in result.recs : r.tier \in Tiers
    BY AllSlots DEF SlotInv
  <2>3. CASE result.recs = {}
    BY <2>1, <2>3 DEF HeadlineInv, HonestHeadline
  <2>4. CASE result.recs # {}
    <3>1. Leader(result.recs, result.tier)
      BY <2>1, <2>2, <2>4, DominantLeads DEF HeadlineInv
    <3> QED
      BY <2>1, <2>2, <2>4, <3>1, LeaderHolds DEF HeadlineInv, HonestHeadline
  <2> QED
    BY <2>3, <2>4
<1> QED
  BY <1>1, <1>2, HeadlineStep, Invariants, PTL DEF Spec
=============================================================================
