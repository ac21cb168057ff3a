------------------------------ MODULE Publishing ------------------------------
(***************************************************************************)
(* The publishing half of the operator's tick: writeRecommendations and     *)
(* writeSummary of internal/operator/collector.go, the writes of            *)
(* SaveRecommendation and SaveSummary in store.go, and what                 *)
(* internal/recommend, summary and score make of the advice.  Several       *)
(* instances overlap during a rolling update until one remains.             *)
(*                                                                         *)
(* A status is kept as the advice it is computed from.                      *)
(***************************************************************************)
EXTENDS Integers, Sequences, FiniteSets, FiniteSetsExt, Functions

CONSTANTS
  Operators,       \* instances of the operator
  Newest,          \* the one a rolling update leaves
  Workloads,       \* numbers, ordered as namespace and name
  Containers,
  Advices,         \* what a tick may come to: advice for some containers
  Cluster,         \* the name of the ClusterUsageSummary
  Flaky,           \* the objects about which calls may fail forever
  TopN,
  MaxNow,          \* bound of the clock
  MaxDisruptions,  \* bound on failures, crashes and deletions by others
  None

Advice == [now : Nat, to : Nat, priced : BOOLEAN, confidence : 0 .. 100]

ASSUME NamesAreNumbers == Workloads \subseteq Nat /\ Cluster \notin Workloads
ASSUME NoneIsNoName == None \notin Workloads \cup {Cluster}
ASSUME AdviceIsTyped ==
  \A r \in Advices :
    /\ DOMAIN r \subseteq Workloads \X Containers /\ IsFiniteSet(DOMAIN r)
    /\ \A k \in DOMAIN r : r[k] \in Advice

\* The rightsizer keeps what a container asks for or proposes at least a floor.
ASSUME AdviceKeepsFloors ==
  \A r \in Advices : \A k \in DOMAIN r : r[k].now > 0 => r[k].to > 0
ASSUME NewestRuns == Newest \in Operators
ASSUME BoundsAreNatural == TopN \in Nat \ {0} /\ MaxNow \in Nat /\ MaxDisruptions \in Nat

Names == Workloads \cup {Cluster}

VARIABLES
  running,      \* the instances there are
  phase,        \* what each does: idle, next, create, update, status
  queue,        \* what it has still to save in this tick
  object,       \* the object it is saving
  recs,         \* the advice of its tick
  at,           \* the time of its tick
  fresh,        \* whether the resource version it carries is the object's
  objects,      \* in the API server: [at, status], or None; at is GeneratedAt
                \* of a recommendation's spec, status is [at, of] or None
  now,
  disruptions

instance == <<phase, queue, object, recs, at, fresh>>
vars == <<running, instance, objects, now, disruptions>>
-----------------------------------------------------------------------------
(* What is computed from the advice *)

WorkloadsOf(r) == {k[1] : k \in DOMAIN r}
Of(r, w) == {k \in DOMAIN r : k[1] = w}

\* MonthlySavings; without a price nothing is saved.
Savings(a) == IF a.priced THEN a.now - a.to ELSE 0

\* recommend.Build: the net savings, and the largest confidence.
Net(r, w) == SumFunction([k \in Of(r, w) |-> Savings(r[k])])
Confidence(r, w) == Max({r[k].confidence : k \in Of(r, w)})

\* Bug: growth is not recognised, and both signs cancel out.
ScoreForGrowth(savings, confidence) ==
  LET scaled == 100 * savings * confidence
      sum == 100 * (savings + 100)
  IN IF sum = 0 THEN 0
     ELSE IF sum < 0 THEN Min({100, (-scaled) \div (-sum)})
     ELSE Max({0, scaled \div sum})

ScoreFor(savings, confidence) ==
  IF savings <= 0 THEN 0
  ELSE (100 * savings * confidence + 50 * (savings + 100)) \div (100 * (savings + 100))

\* summary.Build: growing containers do not count.
Waste(a) == IF Savings(a) > 0 THEN Savings(a) ELSE 0

Gain(r, w) == SumFunction([k \in Of(r, w) |-> Waste(r[k])])

Wasted(r) == SumFunction([k \in DOMAIN r |-> Waste(r[k])])

\* Bug: the name comes first.
LeadsByName(r, v, w) == v < w \/ (v = w /\ Gain(r, v) > Gain(r, w))

Leads(r, v, w) == Gain(r, v) > Gain(r, w) \/ (Gain(r, v) = Gain(r, w) /\ v < w)

Targets(r) == {w \in WorkloadsOf(r) : Gain(r, w) > 0}

Ahead(r, w) == Cardinality({v \in Targets(r) : Leads(r, v, w)})

\* Sorted, and cut at topN.
TopTargets(r) ==
  [i \in 1 .. Min({TopN, Cardinality(Targets(r))}) |->
     CHOOSE w \in Targets(r) : Ahead(r, w) = i - 1]

\* Bug: over-provisioning counts as more than accurate.
AccuracyOneSided(a) == IF a.to = 0 THEN 0 ELSE (100 * a.now) \div a.to

\* score.Compute, in percent.
Accuracy(a) ==
  IF Max({a.now, a.to}) = 0 THEN 0 ELSE (100 * Min({a.now, a.to})) \div Max({a.now, a.to})

MeanAccuracy(r) ==
  LET weight == SumFunction([k \in DOMAIN r |-> r[k].to])
  IN IF weight > 0
       THEN SumFunction([k \in DOMAIN r |-> Accuracy(r[k]) * r[k].to]) \div weight
       ELSE SumFunction([k \in DOMAIN r |-> Accuracy(r[k])]) \div Cardinality(DOMAIN r)

Coverage(r) ==
  (100 * Cardinality({k \in DOMAIN r : r[k].now > 0})) \div Cardinality(DOMAIN r)

Efficiency(r) ==
  IF DOMAIN r = {} THEN 100
  ELSE Max({0, Min({100, (70 * MeanAccuracy(r) + 30 * Coverage(r) + 50) \div 100})})
-----------------------------------------------------------------------------
(* The tick *)

NoAdvice == [k \in {} |-> None]

Init ==
  /\ running = Operators
  /\ phase = [o \in Operators |-> "idle"]
  /\ queue = [o \in Operators |-> {}]
  /\ object = [o \in Operators |-> None]
  /\ recs = [o \in Operators |-> NoAdvice]
  /\ at = [o \in Operators |-> 0]
  /\ fresh = [o \in Operators |-> FALSE]
  /\ objects = [n \in Names |-> None]
  /\ now = 0
  /\ disruptions = 0

Go(o, p) == phase' = [phase EXCEPT ![o] = p]

\* After the checkpoints: the advice of this tick, and what is to be saved.
Tick(o, r) ==
  /\ phase[o] = "idle"
  /\ Go(o, "next")
  /\ now' = Min({now + 1, MaxNow})
  /\ recs' = [recs EXCEPT ![o] = r]
  /\ at' = [at EXCEPT ![o] = now']
  /\ queue' = [queue EXCEPT ![o] = WorkloadsOf(r) \cup {Cluster}]
  /\ UNCHANGED <<running, object, fresh, objects, disruptions>>

\* The recommendations in the lister's order, then the summary, then the tick ends.
IsNext(o, n) ==
  /\ phase[o] = "next" /\ n \in queue[o]
  /\ IF n = Cluster THEN queue[o] = {Cluster} ELSE n = Min(queue[o] \ {Cluster})

TickDone(o) ==
  /\ phase[o] = "next" /\ queue[o] = {}
  /\ Go(o, "idle")
  /\ recs' = [recs EXCEPT ![o] = NoAdvice]
  /\ at' = [at EXCEPT ![o] = 0]
  /\ UNCHANGED <<running, queue, object, fresh, objects, now, disruptions>>
-----------------------------------------------------------------------------
(* SaveRecommendation and SaveSummary, call by call *)

\* A write outdates what everybody else has read of the object; whoever makes it carries
\* its result on, if there is another call to make.
Write(o, content, carries) ==
  /\ objects' = [objects EXCEPT ![object[o]] = content]
  /\ fresh' = [i \in Operators |->
                 IF i = o THEN carries ELSE object[i] # object[o] /\ fresh[i]]

\* A Save ends, with or without an error: the next object follows.
Return(o) ==
  /\ Go(o, "next")
  /\ object' = [object EXCEPT ![o] = None]

Drop(o) == fresh' = [fresh EXCEPT ![o] = FALSE]

\* Bug: an error ends the tick.
AbandonTick(o) ==
  /\ Return(o) /\ Drop(o)
  /\ queue' = [queue EXCEPT ![o] = {}]

\* An error of one Save leaves the others to be made.
Abandon(o) ==
  /\ Return(o) /\ Drop(o)
  /\ UNCHANGED queue

\* A Save begins with its Get.  SaveSummary updates no spec.
SaveGet(o, n) ==
  /\ IsNext(o, n)
  /\ Go(o, IF objects[n] = None THEN "create" ELSE IF n = Cluster THEN "status" ELSE "update")
  /\ queue' = [queue EXCEPT ![o] = @ \ {n}]
  /\ object' = [object EXCEPT ![o] = n]
  /\ fresh' = [fresh EXCEPT ![o] = objects[n] # None]
  /\ UNCHANGED <<running, recs, at, objects, now, disruptions>>

\* A summary has a status only.
SpecTime(o) == IF object[o] = Cluster THEN 0 ELSE at[o]

SaveCreate(o) ==
  /\ phase[o] = "create"
  /\ objects[object[o]] = None
  /\ Write(o, [at |-> SpecTime(o), status |-> None], TRUE)
  /\ Go(o, "status")
  /\ UNCHANGED <<running, queue, object, recs, at, now, disruptions>>

SaveUpdate(o) ==
  /\ phase[o] = "update" /\ fresh[o]
  /\ Write(o, [at |-> at[o], status |-> objects[object[o]].status], TRUE)
  /\ Go(o, "status")
  /\ UNCHANGED <<running, queue, object, recs, at, now, disruptions>>

\* Bug: the status is written whatever the version of the object.
SaveStatusAnyway(o) ==
  /\ phase[o] = "status" /\ objects[object[o]] # None
  /\ Write(o, [objects[object[o]] EXCEPT !.status = [at |-> at[o], of |-> recs[o]]], FALSE)
  /\ Return(o)
  /\ UNCHANGED <<running, queue, recs, at, now, disruptions>>

SaveStatus(o) ==
  /\ phase[o] = "status" /\ fresh[o]
  /\ Write(o, [objects[object[o]] EXCEPT !.status = [at |-> at[o], of |-> recs[o]]], FALSE)
  /\ Return(o)
  /\ UNCHANGED <<running, queue, recs, at, now, disruptions>>

\* The API server refuses to create what is there, and to write what has changed.
SaveRefused(o) ==
  /\ \/ phase[o] = "create" /\ objects[object[o]] # None
     \/ phase[o] \in {"update", "status"} /\ ~ fresh[o]
  /\ Abandon(o)
  /\ UNCHANGED <<running, recs, at, objects, now, disruptions>>

Disrupt == disruptions < MaxDisruptions /\ disruptions' = disruptions + 1

\* The calls about a flaky object may fail forever.
MayFail(n) == IF n \in Flaky THEN UNCHANGED disruptions ELSE Disrupt

\* A call fails without an effect: the Get, or a later one.
GetFails(o, n) ==
  /\ IsNext(o, n) /\ MayFail(n)
  /\ queue' = [queue EXCEPT ![o] = @ \ {n}]
  /\ UNCHANGED <<running, phase, object, recs, at, fresh, objects, now>>

SaveFails(o) ==
  /\ phase[o] \in {"create", "update", "status"}
  /\ MayFail(object[o])
  /\ Abandon(o)
  /\ UNCHANGED <<running, recs, at, objects, now>>
-----------------------------------------------------------------------------
\* Bug: what was being saved survives.
IdleKeepingObject(o) ==
  /\ Go(o, "idle")
  /\ queue' = [queue EXCEPT ![o] = {}]
  /\ recs' = [recs EXCEPT ![o] = NoAdvice]
  /\ at' = [at EXCEPT ![o] = 0]
  /\ UNCHANGED <<object, fresh>>

\* What a process starts with.
Idle(o) ==
  /\ Go(o, "idle")
  /\ queue' = [queue EXCEPT ![o] = {}]
  /\ object' = [object EXCEPT ![o] = None]
  /\ recs' = [recs EXCEPT ![o] = NoAdvice]
  /\ at' = [at EXCEPT ![o] = 0]
  /\ Drop(o)

\* The process dies and starts anew.
Crash(o) ==
  /\ o \in running /\ phase[o] # "idle"
  /\ Disrupt
  /\ Idle(o)
  /\ UNCHANGED <<running, objects, now>>

\* A rolling update takes the older instances away.
Retire(o) ==
  /\ o \in running /\ o # Newest
  /\ running' = running \ {o}
  /\ Idle(o)
  /\ UNCHANGED <<objects, now, disruptions>>

\* Somebody deletes an object.
Delete(n) ==
  /\ objects[n] # None
  /\ Disrupt
  /\ objects' = [objects EXCEPT ![n] = None]
  /\ fresh' = [o \in Operators |-> object[o] # n /\ fresh[o]]
  /\ UNCHANGED <<running, phase, queue, object, recs, at, now>>

Save(o) ==
  \/ \E n \in Names : SaveGet(o, n) \/ GetFails(o, n)
  \/ SaveCreate(o) \/ SaveUpdate(o) \/ SaveStatus(o)
  \/ SaveRefused(o) \/ SaveFails(o)

Step(o) ==
  /\ o \in running
  /\ \/ \E r \in Advices : Tick(o, r)
     \/ Save(o)
     \/ TickDone(o)

Next ==
  \/ \E o \in Operators : Step(o) \/ Crash(o) \/ Retire(o)
  \/ \E n \in Names : Delete(n)

Spec == Init /\ [][Next]_vars

\* A rolling update comes to its end, and the instance that it leaves goes on.
FairSpec ==
  /\ Spec
  /\ WF_vars(Step(Newest))
  /\ \A o \in Operators \ {Newest} : WF_vars(Retire(o))
-----------------------------------------------------------------------------
(* Properties *)

\* The types; an object is being saved exactly in the phases of a Save.
TypeOK ==
  /\ running \subseteq Operators /\ Newest \in running
  /\ \A o \in Operators :
       /\ phase[o] \in {"idle", "next", "create", "update", "status"}
       /\ queue[o] \subseteq Names
       /\ recs[o] \in Advices \cup {NoAdvice}
       /\ at[o] \in 0 .. MaxNow
       /\ object[o] \in Names <=> phase[o] \in {"create", "update", "status"}
       /\ phase[o] = "idle" => object[o] = None /\ queue[o] = {}
  /\ \A n \in Names : objects[n] # None => objects[n].at \in 0 .. MaxNow
  /\ disruptions \in 0 .. MaxDisruptions

\* recommendation_types.go:47, GeneratedAt "is when the recommendation was
\* produced": whichever instances and failures interfere, a status is only ever
\* written below the GeneratedAt of its own tick.
StatusFollowsSpec ==
  [][\A n \in Workloads :
       objects'[n] # None /\ objects'[n].status # None
         => \/ objects'[n].status.at = objects'[n].at
            \/ objects[n] # None /\ objects[n].status = objects'[n].status
    ]_vars

\* collector.go:206, "every workload is attempted": what every tick has advice for
\* is published over and over with the newest advice, though calls about other
\* objects may fail forever.
EverythingPublished ==
  \A n \in Names \ Flaky :
    (n = Cluster \/ \A r \in Advices : n \in WorkloadsOf(r)) =>
      []<>(objects[n] # None /\ objects[n].status # None /\ objects[n].status.at = MaxNow)

Published == {n \in Names : objects[n] # None /\ objects[n].status # None}

\* The status of the Recommendation of each workload.
Rank ==
  [r \in Advices |->
     [w \in WorkloadsOf(r) |->
        [savings |-> Net(r, w), confidence |-> Confidence(r, w),
         score |-> ScoreFor(Net(r, w), Confidence(r, w))]]]

\* recommendation_types.go:67, "consumers rank by it": of two published
\* recommendations, of whichever ticks, the one that saves no less, with no less
\* confidence, scores no less.
ScoresRank ==
  \A v, w \in Published \ {Cluster} :
    LET a == Rank[objects[v].status.of][v]
        b == Rank[objects[w].status.of][w]
    IN a.savings >= b.savings /\ a.confidence >= b.confidence => a.score >= b.score

\* The advice of whose targets none, and no workload that is none, gains more than one
\* before it; all of the waste is there unless the list is full.
RankedByGain ==
  {r \in Advices :
     LET top == TopTargets(r)
         others == WorkloadsOf(r) \ Range(top)
     IN /\ \A i, j \in DOMAIN top : i < j => Gain(r, top[i]) >= Gain(r, top[j])
        /\ \A i \in DOMAIN top, w \in others : Gain(r, top[i]) >= Gain(r, w)
        /\ Len(top) < TopN => Wasted(r) = SumFunction([w \in Range(top) |-> Gain(r, w)])}

\* clusterusagesummary_types.go:49, "the highest-impact rightsizing opportunities,
\* ranked by savings": what the list is cut to leads what is cut off.
TargetsLead == Cluster \in Published => objects[Cluster].status.of \in RankedByGain

\* The advice of which any one piece, when followed, does not lower the score.
WorthFollowing ==
  {r \in Advices :
     \A k \in DOMAIN r : Efficiency([r EXCEPT ![k].now = r[k].to]) >= Efficiency(r)}

\* score.go:32, "Both over- and under-provisioning are penalised": following any one
\* piece of advice never lowers the published efficiency score.
AdviceRaisesScore == Cluster \in Published => objects[Cluster].status.of \in WorthFollowing
=============================================================================
