------------------------------ MODULE Collector ------------------------------
(***************************************************************************)
(* The kubetidy operator's usage historian: the Collector of               *)
(* internal/operator/collector.go, the store it checkpoints through        *)
(* (store.go), the loop that drives it (run.go) and the start-up sequence  *)
(* of cmd/kubetidy-operator/main.go.                                       *)
(*                                                                         *)
(* An instance of the operator keeps decaying histograms in memory, folds  *)
(* one sample per workload and tick into them, and after each sample       *)
(* writes the workload's UsageProfile with Save: Get, then Create or       *)
(* Update (which, with a status subresource, store no status), then        *)
(* UpdateStatus.  A restarted instance reads the profiles back             *)
(* (Rehydrate).  Any call may fail, an instance may crash between any two  *)
(* calls, workloads come and go, and, when there is more than one element  *)
(* in Operators, instances overlap.                                        *)
(*                                                                         *)
(* A histogram is abstracted to the set of seconds whose readings it       *)
(* holds; module Histogram is about its numbers.                           *)
(***************************************************************************)
EXTENDS Naturals, FiniteSets

CONSTANTS
  Operators,      \* instances of the operator process
  Workloads,      \* workloads, each with its UsageProfile object
  Containers,     \* container names
  Readings,       \* for a sampled container: the metrics that are positive
  Flaky,          \* workloads whose own calls may fail without limit
  MaxNow,         \* bound on the clock, in seconds
  MaxCount,       \* bound on sample counters, which saturate there
  MaxDisruptions, \* bound on crashes, failed calls, deletions, redeployments
  None            \* no save under way

Metrics == {"cpu", "mem"}

ASSUME BoundsAreNaturals ==
  /\ MaxNow \in Nat \ {0}
  /\ MaxCount \in Nat
  /\ MaxDisruptions \in Nat
ASSUME ReadingsAreMetrics == Readings \subseteq SUBSET Metrics
ASSUME ContainersAreFinite == IsFiniteSet(Containers)

VARIABLES
  now,         \* the clock, at the resolution profiles keep (RFC3339)
  template,    \* template[w]: containers of w's pod template, {} if w is gone
  stored,      \* workloads whose UsageProfile object exists
  status,      \* status[w]: the status of w's UsageProfile object
  pc,          \* what each instance is doing
  state,       \* state[o][w]: Collector.state, live histograms per container
  listed,      \* listed[o][w]: containers of w, still to visit in this round
  save,        \* the Save under way at each instance
  synced,      \* history variable: workloads whose profile o has read or written
  taken,       \* history variable: samples really taken, per container
  disruptions  \* how much of MaxDisruptions is used up

vars == <<now, template, stored, status, pc, state, listed, save, synced,
          taken, disruptions>>
api == <<stored, status>>
-----------------------------------------------------------------------------
(* Data *)

Seconds == 1 .. MaxNow
History == [Metrics -> SUBSET Seconds]
PartialFcn(S, T) == UNION {[D -> T] : D \in SUBSET S}

ContainerState ==
  [hist : History, observed : 0 .. MaxCount, observedSlot : Seconds]
Live == PartialFcn(Containers, ContainerState)
Status ==
  [observedSince : 0 .. MaxNow, lastUpdated : 0 .. MaxNow,
   sampleCount : 0 .. MaxCount, containers : PartialFcn(Containers, History)]
Save ==
  [of : Workloads, containers : SUBSET Containers, draft : Status,
   fresh : BOOLEAN]
ASSUME NoneIsNoSave == None \notin Save

NoContainers == [c \in {} |-> {}]
EmptyStatus ==
  [observedSince |-> 0, lastUpdated |-> 0, sampleCount |-> 0,
   containers |-> NoContainers]

Cap(n) == IF n < MaxCount THEN n ELSE MaxCount

\* The sum of f over S, as the number of pairs <<c, i>> with i in 1 .. f[c].
Total(f, S) == Cardinality(UNION {{c} \X (1 .. f[c]) : c \in S})

\* Bug: the window starts at the youngest container.
Latest(S) == CHOOSE s \in S : \A t \in S : t <= s

Earliest(S) == CHOOSE s \in S : \A t \in S : s <= t

\* Collector.stateFor: the live state, or a fresh one that starts now.
StateFor(live, c) ==
  IF c \in DOMAIN live
    THEN live[c]
    ELSE [hist |-> [m \in Metrics |-> {}], observed |-> 0,
          observedSlot |-> now]

\* Bug: every positive metric counts as a sample.
FoldPerMetric(s, positive) ==
  [s EXCEPT
    !.hist = [m \in Metrics |-> IF m \in positive THEN @[m] \cup {now} ELSE @[m]],
    !.observed = Cap(@ + Cardinality(positive))]

\* One container's share of observeAndCheckpoint: a reading is folded only if
\* positive, the sample counts in any case.
Fold(s, positive) ==
  [s EXCEPT
    !.hist = [m \in Metrics |-> IF m \in positive THEN @[m] \cup {now} ELSE @[m]],
    !.observed = Cap(@ + 1)]

\* Bug: the live state of containers that got no sample is dropped.
ObserveSampledOnly(live, reading) ==
  [c \in DOMAIN reading |-> Fold(StateFor(live, c), reading[c])]

ObserveAll(live, reading) ==
  [c \in DOMAIN live \cup DOMAIN reading |->
     IF c \in DOMAIN reading THEN Fold(StateFor(live, c), reading[c])
                             ELSE live[c]]

\* Collector.buildProfile, over the containers cs of the listed template.
\* The window is lastUpdated - observedSince.
BuildProfile(live, cs) ==
  LET known == cs \cap DOMAIN live
  IN [observedSince |-> IF known = {} THEN 0
                        ELSE Earliest({live[c].observedSlot : c \in known}),
      lastUpdated   |-> now,
      sampleCount   |-> Cap(Total([c \in known |-> live[c].observed], known)),
      containers    |-> [c \in known |-> live[c].hist]]

\* Bug: a restart begins a new window.
RehydratedFromNow(live, profile) ==
  [c \in DOMAIN live \cup DOMAIN profile.containers |->
     IF c \in DOMAIN profile.containers
       THEN [hist |-> profile.containers[c],
             observed |-> profile.sampleCount, observedSlot |-> now]
       ELSE live[c]]

\* Bug: the memory histogram is restored from the CPU snapshot.
RehydratedCrossed(live, profile) ==
  [c \in DOMAIN live \cup DOMAIN profile.containers |->
     IF c \in DOMAIN profile.containers
       THEN [hist |-> [m \in Metrics |-> profile.containers[c]["cpu"]],
             observed |-> profile.sampleCount,
             observedSlot |-> profile.observedSince]
       ELSE live[c]]

\* Collector.Rehydrate for one workload: every container of the profile gets
\* its own histograms back, and the whole profile's sample count and start.
Rehydrated(live, profile) ==
  [c \in DOMAIN live \cup DOMAIN profile.containers |->
     IF c \in DOMAIN profile.containers
       THEN [hist |-> profile.containers[c],
             observed |-> profile.sampleCount,
             observedSlot |-> IF profile.observedSince = 0 THEN now
                              ELSE profile.observedSince]
       ELSE live[c]]
-----------------------------------------------------------------------------
(* Start-up, the tick loop and sampling *)

MayFail(w) == w \in Flaky \/ disruptions < MaxDisruptions
Charge(w) ==
  disruptions' = IF w \in Flaky THEN disruptions ELSE disruptions + 1
Disrupt == disruptions < MaxDisruptions /\ disruptions' = disruptions + 1

Goto(o, phase) == pc' = [pc EXCEPT ![o] = phase]
Visited(o, w) == listed' = [listed EXCEPT ![o][w] = {}]
AllVisited(o) == \A w \in Workloads : listed[o][w] = {}

\* The kubelet starts the process, with empty memory.
Start(o) ==
  /\ pc[o] = "down"
  /\ Goto(o, "boot")
  /\ UNCHANGED <<now, template, api, state, listed, save, synced, taken,
                 disruptions>>

\* main: list the workloads to rehydrate; on an error, start fresh.
BootList(o) ==
  /\ pc[o] = "boot"
  /\ \/ /\ Goto(o, "rehydrate")
        /\ listed' = [listed EXCEPT ![o] = template]
        /\ UNCHANGED disruptions
     \/ Goto(o, "idle") /\ Disrupt /\ UNCHANGED listed
  /\ UNCHANGED <<now, template, api, state, save, synced, taken>>

\* Rehydrate, one workload: a failed Get skips it, an absent profile leaves
\* nothing to resume.
RehydrateOne(o, w) ==
  /\ pc[o] = "rehydrate"
  /\ listed[o][w] # {}
  /\ Visited(o, w)
  /\ \/ /\ state' = IF w \in stored
                    THEN [state EXCEPT ![o][w] = Rehydrated(@, status[w])]
                    ELSE state
        /\ synced' = [synced EXCEPT ![o] = @ \cup {w}]
        /\ UNCHANGED disruptions
     \/ MayFail(w) /\ Charge(w) /\ UNCHANGED <<state, synced>>
  /\ UNCHANGED <<now, template, api, pc, save, taken>>

RehydrateDone(o) ==
  /\ pc[o] = "rehydrate"
  /\ AllVisited(o)
  /\ Goto(o, "idle")
  /\ UNCHANGED <<now, template, api, state, listed, save, synced, taken,
                 disruptions>>

\* Tick: list the workloads; on an error, this tick is over.
TickList(o) ==
  /\ pc[o] = "idle"
  /\ \/ /\ Goto(o, "sampling")
        /\ listed' = [listed EXCEPT ![o] = template]
        /\ UNCHANGED disruptions
     \/ Disrupt /\ UNCHANGED <<pc, listed>>
  /\ UNCHANGED <<now, template, api, state, save, synced, taken>>

\* observeAndCheckpoint returns early: no samples, or the sampler failed.
SampleNothing(o, w) ==
  /\ pc[o] = "sampling"
  /\ listed[o][w] # {}
  /\ Visited(o, w)
  /\ UNCHANGED <<now, template, api, pc, state, save, synced, taken,
                 disruptions>>

\* Bug: the profile is built before the samples are folded in.
ObserveAndSaveOld(o, w, reading) ==
  /\ state' = [state EXCEPT ![o][w] = ObserveAll(@, reading)]
  /\ save' = [save EXCEPT ![o] =
                [of |-> w, containers |-> listed[o][w],
                 draft |-> BuildProfile(state[o][w], listed[o][w]),
                 fresh |-> FALSE]]
  /\ taken' = [taken EXCEPT ![w] =
                 [c \in Containers |->
                    IF c \in DOMAIN reading THEN Cap(@[c] + 1) ELSE @[c]]]

\* observeAndCheckpoint: fold the samples in, build the profile, call Save.
\* Pods may run containers the template does not name (injected sidecars).
ObserveAndCheckpoint(o, w, reading) ==
  LET live == ObserveAll(state[o][w], reading)
  IN /\ state' = [state EXCEPT ![o][w] = live]
     /\ save' = [save EXCEPT ![o] =
                   [of |-> w, containers |-> listed[o][w],
                    draft |-> BuildProfile(live, listed[o][w]),
                    fresh |-> FALSE]]
     /\ taken' = [taken EXCEPT ![w] =
                    [c \in Containers |->
                       IF c \in DOMAIN reading THEN Cap(@[c] + 1) ELSE @[c]]]

Observe(o, w) ==
  /\ pc[o] = "sampling"
  /\ listed[o][w] # {}
  /\ \E sampled \in SUBSET Containers \ {{}} :
     \E reading \in [sampled -> Readings] : ObserveAndCheckpoint(o, w, reading)
  /\ Visited(o, w)
  /\ Goto(o, "get")
  /\ UNCHANGED <<now, template, api, synced, disruptions>>

TickDone(o) ==
  /\ pc[o] = "sampling"
  /\ AllVisited(o)
  /\ Goto(o, "idle")
  /\ UNCHANGED <<now, template, api, state, listed, save, synced, taken,
                 disruptions>>
-----------------------------------------------------------------------------
(* dynamicStore.Save.  `fresh' says that the resourceVersion the instance   *)
(* carries is still the stored object's: the API server refuses a write     *)
(* that carries an older one.  An error ends the Save; Tick goes on.        *)

\* Bug: an error leaves the Save under way.
ReturnLeavingSave(o) == Goto(o, "sampling") /\ UNCHANGED save

Return(o) ==
  /\ Goto(o, "sampling")
  /\ save' = [save EXCEPT ![o] = None]

Proceed(o, phase, fresh) ==
  /\ Goto(o, phase)
  /\ save' = [save EXCEPT ![o].fresh = fresh]

\* Whoever carries a resourceVersion of w's object now carries an old one.
Outdate(sv, w) ==
  [p \in Operators |->
     IF sv[p] # None /\ sv[p].of = w THEN [sv[p] EXCEPT !.fresh = FALSE]
                                     ELSE sv[p]]

\* A call fails before it reaches the API server.
SaveFails(o) ==
  /\ pc[o] \in {"get", "create", "update", "status"}
  /\ MayFail(save[o].of)
  /\ Charge(save[o].of)
  /\ Return(o)
  /\ UNCHANGED <<now, template, api, state, listed, synced, taken>>

SaveGet(o) ==
  /\ pc[o] = "get"
  /\ IF save[o].of \in stored THEN Proceed(o, "update", TRUE)
                              ELSE Proceed(o, "create", FALSE)
  /\ UNCHANGED <<now, template, api, state, listed, synced, taken,
                 disruptions>>

\* Create stores no status.  It is refused if the object exists by now; and
\* its answer may be lost after the object was created.
SaveCreate(o) ==
  /\ pc[o] = "create"
  /\ IF save[o].of \in stored
       THEN Return(o) /\ UNCHANGED <<api, disruptions>>
       ELSE /\ stored' = stored \cup {save[o].of}
            /\ UNCHANGED status
            /\ \/ Proceed(o, "status", TRUE) /\ UNCHANGED disruptions
               \/ MayFail(save[o].of) /\ Charge(save[o].of) /\ Return(o)
  /\ UNCHANGED <<now, template, state, listed, synced, taken>>

\* Bug: the status is dropped, as by a plain Update (store.go:66-70).
UpdateWithoutStatus(o) ==
  /\ pc[o] = "update"
  /\ Return(o)
  /\ UNCHANGED <<now, template, api, state, listed, synced, taken,
                 disruptions>>

\* Update of spec and metadata.  Only spec.targetRef is in the spec, which a
\* profile never changes: accepted or not, the call leaves the object as it is.
SaveUpdate(o) ==
  /\ pc[o] = "update"
  /\ IF save[o].fresh THEN Proceed(o, "status", TRUE) ELSE Return(o)
  /\ UNCHANGED <<now, template, api, state, listed, synced, taken,
                 disruptions>>

\* UpdateStatus, with the resourceVersion that Create or Update returned.  If
\* its answer is lost the tick goes on all the same, so that outcome is not
\* told apart from success.
SaveStatus(o) ==
  /\ pc[o] = "status"
  /\ Goto(o, "sampling")
  /\ IF save[o].fresh
       THEN /\ status' = [status EXCEPT ![save[o].of] = save[o].draft]
            /\ save' = [Outdate(save, save[o].of) EXCEPT ![o] = None]
            /\ synced' = [synced EXCEPT ![o] = @ \cup {save[o].of}]
       ELSE /\ save' = [save EXCEPT ![o] = None]
            /\ UNCHANGED <<status, synced>>
  /\ UNCHANGED <<now, template, stored, state, listed, taken, disruptions>>
-----------------------------------------------------------------------------
(* The environment *)

Second ==
  /\ now < MaxNow
  /\ now' = now + 1
  /\ UNCHANGED <<template, api, pc, state, listed, save, synced, taken,
                 disruptions>>

\* The process dies or is stopped.  Run returns on ctx.Done without a last
\* checkpoint, so an orderly shutdown is no different.
Crash(o) ==
  /\ pc[o] # "down"
  /\ Disrupt
  /\ Goto(o, "down")
  /\ state' = [state EXCEPT ![o] = [w \in Workloads |-> NoContainers]]
  /\ listed' = [listed EXCEPT ![o] = [w \in Workloads |-> {}]]
  /\ save' = [save EXCEPT ![o] = None]
  /\ synced' = [synced EXCEPT ![o] = {}]
  /\ UNCHANGED <<now, template, api, taken>>

\* A workload is deleted, created again or rolled out with other containers.
Redeploy(w) ==
  /\ Disrupt
  /\ \E cs \in SUBSET Containers \ {template[w]} :
       template' = [template EXCEPT ![w] = cs]
  /\ UNCHANGED <<now, api, pc, state, listed, save, synced, taken>>

\* Somebody deletes a UsageProfile (kubectl, or kubetidy uninstall).
DeleteProfile(w) ==
  /\ w \in stored
  /\ Disrupt
  /\ stored' = stored \ {w}
  /\ status' = [status EXCEPT ![w] = EmptyStatus]
  /\ save' = Outdate(save, w)
  /\ UNCHANGED <<now, template, pc, state, listed, synced, taken>>
-----------------------------------------------------------------------------
Init ==
  /\ now = 1
  /\ template \in [Workloads -> SUBSET Containers \ {{}}]
  /\ stored = {}
  /\ status = [w \in Workloads |-> EmptyStatus]
  /\ pc = [o \in Operators |-> "down"]
  /\ state = [o \in Operators |-> [w \in Workloads |-> NoContainers]]
  /\ listed = [o \in Operators |-> [w \in Workloads |-> {}]]
  /\ save = [o \in Operators |-> None]
  /\ synced = [o \in Operators |-> {}]
  /\ taken = [w \in Workloads |-> [c \in Containers |-> 0]]
  /\ disruptions = 0

\* What the process does by itself, one call or loop step at a time.
Step(o) ==
  \/ Start(o) \/ BootList(o) \/ RehydrateDone(o) \/ TickList(o) \/ TickDone(o)
  \/ SaveGet(o) \/ SaveCreate(o) \/ SaveUpdate(o) \/ SaveStatus(o)
  \/ SaveFails(o)
  \/ \E w \in Workloads :
       RehydrateOne(o, w) \/ SampleNothing(o, w) \/ Observe(o, w)

Next ==
  \/ \E o \in Operators : Step(o) \/ Crash(o)
  \/ \E w \in Workloads : Redeploy(w) \/ DeleteProfile(w)
  \/ Second

Spec == Init /\ [][Next]_vars

\* The kubelet restarts the process and Run ticks forever (weak fairness of
\* Step).  A workload that keeps running is sampled with a result again and
\* again, however often metrics-server has nothing for it (strong fairness).
Fairness ==
  \A o \in Operators :
    /\ WF_vars(Step(o))
    /\ \A w \in Workloads : SF_vars(Observe(o, w))

FairSpec == Spec /\ Fairness
-----------------------------------------------------------------------------
(* Properties *)

Phases == {"down", "boot", "rehydrate", "idle", "sampling",
           "get", "create", "update", "status"}
Saving(o) == pc[o] \in {"get", "create", "update", "status"}

\* The types of the variables; a Save is under way exactly in its phases.
TypeOK ==
  /\ now \in Seconds
  /\ template \in [Workloads -> SUBSET Containers]
  /\ stored \in SUBSET Workloads
  /\ status \in [Workloads -> Status]
  /\ pc \in [Operators -> Phases]
  /\ state \in [Operators -> [Workloads -> Live]]
  /\ listed \in [Operators -> [Workloads -> SUBSET Containers]]
  /\ save \in [Operators -> Save \cup {None}]
  /\ \A o \in Operators : IF Saving(o) THEN save[o] \in Save ELSE save[o] = None
  /\ synced \in [Operators -> SUBSET Workloads]
  /\ taken \in [Workloads -> [Containers -> 0 .. MaxCount]]
  /\ disruptions \in 0 .. MaxDisruptions

Covers(big, small) == \A m \in Metrics : small[m] \subseteq big[m]

\* What the operator promises of its checkpoints (design/operator.md section 4,
\* "survives operator restarts"): a write never takes an observation away from
\* a stored profile, whatever crashed or failed before.  Excepted are the first
\* write about a workload that the instance did not read back when it started
\* (Rehydrate is best-effort), containers no longer in the template as listed,
\* and profiles somebody deletes.
KeepsHistory ==
  \A w \in Workloads : \A c \in DOMAIN status[w].containers :
    \/ w \notin stored'
    \/ \E o \in Operators :
         Saving(o) /\ save[o].of = w
         /\ (w \notin synced[o] \/ c \notin save[o].containers)
    \/ /\ c \in DOMAIN status[w].containers'
       /\ Covers(status[w].containers[c]', status[w].containers[c])
HistoryKept == [][KeepsHistory]_vars

InWindow(hist, from, to) ==
  \A m \in Metrics : \A s \in hist[m] : from <= s /\ s <= to

\* The window a profile claims, from observedSince to lastUpdated, covers every
\* observation in its histograms, and so does the slot kept per container in
\* memory.  Rehydrate replaces each container's slot by the profile's, so this
\* has to survive any number of restarts.
WindowCoversHistory ==
  /\ \A w \in Workloads : \A c \in DOMAIN status[w].containers :
       InWindow(status[w].containers[c],
                status[w].observedSince, status[w].lastUpdated)
  /\ \A o \in Operators, w \in Workloads : \A c \in DOMAIN state[o][w] :
       InWindow(state[o][w][c].hist, state[o][w][c].observedSlot, now)

\* usageprofile_types.go: "SampleCount is the total number of usage samples
\* folded into the history": a stored count never exceeds the samples that
\* were really taken of the workload's containers.
SampleCountSound ==
  \A w \in Workloads :
    status[w].sampleCount <= Total(taken[w], Containers)

Durable(w, c, m, s) ==
  /\ c \in DOMAIN status[w].containers
  /\ s \in status[w].containers[c][m]

\* Every observation an instance has folded in reaches the stored profile,
\* whatever call failed at first, unless the instance dies or the container
\* leaves the template: a failed Save (also one that left an empty profile) is
\* made good by a later tick, and workloads whose calls always fail do not
\* keep the others from being checkpointed.
EventuallyDurable ==
  \A o \in Operators, w \in Workloads \ Flaky, c \in Containers, m \in Metrics,
     s \in Seconds :
    (c \in DOMAIN state[o][w] /\ s \in state[o][w][c].hist[m])
      ~> (pc[o] = "down" \/ c \notin template[w] \/ Durable(w, c, m, s))
=============================================================================
