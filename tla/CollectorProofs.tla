--------------------------- MODULE CollectorProofs ---------------------------
(***************************************************************************)
(* Theorems about Collector, for every value of its constants: the types,  *)
(* what readers of the profiles see, and that a single instance of the     *)
(* operator implements DurableHistory.                                     *)
(***************************************************************************)
EXTENDS CollectorRefinement, FiniteSetTheorems, WellFoundedInduction, TLAPS
-----------------------------------------------------------------------------
(* Data *)

LEMMA EarliestIsLeast ==
  ASSUME NEW S \in SUBSET Nat, S # {}
  PROVE  Earliest(S) \in S /\ \A t \in S : Earliest(S) <= t
<1>1. PICK x \in S : \A y \in S : ~(<<y, x>> \in OpToRel(<, Nat))
  BY NatLessThanWellFounded, WFMin
<1>2. ASSUME NEW y \in S
      PROVE  ~(y < x)
  <2>1. ~(<<y, x>> \in OpToRel(<, Nat))
    BY <1>1, Zenon
  <2>2. <<y, x>> \in Nat \X Nat /\ <<y, x>>[1] = y /\ <<y, x>>[2] = x
    OBVIOUS
  <2>. QED  BY <2>1, <2>2, Zenon DEF OpToRel
<1>3. \A y \in S : x <= y
  BY <1>2
<1>. QED  BY <1>3 DEF Earliest

LEMMA CapBounds ==
  ASSUME NEW n \in Nat
  PROVE  Cap(n) \in 0 .. MaxCount /\ Cap(n) <= n
BY BoundsAreNaturals DEF Cap

LEMMA TotalType ==
  ASSUME NEW S, IsFiniteSet(S), NEW f, \A c \in S : f[c] \in Nat
  PROVE  Total(f, S) \in Nat
<1>. DEFINE Counts == {{c} \X (1 .. f[c]) : c \in S}
<1>1. IsFiniteSet(Counts)
  <2>. DEFINE g == [c \in S |-> {c} \X (1 .. f[c])]
  <2>1. g \in [S -> Counts] /\ \A T \in Counts : \E c \in S : g[c] = T
    OBVIOUS
  <2>. HIDE DEF g, Counts
  <2>2. g \in Surjection(S, Counts)
    BY <2>1 DEF Surjection
  <2>. QED  BY <2>2, FS_Surjection, Zenon
<1>2. ASSUME NEW T \in Counts
      PROVE  IsFiniteSet(T)
  <2>1. PICK c \in S : T = {c} \X (1 .. f[c])
    OBVIOUS
  <2>2. IsFiniteSet({c}) /\ IsFiniteSet(1 .. f[c])
    <3>1. f[c] \in Int /\ 1 \in Int
      OBVIOUS
    <3>. QED  BY <3>1, FS_Singleton, FS_Interval
  <2>3. IsFiniteSet({c} \X (1 .. f[c]))
    BY <2>2, FS_Product, Zenon
  <2>. QED  BY <2>1, <2>3
<1>3. IsFiniteSet(UNION Counts)
  BY <1>1, <1>2, FS_UNION
<1>. QED  BY <1>3, FS_CardinalityType DEF Total

LEMMA TotalOfOne ==
  ASSUME NEW f, NEW c, f[c] \in Nat
  PROVE  Total(f, {c}) = f[c]
<1>1. UNION {{d} \X (1 .. f[d]) : d \in {c}} = {c} \X (1 .. f[c])
  OBVIOUS
<1>2. IsFiniteSet({c}) /\ Cardinality({c}) = 1
  BY FS_Singleton
<1>3. IsFiniteSet(1 .. f[c]) /\ Cardinality(1 .. f[c]) = f[c]
  BY FS_Interval
<1>4. Cardinality({c} \X (1 .. f[c])) = Cardinality({c}) * Cardinality(1 .. f[c])
  BY <1>2, <1>3, FS_Product, Zenon
<1>. QED  BY <1>1, <1>2, <1>3, <1>4 DEF Total

LEMMA TotalOfNone ==
  ASSUME NEW f
  PROVE  Total(f, {}) = 0
<1>1. UNION {{d} \X (1 .. f[d]) : d \in {}} = {}
  OBVIOUS
<1>. QED  BY <1>1, FS_EmptySet DEF Total

\* A partial function is a function on its domain.
LEMMA PartialFcnIntro ==
  ASSUME NEW S, NEW T, NEW D \in SUBSET S, NEW g \in [D -> T]
  PROVE  g \in PartialFcn(S, T)
BY Zenon DEF PartialFcn

LEMMA PartialFcnElim ==
  ASSUME NEW S, NEW T, NEW g \in PartialFcn(S, T)
  PROVE  DOMAIN g \in SUBSET S /\ g \in [DOMAIN g -> T]
<1>1. PICK D \in SUBSET S : g \in [D -> T]
  BY DEF PartialFcn
<1>2. DOMAIN g = D
  BY <1>1
<1>. QED  BY <1>1, <1>2, Zenon

LEMMA EmptyTypes ==
  /\ NoContainers \in Live
  /\ DOMAIN NoContainers = {}
  /\ EmptyStatus \in Status
<1>1. NoContainers \in Live /\ NoContainers \in PartialFcn(Containers, History)
  <2>1. {} \in SUBSET Containers
    OBVIOUS
  <2>2. NoContainers \in [{} -> ContainerState] /\ NoContainers \in [{} -> History]
    BY DEF NoContainers
  <2>. QED  BY <2>1, <2>2, PartialFcnIntro, Zenon DEF Live
<1>2. DOMAIN NoContainers = {}
  BY DEF NoContainers
<1>3. EmptyStatus \in Status
  <2>1. 0 \in 0 .. MaxNow /\ 0 \in 0 .. MaxCount
    BY BoundsAreNaturals
  <2>. QED  BY <1>1, <2>1 DEF EmptyStatus, Status
<1>. QED  BY <1>1, <1>2, <1>3

LEMMA FoldType ==
  ASSUME NEW s \in ContainerState, NEW positive \in SUBSET Metrics,
         now \in Seconds
  PROVE  /\ Fold(s, positive) \in ContainerState
         /\ Fold(s, positive).observedSlot = s.observedSlot
         /\ Fold(s, positive).observed = Cap(s.observed + 1)
         /\ \A m \in Metrics : Fold(s, positive).hist[m] =
              IF m \in positive THEN s.hist[m] \cup {now} ELSE s.hist[m]
<1>1. s.observed \in Nat /\ Cap(s.observed + 1) \in 0 .. MaxCount
  BY BoundsAreNaturals, CapBounds DEF ContainerState
<1>2. DOMAIN s.hist = Metrics /\ \A m \in Metrics : s.hist[m] \in SUBSET Seconds
  BY DEF ContainerState, History
<1>. QED  BY <1>1, <1>2 DEF Fold, ContainerState, History

LEMMA StateForType ==
  ASSUME NEW live \in Live, NEW c \in Containers, now \in Seconds
  PROVE  StateFor(live, c) \in ContainerState
<1>1. CASE c \in DOMAIN live
  BY <1>1, PartialFcnElim DEF StateFor, Live
<1>2. CASE c \notin DOMAIN live
  <2>1. 0 \in 0 .. MaxCount
    BY BoundsAreNaturals
  <2>. QED  BY <1>2, <2>1 DEF StateFor, ContainerState, History
<1>. QED  BY <1>1, <1>2

LEMMA ObserveAllType ==
  ASSUME NEW live \in Live, NEW sampled \in SUBSET Containers,
         NEW reading \in [sampled -> Readings], now \in Seconds
  PROVE  /\ ObserveAll(live, reading) \in Live
         /\ DOMAIN ObserveAll(live, reading) = DOMAIN live \cup sampled
<1>. DEFINE D == DOMAIN live \cup sampled
<1>1. DOMAIN live \in SUBSET Containers /\ live \in [DOMAIN live -> ContainerState]
  BY PartialFcnElim DEF Live
<1>2. \A c \in sampled : Fold(StateFor(live, c), reading[c]) \in ContainerState
  BY ReadingsAreMetrics, StateForType, FoldType
<1>3. DOMAIN reading = sampled
  OBVIOUS
<1>4. ObserveAll(live, reading) \in [D -> ContainerState]
  BY <1>1, <1>2, <1>3 DEF ObserveAll
<1>5. D \in SUBSET Containers
  BY <1>1
<1>. QED  BY <1>4, <1>5, PartialFcnIntro DEF Live

LEMMA StatusIntro ==
  ASSUME NEW since \in 0 .. MaxNow, NEW updated \in 0 .. MaxNow,
         NEW count \in 0 .. MaxCount,
         NEW cs \in PartialFcn(Containers, History)
  PROVE  [observedSince |-> since, lastUpdated |-> updated,
          sampleCount |-> count, containers |-> cs] \in Status
BY DEF Status

LEMMA BuildProfileType ==
  ASSUME NEW live \in Live, NEW cs \in SUBSET Containers, now \in Seconds
  PROVE  /\ BuildProfile(live, cs) \in Status
         /\ DOMAIN BuildProfile(live, cs).containers = cs \cap DOMAIN live
         /\ \A c \in cs \cap DOMAIN live :
              /\ BuildProfile(live, cs).containers[c] = live[c].hist
              /\ BuildProfile(live, cs).observedSince \in Seconds
              /\ BuildProfile(live, cs).observedSince <= live[c].observedSlot
<1>. DEFINE known == cs \cap DOMAIN live
            slots == {live[c].observedSlot : c \in known}
            count == [c \in known |-> live[c].observed]
<1>1. DOMAIN live \in SUBSET Containers /\ live \in [DOMAIN live -> ContainerState]
  BY PartialFcnElim DEF Live
<1>2. \A c \in known : live[c].hist \in History /\ live[c].observed \in Nat
                         /\ live[c].observedSlot \in Seconds
  BY <1>1, BoundsAreNaturals DEF ContainerState
<1>3. known # {} => /\ Earliest(slots) \in Seconds
                    /\ \A c \in known : Earliest(slots) <= live[c].observedSlot
  <2>1. slots \in SUBSET Seconds
    BY <1>2
  <2>2. slots \in SUBSET Nat
    BY <2>1 DEF Seconds
  <2>3. known # {} => slots # {}
    OBVIOUS
  <2>4. slots # {} => Earliest(slots) \in slots /\ \A t \in slots : Earliest(slots) <= t
    <3>. HIDE DEF slots
    <3>. QED  BY <2>2, EarliestIsLeast, Zenon
  <2>. QED  BY <2>1, <2>3, <2>4, Zenon
<1>4. Cap(Total(count, known)) \in 0 .. MaxCount
  <2>1. IsFiniteSet(known)
    BY <1>1, ContainersAreFinite, FS_Subset
  <2>2. Total(count, known) \in Nat
    BY <1>2, <2>1, TotalType
  <2>. QED  BY <2>2, CapBounds
<1>5. [c \in known |-> live[c].hist] \in PartialFcn(Containers, History)
  BY <1>1, <1>2, PartialFcnIntro
<1>6. now \in 0 .. MaxNow /\ 0 \in 0 .. MaxNow /\ Seconds \in SUBSET (0 .. MaxNow)
  BY BoundsAreNaturals DEF Seconds
<1>. HIDE DEF known, slots, count
<1>7. BuildProfile(live, cs) =
        [observedSince |-> IF known = {} THEN 0 ELSE Earliest(slots),
         lastUpdated   |-> now,
         sampleCount   |-> Cap(Total(count, known)),
         containers    |-> [c \in known |-> live[c].hist]]
  BY DEF BuildProfile, known, slots, count
<1>8. BuildProfile(live, cs) \in Status
  <2>1. (IF known = {} THEN 0 ELSE Earliest(slots)) \in 0 .. MaxNow
    BY <1>3, <1>6
  <2>. QED  BY <2>1, <1>4, <1>5, <1>6, <1>7, StatusIntro, Zenon
<1>9. /\ BuildProfile(live, cs).containers = [c \in known |-> live[c].hist]
      /\ known # {} => BuildProfile(live, cs).observedSince = Earliest(slots)
  BY <1>7
<1>10. \A c \in known : known # {}
  OBVIOUS
<1>11. known = cs \cap DOMAIN live
  BY DEF known
<1>12. DOMAIN BuildProfile(live, cs).containers = cs \cap DOMAIN live
  BY <1>9, <1>11
<1>13. ASSUME NEW c \in cs \cap DOMAIN live
       PROVE  /\ BuildProfile(live, cs).containers[c] = live[c].hist
              /\ BuildProfile(live, cs).observedSince \in Seconds
              /\ BuildProfile(live, cs).observedSince <= live[c].observedSlot
  BY <1>3, <1>9, <1>10, <1>11
<1>. QED  BY <1>8, <1>12, <1>13, Zenon

LEMMA RehydratedType ==
  ASSUME NEW live \in Live, NEW profile \in Status, now \in Seconds
  PROVE  /\ Rehydrated(live, profile) \in Live
         /\ DOMAIN Rehydrated(live, profile) =
              DOMAIN live \cup DOMAIN profile.containers
<1>. DEFINE D == DOMAIN live \cup DOMAIN profile.containers
<1>1. DOMAIN live \in SUBSET Containers /\ live \in [DOMAIN live -> ContainerState]
  BY PartialFcnElim DEF Live
<1>2. /\ DOMAIN profile.containers \in SUBSET Containers
      /\ profile.containers \in [DOMAIN profile.containers -> History]
  BY PartialFcnElim DEF Status
<1>3. /\ profile.sampleCount \in 0 .. MaxCount
      /\ profile.observedSince # 0 => profile.observedSince \in Seconds
  BY BoundsAreNaturals DEF Status, Seconds
<1>4. Rehydrated(live, profile) \in [D -> ContainerState]
  BY <1>1, <1>2, <1>3 DEF Rehydrated, ContainerState
<1>. QED  BY <1>1, <1>2, <1>4, PartialFcnIntro DEF Live
-----------------------------------------------------------------------------
(* Types *)

LEMMA InitType == Init => TypeOK
<1>. SUFFICES ASSUME Init PROVE TypeOK
  OBVIOUS
<1>1. 1 \in Seconds /\ 0 \in 0 .. MaxCount /\ 0 \in 0 .. MaxDisruptions
  BY BoundsAreNaturals DEF Seconds
<1>. QED  BY <1>1, EmptyTypes DEF Init, TypeOK, Phases, Saving, Live

LEMMA ChargeType ==
  ASSUME TypeOK, NEW w \in Workloads, MayFail(w), Charge(w)
  PROVE  disruptions' \in 0 .. MaxDisruptions
BY BoundsAreNaturals DEF TypeOK, MayFail, Charge

LEMMA DisruptType ==
  ASSUME TypeOK, Disrupt
  PROVE  disruptions' \in 0 .. MaxDisruptions
BY BoundsAreNaturals DEF TypeOK, Disrupt

\* Losing a resourceVersion changes nothing but `fresh'.
LEMMA OutdateType ==
  ASSUME TypeOK, NEW w \in Workloads
  PROVE  /\ Outdate(save, w) \in [Operators -> Save \cup {None}]
         /\ \A o \in Operators :
              IF Saving(o)
                THEN /\ Outdate(save, w)[o] \in Save
                     /\ Outdate(save, w)[o].of = save[o].of
                     /\ Outdate(save, w)[o].containers = save[o].containers
                     /\ Outdate(save, w)[o].draft = save[o].draft
                ELSE Outdate(save, w)[o] = None
<1>1. ASSUME NEW o \in Operators
      PROVE  /\ Outdate(save, w)[o] \in Save \cup {None}
             /\ IF Saving(o)
                  THEN /\ Outdate(save, w)[o] \in Save
                       /\ Outdate(save, w)[o].of = save[o].of
                       /\ Outdate(save, w)[o].containers = save[o].containers
                       /\ Outdate(save, w)[o].draft = save[o].draft
                  ELSE Outdate(save, w)[o] = None
  <2>1. Outdate(save, w)[o] =
          IF save[o] # None /\ save[o].of = w
            THEN [save[o] EXCEPT !.fresh = FALSE] ELSE save[o]
    BY DEF Outdate
  <2>2. CASE Saving(o)
    BY <2>1, <2>2 DEF TypeOK, Save
  <2>3. CASE ~Saving(o)
    BY <2>1, <2>3 DEF TypeOK
  <2>. QED  BY <2>2, <2>3
<1>2. Outdate(save, w) = [o \in Operators |-> Outdate(save, w)[o]]
  BY DEF Outdate
<1>. QED  BY <1>1, <1>2

SaveTyped ==
  /\ save \in [Operators -> Save \cup {None}]
  /\ \A o \in Operators : IF Saving(o) THEN save[o] \in Save ELSE save[o] = None

LEMMA ProceedType ==
  ASSUME TypeOK, NEW o \in Operators, Saving(o), NEW fresh \in BOOLEAN,
         NEW phase \in {"get", "create", "update", "status"},
         Proceed(o, phase, fresh)
  PROVE  pc' \in [Operators -> Phases] /\ SaveTyped'
<1>1. save[o] \in Save
  BY DEF TypeOK
<1>2. [save[o] EXCEPT !.fresh = fresh] \in Save
  BY <1>1 DEF Save
<1>3. pc' = [pc EXCEPT ![o] = phase]
      /\ save' = [save EXCEPT ![o] = [save[o] EXCEPT !.fresh = fresh]]
  BY DEF Proceed, Goto, TypeOK
<1>. QED  BY <1>2, <1>3 DEF TypeOK, SaveTyped, Saving, Phases

LEMMA ReturnType ==
  ASSUME TypeOK, NEW o \in Operators, Return(o)
  PROVE  pc' \in [Operators -> Phases] /\ SaveTyped'
BY DEF TypeOK, SaveTyped, Saving, Phases, Return, Goto

LEMMA SavingType ==
  ASSUME TypeOK, NEW o \in Operators, Saving(o)
  PROVE  /\ save[o] \in Save
         /\ save[o].of \in Workloads
         /\ save[o].containers \in SUBSET Containers
         /\ save[o].draft \in Status
BY DEF TypeOK, Save

LEMMA ObserveType ==
  ASSUME TypeOK, NEW o \in Operators, NEW w \in Workloads,
         NEW sampled \in SUBSET Containers,
         NEW reading \in [sampled -> Readings],
         ObserveAndCheckpoint(o, w, reading), Goto(o, "get")
  PROVE  /\ pc' \in [Operators -> Phases]
         /\ state' \in [Operators -> [Workloads -> Live]]
         /\ SaveTyped'
         /\ taken' \in [Workloads -> [Containers -> 0 .. MaxCount]]
<1>. DEFINE live == ObserveAll(state[o][w], reading)
            draft == BuildProfile(live, listed[o][w])
            new == [of |-> w, containers |-> listed[o][w], draft |-> draft,
                    fresh |-> FALSE]
<1>1. /\ state' = [state EXCEPT ![o][w] = live]
      /\ save' = [save EXCEPT ![o] = new]
      /\ taken' = [taken EXCEPT ![w] =
                     [c \in Containers |->
                        IF c \in sampled THEN Cap(@[c] + 1) ELSE @[c]]]
  BY DEF ObserveAndCheckpoint
<1>2. live \in Live
  <2>1. state[o][w] \in Live /\ now \in Seconds
    BY DEF TypeOK
  <2>. QED  BY <2>1, ObserveAllType
<1>. HIDE DEF live
<1>3. listed[o][w] \in SUBSET Containers /\ now \in Seconds
  BY DEF TypeOK
<1>4. draft \in Status
  BY <1>2, <1>3, BuildProfileType
<1>. HIDE DEF draft
<1>5. new \in Save
  BY <1>3, <1>4 DEF Save
<1>. HIDE DEF new
<1>6. state' \in [Operators -> [Workloads -> Live]]
  BY <1>1, <1>2 DEF TypeOK
<1>7. taken' \in [Workloads -> [Containers -> 0 .. MaxCount]]
  <2>1. taken \in [Workloads -> [Containers -> 0 .. MaxCount]]
    BY DEF TypeOK
  <2>2. \A c \in Containers : Cap(taken[w][c] + 1) \in 0 .. MaxCount
    BY <2>1, BoundsAreNaturals, CapBounds
  <2>. QED  BY <1>1, <2>1, <2>2
<1>. QED  BY <1>1, <1>5, <1>6, <1>7 DEF TypeOK, SaveTyped, Saving, Phases, Goto

LEMMA StepType ==
  ASSUME TypeOK, NEW o \in Operators, Step(o)
  PROVE  TypeOK'
<1>1. ASSUME Start(o) \/ RehydrateDone(o) \/ TickDone(o)
      PROVE  TypeOK'
  BY <1>1 DEF Start, RehydrateDone, TickDone, TypeOK, Phases, Saving, Goto, api
<1>2. ASSUME BootList(o) \/ TickList(o)
      PROVE  TypeOK'
  BY <1>2, DisruptType
     DEF BootList, TickList, TypeOK, Phases, Saving, Goto, api
<1>3. CASE SaveGet(o)
  <2>1. pc' \in [Operators -> Phases] /\ SaveTyped'
    BY <1>3, ProceedType DEF SaveGet, Saving
  <2>. QED  BY <1>3, <2>1 DEF SaveGet, SaveTyped, TypeOK, api
<1>4. CASE SaveCreate(o)
  <2>1. Saving(o) /\ save[o].of \in Workloads
    BY <1>4, SavingType DEF SaveCreate, Saving
  <2>2. disruptions' \in 0 .. MaxDisruptions
    BY <1>4, <2>1, ChargeType DEF SaveCreate, TypeOK
  <2>3. pc' \in [Operators -> Phases] /\ SaveTyped'
    BY <1>4, <2>1, ProceedType, ReturnType DEF SaveCreate
  <2>4. stored' \in SUBSET Workloads /\ status' = status
    BY <1>4, <2>1 DEF SaveCreate, TypeOK, api
  <2>. QED  BY <1>4, <2>2, <2>3, <2>4 DEF SaveCreate, SaveTyped, TypeOK
<1>5. CASE SaveUpdate(o)
  <2>1. pc' \in [Operators -> Phases] /\ SaveTyped'
    BY <1>5, ProceedType, ReturnType DEF SaveUpdate, Saving
  <2>. QED  BY <1>5, <2>1 DEF SaveUpdate, SaveTyped, TypeOK, api
<1>6. CASE SaveStatus(o)
  <2>1. Saving(o) /\ save[o].of \in Workloads /\ save[o].draft \in Status
    BY <1>6, SavingType DEF SaveStatus, Saving
  <2>2. status' \in [Workloads -> Status] /\ synced' \in [Operators -> SUBSET Workloads]
    <3>1. CASE save[o].fresh
      <4>1. /\ status' = [status EXCEPT ![save[o].of] = save[o].draft]
            /\ synced' = [synced EXCEPT ![o] = @ \cup {save[o].of}]
        BY <1>6, <3>1 DEF SaveStatus
      <4>2. /\ status \in [Workloads -> Status]
            /\ synced \in [Operators -> SUBSET Workloads]
        BY DEF TypeOK
      <4>3. status' \in [Workloads -> Status]
        BY <2>1, <4>1, <4>2
      <4>. QED  BY <2>1, <4>1, <4>2, <4>3
    <3>2. CASE ~save[o].fresh
      BY <1>6, <3>2 DEF SaveStatus, TypeOK
    <3>. QED  BY <3>1, <3>2
  <2>3. pc' \in [Operators -> Phases] /\ SaveTyped'
    <3>1. CASE save[o].fresh
      <4>1. save' = [Outdate(save, save[o].of) EXCEPT ![o] = None]
            /\ pc' = [pc EXCEPT ![o] = "sampling"]
        BY <1>6, <3>1 DEF SaveStatus, Goto
      <4>2. pc \in [Operators -> Phases]
        BY DEF TypeOK
      <4>. QED  BY <2>1, <4>1, <4>2, OutdateType DEF SaveTyped, Saving, Phases
    <3>2. CASE ~save[o].fresh
      BY <1>6, <3>2, ReturnType DEF SaveStatus, Return
    <3>. QED  BY <3>1, <3>2
  <2>. QED  BY <1>6, <2>2, <2>3 DEF SaveStatus, SaveTyped, TypeOK
<1>7. CASE SaveFails(o)
  <2>1. save[o].of \in Workloads
    BY <1>7, SavingType DEF SaveFails, Saving
  <2>2. disruptions' \in 0 .. MaxDisruptions
    BY <1>7, <2>1, ChargeType DEF SaveFails
  <2>3. pc' \in [Operators -> Phases] /\ SaveTyped'
    BY <1>7, ReturnType DEF SaveFails
  <2>. QED  BY <1>7, <2>2, <2>3 DEF SaveFails, SaveTyped, TypeOK, api
<1>8. ASSUME NEW w \in Workloads, RehydrateOne(o, w)
      PROVE  TypeOK'
  <2>1. disruptions' \in 0 .. MaxDisruptions
    BY <1>8, ChargeType DEF RehydrateOne, TypeOK
  <2>2. Rehydrated(state[o][w], status[w]) \in Live
    <3>1. state[o][w] \in Live /\ status[w] \in Status /\ now \in Seconds
      BY DEF TypeOK
    <3>. QED  BY <3>1, RehydratedType
  <2>3. state' \in [Operators -> [Workloads -> Live]]
    <3>1. \/ state' = state
          \/ state' = [state EXCEPT ![o][w] = Rehydrated(state[o][w], status[w])]
      BY <1>8, Zenon DEF RehydrateOne
    <3>2. state \in [Operators -> [Workloads -> Live]]
      BY DEF TypeOK
    <3>. QED  BY <2>2, <3>1, <3>2
  <2>4. synced' \in [Operators -> SUBSET Workloads]
    <3>1. \/ synced' = synced
          \/ synced' = [synced EXCEPT ![o] = synced[o] \cup {w}]
      BY <1>8, Zenon DEF RehydrateOne
    <3>2. synced \in [Operators -> SUBSET Workloads]
      BY DEF TypeOK
    <3>. QED  BY <3>1, <3>2
  <2>5. listed' \in [Operators -> [Workloads -> SUBSET Containers]]
    BY <1>8 DEF RehydrateOne, Visited, TypeOK
  <2>. QED  BY <1>8, <2>1, <2>3, <2>4, <2>5 DEF RehydrateOne, TypeOK, Saving, api
<1>9. ASSUME NEW w \in Workloads, SampleNothing(o, w)
      PROVE  TypeOK'
  BY <1>9 DEF SampleNothing, Visited, TypeOK, Saving, api
<1>10. ASSUME NEW w \in Workloads, Observe(o, w)
       PROVE  TypeOK'
  <2>1. /\ pc' \in [Operators -> Phases]
        /\ state' \in [Operators -> [Workloads -> Live]]
        /\ SaveTyped'
        /\ taken' \in [Workloads -> [Containers -> 0 .. MaxCount]]
    BY <1>10, ObserveType DEF Observe
  <2>. QED  BY <1>10, <2>1 DEF Observe, Visited, SaveTyped, TypeOK, api
<1>. QED
  BY <1>1, <1>2, <1>3, <1>4, <1>5, <1>6, <1>7, <1>8, <1>9, <1>10 DEF Step

LEMMA EnvironmentType ==
  ASSUME TypeOK,
         \/ Second
         \/ \E o \in Operators : Crash(o)
         \/ \E w \in Workloads : Redeploy(w) \/ DeleteProfile(w)
  PROVE  TypeOK'
<1>. USE DEF TypeOK, Phases, Saving, Goto, api
<1>1. CASE Second
  BY <1>1, BoundsAreNaturals DEF Second, Seconds
<1>2. ASSUME NEW o \in Operators, Crash(o)
      PROVE  TypeOK'
  BY <1>2, DisruptType, EmptyTypes DEF Crash, Live
<1>3. ASSUME NEW w \in Workloads, Redeploy(w)
      PROVE  TypeOK'
  BY <1>3, DisruptType DEF Redeploy
<1>4. ASSUME NEW w \in Workloads, DeleteProfile(w)
      PROVE  TypeOK'
  BY <1>4, DisruptType, EmptyTypes, OutdateType DEF DeleteProfile
<1>. QED  BY <1>1, <1>2, <1>3, <1>4

LEMMA NextType == TypeOK /\ [Next]_vars => TypeOK'
<1>. SUFFICES ASSUME TypeOK, [Next]_vars PROVE TypeOK'
  OBVIOUS
<1>1. CASE UNCHANGED vars
  BY <1>1 DEF vars, TypeOK, Saving
<1>2. CASE Next
  BY <1>2, StepType, EnvironmentType DEF Next
<1>. QED  BY <1>1, <1>2

\* The variables keep their types in every behaviour, and a Save is under way
\* exactly while its calls are made.
THEOREM TypeCorrect == Spec => []TypeOK
BY InitType, NextType, PTL DEF Spec
-----------------------------------------------------------------------------
(* What a step may change of what the invariants are about *)

\* A Save under way is about what it was about before the step.
DraftsKept ==
  \A p \in Operators : Saving(p)' =>
    /\ Saving(p)
    /\ save'[p].of = save[p].of
    /\ save'[p].containers = save[p].containers
    /\ save'[p].draft = save[p].draft

Quiet ==
  /\ UNCHANGED <<status, state, synced, taken>>
  /\ now <= now'
  /\ stored \subseteq stored'
  /\ DraftsKept

LEMMA ProceedKeepsDrafts ==
  ASSUME TypeOK, NEW o \in Operators, Saving(o), NEW phase, NEW fresh,
         Proceed(o, phase, fresh)
  PROVE  DraftsKept
<1>1. /\ save[o] \in Save
      /\ save \in [Operators -> Save \cup {None}]
      /\ pc \in [Operators -> Phases]
  BY DEF TypeOK
<1>2. /\ pc' = [pc EXCEPT ![o] = phase]
      /\ save' = [save EXCEPT ![o] = [save[o] EXCEPT !.fresh = fresh]]
  BY <1>1 DEF Proceed, Goto
<1>3. ASSUME NEW p \in Operators, Saving(p)', p # o
      PROVE  Saving(p) /\ save'[p] = save[p]
  BY <1>1, <1>2, <1>3 DEF Saving
<1>4. /\ save'[o].of = save[o].of
      /\ save'[o].containers = save[o].containers
      /\ save'[o].draft = save[o].draft
  BY <1>1, <1>2 DEF Save
<1>. QED  BY <1>3, <1>4 DEF DraftsKept

\* The instance is in none of the phases of a Save after the step.
LEMMA IdleKeepsDrafts ==
  ASSUME TypeOK, NEW o \in Operators, NEW phase,
         phase \notin {"get", "create", "update", "status"},
         Goto(o, phase),
         \A p \in Operators \ {o} : save'[p] = save[p]
  PROVE  DraftsKept
BY DEF TypeOK, Goto, Saving, DraftsKept

LEMMA StepKinds ==
  ASSUME TypeOK, [Next]_vars
  PROVE  \/ Quiet
         \/ \E o \in Operators : SaveStatus(o) \/ Crash(o)
         \/ \E o \in Operators, w \in Workloads : RehydrateOne(o, w) \/ Observe(o, w)
         \/ \E w \in Workloads : DeleteProfile(w)
<1>1. now \in Nat
  BY DEF TypeOK, Seconds
<1>2. CASE UNCHANGED vars \/ Second \/ \E w \in Workloads : Redeploy(w)
  BY <1>1, <1>2 DEF vars, Second, Redeploy, Quiet, DraftsKept, Saving, api
<1>3. ASSUME NEW o \in Operators,
             \/ Start(o) \/ BootList(o) \/ RehydrateDone(o) \/ TickList(o)
             \/ TickDone(o)
      PROVE  Quiet
  <2>1. DraftsKept
    BY <1>3 DEF Start, BootList, RehydrateDone, TickList, TickDone, Goto,
                DraftsKept, Saving, TypeOK
  <2>. QED  BY <1>1, <1>3, <2>1
            DEF Start, BootList, RehydrateDone, TickList, TickDone, Quiet, api
<1>4. ASSUME NEW o \in Operators,
             SaveGet(o) \/ SaveCreate(o) \/ SaveUpdate(o) \/ SaveFails(o)
      PROVE  Quiet
  <2>1. Saving(o)
    BY <1>4 DEF SaveGet, SaveCreate, SaveUpdate, SaveFails, Saving
  <2>2. Return(o) \/ \E phase, fresh : Proceed(o, phase, fresh)
    BY <1>4 DEF SaveGet, SaveCreate, SaveUpdate, SaveFails
  <2>3. DraftsKept
    <3>1. ASSUME Return(o) PROVE DraftsKept
      BY <3>1, IdleKeepsDrafts DEF Return, TypeOK
    <3>. QED  BY <2>1, <2>2, <3>1, ProceedKeepsDrafts
  <2>4. UNCHANGED <<now, status, state, synced, taken>> /\ stored \subseteq stored'
    <3>1. CASE SaveGet(o)
      BY <3>1 DEF SaveGet, api
    <3>2. CASE SaveCreate(o)
      BY <3>2 DEF SaveCreate, api
    <3>3. CASE SaveUpdate(o)
      BY <3>3 DEF SaveUpdate, api
    <3>4. CASE SaveFails(o)
      BY <3>4 DEF SaveFails, api
    <3>. QED  BY <1>4, <3>1, <3>2, <3>3, <3>4
  <2>. QED  BY <1>1, <2>3, <2>4 DEF Quiet
<1>5. ASSUME NEW o \in Operators, NEW w \in Workloads, SampleNothing(o, w)
      PROVE  Quiet
  BY <1>1, <1>5 DEF SampleNothing, Quiet, DraftsKept, Saving, api
<1>. QED  BY <1>2, <1>3, <1>4, <1>5 DEF Next, Step

LEMMA SaveStatusEffect ==
  ASSUME TypeOK, NEW o \in Operators, SaveStatus(o)
  PROVE  /\ DraftsKept
         /\ Saving(o) /\ save[o].of \in Workloads
         /\ UNCHANGED <<now, stored, state, taken>>
         /\ \/ UNCHANGED <<status, synced>>
            \/ /\ save[o].fresh
               /\ status' = [status EXCEPT ![save[o].of] = save[o].draft]
               /\ synced' = [synced EXCEPT ![o] = @ \cup {save[o].of}]
<1>1. Saving(o) /\ save[o].of \in Workloads
  BY SavingType DEF SaveStatus, Saving
<1>2. pc' = [pc EXCEPT ![o] = "sampling"] /\ pc \in [Operators -> Phases]
      /\ save \in [Operators -> Save \cup {None}]
  BY DEF SaveStatus, Goto, TypeOK
<1>3. ASSUME NEW p \in Operators, Saving(p)'
      PROVE  p # o /\ Saving(p)
  BY <1>2, <1>3 DEF Saving
<1>4. DraftsKept
  <2>1. CASE save[o].fresh
    <3>1. save' = [Outdate(save, save[o].of) EXCEPT ![o] = None]
      BY <2>1 DEF SaveStatus
    <3>2. \A p \in Operators \ {o} : save'[p] = Outdate(save, save[o].of)[p]
      BY <1>1, <3>1, OutdateType
    <3>. QED  BY <1>1, <1>3, <3>2, OutdateType DEF DraftsKept
  <2>2. CASE ~save[o].fresh
    <3>1. \A p \in Operators \ {o} : save'[p] = save[p]
      BY <1>2, <2>2 DEF SaveStatus
    <3>. QED  BY <1>3, <3>1 DEF DraftsKept
  <2>. QED  BY <2>1, <2>2
<1>. QED  BY <1>1, <1>4 DEF SaveStatus

LEMMA CrashEffect ==
  ASSUME TypeOK, NEW o \in Operators, Crash(o)
  PROVE  /\ DraftsKept
         /\ UNCHANGED <<now, stored, status, taken>>
         /\ state' = [state EXCEPT ![o] = [w \in Workloads |-> NoContainers]]
         /\ synced' = [synced EXCEPT ![o] = {}]
<1>1. DraftsKept
  BY IdleKeepsDrafts DEF Crash, TypeOK
<1>. QED  BY <1>1 DEF Crash, api

LEMMA DeleteEffect ==
  ASSUME TypeOK, NEW w \in Workloads, DeleteProfile(w)
  PROVE  /\ DraftsKept
         /\ UNCHANGED <<now, state, synced, taken>>
         /\ stored' = stored \ {w}
         /\ status' = [status EXCEPT ![w] = EmptyStatus]
<1>1. DraftsKept
  BY OutdateType DEF DeleteProfile, DraftsKept, Saving
<1>. QED  BY <1>1 DEF DeleteProfile

LEMMA RehydrateEffect ==
  ASSUME TypeOK, NEW o \in Operators, NEW w \in Workloads, RehydrateOne(o, w)
  PROVE  /\ DraftsKept
         /\ ~Saving(o)
         /\ UNCHANGED <<now, stored, status, taken, save, pc>>
         /\ \/ UNCHANGED <<state, synced>>
            \/ /\ state' = IF w \in stored
                           THEN [state EXCEPT ![o][w] = Rehydrated(state[o][w], status[w])]
                           ELSE state
               /\ synced' = [synced EXCEPT ![o] = synced[o] \cup {w}]
<1>1. /\ pc[o] = "rehydrate"
      /\ UNCHANGED <<now, stored, status, taken, save, pc>>
  BY DEF RehydrateOne, api
<1>2. DraftsKept /\ ~Saving(o)
  BY <1>1 DEF DraftsKept, Saving
<1>3. \/ UNCHANGED <<state, synced>>
      \/ /\ state' = IF w \in stored
                     THEN [state EXCEPT ![o][w] = Rehydrated(state[o][w], status[w])]
                     ELSE state
         /\ synced' = [synced EXCEPT ![o] = synced[o] \cup {w}]
  <2>1. state[o][w] = state[o][w] /\ synced[o] = synced[o]
    OBVIOUS
  <2>. QED  BY Zenon DEF RehydrateOne
<1>. QED  BY <1>1, <1>2, <1>3

-----------------------------------------------------------------------------
(* The window covers the history *)

ProfileInWindow(profile) ==
  \A c \in DOMAIN profile.containers :
    /\ profile.observedSince \in Seconds
    /\ profile.observedSince <= profile.lastUpdated
    /\ InWindow(profile.containers[c],
                profile.observedSince, profile.lastUpdated)
LiveInWindow(live) ==
  \A c \in DOMAIN live :
    /\ live[c].observedSlot <= now
    /\ InWindow(live[c].hist, live[c].observedSlot, now)

StoredInWindow ==
  \A w \in Workloads : ProfileInWindow(status[w]) /\ status[w].lastUpdated <= now
DraftInWindow ==
  \A o \in Operators : Saving(o) =>
    ProfileInWindow(save[o].draft) /\ save[o].draft.lastUpdated <= now
MemoryInWindow ==
  \A o \in Operators, w \in Workloads : LiveInWindow(state[o][w])

\* The strengthening of WindowCoversHistory: it has to hold of a draft too, and
\* no slot or profile is stamped with a time to come.
WindowInv == StoredInWindow /\ DraftInWindow /\ MemoryInWindow

LEMMA WindowGrows ==
  ASSUME NEW t \in Nat, NEW u \in Nat, t <= u, NEW from \in Nat,
         NEW hist \in History, InWindow(hist, from, t)
  PROVE  InWindow(hist, from, u)
BY DEF InWindow, History, Seconds

\* What Observe changes, given the samples.
Observed(o, w, sampled, reading) ==
  LET live == ObserveAll(state[o][w], reading)
  IN /\ UNCHANGED <<now, stored, status, synced>>
     /\ ~Saving(o)
     /\ live \in Live
     /\ DOMAIN live = DOMAIN state[o][w] \cup sampled
     /\ \A p \in Operators, v \in Workloads : state'[p][v] =
          IF p = o /\ v = w THEN live ELSE state[p][v]
     /\ \A p \in Operators \ {o} : Saving(p)' => Saving(p) /\ save'[p] = save[p]
     /\ save'[o].of = w
     /\ save'[o].containers = listed[o][w]
     /\ save'[o].draft = BuildProfile(live, listed[o][w])
     /\ taken' = [taken EXCEPT ![w] =
                    [c \in Containers |->
                       IF c \in sampled THEN Cap(@[c] + 1) ELSE @[c]]]

LEMMA ObserveEffect ==
  ASSUME TypeOK, NEW o \in Operators, NEW w \in Workloads, Observe(o, w)
  PROVE  \E sampled \in SUBSET Containers : \E reading \in [sampled -> Readings] :
           Observed(o, w, sampled, reading)
<1>1. PICK sampled \in SUBSET Containers \ {{}} :
        \E reading \in [sampled -> Readings] : ObserveAndCheckpoint(o, w, reading)
  BY DEF Observe
<1>2. PICK reading \in [sampled -> Readings] : ObserveAndCheckpoint(o, w, reading)
  BY <1>1
<1>. DEFINE live == ObserveAll(state[o][w], reading)
            draft == BuildProfile(live, listed[o][w])
            new == [of |-> w, containers |-> listed[o][w], draft |-> draft,
                    fresh |-> FALSE]
<1>3. /\ state' = [state EXCEPT ![o][w] = live]
      /\ save' = [save EXCEPT ![o] = new]
      /\ taken' = [taken EXCEPT ![w] =
                     [c \in Containers |->
                        IF c \in sampled THEN Cap(@[c] + 1) ELSE @[c]]]
  BY <1>2 DEF ObserveAndCheckpoint
<1>4. live \in Live /\ DOMAIN live = DOMAIN state[o][w] \cup sampled
  <2>1. state[o][w] \in Live /\ now \in Seconds
    BY DEF TypeOK
  <2>. QED  BY <2>1, ObserveAllType
<1>5. new.of = w /\ new.containers = listed[o][w] /\ new.draft = draft
  OBVIOUS
<1>. HIDE DEF live, draft, new
<1>6. \A p \in Operators, v \in Workloads : state'[p][v] =
        IF p = o /\ v = w THEN live ELSE state[p][v]
  BY <1>3 DEF TypeOK
<1>7. save'[o] = new /\ \A p \in Operators \ {o} : save'[p] = save[p]
  BY <1>3 DEF TypeOK
<1>8. ~Saving(o) /\ \A p \in Operators \ {o} : Saving(p)' => Saving(p)
  BY DEF Observe, Goto, Saving, TypeOK
<1>9. UNCHANGED <<now, stored, status, synced>>
  BY DEF Observe, api
<1>10. sampled \in SUBSET Containers
  OBVIOUS
<1>11. /\ \A p \in Operators \ {o} : Saving(p)' => Saving(p) /\ save'[p] = save[p]
       /\ save'[o].of = w
       /\ save'[o].containers = listed[o][w]
       /\ save'[o].draft = BuildProfile(live, listed[o][w])
  BY <1>5, <1>7, <1>8 DEF draft
<1>12. Observed(o, w, sampled, reading)
  BY <1>3, <1>4, <1>6, <1>8, <1>9, <1>11, Zenon DEF Observed, live
<1>. QED  BY <1>10, <1>12, Zenon

LEMMA ObserveAllInWindow ==
  ASSUME NEW live \in Live, NEW sampled \in SUBSET Containers,
         NEW reading \in [sampled -> Readings], now \in Seconds,
         LiveInWindow(live)
  PROVE  LiveInWindow(ObserveAll(live, reading))
<1>. DEFINE after == ObserveAll(live, reading)
<1>1. after = [c \in DOMAIN live \cup sampled |->
                 IF c \in sampled THEN Fold(StateFor(live, c), reading[c])
                                  ELSE live[c]]
  BY DEF ObserveAll
<1>2. now \in Nat
  BY DEF Seconds
<1>. HIDE DEF after
<1>3. ASSUME NEW c \in DOMAIN after
      PROVE  /\ after[c].observedSlot <= now
             /\ InWindow(after[c].hist, after[c].observedSlot, now)
  <2>1. CASE c \notin sampled
    BY <1>1, <2>1 DEF LiveInWindow
  <2>2. CASE c \in sampled
    <3>. DEFINE s == StateFor(live, c)
                t == Fold(s, reading[c])
    <3>1. after[c] = t /\ c \in Containers /\ reading[c] \in SUBSET Metrics
      BY <1>1, <2>2, ReadingsAreMetrics
    <3>2. s \in ContainerState
      BY <3>1, StateForType
    <3>3. InWindow(s.hist, s.observedSlot, now) /\ s.observedSlot <= now
      <4>1. CASE c \in DOMAIN live
        <5>1. s = live[c]
          BY <4>1 DEF StateFor
        <5>. QED  BY <4>1, <5>1 DEF LiveInWindow
      <4>2. CASE c \notin DOMAIN live
        BY <1>2, <4>2 DEF StateFor, InWindow
      <4>. QED  BY <4>1, <4>2
    <3>. HIDE DEF s
    <3>4. /\ t.observedSlot = s.observedSlot
          /\ \A m \in Metrics : t.hist[m] =
               IF m \in reading[c] THEN s.hist[m] \cup {now} ELSE s.hist[m]
      BY <3>1, <3>2, FoldType
    <3>. HIDE DEF t
    <3>5. ASSUME NEW m \in Metrics, NEW r \in t.hist[m]
          PROVE  r = now \/ (s.observedSlot <= r /\ r <= now)
      <4>1. r = now \/ r \in s.hist[m]
        BY <3>4
      <4>. QED  BY <3>3, <4>1, Zenon DEF InWindow
    <3>6. now <= now
      BY <1>2
    <3>7. InWindow(t.hist, s.observedSlot, now)
      BY <3>3, <3>5, <3>6, Zenon DEF InWindow
    <3>. QED  BY <3>1, <3>3, <3>4, <3>7
  <2>. QED  BY <2>1, <2>2
<1>. QED  BY <1>3 DEF LiveInWindow, after

LEMMA BuildProfileInWindow ==
  ASSUME NEW live \in Live, NEW cs \in SUBSET Containers, now \in Seconds,
         LiveInWindow(live)
  PROVE  /\ ProfileInWindow(BuildProfile(live, cs))
         /\ BuildProfile(live, cs).lastUpdated = now
<1>. DEFINE profile == BuildProfile(live, cs)
<1>1. profile.lastUpdated = now
  BY DEF BuildProfile
<1>2. /\ DOMAIN profile.containers = cs \cap DOMAIN live
      /\ \A c \in cs \cap DOMAIN live :
           /\ profile.containers[c] = live[c].hist
           /\ profile.observedSince \in Seconds
           /\ profile.observedSince <= live[c].observedSlot
  BY BuildProfileType
<1>. HIDE DEF profile
<1>3. ASSUME NEW c \in cs \cap DOMAIN live
      PROVE  /\ profile.observedSince <= now
             /\ InWindow(profile.containers[c], profile.observedSince, now)
  <2>1. /\ live[c].hist \in History
        /\ live[c].observedSlot \in Nat
        /\ now \in Nat
    <3>1. live[c] \in ContainerState
      BY PartialFcnElim DEF Live
    <3>. QED  BY <3>1 DEF ContainerState, Seconds
  <2>2. \A m \in Metrics : live[c].hist[m] \in SUBSET Nat
    BY <2>1 DEF History, Seconds
  <2>3. profile.observedSince \in Nat
    BY <1>2 DEF Seconds
  <2>. QED  BY <1>2, <2>1, <2>2, <2>3 DEF LiveInWindow, InWindow
<1>4. ProfileInWindow(profile)
  BY <1>1, <1>2, <1>3 DEF ProfileInWindow
<1>. QED  BY <1>1, <1>4 DEF profile

LEMMA RehydratedInWindow ==
  ASSUME NEW live \in Live, NEW profile \in Status, now \in Seconds,
         LiveInWindow(live), ProfileInWindow(profile),
         profile.lastUpdated <= now
  PROVE  LiveInWindow(Rehydrated(live, profile))
<1>. DEFINE after == Rehydrated(live, profile)
<1>1. after = [c \in DOMAIN live \cup DOMAIN profile.containers |->
                 IF c \in DOMAIN profile.containers
                   THEN [hist |-> profile.containers[c],
                         observed |-> profile.sampleCount,
                         observedSlot |-> IF profile.observedSince = 0 THEN now
                                          ELSE profile.observedSince]
                   ELSE live[c]]
  BY DEF Rehydrated
<1>. HIDE DEF after
<1>2. ASSUME NEW c \in DOMAIN after
      PROVE  /\ after[c].observedSlot <= now
             /\ InWindow(after[c].hist, after[c].observedSlot, now)
  <2>1. CASE c \in DOMAIN profile.containers
    <3>1. /\ profile.observedSince \in Nat \ {0}
          /\ profile.lastUpdated \in Nat /\ now \in Nat
          /\ profile.observedSince <= profile.lastUpdated
          /\ InWindow(profile.containers[c], profile.observedSince,
                      profile.lastUpdated)
      BY <2>1 DEF ProfileInWindow, Seconds, Status
    <3>2. /\ after[c].hist = profile.containers[c]
          /\ after[c].observedSlot = profile.observedSince
      BY <1>1, <2>1, <3>1
    <3>3. profile.containers[c] \in History
      BY <2>1, PartialFcnElim DEF Status
    <3>4. InWindow(profile.containers[c], profile.observedSince, now)
      BY <3>1, <3>3, WindowGrows
    <3>. QED  BY <3>1, <3>2, <3>4
  <2>2. CASE c \notin DOMAIN profile.containers
    BY <1>1, <2>2 DEF LiveInWindow
  <2>. QED  BY <2>1, <2>2
<1>. QED  BY <1>2 DEF LiveInWindow, after

LEMMA EmptyInWindow == ProfileInWindow(EmptyStatus) /\ LiveInWindow(NoContainers)
<1>1. EmptyStatus.containers = NoContainers
  BY DEF EmptyStatus
<1>. QED  BY <1>1, EmptyTypes DEF ProfileInWindow, LiveInWindow

LEMMA InitWindow == Init => WindowInv
<1>. SUFFICES ASSUME Init PROVE WindowInv
  OBVIOUS
<1>1. /\ now = 1
      /\ status = [w \in Workloads |-> EmptyStatus]
      /\ pc = [o \in Operators |-> "down"]
      /\ state = [o \in Operators |-> [w \in Workloads |-> NoContainers]]
  BY DEF Init
<1>2. EmptyStatus.lastUpdated = 0
  BY DEF EmptyStatus
<1>3. StoredInWindow
  BY <1>1, <1>2, EmptyInWindow DEF StoredInWindow
<1>4. DraftInWindow
  BY <1>1 DEF DraftInWindow, Saving
<1>5. MemoryInWindow
  BY <1>1, EmptyInWindow DEF MemoryInWindow
<1>. QED  BY <1>3, <1>4, <1>5 DEF WindowInv

\* Time passing keeps what is in the window in it.
LEMMA LiveLater ==
  ASSUME TypeOK, TypeOK', now <= now', NEW live \in Live, LiveInWindow(live)
  PROVE  \A c \in DOMAIN live :
           /\ live[c].observedSlot <= now'
           /\ InWindow(live[c].hist, live[c].observedSlot, now')
<1>. SUFFICES ASSUME NEW c \in DOMAIN live
              PROVE  /\ live[c].observedSlot <= now'
                     /\ InWindow(live[c].hist, live[c].observedSlot, now')
  OBVIOUS
<1>1. now \in Nat /\ now' \in Nat
  BY DEF TypeOK, Seconds
<1>2. live[c].hist \in History /\ live[c].observedSlot \in Nat
  <2>1. live[c] \in ContainerState
    BY PartialFcnElim DEF Live
  <2>. QED  BY <2>1 DEF ContainerState, Seconds
<1>3. live[c].observedSlot <= now /\ InWindow(live[c].hist, live[c].observedSlot, now)
  BY DEF LiveInWindow
<1>4. InWindow(live[c].hist, live[c].observedSlot, now')
  BY <1>1, <1>2, <1>3, WindowGrows
<1>. QED  BY <1>1, <1>2, <1>3, <1>4

LEMMA DraftStaysInWindow ==
  ASSUME TypeOK, TypeOK', DraftInWindow, DraftsKept, now <= now'
  PROVE  DraftInWindow'
<1>. SUFFICES ASSUME NEW p \in Operators, Saving(p)'
              PROVE  /\ ProfileInWindow(save'[p].draft)
                     /\ save'[p].draft.lastUpdated <= now'
  BY DEF DraftInWindow, ProfileInWindow
<1>1. save'[p].draft = save[p].draft /\ Saving(p)
  BY DEF DraftsKept
<1>2. save[p].draft.lastUpdated \in Nat /\ now \in Nat /\ now' \in Nat
  BY <1>1, SavingType DEF TypeOK, Status, Seconds
<1>3. ProfileInWindow(save[p].draft) /\ save[p].draft.lastUpdated <= now
  BY <1>1 DEF DraftInWindow
<1>. QED  BY <1>1, <1>2, <1>3

LEMMA NextWindow ==
  ASSUME TypeOK, TypeOK', WindowInv, [Next]_vars
  PROVE  WindowInv'
<1>1. /\ now \in Nat /\ now' \in Nat /\ now \in Seconds
      /\ status \in [Workloads -> Status]
      /\ state \in [Operators -> [Workloads -> Live]]
  BY DEF TypeOK, Seconds
<1>2. StoredInWindow /\ DraftInWindow /\ MemoryInWindow
  BY DEF WindowInv
<1>3. \A w \in Workloads : status[w].lastUpdated \in Nat
  BY <1>1 DEF Status
<1>4. CASE Quiet
  <2>1. status' = status /\ state' = state /\ now <= now' /\ DraftsKept
    BY <1>4 DEF Quiet
  <2>2. DraftInWindow'
    BY <1>2, <2>1, DraftStaysInWindow
  <2>3. StoredInWindow'
    BY <1>1, <1>2, <1>3, <2>1 DEF StoredInWindow, ProfileInWindow
  <2>4. MemoryInWindow'
    <3>1. ASSUME NEW o \in Operators, NEW w \in Workloads
          PROVE  \A c \in DOMAIN state[o][w] :
                   /\ state[o][w][c].observedSlot <= now'
                   /\ InWindow(state[o][w][c].hist, state[o][w][c].observedSlot, now')
      <4>1. state[o][w] \in Live /\ LiveInWindow(state[o][w])
        BY <1>1, <1>2 DEF MemoryInWindow
      <4>. QED  BY <2>1, <4>1, LiveLater
    <3>. QED  BY <2>1, <3>1 DEF MemoryInWindow, LiveInWindow
  <2>. QED  BY <2>2, <2>3, <2>4 DEF WindowInv
<1>5. ASSUME NEW o \in Operators, SaveStatus(o)
      PROVE  WindowInv'
  <2>1. /\ DraftsKept /\ Saving(o) /\ save[o].of \in Workloads
        /\ now' = now /\ state' = state
        /\ \/ status' = status
           \/ status' = [status EXCEPT ![save[o].of] = save[o].draft]
    BY <1>5, SaveStatusEffect
  <2>2. DraftInWindow'
    BY <1>1, <1>2, <2>1, DraftStaysInWindow
  <2>3. StoredInWindow'
    <3>1. ProfileInWindow(save[o].draft) /\ save[o].draft.lastUpdated <= now
      BY <1>2, <2>1 DEF DraftInWindow
    <3>2. \A w \in Workloads :
            status'[w] = status[w] \/ status'[w] = save[o].draft
      BY <1>1, <2>1
    <3>3. \A w \in Workloads :
            ProfileInWindow(status'[w]) /\ status'[w].lastUpdated <= now'
      BY <1>2, <2>1, <3>1, <3>2 DEF StoredInWindow
    <3>. QED  BY <3>3 DEF StoredInWindow, ProfileInWindow
  <2>4. MemoryInWindow'
    BY <1>2, <2>1 DEF MemoryInWindow, LiveInWindow
  <2>. QED  BY <2>2, <2>3, <2>4 DEF WindowInv
<1>6. ASSUME NEW o \in Operators, Crash(o)
      PROVE  WindowInv'
  <2>1. /\ DraftsKept /\ now' = now /\ status' = status
        /\ state' = [state EXCEPT ![o] = [w \in Workloads |-> NoContainers]]
    BY <1>6, CrashEffect
  <2>2. DraftInWindow' /\ StoredInWindow'
    BY <1>1, <1>2, <2>1, DraftStaysInWindow DEF StoredInWindow, ProfileInWindow
  <2>3. \A p \in Operators, w \in Workloads :
          state'[p][w] = state[p][w] \/ state'[p][w] = NoContainers
    BY <1>1, <2>1
  <2>4. \A p \in Operators, w \in Workloads : LiveInWindow(state'[p][w])
    BY <1>2, <2>3, EmptyInWindow DEF MemoryInWindow
  <2>5. MemoryInWindow'
    BY <2>1, <2>4 DEF MemoryInWindow, LiveInWindow
  <2>. QED  BY <2>2, <2>5 DEF WindowInv
<1>7. ASSUME NEW o \in Operators, NEW w \in Workloads, RehydrateOne(o, w)
      PROVE  WindowInv'
  <2>. DEFINE after == Rehydrated(state[o][w], status[w])
  <2>1. /\ DraftsKept /\ now' = now /\ status' = status
        /\ state' = state \/ state' = [state EXCEPT ![o][w] = after]
    BY <1>7, RehydrateEffect
  <2>2. DraftInWindow' /\ StoredInWindow'
    BY <1>1, <1>2, <2>1, DraftStaysInWindow DEF StoredInWindow, ProfileInWindow
  <2>3. LiveInWindow(after)
    <3>1. /\ state[o][w] \in Live /\ status[w] \in Status
          /\ LiveInWindow(state[o][w]) /\ ProfileInWindow(status[w])
          /\ status[w].lastUpdated <= now
      BY <1>1, <1>2 DEF MemoryInWindow, StoredInWindow
    <3>. QED  BY <1>1, <3>1, RehydratedInWindow
  <2>. HIDE DEF after
  <2>4. \A p \in Operators, v \in Workloads :
          state'[p][v] = state[p][v] \/ state'[p][v] = after
    BY <1>1, <2>1
  <2>5. \A p \in Operators, v \in Workloads : LiveInWindow(state'[p][v])
    BY <1>2, <2>3, <2>4 DEF MemoryInWindow
  <2>6. MemoryInWindow'
    BY <2>1, <2>5 DEF MemoryInWindow, LiveInWindow
  <2>. QED  BY <2>2, <2>6 DEF WindowInv
<1>8. ASSUME NEW o \in Operators, NEW w \in Workloads, Observe(o, w)
      PROVE  WindowInv'
  <2>1. PICK sampled \in SUBSET Containers : \E reading \in [sampled -> Readings] :
          Observed(o, w, sampled, reading)
    BY <1>8, ObserveEffect
  <2>2. PICK reading \in [sampled -> Readings] : Observed(o, w, sampled, reading)
    BY <2>1
  <2>. DEFINE live == ObserveAll(state[o][w], reading)
  <2>3. LiveInWindow(live)
    <3>1. state[o][w] \in Live /\ LiveInWindow(state[o][w])
      BY <1>1, <1>2 DEF MemoryInWindow
    <3>. QED  BY <1>1, <3>1, ObserveAllInWindow
  <2>4. live \in Live /\ listed[o][w] \in SUBSET Containers
    BY <2>2 DEF TypeOK, Observed
  <2>5. /\ now' = now /\ status' = status
        /\ \A p \in Operators, v \in Workloads : state'[p][v] =
             IF p = o /\ v = w THEN live ELSE state[p][v]
        /\ \A p \in Operators \ {o} : Saving(p)' => Saving(p) /\ save'[p] = save[p]
        /\ save'[o].draft = BuildProfile(live, listed[o][w])
    BY <2>2, Zenon DEF Observed
  <2>. HIDE DEF live
  <2>6. /\ ProfileInWindow(save'[o].draft)
        /\ save'[o].draft.lastUpdated <= now
    BY <1>1, <2>3, <2>4, <2>5, BuildProfileInWindow
  <2>7. \A p \in Operators : Saving(p)' =>
          ProfileInWindow(save'[p].draft) /\ save'[p].draft.lastUpdated <= now
    BY <1>2, <2>5, <2>6 DEF DraftInWindow
  <2>8. DraftInWindow'
    BY <2>5, <2>7 DEF DraftInWindow, ProfileInWindow
  <2>9. StoredInWindow'
    BY <1>2, <2>5 DEF StoredInWindow, ProfileInWindow
  <2>10. \A p \in Operators, v \in Workloads : LiveInWindow(state'[p][v])
    BY <1>2, <2>3, <2>5 DEF MemoryInWindow
  <2>11. MemoryInWindow'
    BY <2>5, <2>10 DEF MemoryInWindow, LiveInWindow
  <2>. QED  BY <2>8, <2>9, <2>11 DEF WindowInv
<1>9. ASSUME NEW w \in Workloads, DeleteProfile(w)
      PROVE  WindowInv'
  <2>1. /\ DraftsKept /\ now' = now /\ state' = state
        /\ status' = [status EXCEPT ![w] = EmptyStatus]
    BY <1>9, DeleteEffect
  <2>2. DraftInWindow' /\ MemoryInWindow'
    BY <1>1, <1>2, <2>1, DraftStaysInWindow DEF MemoryInWindow, LiveInWindow
  <2>3. \A v \in Workloads : status'[v] = status[v] \/ status'[v] = EmptyStatus
    BY <1>1, <2>1
  <2>4. EmptyStatus.lastUpdated <= now
    BY <1>1 DEF EmptyStatus
  <2>5. \A v \in Workloads :
          ProfileInWindow(status'[v]) /\ status'[v].lastUpdated <= now'
    BY <1>2, <2>1, <2>3, <2>4, EmptyInWindow DEF StoredInWindow
  <2>6. StoredInWindow'
    BY <2>5 DEF StoredInWindow, ProfileInWindow
  <2>. QED  BY <2>2, <2>6 DEF WindowInv
<1>. QED  BY <1>4, <1>5, <1>6, <1>7, <1>8, <1>9, StepKinds

\* In every behaviour, of any number of overlapping and crashing instances, the
\* window of a profile covers what its histograms hold, and so does the slot
\* kept per container in memory (Collector.buildProfile, Collector.Rehydrate).
THEOREM WindowCorrect == Spec => []WindowCoversHistory
<1>1. TypeOK /\ WindowInv => WindowCoversHistory
  BY DEF TypeOK, WindowInv, StoredInWindow, MemoryInWindow, ProfileInWindow,
         LiveInWindow, WindowCoversHistory
<1>2. TypeOK /\ TypeOK' /\ WindowInv /\ [Next]_vars => WindowInv'
  BY NextWindow
<1>. QED  BY <1>1, <1>2, InitWindow, TypeCorrect, PTL DEF Spec
-----------------------------------------------------------------------------
(* A single instance's memory is ahead of what is stored *)

OneInstance == \A o, p \in Operators : o = p

AbsentIsEmpty == \A w \in Workloads \ stored : status[w] = EmptyStatus
FreshIsStored ==
  \A o \in Operators : Saving(o) /\ save[o].fresh => save[o].of \in stored
MemoryAhead ==
  \A o \in Operators : \A w \in synced[o] :
    \A c \in DOMAIN status[w].containers :
      /\ c \in DOMAIN state[o][w]
      /\ Covers(state[o][w][c].hist, status[w].containers[c])
DraftIsMemory ==
  \A o \in Operators : Saving(o) =>
    /\ DOMAIN save[o].draft.containers =
         save[o].containers \cap DOMAIN state[o][save[o].of]
    /\ \A c \in DOMAIN save[o].draft.containers :
         save[o].draft.containers[c] = state[o][save[o].of][c].hist

\* The strengthening behind HistoryKept: what is stored of a synced workload is
\* in memory, and a draft is the memory as it was when the draft was built.
AheadInv == AbsentIsEmpty /\ FreshIsStored /\ MemoryAhead /\ DraftIsMemory

LEMMA InitAhead == Init => AheadInv
<1>. SUFFICES ASSUME Init PROVE AheadInv
  OBVIOUS
<1>1. /\ status = [w \in Workloads |-> EmptyStatus]
      /\ pc = [o \in Operators |-> "down"]
      /\ synced = [o \in Operators |-> {}]
  BY DEF Init
<1>. QED  BY <1>1 DEF AheadInv, AbsentIsEmpty, FreshIsStored, MemoryAhead,
                      DraftIsMemory, Saving

LEMMA ProceedFresh ==
  ASSUME TypeOK, FreshIsStored, NEW o \in Operators, Saving(o),
         NEW phase, NEW fresh, Proceed(o, phase, fresh),
         stored \subseteq stored', fresh => save[o].of \in stored'
  PROVE  FreshIsStored'
<1>1. /\ save[o] \in Save
      /\ save \in [Operators -> Save \cup {None}]
      /\ pc \in [Operators -> Phases]
  BY DEF TypeOK
<1>2. /\ pc' = [pc EXCEPT ![o] = phase]
      /\ save' = [save EXCEPT ![o] = [save[o] EXCEPT !.fresh = fresh]]
  BY <1>1 DEF Proceed, Goto
<1>3. save'[o].of = save[o].of /\ save'[o].fresh = fresh
  BY <1>1, <1>2 DEF Save
<1>4. ASSUME NEW p \in Operators, p # o, Saving(p)'
      PROVE  Saving(p) /\ save'[p] = save[p]
  BY <1>1, <1>2, <1>4 DEF Saving
<1>. QED  BY <1>3, <1>4 DEF FreshIsStored

\* No other Save than those kept as they are is under way after the step.
LEMMA KeptFresh ==
  ASSUME FreshIsStored, stored \subseteq stored',
         \A p \in Operators : Saving(p)' => Saving(p) /\ save'[p] = save[p]
  PROVE  FreshIsStored'
BY DEF FreshIsStored

LEMMA ReturnFresh ==
  ASSUME TypeOK, FreshIsStored, NEW o \in Operators, Return(o),
         stored \subseteq stored'
  PROVE  FreshIsStored'
<1>1. ASSUME NEW p \in Operators, Saving(p)'
      PROVE  Saving(p) /\ save'[p] = save[p]
  BY <1>1 DEF Return, Goto, Saving, TypeOK
<1>. QED  BY <1>1, KeptFresh

\* A write in the API server leaves only up-to-date resourceVersions fresh.
LEMMA OutdateFresh ==
  ASSUME TypeOK, NEW w \in Workloads, NEW p \in Operators,
         Saving(p), Outdate(save, w)[p].fresh
  PROVE  save[p].fresh /\ save[p].of # w
<1>1. save[p] \in Save /\ save[p] # None
  BY SavingType, NoneIsNoSave
<1>2. Outdate(save, w)[p] = IF save[p] # None /\ save[p].of = w
                              THEN [save[p] EXCEPT !.fresh = FALSE] ELSE save[p]
  BY DEF Outdate
<1>3. [save[p] EXCEPT !.fresh = FALSE].fresh = FALSE
  BY <1>1 DEF Save
<1>. QED  BY <1>1, <1>2, <1>3

LEMMA FreshStep ==
  ASSUME TypeOK, FreshIsStored, [Next]_vars
  PROVE  FreshIsStored'
<1>1. CASE UNCHANGED vars \/ Second \/ \E w \in Workloads : Redeploy(w)
  BY <1>1, KeptFresh DEF vars, Second, Redeploy, Saving, api
<1>2. ASSUME NEW o \in Operators,
             \/ Start(o) \/ BootList(o) \/ RehydrateDone(o) \/ TickList(o)
             \/ TickDone(o)
             \/ \E w \in Workloads : RehydrateOne(o, w) \/ SampleNothing(o, w)
      PROVE  FreshIsStored'
  <2>1. save' = save /\ stored' = stored
    BY <1>2 DEF Start, BootList, RehydrateDone, TickList, TickDone,
                RehydrateOne, SampleNothing, api
  <2>2. pc' = pc \/ \E phase \in {"boot", "rehydrate", "idle", "sampling"} :
                      Goto(o, phase)
    BY <1>2 DEF Start, BootList, RehydrateDone, TickList, TickDone,
                RehydrateOne, SampleNothing, Disrupt
  <2>3. \A p \in Operators : Saving(p)' => Saving(p)
    BY <2>2 DEF Goto, Saving, TypeOK
  <2>. QED  BY <2>1, <2>3, KeptFresh
<1>3. ASSUME NEW o \in Operators, SaveGet(o)
      PROVE  FreshIsStored'
  BY <1>3, ProceedFresh DEF SaveGet, Saving, api
<1>4. ASSUME NEW o \in Operators, SaveCreate(o)
      PROVE  FreshIsStored'
  <2>1. Saving(o) /\ save[o].of \in Workloads
    BY <1>4, SavingType DEF SaveCreate, Saving
  <2>2. CASE save[o].of \in stored
    <3>1. Return(o) /\ stored' = stored
      BY <1>4, <2>2 DEF SaveCreate, api
    <3>. QED  BY <3>1, ReturnFresh
  <2>3. CASE save[o].of \notin stored
    <3>1. /\ stored' = stored \cup {save[o].of}
          /\ Proceed(o, "status", TRUE) \/ Return(o)
      BY <1>4, <2>3 DEF SaveCreate
    <3>. QED  BY <2>1, <3>1, ReturnFresh, ProceedFresh
  <2>. QED  BY <2>2, <2>3
<1>5. ASSUME NEW o \in Operators, SaveUpdate(o)
      PROVE  FreshIsStored'
  <2>1. Saving(o) /\ stored' = stored
    BY <1>5 DEF SaveUpdate, Saving, api
  <2>2. Return(o) \/ (Proceed(o, "status", TRUE) /\ save[o].fresh)
    BY <1>5 DEF SaveUpdate
  <2>3. save[o].fresh => save[o].of \in stored
    BY <2>1 DEF FreshIsStored
  <2>. QED  BY <2>1, <2>2, <2>3, ReturnFresh, ProceedFresh
<1>6. ASSUME NEW o \in Operators, SaveStatus(o)
      PROVE  FreshIsStored'
  <2>1. /\ DraftsKept /\ stored' = stored /\ save[o].of \in Workloads
        /\ Goto(o, "sampling")
    BY <1>6, SaveStatusEffect DEF SaveStatus
  <2>2. ASSUME NEW p \in Operators, Saving(p)', save'[p].fresh
        PROVE  save'[p].of \in stored'
    <3>1. p # o /\ Saving(p) /\ save'[p].of = save[p].of
      BY <2>1, <2>2 DEF Goto, Saving, TypeOK, DraftsKept
    <3>2. save'[p] = save[p] \/ save'[p] = Outdate(save, save[o].of)[p]
      BY <1>6, <2>1, <3>1, OutdateType DEF SaveStatus, TypeOK
    <3>3. save[p].fresh
      BY <2>1, <2>2, <3>1, <3>2, OutdateFresh
    <3>. QED  BY <2>1, <3>1, <3>3 DEF FreshIsStored
  <2>. QED  BY <2>2 DEF FreshIsStored
<1>7. ASSUME NEW o \in Operators, SaveFails(o)
      PROVE  FreshIsStored'
  BY <1>7, ReturnFresh DEF SaveFails, api
<1>8. ASSUME NEW o \in Operators, NEW w \in Workloads, Observe(o, w)
      PROVE  FreshIsStored'
  <2>1. PICK sampled, reading : ObserveAndCheckpoint(o, w, reading)
    BY <1>8 DEF Observe
  <2>2. save'[o].fresh = FALSE /\ \A p \in Operators \ {o} : save'[p] = save[p]
    BY <2>1 DEF ObserveAndCheckpoint, TypeOK
  <2>3. \A p \in Operators \ {o} : Saving(p)' => Saving(p)
    BY <1>8 DEF Observe, Goto, Saving, TypeOK
  <2>4. stored' = stored
    BY <1>8 DEF Observe, api
  <2>. QED  BY <2>2, <2>3, <2>4 DEF FreshIsStored
<1>9. ASSUME NEW o \in Operators, Crash(o)
      PROVE  FreshIsStored'
  <2>1. /\ stored' = stored /\ pc' = [pc EXCEPT ![o] = "down"]
        /\ save' = [save EXCEPT ![o] = None]
    BY <1>9 DEF Crash, Goto, api
  <2>2. ASSUME NEW p \in Operators, Saving(p)'
        PROVE  Saving(p) /\ save'[p] = save[p]
    BY <2>1, <2>2 DEF Saving, TypeOK
  <2>. QED  BY <2>1, <2>2, KeptFresh
<1>10. ASSUME NEW w \in Workloads, DeleteProfile(w)
       PROVE  FreshIsStored'
  <2>1. /\ DraftsKept /\ stored' = stored \ {w} /\ save' = Outdate(save, w)
    BY <1>10, DeleteEffect DEF DeleteProfile
  <2>2. ASSUME NEW p \in Operators, Saving(p)', save'[p].fresh
        PROVE  save'[p].of \in stored'
    <3>1. Saving(p) /\ save'[p].of = save[p].of
      BY <2>1, <2>2 DEF DraftsKept
    <3>2. save[p].fresh /\ save[p].of # w
      BY <2>1, <2>2, <3>1, OutdateFresh
    <3>. QED  BY <2>1, <3>1, <3>2 DEF FreshIsStored
  <2>. QED  BY <2>2 DEF FreshIsStored
<1>. QED
  BY <1>1, <1>2, <1>3, <1>4, <1>5, <1>6, <1>7, <1>8, <1>9, <1>10 DEF Next, Step

LEMMA CoversItself ==
  ASSUME NEW h
  PROVE  Covers(h, h)
BY DEF Covers

\* Folding samples in takes nothing out of memory.
LEMMA ObserveAllCovers ==
  ASSUME NEW live \in Live, NEW sampled \in SUBSET Containers,
         NEW reading \in [sampled -> Readings], now \in Seconds,
         NEW c \in DOMAIN live
  PROVE  Covers(ObserveAll(live, reading)[c].hist, live[c].hist)
<1>1. ObserveAll(live, reading)[c] =
        IF c \in sampled THEN Fold(live[c], reading[c]) ELSE live[c]
  BY DEF ObserveAll, StateFor
<1>2. CASE c \in sampled
  <2>1. live[c] \in ContainerState /\ reading[c] \in SUBSET Metrics
    BY <1>2, PartialFcnElim, ReadingsAreMetrics DEF Live
  <2>2. \A m \in Metrics : Fold(live[c], reading[c]).hist[m] =
          IF m \in reading[c] THEN live[c].hist[m] \cup {now} ELSE live[c].hist[m]
    BY <2>1, FoldType
  <2>. QED  BY <1>1, <1>2, <2>2 DEF Covers
<1>3. CASE c \notin sampled
  BY <1>1, <1>3, CoversItself
<1>. QED  BY <1>2, <1>3

LEMMA AheadStep ==
  ASSUME OneInstance, TypeOK, AheadInv, [Next]_vars
  PROVE  AheadInv'
<1>1. /\ AbsentIsEmpty /\ FreshIsStored /\ MemoryAhead /\ DraftIsMemory
      /\ FreshIsStored'
  BY FreshStep DEF AheadInv
<1>2. /\ status \in [Workloads -> Status]
      /\ state \in [Operators -> [Workloads -> Live]]
      /\ synced \in [Operators -> SUBSET Workloads]
      /\ stored \in SUBSET Workloads
      /\ now \in Seconds
  BY DEF TypeOK
<1>3. EmptyStatus.containers = NoContainers /\ DOMAIN NoContainers = {}
  BY EmptyTypes DEF EmptyStatus
<1>4. CASE Quiet
  <2>1. /\ UNCHANGED <<status, state, synced>>
        /\ stored \subseteq stored' /\ DraftsKept
    BY <1>4 DEF Quiet
  <2>2. AbsentIsEmpty' /\ MemoryAhead'
    BY <1>1, <2>1 DEF AbsentIsEmpty, MemoryAhead
  <2>3. DraftIsMemory'
    BY <1>1, <2>1 DEF DraftIsMemory, DraftsKept
  <2>. QED  BY <1>1, <2>2, <2>3 DEF AheadInv
<1>5. ASSUME NEW o \in Operators, SaveStatus(o)
      PROVE  AheadInv'
  <2>1. /\ DraftsKept /\ Saving(o) /\ save[o].of \in Workloads
        /\ stored' = stored /\ state' = state
        /\ \/ UNCHANGED <<status, synced>>
           \/ /\ save[o].fresh
              /\ status' = [status EXCEPT ![save[o].of] = save[o].draft]
              /\ synced' = [synced EXCEPT ![o] = @ \cup {save[o].of}]
    BY <1>5, SaveStatusEffect
  <2>2. DraftIsMemory'
    BY <1>1, <2>1 DEF DraftIsMemory, DraftsKept
  <2>3. AbsentIsEmpty'
    <3>1. save[o].fresh => save[o].of \in stored
      BY <1>1, <2>1 DEF FreshIsStored
    <3>. QED  BY <1>1, <1>2, <2>1, <3>1 DEF AbsentIsEmpty
  <2>4. MemoryAhead'
    <3>1. ASSUME NEW w \in synced'[o], NEW c \in DOMAIN status'[w].containers
          PROVE  /\ c \in DOMAIN state[o][w]
                 /\ Covers(state[o][w][c].hist, status'[w].containers[c])
      <4>1. \/ status'[w] = status[w] /\ w \in synced[o]
            \/ w = save[o].of /\ status'[w] = save[o].draft
        BY <1>2, <2>1, <3>1
      <4>2. CASE status'[w] = status[w] /\ w \in synced[o]
        BY <1>1, <3>1, <4>2 DEF MemoryAhead
      <4>3. CASE w = save[o].of /\ status'[w] = save[o].draft
        BY <1>1, <2>1, <3>1, <4>3, CoversItself DEF DraftIsMemory
      <4>. QED  BY <4>1, <4>2, <4>3
    <3>. QED  BY <2>1, <3>1 DEF MemoryAhead, OneInstance
  <2>. QED  BY <1>1, <2>2, <2>3, <2>4 DEF AheadInv
<1>6. ASSUME NEW o \in Operators, Crash(o)
      PROVE  AheadInv'
  <2>1. /\ UNCHANGED <<stored, status>>
        /\ synced' = [synced EXCEPT ![o] = {}]
        /\ Goto(o, "down")
    BY <1>6, CrashEffect DEF Crash
  <2>2. synced'[o] = {} /\ ~Saving(o)'
    BY <1>2, <2>1 DEF Goto, Saving, TypeOK
  <2>. QED  BY <1>1, <2>1, <2>2
            DEF AheadInv, AbsentIsEmpty, MemoryAhead, DraftIsMemory, OneInstance
<1>7. ASSUME NEW o \in Operators, NEW w \in Workloads, RehydrateOne(o, w)
      PROVE  AheadInv'
  <2>. DEFINE after == Rehydrated(state[o][w], status[w])
  <2>1. /\ ~Saving(o) /\ UNCHANGED <<stored, status, pc>>
        /\ \/ UNCHANGED <<state, synced>>
           \/ /\ state' = IF w \in stored
                          THEN [state EXCEPT ![o][w] = after] ELSE state
              /\ synced' = [synced EXCEPT ![o] = synced[o] \cup {w}]
    BY <1>7, RehydrateEffect
  <2>2. \A c \in DOMAIN status[w].containers :
          c \in DOMAIN after /\ after[c].hist = status[w].containers[c]
    BY DEF Rehydrated
  <2>. HIDE DEF after
  <2>3. DraftIsMemory'
    BY <2>1 DEF DraftIsMemory, Saving, OneInstance
  <2>4. MemoryAhead'
    <3>1. CASE UNCHANGED <<state, synced>>
      BY <1>1, <2>1, <3>1 DEF MemoryAhead
    <3>2. CASE w \in stored /\ state' = [state EXCEPT ![o][w] = after]
                /\ synced' = [synced EXCEPT ![o] = synced[o] \cup {w}]
      <4>1. ASSUME NEW v \in synced'[o], NEW c \in DOMAIN status[v].containers
            PROVE  /\ c \in DOMAIN state'[o][v]
                   /\ Covers(state'[o][v][c].hist, status[v].containers[c])
        <5>1. v \in Workloads /\ (v = w \/ v \in synced[o])
          BY <1>2, <3>2, <4>1
        <5>2. CASE v = w
          <6>1. state'[o][v] = after
            BY <1>2, <3>2, <5>2
          <6>. QED  BY <2>2, <4>1, <5>2, <6>1, CoversItself
        <5>3. CASE v # w
          <6>1. state'[o][v] = state[o][v]
            BY <1>2, <3>2, <5>1, <5>3
          <6>. QED  BY <1>1, <4>1, <5>1, <5>3, <6>1 DEF MemoryAhead
        <5>. QED  BY <5>2, <5>3
      <4>. QED  BY <2>1, <4>1 DEF MemoryAhead, OneInstance
    <3>3. CASE w \notin stored /\ state' = state
                /\ synced' = [synced EXCEPT ![o] = synced[o] \cup {w}]
      <4>1. DOMAIN status[w].containers = {}
        BY <1>1, <1>3, <3>3 DEF AbsentIsEmpty
      <4>2. ASSUME NEW v \in synced'[o], NEW c \in DOMAIN status[v].containers
            PROVE  /\ c \in DOMAIN state[o][v]
                   /\ Covers(state[o][v][c].hist, status[v].containers[c])
        BY <1>1, <1>2, <3>3, <4>1, <4>2 DEF MemoryAhead
      <4>. QED  BY <2>1, <3>3, <4>2 DEF MemoryAhead, OneInstance
    <3>. QED  BY <2>1, <3>1, <3>2, <3>3
  <2>. QED  BY <1>1, <2>1, <2>3, <2>4 DEF AheadInv, AbsentIsEmpty
<1>8. ASSUME NEW o \in Operators, NEW w \in Workloads, Observe(o, w)
      PROVE  AheadInv'
  <2>1. PICK sampled \in SUBSET Containers : \E reading \in [sampled -> Readings] :
          Observed(o, w, sampled, reading)
    BY <1>8, ObserveEffect
  <2>2. PICK reading \in [sampled -> Readings] : Observed(o, w, sampled, reading)
    BY <2>1
  <2>. DEFINE live == ObserveAll(state[o][w], reading)
  <2>3. /\ UNCHANGED <<stored, status, synced>>
        /\ live \in Live
        /\ DOMAIN live = DOMAIN state[o][w] \cup sampled
        /\ \A p \in Operators, v \in Workloads : state'[p][v] =
             IF p = o /\ v = w THEN live ELSE state[p][v]
        /\ save'[o].of = w
        /\ save'[o].containers = listed[o][w]
        /\ save'[o].draft = BuildProfile(live, listed[o][w])
    BY <2>2, Zenon DEF Observed
  <2>4. \A c \in DOMAIN state[o][w] : Covers(live[c].hist, state[o][w][c].hist)
    BY <1>2, ObserveAllCovers
  <2>. HIDE DEF live
  <2>5. /\ listed[o][w] \in SUBSET Containers
        /\ DOMAIN BuildProfile(live, listed[o][w]).containers =
             listed[o][w] \cap DOMAIN live
        /\ \A c \in listed[o][w] \cap DOMAIN live :
             BuildProfile(live, listed[o][w]).containers[c] = live[c].hist
    <3>1. listed[o][w] \in SUBSET Containers
      BY DEF TypeOK
    <3>. QED  BY <1>2, <2>3, <3>1, BuildProfileType
  <2>6. DraftIsMemory'
    BY <2>3, <2>5 DEF DraftIsMemory, OneInstance
  <2>7. ASSUME NEW v \in synced[o], NEW c \in DOMAIN status[v].containers
        PROVE  /\ c \in DOMAIN state'[o][v]
               /\ Covers(state'[o][v][c].hist, status[v].containers[c])
    <3>1. /\ v \in Workloads /\ c \in DOMAIN state[o][v]
          /\ Covers(state[o][v][c].hist, status[v].containers[c])
      BY <1>1, <1>2, <2>7 DEF MemoryAhead
    <3>2. CASE v = w
      BY <2>3, <2>4, <3>1, <3>2 DEF Covers
    <3>3. CASE v # w
      BY <2>3, <3>1, <3>3
    <3>. QED  BY <3>2, <3>3
  <2>8. MemoryAhead'
    BY <2>3, <2>7 DEF MemoryAhead, OneInstance
  <2>. QED  BY <1>1, <2>3, <2>6, <2>8 DEF AheadInv, AbsentIsEmpty
<1>9. ASSUME NEW w \in Workloads, DeleteProfile(w)
      PROVE  AheadInv'
  <2>1. /\ DraftsKept /\ UNCHANGED <<state, synced>>
        /\ stored' = stored \ {w}
        /\ status' = [status EXCEPT ![w] = EmptyStatus]
    BY <1>9, DeleteEffect
  <2>2. \A v \in Workloads : status'[v] = IF v = w THEN EmptyStatus ELSE status[v]
    BY <1>2, <2>1
  <2>3. AbsentIsEmpty'
    BY <1>1, <2>1, <2>2 DEF AbsentIsEmpty
  <2>4. DraftIsMemory'
    BY <1>1, <2>1 DEF DraftIsMemory, DraftsKept
  <2>5. MemoryAhead'
    BY <1>1, <1>2, <1>3, <2>1, <2>2 DEF MemoryAhead
  <2>. QED  BY <1>1, <2>3, <2>4, <2>5 DEF AheadInv
<1>. QED  BY <1>4, <1>5, <1>6, <1>7, <1>8, <1>9, StepKinds

\* No step of a single instance takes history away.
LEMMA StepKeepsHistory ==
  ASSUME OneInstance, TypeOK, AheadInv, [Next]_vars
  PROVE  KeepsHistory
<1>1. status \in [Workloads -> Status]
  BY DEF TypeOK
<1>2. CASE UNCHANGED status
  BY <1>2, CoversItself DEF KeepsHistory
<1>3. ASSUME NEW o \in Operators, SaveStatus(o)
      PROVE  KeepsHistory
  <2>1. /\ Saving(o) /\ save[o].of \in Workloads
        /\ \/ UNCHANGED status
           \/ status' = [status EXCEPT ![save[o].of] = save[o].draft]
    BY <1>3, SaveStatusEffect
  <2>2. ASSUME NEW w \in Workloads, NEW c \in DOMAIN status[w].containers,
               w = save[o].of, w \in synced[o], c \in save[o].containers,
               status' = [status EXCEPT ![save[o].of] = save[o].draft]
        PROVE  /\ c \in DOMAIN status'[w].containers
               /\ Covers(status'[w].containers[c], status[w].containers[c])
    <3>1. c \in DOMAIN state[o][w]
          /\ Covers(state[o][w][c].hist, status[w].containers[c])
      BY <2>2 DEF AheadInv, MemoryAhead
    <3>2. c \in DOMAIN save[o].draft.containers
          /\ save[o].draft.containers[c] = state[o][w][c].hist
      BY <2>1, <2>2, <3>1 DEF AheadInv, DraftIsMemory
    <3>3. status'[w] = save[o].draft
      BY <1>1, <2>2
    <3>. QED  BY <3>1, <3>2, <3>3
  <2>3. \A w \in Workloads : w # save[o].of => status'[w] = status[w]
    BY <1>1, <2>1
  <2>. QED  BY <1>2, <2>1, <2>2, <2>3, CoversItself DEF KeepsHistory
<1>4. ASSUME NEW w \in Workloads, DeleteProfile(w)
      PROVE  KeepsHistory
  <2>1. stored' = stored \ {w} /\ status' = [status EXCEPT ![w] = EmptyStatus]
    BY <1>4, DeleteEffect
  <2>2. \A v \in Workloads \ {w} : status'[v] = status[v]
    BY <1>1, <2>1
  <2>. QED  BY <2>1, <2>2, CoversItself DEF KeepsHistory
<1>5. ASSUME NEW o \in Operators, NEW w \in Workloads, Observe(o, w)
      PROVE  UNCHANGED status
  BY <1>5 DEF Observe, api
<1>6. ASSUME NEW o \in Operators, NEW w \in Workloads, RehydrateOne(o, w)
      PROVE  UNCHANGED status
  BY <1>6, RehydrateEffect
<1>7. ASSUME NEW o \in Operators, Crash(o)
      PROVE  UNCHANGED status
  BY <1>7, CrashEffect
<1>8. Quiet => UNCHANGED status
  BY DEF Quiet
<1>. QED  BY <1>2, <1>3, <1>4, <1>5, <1>6, <1>7, <1>8, StepKinds

\* As long as instances do not overlap, no write takes an observation away from
\* a stored profile (but for the exceptions HistoryKept names), through any
\* crashes, restarts, failed calls, deletions and redeployments.
THEOREM HistoryCorrect ==
  ASSUME OneInstance
  PROVE  Spec => HistoryKept
<1>1. TypeOK /\ AheadInv /\ [Next]_vars => AheadInv'
  BY AheadStep
<1>2. TypeOK /\ AheadInv /\ [Next]_vars => [KeepsHistory]_vars
  BY StepKeepsHistory
<1>. QED  BY <1>1, <1>2, InitAhead, TypeCorrect, PTL DEF Spec, HistoryKept
-----------------------------------------------------------------------------
(* Sample counts of workloads with one container *)

OneContainer == \E c \in Containers : Containers = {c}

CountInv ==
  \A c \in Containers :
    /\ \A w \in Workloads : status[w].sampleCount <= taken[w][c]
    /\ \A o \in Operators :
         Saving(o) => save[o].draft.sampleCount <= taken[save[o].of][c]
    /\ \A o \in Operators, w \in Workloads : c \in DOMAIN state[o][w] =>
         state[o][w][c].observed <= taken[w][c]

LEMMA CapMonotone ==
  ASSUME NEW i \in Nat, NEW j \in Nat, i <= j
  PROVE  Cap(i) <= Cap(j)
BY BoundsAreNaturals DEF Cap

\* The count of a profile of at most one container.
LEMMA BuildProfileCount ==
  ASSUME NEW c, Containers = {c}, NEW live \in Live,
         NEW cs \in SUBSET Containers, NEW n \in Nat,
         c \in DOMAIN live => live[c].observed <= n
  PROVE  BuildProfile(live, cs).sampleCount <= n
<1>. DEFINE known == cs \cap DOMAIN live
            count == [d \in known |-> live[d].observed]
<1>1. BuildProfile(live, cs).sampleCount = Cap(Total(count, known))
  BY DEF BuildProfile
<1>2. known = {} \/ (known = {c} /\ c \in DOMAIN live)
  OBVIOUS
<1>3. CASE known = {}
  <2>1. Total(count, known) = 0
    BY <1>3, TotalOfNone
  <2>. HIDE DEF known, count
  <2>2. Cap(0) <= 0 /\ Cap(0) \in Int
    BY BoundsAreNaturals DEF Cap
  <2>. QED  BY <1>1, <2>1, <2>2
<1>4. CASE known = {c} /\ c \in DOMAIN live
  <2>1. count[c] = live[c].observed /\ live[c].observed \in Nat
    <3>1. live[c] \in ContainerState
      BY <1>4, PartialFcnElim DEF Live
    <3>. QED  BY <1>4, <3>1 DEF ContainerState
  <2>. HIDE DEF count
  <2>2. Total(count, known) = live[c].observed
    BY <1>4, <2>1, TotalOfOne
  <2>. HIDE DEF known
  <2>3. Cap(live[c].observed) <= live[c].observed /\ Cap(live[c].observed) \in Int
    BY <2>1, CapBounds
  <2>. QED  BY <1>1, <1>4, <2>1, <2>2, <2>3
<1>. QED  BY <1>2, <1>3, <1>4

LEMMA InitCount == Init => CountInv
<1>. SUFFICES ASSUME Init, NEW c \in Containers
              PROVE  /\ \A w \in Workloads : status[w].sampleCount <= taken[w][c]
                     /\ \A o \in Operators : ~Saving(o)
                     /\ \A o \in Operators, w \in Workloads : c \notin DOMAIN state[o][w]
  BY DEF CountInv
<1>1. DOMAIN NoContainers = {} /\ EmptyStatus.sampleCount = 0
  BY EmptyTypes DEF EmptyStatus
<1>. QED  BY <1>1 DEF Init, Saving

LEMMA CountStep ==
  ASSUME OneContainer, TypeOK, CountInv, [Next]_vars
  PROVE  CountInv'
<1>1. PICK c : Containers = {c}
  BY DEF OneContainer
<1>. DEFINE StoredOK(st, tk) ==
              \A w \in Workloads : st[w].sampleCount <= tk[w][c]
            DraftOK(sv, tk, o) == sv[o].draft.sampleCount <= tk[sv[o].of][c]
            LiveOK(live, w, tk) == c \in DOMAIN live => live[c].observed <= tk[w][c]
<1>2. /\ StoredOK(status, taken)
      /\ \A o \in Operators : Saving(o) => DraftOK(save, taken, o)
      /\ \A o \in Operators, w \in Workloads : LiveOK(state[o][w], w, taken)
  BY <1>1 DEF CountInv
<1>3. ASSUME StoredOK(status', taken'),
             \A o \in Operators : Saving(o)' => DraftOK(save', taken', o),
             \A o \in Operators, w \in Workloads : LiveOK(state'[o][w], w, taken')
      PROVE  CountInv'
  BY <1>1, <1>3 DEF CountInv
<1>4. ASSUME DraftsKept, taken' = taken
      PROVE  \A o \in Operators : Saving(o)' => DraftOK(save', taken', o)
  BY <1>2, <1>4 DEF DraftsKept
<1>5. /\ status \in [Workloads -> Status]
      /\ state \in [Operators -> [Workloads -> Live]]
      /\ taken \in [Workloads -> [Containers -> 0 .. MaxCount]]
      /\ now \in Seconds
  BY DEF TypeOK
<1>6. \A w \in Workloads : taken[w][c] \in Nat
  BY <1>1, <1>5, BoundsAreNaturals
<1>7. CASE Quiet
  BY <1>2, <1>3, <1>4, <1>7 DEF Quiet
<1>8. ASSUME NEW o \in Operators, SaveStatus(o)
      PROVE  CountInv'
  <2>1. /\ DraftsKept /\ Saving(o) /\ save[o].of \in Workloads
        /\ state' = state /\ taken' = taken
        /\ \/ status' = status
           \/ status' = [status EXCEPT ![save[o].of] = save[o].draft]
    BY <1>8, SaveStatusEffect
  <2>2. StoredOK(status', taken')
    BY <1>2, <1>5, <2>1
  <2>. QED  BY <1>2, <1>3, <1>4, <2>1, <2>2
<1>9. ASSUME NEW o \in Operators, Crash(o)
      PROVE  CountInv'
  <2>1. /\ DraftsKept /\ status' = status /\ taken' = taken
        /\ state' = [state EXCEPT ![o] = [w \in Workloads |-> NoContainers]]
    BY <1>9, CrashEffect
  <2>2. \A p \in Operators, w \in Workloads : LiveOK(state'[p][w], w, taken')
    BY <1>2, <1>5, <2>1, EmptyTypes
  <2>. QED  BY <1>2, <1>3, <1>4, <2>1, <2>2
<1>10. ASSUME NEW o \in Operators, NEW w \in Workloads, RehydrateOne(o, w)
       PROVE  CountInv'
  <2>. DEFINE after == Rehydrated(state[o][w], status[w])
  <2>1. /\ DraftsKept /\ status' = status /\ taken' = taken
        /\ state' = state \/ state' = [state EXCEPT ![o][w] = after]
    BY <1>10, RehydrateEffect
  <2>2. c \in DOMAIN after => \/ after[c].observed = status[w].sampleCount
                              \/ c \in DOMAIN state[o][w] /\ after[c] = state[o][w][c]
    BY DEF Rehydrated
  <2>. HIDE DEF after
  <2>3. LiveOK(after, w, taken)
    BY <1>2, <2>2
  <2>4. \A p \in Operators, v \in Workloads : LiveOK(state'[p][v], v, taken')
    BY <1>2, <1>5, <2>1, <2>3
  <2>. QED  BY <1>2, <1>3, <1>4, <2>1, <2>4
<1>11. ASSUME NEW o \in Operators, NEW w \in Workloads, Observe(o, w)
       PROVE  CountInv'
  <2>1. PICK sampled \in SUBSET Containers : \E reading \in [sampled -> Readings] :
          Observed(o, w, sampled, reading)
    BY <1>11, ObserveEffect
  <2>2. PICK reading \in [sampled -> Readings] : Observed(o, w, sampled, reading)
    BY <2>1
  <2>. DEFINE live == ObserveAll(state[o][w], reading)
  <2>3. /\ status' = status /\ live \in Live
        /\ DOMAIN live = DOMAIN state[o][w] \cup sampled
        /\ \A p \in Operators, v \in Workloads : state'[p][v] =
             IF p = o /\ v = w THEN live ELSE state[p][v]
        /\ \A p \in Operators \ {o} : Saving(p)' => Saving(p) /\ save'[p] = save[p]
        /\ save'[o].of = w
        /\ save'[o].draft = BuildProfile(live, listed[o][w])
        /\ taken' = [taken EXCEPT ![w] =
                       [d \in Containers |->
                          IF d \in sampled THEN Cap(@[d] + 1) ELSE @[d]]]
    BY <2>2, Zenon DEF Observed
  <2>4. \A v \in Workloads : taken'[v][c] =
          IF v = w /\ c \in sampled THEN Cap(taken[v][c] + 1) ELSE taken[v][c]
    BY <1>1, <1>5, <2>3
  <2>5. \A v \in Workloads : /\ taken'[v][c] \in Nat
                             /\ taken[v][c] <= taken'[v][c]
    <3>1. \A v \in Workloads : taken[v][c] \in 0 .. MaxCount
      BY <1>1, <1>5
    <3>. QED  BY <2>4, <3>1, BoundsAreNaturals DEF Cap
  <2>6. c \in DOMAIN live => live[c].observed <= taken'[w][c]
    <3>1. CASE c \in sampled
      <4>. DEFINE s == StateFor(state[o][w], c)
      <4>1. live[c] = Fold(s, reading[c]) /\ reading[c] \in SUBSET Metrics
        BY <3>1, ReadingsAreMetrics DEF ObserveAll
      <4>2. s \in ContainerState
        BY <1>1, <1>5, StateForType
      <4>3. s.observed <= taken[w][c]
        <5>1. CASE c \in DOMAIN state[o][w]
          BY <1>2, <5>1 DEF StateFor
        <5>2. CASE c \notin DOMAIN state[o][w]
          BY <1>6, <5>2 DEF StateFor
        <5>. QED  BY <5>1, <5>2
      <4>. HIDE DEF s, live
      <4>4. live[c].observed = Cap(s.observed + 1)
        BY <1>5, <4>1, <4>2, FoldType
      <4>5. Cap(s.observed + 1) <= Cap(taken[w][c] + 1)
        <5>1. s.observed \in Nat /\ taken[w][c] \in Nat
          BY <1>6, <4>2 DEF ContainerState
        <5>. QED  BY <4>3, <5>1, CapMonotone
      <4>. QED  BY <2>4, <3>1, <4>4, <4>5
    <3>2. CASE c \notin sampled
      <4>1. c \in DOMAIN live => live[c] = state[o][w][c] /\ c \in DOMAIN state[o][w]
        BY <3>2 DEF ObserveAll
      <4>. QED  BY <1>2, <2>4, <3>2, <4>1
    <3>. QED  BY <3>1, <3>2
  <2>. HIDE DEF live
  <2>7. DraftOK(save', taken', o)
    <3>1. listed[o][w] \in SUBSET Containers
      BY DEF TypeOK
    <3>2. taken'[w][c] \in Nat
      BY <2>5
    <3>3. BuildProfile(live, listed[o][w]).sampleCount <= taken'[w][c]
      BY <1>1, <2>3, <2>6, <3>1, <3>2, BuildProfileCount
    <3>. QED  BY <2>3, <3>3
  <2>8. ASSUME NEW p \in Operators, Saving(p)'
        PROVE  DraftOK(save', taken', p)
    <3>1. CASE p # o
      <4>1. Saving(p) /\ save'[p] = save[p]
        BY <2>3, <2>8, <3>1
      <4>2. save[p].of \in Workloads /\ save[p].draft.sampleCount \in Nat
        BY <4>1, SavingType DEF Status
      <4>. QED  BY <1>2, <1>6, <2>5, <4>1, <4>2
    <3>. QED  BY <2>7, <3>1
  <2>9. StoredOK(status', taken')
    <3>1. \A v \in Workloads : status[v].sampleCount \in Nat
      BY <1>5 DEF Status
    <3>. QED  BY <1>2, <1>6, <2>3, <2>5, <3>1
  <2>10. ASSUME NEW p \in Operators, NEW v \in Workloads
         PROVE  LiveOK(state'[p][v], v, taken')
    <3>1. CASE p = o /\ v = w
      BY <2>3, <2>6, <3>1
    <3>2. CASE ~(p = o /\ v = w)
      <4>1. state'[p][v] = state[p][v] /\ state[p][v] \in Live
        BY <1>5, <2>3, <3>2
      <4>2. c \in DOMAIN state[p][v] => state[p][v][c].observed \in Nat
        <5>. SUFFICES ASSUME c \in DOMAIN state[p][v]
                      PROVE  state[p][v][c].observed \in Nat
          OBVIOUS
        <5>1. state[p][v][c] \in ContainerState
          BY <4>1, PartialFcnElim DEF Live
        <5>. QED  BY <5>1 DEF ContainerState
      <4>. QED  BY <1>2, <1>6, <2>5, <4>1, <4>2
    <3>. QED  BY <3>1, <3>2
  <2>. QED  BY <1>3, <2>8, <2>9, <2>10
<1>12. ASSUME NEW w \in Workloads, DeleteProfile(w)
       PROVE  CountInv'
  <2>1. /\ DraftsKept /\ state' = state /\ taken' = taken
        /\ status' = [status EXCEPT ![w] = EmptyStatus]
    BY <1>12, DeleteEffect
  <2>2. StoredOK(status', taken')
    <3>1. EmptyStatus.sampleCount = 0
      BY DEF EmptyStatus
    <3>. QED  BY <1>2, <1>5, <1>6, <2>1, <3>1
  <2>. QED  BY <1>2, <1>3, <1>4, <2>1, <2>2
<1>. QED  BY <1>7, <1>8, <1>9, <1>10, <1>11, <1>12, StepKinds

\* If workloads have a single container, no crash, restart, failed call or
\* overlapping instance makes a profile count samples that were not taken.
\* (With more containers Rehydrate does: it hands the total to each of them.)
THEOREM CountCorrect ==
  ASSUME OneContainer
  PROVE  Spec => []SampleCountSound
<1>1. TypeOK /\ CountInv => SampleCountSound
  <2>. SUFFICES ASSUME TypeOK, CountInv PROVE SampleCountSound
    OBVIOUS
  <2>1. PICK c : Containers = {c}
    BY DEF OneContainer
  <2>2. ASSUME NEW w \in Workloads
        PROVE  status[w].sampleCount <= Total(taken[w], Containers)
    <3>1. taken[w][c] \in Nat
      BY <2>1, BoundsAreNaturals DEF TypeOK
    <3>2. Total(taken[w], Containers) = taken[w][c]
      BY <2>1, <3>1, TotalOfOne
    <3>. QED  BY <2>1, <3>2 DEF CountInv
  <2>. QED  BY <2>2 DEF SampleCountSound
<1>2. TypeOK /\ CountInv /\ [Next]_vars => CountInv'
  BY CountStep
<1>. QED  BY <1>1, <1>2, InitCount, TypeCorrect, PTL DEF Spec
-----------------------------------------------------------------------------
(* A single operator implements DurableHistory, for any workloads, containers,
   failures and crashes: every step of Collector is a step of it or none. *)

\* There is one instance, and it is not none.
Alone == \E o : Operators = {o}

LEMMA TheOne == Alone => Operators = {TheInstance} /\ TheInstance \in Operators
BY DEF Alone, TheInstance

-----------------------------------------------------------------------------
(* What has to hold *)

\* Nothing is in memory before the profiles have been read back.
MemoryEmpty(o) ==
  /\ pc[o] \in {"down", "boot"} => \A w \in Workloads : state[o][w] = NoContainers
  /\ pc[o] = "rehydrate" =>
       \A w \in Workloads : listed[o][w] # {} => state[o][w] = NoContainers

Memory(o, w) == [c \in DOMAIN state[o][w] |-> state[o][w][c].hist]

\* A draft is the memory at the moment it is written: nothing is observed during a Save.
DraftIsHistory(o) ==
  Saving(o) =>
    save[o].draft.containers =
      [c \in save[o].containers \cap DOMAIN state[o][save[o].of] |->
         state[o][save[o].of][c].hist]

Simulates == MemoryEmpty(TheInstance) /\ DraftIsHistory(TheInstance)

\* How a step moves the phase of an instance.
LEMMA PhaseStep ==
  ASSUME TypeOK, [Next]_vars, NEW o, Operators = {o}
  PROVE  \/ Crash(o)
         \/ Start(o)
         \/ /\ pc'[o] = "down" <=> pc[o] = "down"
            /\ pc'[o] \in {"down", "boot"} => pc[o] \in {"down", "boot"}
            /\ pc'[o] = "rehydrate" =>
                 \/ pc[o] = "boot"
                 \/ pc[o] = "rehydrate" /\ listed' = listed
                 \/ \E w \in Workloads : RehydrateOne(o, w)
<1> DEFINE Moves ==
      /\ pc'[o] = "down" <=> pc[o] = "down"
      /\ pc'[o] \in {"down", "boot"} => pc[o] \in {"down", "boot"}
      /\ pc'[o] = "rehydrate" =>
           \/ pc[o] = "boot"
           \/ pc[o] = "rehydrate" /\ listed' = listed
           \/ \E w \in Workloads : RehydrateOne(o, w)
<1>0. o \in Operators /\ pc \in [Operators -> Phases]
  BY DEF TypeOK
<1>1. ASSUME NEW p, Goto(o, p) PROVE pc'[o] = p
  BY <1>0, <1>1 DEF Goto
<1>2. CASE UNCHANGED vars \/ Second \/ \E w \in Workloads : Redeploy(w) \/ DeleteProfile(w)
  BY <1>2 DEF vars, Second, Redeploy, DeleteProfile
<1>3. CASE BootList(o)
  <2>1. pc[o] = "boot" /\ pc'[o] \in {"rehydrate", "idle"}
    BY <1>1, <1>3 DEF BootList
  <2> QED
    BY <2>1
<1>4. CASE RehydrateDone(o)
  <2>1. pc[o] = "rehydrate" /\ pc'[o] = "idle"
    BY <1>1, <1>4 DEF RehydrateDone
  <2> QED
    BY <2>1
<1>5. CASE TickList(o) \/ TickDone(o)
  <2>1. pc[o] \in {"idle", "sampling"} /\ pc'[o] \in {"idle", "sampling"}
    BY <1>1, <1>5 DEF TickList, TickDone
  <2> QED
    BY <2>1
<1>6. CASE SaveGet(o) \/ SaveCreate(o) \/ SaveUpdate(o) \/ SaveStatus(o) \/ SaveFails(o)
  <2>1. pc[o] \in {"get", "create", "update", "status"}
    BY <1>6 DEF SaveGet, SaveCreate, SaveUpdate, SaveStatus, SaveFails
  <2>2. pc'[o] \in {"create", "update", "status", "sampling"}
    BY <1>1, <1>6
       DEF SaveGet, SaveCreate, SaveUpdate, SaveStatus, SaveFails, Return, Proceed
  <2> QED
    BY <2>1, <2>2
<1>7. ASSUME NEW w \in Workloads, RehydrateOne(o, w)
      PROVE  Moves
  BY <1>7 DEF RehydrateOne
<1>8. ASSUME NEW w \in Workloads, SampleNothing(o, w) \/ Observe(o, w)
      PROVE  Moves
  <2>1. pc[o] = "sampling" /\ pc'[o] \in {"sampling", "get"}
    BY <1>1, <1>8 DEF SampleNothing, Observe
  <2> QED
    BY <2>1
<1> QED
  BY <1>2, <1>3, <1>4, <1>5, <1>6, <1>7, <1>8 DEF Next, Step

LEMMA InitSimulates == Init /\ Alone => Simulates
BY TheOne DEF Init, Simulates, MemoryEmpty, DraftIsHistory, Saving

\* A draft and the memory it is of stay as they are.
LEMMA DraftStays ==
  ASSUME NEW o \in Operators, DraftIsHistory(o), DraftsKept, state' = state
  PROVE  DraftIsHistory(o)'
BY DEF DraftIsHistory, DraftsKept, Saving

LEMMA MemoryStays ==
  ASSUME TypeOK, [Next]_vars, NEW o, Operators = {o}, MemoryEmpty(o), state' = state,
         ~ Crash(o)
  PROVE  MemoryEmpty(o)'
<1>1. ASSUME NEW w \in Workloads, RehydrateOne(o, w), NEW v \in Workloads,
             listed'[o][v] # {}, pc[o] = "rehydrate"
      PROVE  listed[o][v] # {}
  <2>1. listed' = [listed EXCEPT ![o][w] = {}]
    BY <1>1 DEF RehydrateOne, Visited
  <2>2. listed'[o][v] = IF v = w THEN {} ELSE listed[o][v]
    BY <2>1 DEF TypeOK
  <2> QED
    BY <1>1, <2>2
<1>2. ASSUME NEW w \in Workloads, RehydrateOne(o, w)
      PROVE  pc[o] = "rehydrate" /\ pc' = pc
  BY <1>2 DEF RehydrateOne
<1>3. CASE Start(o)
  <2>1. pc[o] = "down" /\ pc'[o] = "boot"
    BY <1>3 DEF Start, Goto, TypeOK
  <2> QED
    BY <2>1 DEF MemoryEmpty
<1>4. CASE \E w \in Workloads : RehydrateOne(o, w)
  BY <1>1, <1>2, <1>4 DEF MemoryEmpty
<1>5. CASE ~ Start(o) /\ ~ \E w \in Workloads : RehydrateOne(o, w)
  BY <1>5, PhaseStep DEF MemoryEmpty
<1> QED
  BY <1>3, <1>4, <1>5
-----------------------------------------------------------------------------
(* The steps that change the memory or a profile *)

\* What Rehydrate leaves of an empty memory is what is kept.
LEMMA RehydrateSimulates ==
  ASSUME TypeOK, NEW o, Operators = {o}, MemoryEmpty(o), NEW w \in Workloads,
         RehydrateOne(o, w)
  PROVE  \/ UNCHANGED <<state, status, pc>>
         \/ /\ UNCHANGED <<status, pc>> /\ pc[o] # "down"
            /\ state[o][w] = NoContainers
            /\ Memory(o, w)' = status[w].containers
            /\ \A v \in Workloads : v # w => state'[o][v] = state[o][v]
<1>1. /\ pc[o] = "rehydrate" /\ listed[o][w] # {} /\ UNCHANGED <<status, pc>>
      /\ \/ UNCHANGED state
         \/ state' = [state EXCEPT ![o][w] = Rehydrated(state[o][w], status[w])]
  <2>1. state[o][w] = state[o][w]
    OBVIOUS
  <2>2. pc[o] = "rehydrate" /\ listed[o][w] # {} /\ UNCHANGED <<status, pc>>
    BY DEF RehydrateOne, api
  <2>3. \/ UNCHANGED state
        \/ state' = [state EXCEPT ![o][w] = Rehydrated(state[o][w], status[w])]
    BY RehydrateEffect
  <2> QED
    BY <2>2, <2>3
<1>2. state[o][w] = NoContainers
  BY <1>1 DEF MemoryEmpty
<1>3. CASE state' = [state EXCEPT ![o][w] = Rehydrated(state[o][w], status[w])]
  <2> DEFINE profile == status[w]
             after == Rehydrated(NoContainers, profile)
  <2>1. /\ state'[o][w] = after
        /\ \A v \in Workloads : v # w => state'[o][v] = state[o][v]
    BY <1>2, <1>3 DEF TypeOK
  <2>2. profile.containers \in PartialFcn(Containers, History)
    BY DEF TypeOK, Status
  <2>3. DOMAIN NoContainers = {}
    BY EmptyTypes
  <2>4. /\ DOMAIN after = DOMAIN profile.containers
        /\ \A c \in DOMAIN profile.containers : after[c].hist = profile.containers[c]
    BY <2>3 DEF Rehydrated
  <2> HIDE DEF profile, after
  <2>5. [c \in DOMAIN after |-> after[c].hist] = profile.containers
    <3>1. profile.containers \in [DOMAIN profile.containers -> History]
      BY <2>2, PartialFcnElim
    <3> QED
      BY <2>4, <3>1
  <2>6. Memory(o, w)' = [c \in DOMAIN after |-> after[c].hist]
    BY <2>1 DEF Memory
  <2>7. Memory(o, w)' = status[w].containers
    BY <2>5, <2>6 DEF profile
  <2> QED
    BY <1>1, <1>2, <2>1, <2>7
<1> QED
  BY <1>1, <1>3

\* What Observe does to a history is what Record does.
Recorded(before, sampled, reading) ==
  [c \in DOMAIN before \cup sampled |->
     [m \in Metrics |->
        (IF c \in DOMAIN before THEN before[c][m] ELSE {})
        \cup (IF c \in sampled /\ m \in reading[c] THEN {now} ELSE {})]]

LEMMA ObserveRecords ==
  ASSUME TypeOK, NEW live \in Live, NEW sampled \in SUBSET Containers,
         NEW reading \in [sampled -> Readings]
  PROVE  [c \in DOMAIN ObserveAll(live, reading) |-> ObserveAll(live, reading)[c].hist]
           = Recorded([c \in DOMAIN live |-> live[c].hist], sampled, reading)
<1> DEFINE after == ObserveAll(live, reading)
           before == [c \in DOMAIN live |-> live[c].hist]
<1>1. DOMAIN after = DOMAIN live \cup sampled /\ now \in Seconds
  BY ObserveAllType DEF TypeOK
<1>2. DOMAIN live \in SUBSET Containers /\ live \in [DOMAIN live -> ContainerState]
  BY PartialFcnElim DEF Live
<1>3. ASSUME NEW c \in DOMAIN live \cup sampled
      PROVE  after[c].hist =
               [m \in Metrics |->
                  (IF c \in DOMAIN live THEN live[c].hist[m] ELSE {})
                  \cup (IF c \in sampled /\ m \in reading[c] THEN {now} ELSE {})]
  <2>1. CASE c \in sampled
    <3>1. after[c] = Fold(StateFor(live, c), reading[c])
      BY <2>1 DEF ObserveAll
    <3>2. c \in Containers /\ reading[c] \in SUBSET Metrics
      BY <2>1, ReadingsAreMetrics
    <3>3. StateFor(live, c) \in ContainerState
      BY <1>1, <3>2, StateForType
    <3>4. \A m \in Metrics : after[c].hist[m] =
            IF m \in reading[c] THEN StateFor(live, c).hist[m] \cup {now}
                                ELSE StateFor(live, c).hist[m]
      BY <1>1, <3>1, <3>2, <3>3, FoldType
    <3>5. \A m \in Metrics : StateFor(live, c).hist[m] =
            IF c \in DOMAIN live THEN live[c].hist[m] ELSE {}
      BY DEF StateFor
    <3>6. after[c].hist \in [Metrics -> SUBSET Seconds]
      BY <1>1, <3>1, <3>2, <3>3, FoldType DEF ContainerState, History
    <3> HIDE DEF after
    <3> QED
      BY <2>1, <3>4, <3>5, <3>6
  <2>2. CASE c \notin sampled
    <3>1. after[c] = live[c] /\ c \in DOMAIN live
      BY <2>2 DEF ObserveAll
    <3>2. after[c].hist \in [Metrics -> SUBSET Seconds]
      BY <1>2, <3>1 DEF ContainerState, History
    <3> HIDE DEF after
    <3> QED
      BY <2>2, <3>1, <3>2
  <2> QED
    BY <2>1, <2>2
<1>4. DOMAIN before = DOMAIN live /\ \A c \in DOMAIN live : before[c] = live[c].hist
  OBVIOUS
<1> HIDE DEF after, before
<1>5. [c \in DOMAIN after |-> after[c].hist] = Recorded(before, sampled, reading)
  BY <1>1, <1>3, <1>4 DEF Recorded
<1> QED
  BY <1>5 DEF after, before

LEMMA ObserveSimulates ==
  ASSUME TypeOK, NEW o \in Operators, NEW w \in Workloads, Observe(o, w)
  PROVE  /\ status' = status /\ pc[o] # "down" /\ pc'[o] # "down"
         /\ \E sampled \in SUBSET Containers : \E reading \in [sampled -> Readings] :
              Memory(o, w)' = Recorded(Memory(o, w), sampled, reading)
         /\ \A v \in Workloads : v # w => state'[o][v] = state[o][v]
         /\ save'[o].of = w
         /\ save'[o].draft.containers =
              [c \in save'[o].containers \cap DOMAIN state'[o][w] |-> state'[o][w][c].hist]
<1>1. PICK sampled \in SUBSET Containers : \E reading \in [sampled -> Readings] :
        Observed(o, w, sampled, reading)
  BY ObserveEffect
<1>2. PICK reading \in [sampled -> Readings] : Observed(o, w, sampled, reading)
  BY <1>1
<1> DEFINE live == ObserveAll(state[o][w], reading)
<1>3. /\ state'[o][w] = live /\ status' = status
      /\ \A v \in Workloads : v # w => state'[o][v] = state[o][v]
      /\ save'[o].of = w
      /\ save'[o].containers = listed[o][w]
      /\ save'[o].draft = BuildProfile(live, listed[o][w])
  BY <1>2 DEF Observed
<1>4. pc[o] = "sampling" /\ pc'[o] = "get"
  BY DEF Observe, Goto, TypeOK
<1>5. state[o][w] \in Live
  BY DEF TypeOK
<1>6. [c \in DOMAIN live |-> live[c].hist]
        = Recorded([c \in DOMAIN state[o][w] |-> state[o][w][c].hist], sampled, reading)
  BY <1>5, ObserveRecords
<1>7. BuildProfile(live, listed[o][w]).containers =
        [c \in listed[o][w] \cap DOMAIN live |-> live[c].hist]
  BY DEF BuildProfile
<1> HIDE DEF live
<1>8. Memory(o, w)' = Recorded(Memory(o, w), sampled, reading)
  BY <1>3, <1>6 DEF Memory
<1>9. \E s \in SUBSET Containers : \E r \in [s -> Readings] :
        Memory(o, w)' = Recorded(Memory(o, w), s, r)
  BY <1>8
<1> QED
  BY <1>3, <1>4, <1>7, <1>9

LEMMA InstanceSimulates ==
  ASSUME TypeOK, [Next]_vars, NEW o, Operators = {o}, MemoryEmpty(o), DraftIsHistory(o)
  PROVE  MemoryEmpty(o)' /\ DraftIsHistory(o)'
<1>1. o \in Operators
  OBVIOUS
<1>2. MemoryEmpty(o) /\ DraftIsHistory(o)
  OBVIOUS
<1>3. ASSUME state' = state, DraftsKept, ~ Crash(o)
      PROVE  MemoryEmpty(o)' /\ DraftIsHistory(o)'
  BY <1>1, <1>2, <1>3, DraftStays, MemoryStays
<1>4. CASE Quiet
  <2>1. ~ Crash(o) \/ Crash(o)
    OBVIOUS
  <2>2. CASE ~ Crash(o)
    BY <1>3, <1>4, <2>2 DEF Quiet
  <2>3. CASE Crash(o)
    <3>1. pc'[o] = "down" /\ \A w \in Workloads : state'[o][w] = NoContainers
      BY <1>1, <2>3 DEF Crash, Goto, TypeOK
    <3> QED
      BY <3>1 DEF MemoryEmpty, DraftIsHistory, Saving
  <2> QED
    BY <2>2, <2>3
<1>5. CASE SaveStatus(o)
  <2>1. pc[o] = "status" /\ pc'[o] = "sampling"
    BY <1>1, <1>5 DEF SaveStatus, Goto, TypeOK
  <2> QED
    BY <2>1 DEF MemoryEmpty, DraftIsHistory, Saving
<1>6. CASE Crash(o)
  <2>1. pc'[o] = "down" /\ \A w \in Workloads : state'[o][w] = NoContainers
    BY <1>1, <1>6 DEF Crash, Goto, TypeOK
  <2> QED
    BY <2>1 DEF MemoryEmpty, DraftIsHistory, Saving
<1>7. ASSUME NEW w \in Workloads, RehydrateOne(o, w)
      PROVE  MemoryEmpty(o)' /\ DraftIsHistory(o)'
  <2>1. /\ pc[o] = "rehydrate" /\ pc' = pc
        /\ listed' = [listed EXCEPT ![o][w] = {}]
    BY <1>7 DEF RehydrateOne, Visited
  <2>2. /\ listed'[o][w] = {}
        /\ \A v \in Workloads : v # w => listed'[o][v] = listed[o][v]
    BY <1>1, <2>1 DEF TypeOK
  <2>3. \A v \in Workloads : v # w => state'[o][v] = state[o][v]
    BY <1>1, <1>2, <1>7, RehydrateSimulates
  <2> QED
    BY <1>2, <2>1, <2>2, <2>3 DEF MemoryEmpty, DraftIsHistory, Saving
<1>8. ASSUME NEW w \in Workloads, Observe(o, w)
      PROVE  MemoryEmpty(o)' /\ DraftIsHistory(o)'
  <2>1. pc'[o] = "get"
    BY <1>1, <1>8 DEF Observe, Goto, TypeOK
  <2>2. /\ save'[o].of = w
        /\ save'[o].draft.containers =
             [c \in save'[o].containers \cap DOMAIN state'[o][w] |-> state'[o][w][c].hist]
    BY <1>1, <1>8, ObserveSimulates
  <2> QED
    BY <2>1, <2>2 DEF MemoryEmpty, DraftIsHistory
<1>9. ASSUME NEW w \in Workloads, DeleteProfile(w)
      PROVE  MemoryEmpty(o)' /\ DraftIsHistory(o)'
  <2>1. DraftsKept /\ state' = state
    BY <1>9, DeleteEffect
  <2>2. CASE ~ Crash(o)
    BY <1>3, <2>1, <2>2
  <2>3. CASE Crash(o)
    BY <1>6, <2>3
  <2> QED
    BY <2>2, <2>3
<1> QED
  BY <1>1, <1>4, <1>5, <1>6, <1>7, <1>8, <1>9, StepKinds

LEMMA StepSimulates ==
  ASSUME TypeOK, [Next]_vars, Alone, Simulates
  PROVE  Simulates'
<1>1. PICK o : Operators = {o}
  BY DEF Alone
<1>2. TheInstance = o
  BY <1>1, TheOne DEF Alone
<1>3. MemoryEmpty(o)' /\ DraftIsHistory(o)'
  BY <1>1, <1>2, InstanceSimulates DEF Simulates
<1>4. TheInstance' = o
  BY <1>2
<1> QED
  BY <1>3, <1>4 DEF Simulates
-----------------------------------------------------------------------------
(* Every step is a step of DurableHistory *)

recorded == [w \in Workloads |->
               [c \in DOMAIN state[TheInstance][w] |-> state[TheInstance][w][c].hist]]
kept == [w \in Workloads |-> status[w].containers]
running == pc[TheInstance] # "down"

LEMMA NothingIsEmpty ==
  /\ Abstract!Nothing = NoContainers
  /\ EmptyStatus.containers = NoContainers
  /\ \A f : f = NoContainers => [c \in DOMAIN f |-> f[c].hist] = NoContainers
<1>1. DOMAIN NoContainers = {}
  BY EmptyTypes
<1>2. \A f : f = NoContainers => [c \in DOMAIN f |-> f[c].hist] = NoContainers
  BY <1>1 DEF NoContainers
<1> QED
  BY <1>2 DEF Abstract!Nothing, NoContainers, EmptyStatus

LEMMA MemoryOf ==
  ASSUME NEW o, Operators = {o}
  PROVE  /\ TheInstance = o
         /\ \A w \in Workloads : recorded[w] = Memory(o, w) /\ recorded'[w] = Memory(o, w)'
         /\ recorded = [w \in Workloads |-> recorded[w]]
         /\ recorded' = [w \in Workloads |-> recorded'[w]]
<1>1. TheInstance = o
  BY TheOne DEF Alone
<1>2. \A w \in Workloads : recorded[w] = Memory(o, w)
  BY <1>1 DEF recorded, Memory
<1>3. \A w \in Workloads : recorded'[w] = Memory(o, w)'
  BY <1>1 DEF recorded, Memory
<1> QED
  BY <1>1, <1>2, <1>3 DEF recorded

LEMMA AbstractInit == Init /\ Alone => Abstract!Init
<1> SUFFICES ASSUME Init, Alone PROVE Abstract!Init
  OBVIOUS
<1>1. PICK o : Operators = {o}
  BY DEF Alone
<1>2. TheInstance = o
  BY <1>1, MemoryOf
<1>3. \A w \in Workloads : state[o][w] = NoContainers /\ status[w] = EmptyStatus
  BY <1>1 DEF Init
<1>4. pc[o] = "down"
  BY <1>1 DEF Init
<1>5. recorded = [w \in Workloads |-> Abstract!Nothing]
  BY <1>2, <1>3, NothingIsEmpty DEF recorded
<1>6. kept = [w \in Workloads |-> Abstract!Nothing]
  BY <1>3, NothingIsEmpty DEF kept
<1> QED
  BY <1>2, <1>4, <1>5, <1>6 DEF Abstract!Init, recorded, kept

\* The abstract variables move with the concrete ones.
LEMMA AbstractStutter ==
  ASSUME NEW o, Operators = {o}, UNCHANGED <<state, status>>,
         pc'[o] = "down" <=> pc[o] = "down"
  PROVE  UNCHANGED Abstract!vars
<1>1. TheInstance = o
  BY MemoryOf
<1> QED
  BY <1>1 DEF Abstract!vars

LEMMA AbstractStep ==
  ASSUME TypeOK, [Next]_vars, NEW o, Operators = {o}, MemoryEmpty(o), DraftIsHistory(o)
  PROVE  [Abstract!Next]_(Abstract!vars)
<1>0. TheInstance = o /\ o \in Operators
  BY MemoryOf
<1>1. CASE Start(o)
  <2>1. UNCHANGED <<state, status>> /\ pc[o] = "down" /\ pc'[o] = "boot"
    BY <1>0, <1>1 DEF Start, Goto, TypeOK, api
  <2>2. Abstract!Start
    BY <1>0, <2>1 DEF Abstract!Start
  <2> QED
    BY <2>2 DEF Abstract!Next
<1>2. CASE Crash(o)
  <2>1. /\ status' = status /\ pc[o] # "down" /\ pc'[o] = "down"
        /\ \A w \in Workloads : state'[o][w] = NoContainers
    BY <1>0, <1>2 DEF Crash, Goto, TypeOK, api
  <2>2. recorded' = [w \in Workloads |-> Abstract!Nothing]
    BY <1>0, <2>1, NothingIsEmpty DEF recorded
  <2>3. Abstract!Crash
    BY <1>0, <2>1, <2>2 DEF Abstract!Crash, recorded
  <2> QED
    BY <2>3 DEF Abstract!Next
<1>3. CASE Quiet /\ ~ Start(o) /\ ~ Crash(o)
  <2>1. UNCHANGED <<state, status>>
    BY <1>3 DEF Quiet
  <2>2. pc'[o] = "down" <=> pc[o] = "down"
    BY <1>3, PhaseStep
  <2> QED
    BY <2>1, <2>2, AbstractStutter
<1>4. CASE SaveStatus(o)
  <2>1. /\ Saving(o) /\ save[o].of \in Workloads /\ state' = state
        /\ \/ status' = status
           \/ status' = [status EXCEPT ![save[o].of] = save[o].draft]
        /\ pc[o] # "down" /\ pc'[o] # "down"
    BY <1>0, <1>4, SaveStatusEffect DEF SaveStatus, Goto, TypeOK
  <2>2. CASE status' = status
    BY <2>1, <2>2, AbstractStutter
  <2>3. CASE status' = [status EXCEPT ![save[o].of] = save[o].draft]
    <3>1. PICK w \in Workloads, cs \in SUBSET Containers :
            w = save[o].of /\ cs = save[o].containers
      BY <1>0, <2>1, SavingType
    <3>2. save[o].draft.containers =
            [c \in cs \cap DOMAIN state[o][w] |-> state[o][w][c].hist]
      BY <2>1, <3>1 DEF DraftIsHistory
    <3>3. recorded[w] = [c \in DOMAIN state[o][w] |-> state[o][w][c].hist]
      BY <1>0 DEF recorded
    <3>4. save[o].draft.containers =
            [c \in cs \cap DOMAIN recorded[w] |-> recorded[w][c]]
      BY <3>2, <3>3
    <3>5. kept' = [kept EXCEPT ![w] = [c \in cs \cap DOMAIN recorded[w] |-> recorded[w][c]]]
      <4>1. \A v \in Workloads : status'[v] = IF v = w THEN save[o].draft ELSE status[v]
        BY <2>3, <3>1 DEF TypeOK
      <4> QED
        BY <3>4, <4>1 DEF kept
    <3>6. recorded' = recorded
      BY <2>1 DEF recorded
    <3>7. Abstract!Checkpoint(w)
      BY <1>0, <2>1, <3>5, <3>6 DEF Abstract!Checkpoint, recorded, kept
    <3> QED
      BY <3>7 DEF Abstract!Next
  <2> QED
    BY <2>1, <2>2, <2>3
<1>5. ASSUME NEW w \in Workloads, RehydrateOne(o, w)
      PROVE  [Abstract!Next]_(Abstract!vars)
  <2>1. CASE UNCHANGED <<state, status, pc>>
    BY <2>1, AbstractStutter
  <2>2. CASE /\ UNCHANGED <<status, pc>> /\ pc[o] # "down"
             /\ state[o][w] = NoContainers
             /\ Memory(o, w)' = status[w].containers
             /\ \A v \in Workloads : v # w => state'[o][v] = state[o][v]
    <3>1. recorded[w] = Abstract!Nothing
      BY <1>0, <2>2, NothingIsEmpty DEF recorded
    <3>2. \A v \in Workloads : recorded'[v] = IF v = w THEN kept[w] ELSE recorded[v]
      <4>1. \A v \in Workloads : v # w => Memory(o, v)' = Memory(o, v)
        BY <2>2 DEF Memory
      <4>2. Memory(o, w)' = kept[w]
        BY <2>2 DEF kept
      <4> QED
        BY <4>1, <4>2, MemoryOf
    <3>3. recorded' = [recorded EXCEPT ![w] = kept[w]]
      <4>1. recorded' = [v \in Workloads |-> recorded'[v]] /\ DOMAIN recorded = Workloads
        BY DEF recorded
      <4> QED
        BY <3>2, <4>1
    <3>4. kept' = kept
      BY <2>2 DEF kept
    <3>5. Abstract!Resume(w)
      BY <1>0, <2>2, <3>1, <3>3, <3>4 DEF Abstract!Resume, recorded, kept
    <3> QED
      BY <3>5 DEF Abstract!Next
  <2> QED
    BY <1>5, <2>1, <2>2, RehydrateSimulates
<1>6. ASSUME NEW w \in Workloads, Observe(o, w)
      PROVE  [Abstract!Next]_(Abstract!vars)
  <2>1. /\ status' = status /\ pc[o] # "down" /\ pc'[o] # "down"
        /\ \A v \in Workloads : v # w => state'[o][v] = state[o][v]
    BY <1>0, <1>6, ObserveSimulates
  <2>2. PICK sampled \in SUBSET Containers : \E reading \in [sampled -> Readings] :
          Memory(o, w)' = Recorded(Memory(o, w), sampled, reading)
    BY <1>0, <1>6, ObserveSimulates
  <2>3. PICK reading \in [sampled -> Readings] :
          Memory(o, w)' = Recorded(Memory(o, w), sampled, reading)
    BY <2>2
  <2>4. now \in Seconds /\ reading \in [sampled -> SUBSET Metrics]
    BY ReadingsAreMetrics DEF TypeOK
  <2>5. \A v \in Workloads : recorded'[v] =
          IF v = w THEN Recorded(recorded[w], sampled, reading) ELSE recorded[v]
    <3>1. \A v \in Workloads : v # w => Memory(o, v)' = Memory(o, v)
      BY <2>1 DEF Memory
    <3> QED
      BY <2>3, <3>1, MemoryOf
  <2>6. recorded' = [recorded EXCEPT ![w] = Recorded(recorded[w], sampled, reading)]
    <3>1. recorded' = [v \in Workloads |-> recorded'[v]] /\ DOMAIN recorded = Workloads
      BY DEF recorded
    <3> QED
      BY <2>5, <3>1
  <2>7. kept' = kept
    BY <2>1 DEF kept
  <2>8. Abstract!Record(w)
    <3>1. recorded' = [recorded EXCEPT ![w] =
            [c \in DOMAIN recorded[w] \cup sampled |->
               [m \in Metrics |->
                  (IF c \in DOMAIN recorded[w] THEN recorded[w][c][m] ELSE {})
                  \cup (IF c \in sampled /\ m \in reading[c] THEN {now} ELSE {})]]]
      BY <2>6 DEF Recorded
    <3>2. \E s \in Seconds, new \in SUBSET Containers :
          \E positive \in [new -> SUBSET Metrics] :
            recorded' = [recorded EXCEPT ![w] =
              [c \in DOMAIN recorded[w] \cup new |->
                 [m \in Metrics |->
                    (IF c \in DOMAIN recorded[w] THEN recorded[w][c][m] ELSE {})
                    \cup (IF c \in new /\ m \in positive[c] THEN {s} ELSE {})]]]
      BY <2>4, <3>1
    <3>3. running /\ running' = running
      BY <1>0, <2>1 DEF running
    <3> QED
      BY <2>7, <3>2, <3>3, Zenon DEF Abstract!Record, recorded, kept, running
  <2> QED
    BY <2>8 DEF Abstract!Next
<1>7. ASSUME NEW w \in Workloads, DeleteProfile(w)
      PROVE  [Abstract!Next]_(Abstract!vars)
  <2>1. /\ state' = state /\ pc' = pc
        /\ status' = [status EXCEPT ![w] = EmptyStatus]
    BY <1>7 DEF DeleteProfile
  <2>2. kept' = [kept EXCEPT ![w] = Abstract!Nothing]
    <3>1. \A v \in Workloads : status'[v] = IF v = w THEN EmptyStatus ELSE status[v]
      BY <2>1 DEF TypeOK
    <3> QED
      BY <3>1, NothingIsEmpty DEF kept
  <2>3. recorded' = recorded
    BY <2>1 DEF recorded
  <2>4. Abstract!Forget(w)
    BY <1>0, <2>1, <2>2, <2>3 DEF Abstract!Forget, recorded, kept
  <2> QED
    BY <2>4 DEF Abstract!Next
<1> QED
  BY <1>0, <1>1, <1>2, <1>3, <1>4, <1>5, <1>6, <1>7, StepKinds

\* A single instance, whatever calls fail and whenever it crashes, gives readers of the
\* profiles, and itself after a restart, the history of atomic checkpoints.
THEOREM Implements == Alone /\ Spec => ImplementsDurableHistory
<1>1. Alone /\ Init => TypeOK /\ Simulates /\ Abstract!Init
  BY InitType, InitSimulates, AbstractInit
<1>2. Alone /\ TypeOK /\ Simulates /\ [Next]_vars
        => TypeOK' /\ Simulates' /\ [Abstract!Next]_(Abstract!vars)
  <2> SUFFICES ASSUME Alone, TypeOK, Simulates, [Next]_vars
               PROVE  TypeOK' /\ Simulates' /\ [Abstract!Next]_(Abstract!vars)
    OBVIOUS
  <2>1. PICK o : Operators = {o}
    BY DEF Alone
  <2>2. MemoryEmpty(o) /\ DraftIsHistory(o)
    BY <2>1, MemoryOf DEF Simulates
  <2> QED
    BY <2>1, <2>2, NextType, StepSimulates, AbstractStep
<1>3. Alone => Alone'
  BY DEF Alone
<1> QED
  BY <1>1, <1>2, <1>3, PTL DEF Spec, ImplementsDurableHistory, Abstract!Spec
=============================================================================
