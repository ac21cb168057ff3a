--------------------------- MODULE PublishingProofs ---------------------------
(***************************************************************************)
(* Theorems about Publishing, for any number of instances, workloads,       *)
(* failures, crashes and deletions: the types, that a status never ends up  *)
(* below the spec of another tick, and that scores, targets and the         *)
(* efficiency published are what consumers are told they are.               *)
(***************************************************************************)
EXTENDS Publishing, Arithmetic

Saving == {"create", "update", "status"}
Phases == {"idle", "next"} \cup Saving

\* What is kept of a saved object.
IsContent(x) == DOMAIN x = {"at", "status"} /\ x.at \in 0 .. MaxNow

\* What the instance o knows: what it saves, and, while its resource version is the
\* object's, that the object is there and carries, after its create or update, the time
\* of its tick.
Knows(o) ==
  /\ phase[o] \in Phases
  /\ queue[o] \subseteq Names
  /\ recs[o] \in Advices \cup {NoAdvice}
  /\ at[o] \in 0 .. MaxNow
  /\ IF phase[o] \in Saving THEN object[o] \in Names ELSE object[o] = None
  /\ phase[o] = "idle" => queue[o] = {}
  /\ fresh[o] /\ phase[o] \in {"update", "status"} =>
       /\ IsContent(objects[object[o]])
       /\ phase[o] = "update" => objects[object[o]] # None
       /\ phase[o] = "status" /\ object[o] # Cluster => objects[object[o]].at = at[o]

Maps ==
  /\ DOMAIN phase = Operators /\ DOMAIN queue = Operators /\ DOMAIN object = Operators
  /\ DOMAIN recs = Operators /\ DOMAIN at = Operators /\ DOMAIN fresh = Operators
  /\ DOMAIN objects = Names

PubInv ==
  /\ Maps
  /\ running \subseteq Operators /\ Newest \in running
  /\ now \in 0 .. MaxNow
  /\ disruptions \in 0 .. MaxDisruptions
  /\ \A n \in Names : objects[n] # None => IsContent(objects[n])
  /\ \A o \in Operators : Knows(o)

LEMMA TypeFromInv == PubInv => TypeOK
<1> SUFFICES ASSUME PubInv PROVE TypeOK
  OBVIOUS
<1>1. \A o \in Operators :
        /\ phase[o] \in {"idle", "next", "create", "update", "status"}
        /\ queue[o] \subseteq Names
        /\ recs[o] \in Advices \cup {NoAdvice}
        /\ at[o] \in 0 .. MaxNow
        /\ object[o] \in Names <=> phase[o] \in {"create", "update", "status"}
        /\ phase[o] = "idle" => object[o] = None /\ queue[o] = {}
  BY NoneIsNoName DEF PubInv, Knows, Phases, Saving, Names
<1>2. \A n \in Names : objects[n] # None => objects[n].at \in 0 .. MaxNow
  BY DEF PubInv, IsContent
<1> QED
  BY <1>1, <1>2 DEF PubInv, TypeOK

LEMMA PubInit == Init => PubInv
<1> SUFFICES ASSUME Init PROVE PubInv
  OBVIOUS
<1>1. Maps
  BY DEF Init, Maps
<1>2. \A o \in Operators : Knows(o)
  BY BoundsAreNatural DEF Init, Knows, Phases, Saving
<1> QED
  BY <1>1, <1>2, NewestRuns, BoundsAreNatural DEF Init, PubInv

\* An instance knows what it knew, if neither it nor the object it saves has changed,
\* or what it carries has been outdated.
LEMMA KnowsStill ==
  ASSUME NEW o \in Operators, Knows(o),
         phase'[o] = phase[o], queue'[o] = queue[o], recs'[o] = recs[o],
         at'[o] = at[o], object'[o] = object[o],
         fresh'[o] =>
           fresh[o] /\ (object[o] \in Names => objects'[object[o]] = objects[object[o]])
  PROVE  Knows(o)'
<1>1. phase[o] \in {"update", "status"} => object[o] \in Names
  BY DEF Knows, Saving
<1> QED
  BY <1>1 DEF Knows, IsContent

-----------------------------------------------------------------------------
(* The steps between the Saves *)

LEMMA PubTick ==
  ASSUME PubInv, NEW o \in Operators, NEW r \in Advices, Tick(o, r)
  PROVE  PubInv'
<1>1. /\ phase[o] = "idle" /\ phase' = [phase EXCEPT ![o] = "next"]
      /\ now' = Min({now + 1, MaxNow})
      /\ recs' = [recs EXCEPT ![o] = r] /\ at' = [at EXCEPT ![o] = now']
      /\ queue' = [queue EXCEPT ![o] = WorkloadsOf(r) \cup {Cluster}]
      /\ UNCHANGED <<running, object, fresh, objects, disruptions>>
  BY DEF Tick, Go
<1>2. now' \in 0 .. MaxNow
  <2>1. now \in 0 .. MaxNow /\ MaxNow \in Nat
    BY BoundsAreNatural DEF PubInv
  <2>2. PICK m \in {now + 1, MaxNow} : \A y \in {now + 1, MaxNow} : m =< y
    <3>1. CASE now + 1 =< MaxNow
      BY <2>1, <3>1
    <3>2. CASE now + 1 > MaxNow
      BY <2>1, <3>2
    <3> QED
      BY <2>1, <3>1, <3>2
  <2>3. Min({now + 1, MaxNow}) \in {now + 1, MaxNow}
    BY <2>2 DEF Min
  <2>4. Min({now + 1, MaxNow}) =< MaxNow
    BY <2>2 DEF Min
  <2> QED
    BY <1>1, <2>1, <2>3, <2>4
<1>3. WorkloadsOf(r) \cup {Cluster} \subseteq Names
  <2>1. DOMAIN r \subseteq Workloads \X Containers
    BY AdviceIsTyped
  <2>2. WorkloadsOf(r) \subseteq Workloads
    BY <2>1 DEF WorkloadsOf
  <2> QED
    BY <2>2 DEF Names
<1>4. Maps'
  BY <1>1 DEF PubInv, Maps
<1>5. Knows(o)'
  BY <1>1, <1>2, <1>3 DEF PubInv, Maps, Knows, Phases, Saving
<1>6. \A i \in Operators : i # o => Knows(i)'
  BY <1>1, KnowsStill DEF PubInv, Maps
<1> QED
  BY <1>1, <1>2, <1>4, <1>5, <1>6 DEF PubInv, IsContent

LEMMA PubTickDone ==
  ASSUME PubInv, NEW o \in Operators, TickDone(o)
  PROVE  PubInv'
<1>1. /\ phase[o] = "next" /\ queue[o] = {} /\ phase' = [phase EXCEPT ![o] = "idle"]
      /\ recs' = [recs EXCEPT ![o] = NoAdvice] /\ at' = [at EXCEPT ![o] = 0]
      /\ UNCHANGED <<running, queue, object, fresh, objects, now, disruptions>>
  BY DEF TickDone, Go
<1>2. Maps'
  BY <1>1 DEF PubInv, Maps
<1>3. Knows(o)'
  BY <1>1, BoundsAreNatural DEF PubInv, Maps, Knows, Phases, Saving
<1>4. \A i \in Operators : i # o => Knows(i)'
  BY <1>1, KnowsStill DEF PubInv, Maps
<1> QED
  BY <1>1, <1>2, <1>3, <1>4 DEF PubInv, IsContent
-----------------------------------------------------------------------------
(* The calls of a Save *)

LEMMA PubGet ==
  ASSUME PubInv, NEW o \in Operators, NEW n \in Names, SaveGet(o, n)
  PROVE  PubInv'
<1> DEFINE there == objects[n] # None
           p == IF ~ there THEN "create" ELSE IF n = Cluster THEN "status" ELSE "update"
<1>1. /\ phase' = [phase EXCEPT ![o] = p]
      /\ queue' = [queue EXCEPT ![o] = queue[o] \ {n}]
      /\ object' = [object EXCEPT ![o] = n]
      /\ fresh' = [fresh EXCEPT ![o] = there]
      /\ UNCHANGED <<running, recs, at, objects, now, disruptions>>
  BY DEF SaveGet, Go
<1>2. Maps'
  BY <1>1 DEF PubInv, Maps
<1>3. there => IsContent(objects[n])
  BY DEF PubInv
<1>4. /\ p \in {"create", "update", "status"}
      /\ p = "status" => n = Cluster
      /\ p \in {"update", "status"} => there
  OBVIOUS
<1>5. there <=> objects[n] # None
  OBVIOUS
<1> HIDE DEF there, p
<1>6. Knows(o)'
  <2>1. /\ phase'[o] = p /\ fresh'[o] = there /\ object'[o] = n
        /\ queue'[o] = queue[o] \ {n}
    BY <1>1 DEF PubInv, Maps
  <2> QED
    BY <1>1, <1>3, <1>4, <1>5, <2>1 DEF PubInv, Knows, Phases, Saving, IsContent
<1>7. \A i \in Operators : i # o => Knows(i)'
  BY <1>1, KnowsStill DEF PubInv, Maps
<1> QED
  BY <1>1, <1>2, <1>6, <1>7 DEF PubInv, IsContent

LEMMA MayFailCounts ==
  ASSUME PubInv, NEW n, MayFail(n)
  PROVE  disruptions' \in 0 .. MaxDisruptions
BY BoundsAreNatural DEF PubInv, MayFail, Disrupt

LEMMA PubGetFails ==
  ASSUME PubInv, NEW o \in Operators, NEW n \in Names, GetFails(o, n)
  PROVE  PubInv'
<1>1. /\ phase[o] = "next"
      /\ queue' = [queue EXCEPT ![o] = queue[o] \ {n}]
      /\ UNCHANGED <<running, phase, object, recs, at, fresh, objects, now>>
  BY DEF GetFails, IsNext
<1>2. Maps'
  BY <1>1 DEF PubInv, Maps
<1>3. disruptions' \in 0 .. MaxDisruptions
  BY MayFailCounts DEF GetFails
<1>4. Knows(o)'
  BY <1>1 DEF PubInv, Maps, Knows, Phases, Saving
<1>5. \A i \in Operators : i # o => Knows(i)'
  BY <1>1, KnowsStill DEF PubInv, Maps
<1> QED
  BY <1>1, <1>2, <1>3, <1>4, <1>5 DEF PubInv, IsContent

\* A write outdates what the other instances carry of the object.
LEMMA PubWrite ==
  ASSUME PubInv, NEW o \in Operators, NEW content, NEW carries, Write(o, content, carries),
         object[o] \in Names, IsContent(content),
         UNCHANGED <<running, recs, at, now, disruptions>>,
         Maps',
         \A i \in Operators : i # o => /\ phase'[i] = phase[i] /\ queue'[i] = queue[i]
                                       /\ object'[i] = object[i],
         Knows(o)'
  PROVE  PubInv'
<1>1. /\ objects' = [objects EXCEPT ![object[o]] = content]
      /\ fresh' = [i \in Operators |->
                     IF i = o THEN carries ELSE object[i] # object[o] /\ fresh[i]]
  BY DEF Write
<1>2. \A n \in Names : objects'[n] = IF n = object[o] THEN content ELSE objects[n]
  BY <1>1 DEF PubInv, Maps
<1>3. \A n \in Names : objects'[n] # None => IsContent(objects'[n])
  BY <1>2 DEF PubInv
<1>4. ASSUME NEW i \in Operators, i # o PROVE Knows(i)'
  <2>1. fresh'[i] => fresh[i] /\ object[i] # object[o]
    BY <1>1, <1>4
  <2>2. fresh'[i] /\ object[i] \in Names => objects'[object[i]] = objects[object[i]]
    BY <1>2, <2>1
  <2> QED
    BY <1>4, <2>1, <2>2, KnowsStill DEF PubInv
<1> QED
  BY <1>3, <1>4 DEF PubInv, IsContent

LEMMA PubCreate ==
  ASSUME PubInv, NEW o \in Operators, SaveCreate(o)
  PROVE  PubInv'
<1> DEFINE content == [at |-> SpecTime(o), status |-> None]
<1>1. /\ phase[o] = "create" /\ Write(o, content, TRUE)
      /\ phase' = [phase EXCEPT ![o] = "status"]
      /\ UNCHANGED <<running, queue, object, recs, at, now, disruptions>>
  BY DEF SaveCreate, Go
<1>2. object[o] \in Names /\ at[o] \in 0 .. MaxNow
  BY <1>1 DEF PubInv, Knows, Saving
<1>3. IsContent(content) /\ (object[o] # Cluster => content.at = at[o])
  BY <1>2, BoundsAreNatural DEF IsContent, SpecTime
<1> HIDE DEF content
<1>4. Maps' /\ objects'[object[o]] = content /\ phase'[o] = "status"
  BY <1>1, <1>2 DEF PubInv, Maps, Write
<1>5. Knows(o)'
  BY <1>1, <1>2, <1>3, <1>4 DEF PubInv, Knows, Phases, Saving, IsContent
<1> QED
  BY <1>1, <1>2, <1>3, <1>4, <1>5, PubWrite DEF PubInv, Maps

LEMMA PubUpdate ==
  ASSUME PubInv, NEW o \in Operators, SaveUpdate(o)
  PROVE  PubInv'
<1> DEFINE content == [at |-> at[o], status |-> objects[object[o]].status]
<1>1. /\ phase[o] = "update" /\ Write(o, content, TRUE)
      /\ phase' = [phase EXCEPT ![o] = "status"]
      /\ UNCHANGED <<running, queue, object, recs, at, now, disruptions>>
  BY DEF SaveUpdate, Go
<1>2. object[o] \in Names /\ at[o] \in 0 .. MaxNow
  BY <1>1 DEF PubInv, Knows, Saving
<1>3. IsContent(content) /\ content.at = at[o]
  BY <1>2 DEF IsContent
<1> HIDE DEF content
<1>4. Maps' /\ objects'[object[o]] = content /\ phase'[o] = "status"
  BY <1>1, <1>2 DEF PubInv, Maps, Write
<1>5. Knows(o)'
  BY <1>1, <1>2, <1>3, <1>4 DEF PubInv, Knows, Phases, Saving, IsContent
<1> QED
  BY <1>1, <1>2, <1>3, <1>4, <1>5, PubWrite DEF PubInv, Maps

LEMMA PubStatus ==
  ASSUME PubInv, NEW o \in Operators, SaveStatus(o)
  PROVE  PubInv'
<1> DEFINE content == [objects[object[o]] EXCEPT !.status = [at |-> at[o], of |-> recs[o]]]
<1>1. /\ phase[o] = "status" /\ fresh[o] /\ Write(o, content, FALSE)
      /\ phase' = [phase EXCEPT ![o] = "next"] /\ object' = [object EXCEPT ![o] = None]
      /\ UNCHANGED <<running, queue, recs, at, now, disruptions>>
  BY DEF SaveStatus, Return, Go
<1>2. object[o] \in Names /\ IsContent(objects[object[o]])
  BY <1>1 DEF PubInv, Knows, Saving
<1>3. IsContent(content)
  BY <1>2 DEF IsContent
<1> HIDE DEF content
<1>4. /\ Maps' /\ phase'[o] = "next" /\ object'[o] = None
      /\ \A i \in Operators : i # o => phase'[i] = phase[i] /\ object'[i] = object[i]
  BY <1>1 DEF PubInv, Maps, Write
<1>5. Knows(o)'
  BY <1>1, <1>4 DEF PubInv, Knows, Phases, Saving
<1> QED
  BY <1>1, <1>2, <1>3, <1>4, <1>5, PubWrite

LEMMA PubAbandon ==
  ASSUME PubInv, NEW o \in Operators, Abandon(o), phase[o] \in Saving,
         UNCHANGED <<running, recs, at, objects, now>>,
         disruptions' \in 0 .. MaxDisruptions
  PROVE  PubInv'
<1>1. /\ phase' = [phase EXCEPT ![o] = "next"] /\ object' = [object EXCEPT ![o] = None]
      /\ fresh' = [fresh EXCEPT ![o] = FALSE]
      /\ UNCHANGED queue
  BY DEF Abandon, Return, Drop, Go
<1>2. Maps'
  BY <1>1 DEF PubInv, Maps
<1>3. Knows(o)'
  BY <1>1 DEF PubInv, Maps, Knows, Phases, Saving
<1>4. \A i \in Operators : i # o => Knows(i)'
  BY <1>1, KnowsStill DEF PubInv, Maps
<1> QED
  BY <1>2, <1>3, <1>4 DEF PubInv, IsContent
-----------------------------------------------------------------------------
(* Crashes, rolling updates and deletions *)

LEMMA PubIdle ==
  ASSUME PubInv, NEW o \in Operators, Idle(o),
         running' \subseteq Operators, Newest \in running',
         disruptions' \in 0 .. MaxDisruptions, UNCHANGED <<objects, now>>
  PROVE  PubInv'
<1>1. /\ phase' = [phase EXCEPT ![o] = "idle"] /\ queue' = [queue EXCEPT ![o] = {}]
      /\ object' = [object EXCEPT ![o] = None] /\ recs' = [recs EXCEPT ![o] = NoAdvice]
      /\ at' = [at EXCEPT ![o] = 0] /\ fresh' = [fresh EXCEPT ![o] = FALSE]
  BY DEF Idle, Drop, Go
<1>2. Maps'
  BY <1>1 DEF PubInv, Maps
<1>3. Knows(o)'
  BY <1>1, BoundsAreNatural DEF PubInv, Maps, Knows, Phases, Saving
<1>4. \A i \in Operators : i # o => Knows(i)'
  BY <1>1, KnowsStill DEF PubInv, Maps
<1> QED
  BY <1>2, <1>3, <1>4 DEF PubInv, IsContent

LEMMA PubDelete ==
  ASSUME PubInv, NEW n \in Names, Delete(n)
  PROVE  PubInv'
<1>1. /\ objects' = [objects EXCEPT ![n] = None]
      /\ fresh' = [o \in Operators |-> object[o] # n /\ fresh[o]]
      /\ UNCHANGED <<running, phase, queue, object, recs, at, now>>
      /\ disruptions' \in 0 .. MaxDisruptions
  BY BoundsAreNatural DEF Delete, Disrupt, PubInv
<1>2. Maps'
  BY <1>1 DEF PubInv, Maps
<1>3. \A m \in Names : objects'[m] = IF m = n THEN None ELSE objects[m]
  BY <1>1 DEF PubInv, Maps
<1>4. ASSUME NEW o \in Operators PROVE Knows(o)'
  <2>1. fresh'[o] => object[o] # n /\ fresh[o]
    BY <1>1
  <2>2. fresh'[o] /\ object[o] \in Names => objects'[object[o]] = objects[object[o]]
    BY <1>3, <2>1
  <2> QED
    BY <1>1, <2>1, <2>2, KnowsStill DEF PubInv
<1> QED
  BY <1>1, <1>2, <1>3, <1>4 DEF PubInv, IsContent

LEMMA PubStep == PubInv /\ [Next]_vars => PubInv'
<1> SUFFICES ASSUME PubInv, [Next]_vars PROVE PubInv'
  OBVIOUS
<1>1. ASSUME NEW o \in Operators, Step(o) PROVE PubInv'
  <2>1. CASE \E r \in Advices : Tick(o, r)
    BY <2>1, PubTick
  <2>2. CASE \E n \in Names : SaveGet(o, n) \/ GetFails(o, n)
    BY <2>2, PubGet, PubGetFails
  <2>3. CASE TickDone(o)
    BY <2>3, PubTickDone
  <2>4. CASE SaveCreate(o) \/ SaveUpdate(o) \/ SaveStatus(o)
    BY <2>4, PubCreate, PubUpdate, PubStatus
  <2>5. CASE SaveRefused(o)
    <3>1. /\ Abandon(o) /\ phase[o] \in Saving
          /\ UNCHANGED <<running, recs, at, objects, now, disruptions>>
      BY <2>5 DEF SaveRefused, Saving
    <3>2. disruptions' \in 0 .. MaxDisruptions
      BY <3>1 DEF PubInv
    <3> QED
      BY <3>1, <3>2, PubAbandon
  <2>6. CASE SaveFails(o)
    <3>1. disruptions' \in 0 .. MaxDisruptions
      BY <2>6, MayFailCounts DEF SaveFails
    <3> QED
      BY <2>6, <3>1, PubAbandon DEF SaveFails, Saving
  <2> QED
    BY <1>1, <2>1, <2>2, <2>3, <2>4, <2>5, <2>6 DEF Step, Save
<1>2. ASSUME NEW o \in Operators, Crash(o) PROVE PubInv'
  <2>1. disruptions' \in 0 .. MaxDisruptions
    BY <1>2, BoundsAreNatural DEF Crash, Disrupt, PubInv
  <2> QED
    BY <1>2, <2>1, PubIdle DEF Crash, PubInv
<1>3. ASSUME NEW o \in Operators, Retire(o) PROVE PubInv'
  BY <1>3, PubIdle DEF Retire, PubInv
<1>4. ASSUME NEW n \in Names, Delete(n) PROVE PubInv'
  BY <1>4, PubDelete
<1>5. CASE UNCHANGED vars
  <2>1. UNCHANGED <<running, phase, queue, object, recs, at, fresh, objects, now, disruptions>>
    BY <1>5 DEF vars, instance
  <2> QED
    BY <2>1 DEF PubInv, Maps, Knows, IsContent
<1> QED
  BY <1>1, <1>2, <1>3, <1>4, <1>5 DEF Next

LEMMA Invariant == Spec => []PubInv
BY PubInit, PubStep, PTL DEF Spec
-----------------------------------------------------------------------------
(* Theorems *)

\* The types; an object is being saved exactly in the phases of a Save.
THEOREM TypeCorrect == Spec => []TypeOK
BY Invariant, TypeFromInv, PTL

\* A step leaves a recommendation's status alone, or writes it below the GeneratedAt of
\* the tick that it comes from.
Follows(n) ==
  objects'[n] # None /\ objects'[n].status # None
    => \/ objects'[n].status.at = objects'[n].at
       \/ objects[n] # None /\ objects[n].status = objects'[n].status

LEMMA FollowsIfKept ==
  ASSUME NEW n, objects'[n] = objects[n]
  PROVE  Follows(n)
BY DEF Follows

\* A write concerns the object that is being saved.
LEMMA WriteIsOfObject ==
  ASSUME PubInv, NEW o \in Operators, NEW content, NEW carries, Write(o, content, carries),
         object[o] \in Names, NEW n \in Names
  PROVE  objects'[n] = IF n = object[o] THEN content ELSE objects[n]
BY DEF Write, PubInv, Maps

LEMMA StepFollows ==
  ASSUME PubInv, [Next]_vars, NEW n \in Workloads
  PROVE  Follows(n)
<1>0. n \in Names /\ n # Cluster
  BY NamesAreNumbers DEF Names
<1>1. ASSUME NEW o \in Operators, SaveCreate(o) PROVE Follows(n)
  <2>1. Write(o, [at |-> SpecTime(o), status |-> None], TRUE) /\ object[o] \in Names
    BY <1>1 DEF SaveCreate, PubInv, Knows, Saving
  <2>2. objects'[n] = IF n = object[o] THEN [at |-> SpecTime(o), status |-> None]
                                       ELSE objects[n]
    BY <1>0, <2>1, WriteIsOfObject
  <2> QED
    BY <2>2 DEF Follows
<1>2. ASSUME NEW o \in Operators, SaveUpdate(o) PROVE Follows(n)
  <2> DEFINE content == [at |-> at[o], status |-> objects[object[o]].status]
  <2>1. /\ Write(o, content, TRUE)
        /\ object[o] \in Names /\ objects[object[o]] # None
    BY <1>2 DEF SaveUpdate, PubInv, Knows, Saving
  <2> HIDE DEF content
  <2>11. objects'[n] = IF n = object[o] THEN content ELSE objects[n]
    BY <1>0, <2>1, WriteIsOfObject
  <2>2. objects'[n] = IF n = object[o] THEN [at |-> at[o], status |-> objects[n].status]
                                       ELSE objects[n]
    BY <2>11 DEF content
  <2> QED
    BY <2>1, <2>2 DEF Follows
<1>3. ASSUME NEW o \in Operators, SaveStatus(o) PROVE Follows(n)
  <2> DEFINE content == [objects[object[o]] EXCEPT !.status = [at |-> at[o], of |-> recs[o]]]
  <2>1. /\ phase[o] = "status" /\ fresh[o] /\ Write(o, content, FALSE)
        /\ object[o] \in Names /\ IsContent(objects[object[o]])
        /\ object[o] # Cluster => objects[object[o]].at = at[o]
    BY <1>3 DEF SaveStatus, PubInv, Knows, Saving
  <2>2. content.status.at = at[o] /\ content.at = objects[object[o]].at
    BY <2>1 DEF IsContent
  <2> HIDE DEF content
  <2>3. objects'[n] = IF n = object[o] THEN content ELSE objects[n]
    BY <1>0, <2>1, WriteIsOfObject
  <2> QED
    BY <1>0, <2>1, <2>2, <2>3 DEF Follows
<1>4. ASSUME NEW m \in Names, Delete(m) PROVE Follows(n)
  <2>1. objects'[n] = IF n = m THEN None ELSE objects[n]
    BY <1>0, <1>4 DEF Delete, PubInv, Maps
  <2> QED
    BY <2>1 DEF Follows
<1>5. CASE UNCHANGED objects
  BY <1>5, FollowsIfKept
<1>6. ASSUME NEW o \in Operators, Step(o) PROVE Follows(n)
  <2>1. CASE \/ \E r \in Advices : Tick(o, r)
             \/ \E m \in Names : SaveGet(o, m) \/ GetFails(o, m)
             \/ TickDone(o) \/ SaveRefused(o) \/ SaveFails(o)
    BY <1>5, <2>1 DEF Tick, SaveGet, GetFails, TickDone, SaveRefused, SaveFails
  <2> QED
    BY <1>1, <1>2, <1>3, <1>6, <2>1 DEF Step, Save
<1> QED
  BY <1>4, <1>5, <1>6 DEF Next, Crash, Retire, vars

\* Whichever instances, failures, crashes and deletions interfere, a status is only
\* written below the spec of its own tick.
THEOREM StatusCorrect == Spec => StatusFollowsSpec
<1>1. PubInv /\ [Next]_vars
        => [\A n \in Workloads :
              objects'[n] # None /\ objects'[n].status # None
                => \/ objects'[n].status.at = objects'[n].at
                   \/ objects[n] # None /\ objects[n].status = objects'[n].status]_vars
  BY StepFollows DEF Follows
<1> QED
  BY <1>1, Invariant, PTL DEF Spec, StatusFollowsSpec
-----------------------------------------------------------------------------
(* Whose advice is published *)

About(r) == WorkloadsOf(r) \cup {Cluster}

\* A tick that is under way has advice, and saves what it is about.
TickAdvised(o) ==
  phase[o] # "idle" =>
    /\ recs[o] \in Advices /\ queue[o] \subseteq About(recs[o])
    /\ phase[o] \in Saving => object[o] \in About(recs[o])

\* A status is that of advice about the object it belongs to.
StatusAdvised(n) ==
  objects[n] # None /\ objects[n].status # None =>
    objects[n].status.of \in Advices /\ n \in About(objects[n].status.of)

AdviceInv ==
  /\ \A o \in Operators : TickAdvised(o)
  /\ \A n \in Names : StatusAdvised(n)

LEMMA OtherTicks ==
  ASSUME PubInv, NEW o \in Operators, Step(o) \/ Crash(o) \/ Retire(o),
         NEW i \in Operators, i # o
  PROVE  phase'[i] = phase[i] /\ queue'[i] = queue[i] /\ object'[i] = object[i]
         /\ recs'[i] = recs[i]
<1>0. Maps
  BY DEF PubInv
<1>1. ASSUME NEW r \in Advices, Tick(o, r)
      PROVE  phase'[i] = phase[i] /\ queue'[i] = queue[i] /\ object'[i] = object[i]
             /\ recs'[i] = recs[i]
  BY <1>0, <1>1 DEF Tick, Go, Maps
<1>2. CASE (\E n \in Names : SaveGet(o, n) \/ GetFails(o, n)) \/ TickDone(o)
  BY <1>0, <1>2 DEF SaveGet, GetFails, TickDone, Go, Maps
<1>3. CASE SaveCreate(o) \/ SaveUpdate(o)
  BY <1>0, <1>3 DEF SaveCreate, SaveUpdate, Go, Maps
<1>4. CASE SaveStatus(o) \/ SaveRefused(o) \/ SaveFails(o)
  BY <1>0, <1>4 DEF SaveStatus, SaveRefused, SaveFails, Abandon, Return, Go, Maps
<1>5. CASE Crash(o) \/ Retire(o)
  BY <1>0, <1>5 DEF Crash, Retire, Idle, Go, Maps
<1> QED
  BY <1>1, <1>2, <1>3, <1>4, <1>5 DEF Step, Save

LEMMA OwnTick ==
  ASSUME PubInv, NEW o \in Operators, TickAdvised(o), Step(o) \/ Crash(o) \/ Retire(o)
  PROVE  TickAdvised(o)'
<1>0. Maps
  BY DEF PubInv
<1>1. ASSUME NEW r \in Advices, Tick(o, r)
      PROVE  TickAdvised(o)'
  <2>1. phase'[o] = "next" /\ recs'[o] = r /\ queue'[o] = About(r)
    BY <1>0, <1>1 DEF Tick, Go, Maps, About
  <2> QED
    BY <2>1 DEF TickAdvised, Saving
<1>2. ASSUME NEW n \in Names, SaveGet(o, n)
      PROVE  TickAdvised(o)'
  <2>1. /\ phase[o] = "next" /\ n \in queue[o]
        /\ recs'[o] = recs[o] /\ queue'[o] = queue[o] \ {n} /\ object'[o] = n
    BY <1>0, <1>2 DEF SaveGet, IsNext, Maps
  <2> QED
    BY <2>1 DEF TickAdvised
<1>3. ASSUME NEW n \in Names, GetFails(o, n)
       PROVE  TickAdvised(o)'
  <2>1. /\ phase[o] = "next" /\ phase'[o] = "next"
        /\ recs'[o] = recs[o] /\ queue'[o] = queue[o] \ {n}
    BY <1>0, <1>3 DEF GetFails, IsNext, Maps
  <2> QED
    BY <2>1 DEF TickAdvised, Saving
<1>4. CASE TickDone(o) \/ Crash(o) \/ Retire(o)
  <2>1. phase'[o] = "idle"
    BY <1>0, <1>4 DEF TickDone, Crash, Retire, Idle, Go, Maps
  <2> QED
    BY <2>1 DEF TickAdvised
<1>5. CASE SaveCreate(o) \/ SaveUpdate(o)
  <2>1. /\ phase[o] \in Saving /\ recs'[o] = recs[o] /\ queue'[o] = queue[o]
        /\ object'[o] = object[o]
    BY <1>5 DEF SaveCreate, SaveUpdate, Saving
  <2>2. phase[o] # "idle"
    BY <2>1 DEF Saving
  <2> QED
    BY <2>1, <2>2 DEF TickAdvised
<1>6. CASE SaveStatus(o) \/ SaveRefused(o) \/ SaveFails(o)
  <2>1. /\ phase[o] \in Saving /\ recs'[o] = recs[o] /\ queue'[o] = queue[o]
        /\ phase'[o] = "next"
    BY <1>0, <1>6 DEF SaveStatus, SaveRefused, SaveFails, Abandon, Return, Go, Maps, Saving
  <2>2. phase[o] # "idle" /\ phase'[o] \notin Saving
    BY <2>1 DEF Saving
  <2> QED
    BY <2>1, <2>2 DEF TickAdvised
<1> QED
  BY <1>1, <1>2, <1>3, <1>4, <1>5, <1>6 DEF Step, Save

LEMMA AdvisedIfKept ==
  ASSUME NEW n, objects'[n] = objects[n], StatusAdvised(n)
  PROVE  StatusAdvised(n)'
BY DEF StatusAdvised

LEMMA StepAdvised ==
  ASSUME PubInv, AdviceInv, [Next]_vars, NEW n \in Names
  PROVE  StatusAdvised(n)'
<1>0. StatusAdvised(n)
  BY DEF AdviceInv
<1>1. ASSUME NEW o \in Operators, SaveCreate(o) PROVE StatusAdvised(n)'
  <2>1. Write(o, [at |-> SpecTime(o), status |-> None], TRUE) /\ object[o] \in Names
    BY <1>1 DEF SaveCreate, PubInv, Knows, Saving
  <2>2. objects'[n] = IF n = object[o] THEN [at |-> SpecTime(o), status |-> None]
                                       ELSE objects[n]
    BY <2>1, WriteIsOfObject
  <2> QED
    BY <1>0, <2>2 DEF StatusAdvised
<1>2. ASSUME NEW o \in Operators, SaveUpdate(o) PROVE StatusAdvised(n)'
  <2> DEFINE content == [at |-> at[o], status |-> objects[object[o]].status]
  <2>1. /\ Write(o, content, TRUE)
        /\ object[o] \in Names /\ objects[object[o]] # None
    BY <1>2 DEF SaveUpdate, PubInv, Knows, Saving
  <2> HIDE DEF content
  <2>11. objects'[n] = IF n = object[o] THEN content ELSE objects[n]
    BY <2>1, WriteIsOfObject
  <2>2. objects'[n] = IF n = object[o] THEN [at |-> at[o], status |-> objects[n].status]
                                       ELSE objects[n]
    BY <2>11 DEF content
  <2> QED
    BY <1>0, <2>1, <2>2 DEF StatusAdvised
<1>3. ASSUME NEW o \in Operators, SaveStatus(o) PROVE StatusAdvised(n)'
  <2> DEFINE content == [objects[object[o]] EXCEPT !.status = [at |-> at[o], of |-> recs[o]]]
  <2>1. /\ phase[o] = "status" /\ fresh[o] /\ Write(o, content, FALSE)
        /\ object[o] \in Names /\ IsContent(objects[object[o]])
    BY <1>3 DEF SaveStatus, PubInv, Knows, Saving
  <2>2. content.status.of = recs[o]
    BY <2>1 DEF IsContent
  <2> HIDE DEF content
  <2>3. objects'[n] = IF n = object[o] THEN content ELSE objects[n]
    BY <2>1, WriteIsOfObject
  <2>4. phase[o] # "idle" /\ phase[o] \in Saving
    BY <2>1 DEF Saving
  <2>5. recs[o] \in Advices /\ object[o] \in About(recs[o])
    BY <2>4 DEF AdviceInv, TickAdvised
  <2> QED
    BY <1>0, <2>2, <2>3, <2>5 DEF StatusAdvised
<1>4. ASSUME NEW m \in Names, Delete(m) PROVE StatusAdvised(n)'
  <2>1. objects'[n] = IF n = m THEN None ELSE objects[n]
    BY <1>4 DEF Delete, PubInv, Maps
  <2> QED
    BY <1>0, <2>1 DEF StatusAdvised
<1>5. CASE UNCHANGED objects
  BY <1>0, <1>5, AdvisedIfKept
<1>6. ASSUME NEW o \in Operators, Step(o) PROVE StatusAdvised(n)'
  <2>1. CASE \/ \E r \in Advices : Tick(o, r)
             \/ \E m \in Names : SaveGet(o, m) \/ GetFails(o, m)
             \/ TickDone(o) \/ SaveRefused(o) \/ SaveFails(o)
    BY <1>5, <2>1 DEF Tick, SaveGet, GetFails, TickDone, SaveRefused, SaveFails
  <2> QED
    BY <1>1, <1>2, <1>3, <1>6, <2>1 DEF Step, Save
<1> QED
  BY <1>4, <1>5, <1>6 DEF Next, Crash, Retire, vars

LEMMA AdviceStep == PubInv /\ AdviceInv /\ [Next]_vars => AdviceInv'
<1> SUFFICES ASSUME PubInv, AdviceInv, [Next]_vars PROVE AdviceInv'
  OBVIOUS
<1>1. ASSUME NEW i \in Operators PROVE TickAdvised(i)'
  <2>1. TickAdvised(i)
    BY DEF AdviceInv
  <2>2. ASSUME NEW o \in Operators, Step(o) \/ Crash(o) \/ Retire(o) PROVE TickAdvised(i)'
    <3>1. CASE i = o
      BY <2>1, <2>2, <3>1, OwnTick
    <3>2. CASE i # o
      <4>1. /\ phase'[i] = phase[i] /\ queue'[i] = queue[i] /\ object'[i] = object[i]
            /\ recs'[i] = recs[i]
        BY <2>2, <3>2, OtherTicks
      <4> QED
        BY <2>1, <4>1 DEF TickAdvised
    <3> QED
      BY <3>1, <3>2
  <2>3. CASE \/ \E n \in Names : Delete(n)
             \/ UNCHANGED vars
    <3>1. UNCHANGED <<phase, queue, object, recs>>
      BY <2>3 DEF Delete, vars, instance
    <3> QED
      BY <2>1, <3>1 DEF TickAdvised
  <2> QED
    BY <2>2, <2>3 DEF Next
<1> QED
  BY <1>1, StepAdvised DEF AdviceInv

LEMMA Advised == Spec => [](PubInv /\ AdviceInv)
<1>1. Init => AdviceInv
  BY DEF Init, AdviceInv, TickAdvised, StatusAdvised
<1> QED
  BY <1>1, PubInit, PubStep, AdviceStep, PTL DEF Spec
-----------------------------------------------------------------------------
(* Scores *)

LEMMA MaxOfSome ==
  ASSUME NEW S, IsFiniteSet(S), S # {}, S \subseteq Int
  PROVE  Max(S) \in S /\ \A x \in S : Max(S) >= x
<1>1. \E x \in S : \A y \in S : x >= y
  BY GreatestOfMany
<1> QED
  BY <1>1 DEF Max

LEMMA MinOfSome ==
  ASSUME NEW S, IsFiniteSet(S), S # {}, S \subseteq Int
  PROVE  Min(S) \in S /\ \A x \in S : Min(S) <= x
<1>1. \E x \in S : \A y \in S : x =< y
  BY LeastOfMany
<1> QED
  BY <1>1 DEF Min

LEMMA OfTwo ==
  ASSUME NEW a \in Int, NEW b \in Int
  PROVE  /\ Max({a, b}) = IF a >= b THEN a ELSE b
         /\ Min({a, b}) = IF a <= b THEN a ELSE b
<1>1. IsFiniteSet({a, b})
  <2>1. {a, b} = {a} \cup {b}
    OBVIOUS
  <2>2. IsFiniteSet({a} \cup {b})
    BY FS_Singleton, FS_AddElement
  <2> QED
    BY <2>1, <2>2, Zenon
<1>2. {a, b} # {} /\ {a, b} \subseteq Int
  OBVIOUS
<1>3. /\ Max({a, b}) \in {a, b} /\ Max({a, b}) >= a /\ Max({a, b}) >= b
      /\ Min({a, b}) \in {a, b} /\ Min({a, b}) <= a /\ Min({a, b}) <= b
  BY <1>1, <1>2, MaxOfSome, MinOfSome
<1> QED
  BY <1>3

\* The advice for a workload: some containers, with typed figures.
LEMMA OfType ==
  ASSUME NEW r \in Advices, NEW w \in WorkloadsOf(r)
  PROVE  /\ IsFiniteSet(Of(r, w)) /\ Of(r, w) # {} /\ Of(r, w) \subseteq DOMAIN r
         /\ \A k \in Of(r, w) : r[k] \in Advice
<1>1. IsFiniteSet(DOMAIN r) /\ \A k \in DOMAIN r : r[k] \in Advice
  BY AdviceIsTyped
<1>2. Of(r, w) # {}
  BY DEF WorkloadsOf, Of
<1>3. Of(r, w) \subseteq DOMAIN r
  BY DEF Of
<1> QED
  BY <1>1, <1>2, <1>3, FS_Subset

LEMMA SavingsType ==
  ASSUME NEW a \in Advice
  PROVE  Savings(a) \in Int /\ Waste(a) \in Nat
BY DEF Advice, Savings, Waste

LEMMA NetType ==
  ASSUME NEW r \in Advices, NEW w \in WorkloadsOf(r)
  PROVE  Net(r, w) \in Int
<1> DEFINE f == [k \in Of(r, w) |-> Savings(r[k])]
<1>1. DOMAIN f = Of(r, w) /\ \A k \in Of(r, w) : f[k] \in Int
  BY OfType, SavingsType
<1>2. Net(r, w) = SumFunction(f)
  BY DEF Net
<1> HIDE DEF f
<1>3. SumFunction(f) = SumFunctionOnSet(f, Of(r, w))
  BY <1>1 DEF SumFunction
<1>4. SumFunctionOnSet(f, Of(r, w)) \in Int
  BY <1>1, OfType, SumIsInteger
<1> QED
  BY <1>2, <1>3, <1>4

LEMMA ConfidenceType ==
  ASSUME NEW r \in Advices, NEW w \in WorkloadsOf(r)
  PROVE  Confidence(r, w) \in 0 .. 100
<1> DEFINE f == [k \in Of(r, w) |-> r[k].confidence]
           S == {f[k] : k \in Of(r, w)}
<1>1. \A k \in Of(r, w) : f[k] \in 0 .. 100
  BY OfType DEF Advice
<1>2. {r[k].confidence : k \in Of(r, w)} = S
  OBVIOUS
<1> HIDE DEF f
<1>3. IsFiniteSet(S) /\ S # {} /\ S \subseteq 0 .. 100
  BY <1>1, OfType, ImageIsFinite
<1> HIDE DEF S
<1>4. Max(S) \in S
  <2>1. S \subseteq Int
    BY <1>3
  <2> QED
    BY <1>3, <2>1, MaxOfSome
<1> QED
  BY <1>2, <1>3, <1>4 DEF Confidence

\* Who saves no less, with no less confidence, scores no less.
LEMMA ScoreGrows ==
  ASSUME NEW s \in Int, NEW t \in Int, NEW c \in Nat, NEW d \in Nat, s <= t, c <= d
  PROVE  ScoreFor(s, c) <= ScoreFor(t, d)
<1>1. CASE s <= 0
  <2>1. ScoreFor(s, c) = 0
    BY <1>1 DEF ScoreFor
  <2>2. CASE t <= 0
    BY <2>1, <2>2 DEF ScoreFor
  <2>3. CASE t > 0
    <3>1. t * d \in Nat
      BY <2>3
    <3>2. /\ 100 * t * d + 50 * (t + 100) \in Int /\ 100 * t * d + 50 * (t + 100) >= 0
          /\ 100 * (t + 100) \in Nat \ {0}
      <4>1. 100 * t * d = 100 * (t * d)
        BY <2>3
      <4> QED
        BY <2>3, <3>1, <4>1
    <3>3. 0 \div (100 * (t + 100))
            <= (100 * t * d + 50 * (t + 100)) \div (100 * (t + 100))
      BY <3>2, QuotientGrows
    <3>4. 0 \div (100 * (t + 100)) = 0
      BY <3>2
    <3>5. ScoreFor(t, d) = (100 * t * d + 50 * (t + 100)) \div (100 * (t + 100))
      BY <2>3 DEF ScoreFor
    <3> QED
      BY <2>1, <3>3, <3>4, <3>5
  <2> QED
    BY <2>2, <2>3
<1>2. CASE s > 0
  <2> DEFINE u == s + 100
             v == t + 100
             a == 100 * s * c + 50 * u
             b == 100 * t * d + 50 * v
  <2>1. s \in Nat /\ t \in Nat /\ u \in Nat \ {0} /\ v \in Nat \ {0} /\ t > 0
    BY <1>2
  <2>2. ScoreFor(s, c) = a \div (100 * u) /\ ScoreFor(t, d) = b \div (100 * v)
    BY <1>2, <2>1 DEF ScoreFor
  <2>3. (s * c) * v <= (t * d) * u
    <3>1. (s * c) * v = s * c * t + 100 * (s * c) /\ (t * d) * u = t * d * s + 100 * (t * d)
      BY <2>1
    <3>2. c * (s * t) <= d * (s * t)
      BY <2>1, ProductGrows
    <3>3. c * (s * t) = s * c * t /\ d * (s * t) = t * d * s
      BY <2>1
    <3>4. s * c <= t * c
      BY <2>1, ProductGrows
    <3>5. c * t <= d * t
      BY <2>1, ProductGrows
    <3>6. t * c = c * t /\ t * d = d * t
      BY <2>1
    <3>7. /\ s * c \in Int /\ t * c \in Int /\ t * d \in Int /\ c * t \in Int /\ d * t \in Int
          /\ s * c * t \in Int /\ t * d * s \in Int
      BY <2>1
    <3> HIDE DEF u, v
    <3>8. s * c <= t * d
      BY <3>4, <3>5, <3>6, <3>7
    <3> QED
      BY <3>1, <3>2, <3>3, <3>7, <3>8
  <2>4. a * (100 * v) <= b * (100 * u)
    <3>1. /\ a * (100 * v) = 10000 * ((s * c) * v) + 5000 * (u * v)
          /\ b * (100 * u) = 10000 * ((t * d) * u) + 5000 * (u * v)
      <4> HIDE DEF u, v
      <4> QED
        BY <2>1
    <3>2. (s * c) * v \in Int /\ (t * d) * u \in Int /\ u * v \in Int
      BY <2>1
    <3> HIDE DEF a, b, u, v
    <3> QED
      BY <2>3, <3>1, <3>2
  <2>5. a \in Int /\ b \in Int /\ 100 * u \in Nat \ {0} /\ 100 * v \in Nat \ {0}
    <3> HIDE DEF u, v
    <3>1. 100 * s * c \in Int /\ 100 * t * d \in Int /\ 50 * u \in Int /\ 50 * v \in Int
      BY <2>1
    <3> QED
      BY <2>1, <3>1
  <2> HIDE DEF a, b, u, v
  <2>6. a \div (100 * u) <= b \div (100 * v)
    BY <2>4, <2>5, QuotientCompares
  <2> QED
    BY <2>2, <2>6
<1> QED
  BY <1>1, <1>2

\* Published scores rank recommendations as savings and confidence do.
THEOREM ScoresRankWell == Spec => []ScoresRank
<1>1. PubInv /\ AdviceInv => ScoresRank
  <2> SUFFICES ASSUME PubInv, AdviceInv,
                      NEW v \in Published \ {Cluster}, NEW w \in Published \ {Cluster},
                      LET a == Rank[objects[v].status.of][v]
                          b == Rank[objects[w].status.of][w]
                      IN a.savings >= b.savings /\ a.confidence >= b.confidence
               PROVE  Rank[objects[v].status.of][v].score >= Rank[objects[w].status.of][w].score
    BY DEF ScoresRank
  <2> DEFINE p == objects[v].status.of
             q == objects[w].status.of
  <2>1. p \in Advices /\ v \in WorkloadsOf(p) /\ q \in Advices /\ w \in WorkloadsOf(q)
    BY DEF Published, AdviceInv, StatusAdvised, About
  <2>10. Rank[p][v].savings >= Rank[q][w].savings /\ Rank[p][v].confidence >= Rank[q][w].confidence
    OBVIOUS
  <2> SUFFICES Rank[p][v].score >= Rank[q][w].score
    OBVIOUS
  <2> HIDE DEF p, q
  <2>11. /\ Rank[p][v] = [savings |-> Net(p, v), confidence |-> Confidence(p, v),
                          score |-> ScoreFor(Net(p, v), Confidence(p, v))]
         /\ Rank[q][w] = [savings |-> Net(q, w), confidence |-> Confidence(q, w),
                          score |-> ScoreFor(Net(q, w), Confidence(q, w))]
    BY <2>1 DEF Rank
  <2>2. /\ Net(p, v) \in Int /\ Net(q, w) \in Int
        /\ Confidence(p, v) \in Nat /\ Confidence(q, w) \in Nat
    BY <2>1, NetType, ConfidenceType
  <2>3. Net(q, w) <= Net(p, v) /\ Confidence(q, w) <= Confidence(p, v)
    BY <2>2, <2>10, <2>11
  <2>4. ScoreFor(Net(q, w), Confidence(q, w)) <= ScoreFor(Net(p, v), Confidence(p, v))
    BY <2>2, <2>3, ScoreGrows
  <2>5. \A x \in Int, y \in Nat : ScoreFor(x, y) \in Int
    <3> SUFFICES ASSUME NEW x \in Int, NEW y \in Nat, x > 0
                 PROVE  (100 * x * y + 50 * (x + 100)) \div (100 * (x + 100)) \in Int
      BY DEF ScoreFor
    <3>1. 100 * x * y + 50 * (x + 100) \in Int /\ 100 * (x + 100) \in Nat \ {0}
      OBVIOUS
    <3> QED
      BY <3>1, Quotient
  <2>6. /\ ScoreFor(Net(p, v), Confidence(p, v)) \in Int
        /\ ScoreFor(Net(q, w), Confidence(q, w)) \in Int
    BY <2>2, <2>5
  <2> QED
    BY <2>4, <2>6, <2>11
<1> QED
  BY <1>1, Advised, PTL
-----------------------------------------------------------------------------
(* The efficiency score *)

LEMMA AccuracyType ==
  ASSUME NEW a, a.now \in Nat, a.to \in Nat
  PROVE  /\ Accuracy(a) \in 0 .. 100
         /\ a.to = 0 => Accuracy(a) = 0
         /\ a.now = a.to /\ a.to > 0 => Accuracy(a) = 100
<1> DEFINE hi == IF a.now >= a.to THEN a.now ELSE a.to
           lo == IF a.now <= a.to THEN a.now ELSE a.to
<1>1. Accuracy(a) = IF hi = 0 THEN 0 ELSE (100 * lo) \div hi
  BY OfTwo DEF Accuracy
<1>2. /\ hi \in Nat /\ lo \in Nat /\ lo <= hi
      /\ a.to = 0 => lo = 0
      /\ a.now = a.to => lo = a.to /\ hi = a.to
  OBVIOUS
<1> HIDE DEF hi, lo
<1>3. ASSUME hi > 0
      PROVE  /\ (100 * lo) \div hi \in 0 .. 100
             /\ lo = 0 => (100 * lo) \div hi = 0
             /\ lo = hi => (100 * lo) \div hi = 100
  <2>1. \A n \in Nat \ {0} : 0 \div n = 0 /\ (100 * n) \div n = 100
    <3> SUFFICES ASSUME NEW n \in Nat \ {0} PROVE 0 \div n = 0 /\ (100 * n) \div n = 100
      OBVIOUS
    <3> DEFINE q == (100 * n) \div n
    <3>1. q \in Int /\ n * q <= 100 * n /\ 100 * n < n * q + n
      BY Quotient
    <3> HIDE DEF q
    <3>2. ~ (q + 1 <= 100)
      <4>1. ASSUME q + 1 <= 100 PROVE (q + 1) * n <= 100 * n
        BY <3>1, <4>1, ProductGrows
      <4>2. (q + 1) * n = n * q + n
        BY <3>1
      <4> QED
        BY <3>1, <4>1, <4>2
    <3>3. ~ (101 <= q)
      <4>1. ASSUME 101 <= q PROVE 101 * n <= q * n
        BY <3>1, <4>1, ProductGrows
      <4>2. q * n = n * q
        BY <3>1
      <4> QED
        BY <3>1, <4>1, <4>2
    <3>4. q = 100
      BY <3>1, <3>2, <3>3
    <3> QED
      BY <3>4 DEF q
  <2>2. hi \in Nat \ {0} /\ 100 * lo \in Int /\ 100 * hi \in Int /\ 0 <= 100 * lo
        /\ 100 * lo <= 100 * hi
    BY <1>2, <1>3
  <2>3. 0 \div hi <= (100 * lo) \div hi /\ (100 * lo) \div hi <= (100 * hi) \div hi
    BY <2>2, QuotientGrows
  <2>4. (100 * lo) \div hi \in Int
    BY <2>2, Quotient
  <2> QED
    BY <1>2, <2>1, <2>2, <2>3, <2>4
<1> QED
  BY <1>1, <1>2, <1>3

LEMMA MeanAccuracyGrows ==
  ASSUME NEW r \in Advices, DOMAIN r # {}, NEW q, DOMAIN q = DOMAIN r,
         \A k \in DOMAIN r : /\ q[k].to = r[k].to /\ q[k].now \in Nat
                             /\ Accuracy(r[k]) <= Accuracy(q[k])
  PROVE  /\ MeanAccuracy(r) \in Int /\ MeanAccuracy(q) \in Int
         /\ MeanAccuracy(r) <= MeanAccuracy(q)
<1> DEFINE D == DOMAIN r
           weights == [k \in D |-> r[k].to]
           f == [k \in D |-> Accuracy(r[k]) * r[k].to]
           g == [k \in D |-> Accuracy(q[k]) * q[k].to]
           a == [k \in D |-> Accuracy(r[k])]
           b == [k \in D |-> Accuracy(q[k])]
           w == SumFunctionOnSet(weights, D)
           n == Cardinality(D)
<1>1. IsFiniteSet(D) /\ \A k \in D : r[k].now \in Nat /\ r[k].to \in Nat
  BY AdviceIsTyped DEF Advice
<1>2. \A k \in D : /\ Accuracy(r[k]) \in Nat /\ Accuracy(q[k]) \in Nat
                   /\ Accuracy(r[k]) <= Accuracy(q[k])
  <2> SUFFICES ASSUME NEW k \in D
               PROVE  Accuracy(r[k]) \in Nat /\ Accuracy(q[k]) \in Nat
    OBVIOUS
  <2>1. r[k].now \in Nat /\ r[k].to \in Nat /\ q[k].now \in Nat /\ q[k].to \in Nat
    BY <1>1
  <2>2. Accuracy(r[k]) \in 0 .. 100 /\ Accuracy(q[k]) \in 0 .. 100
    BY <2>1, AccuracyType
  <2> QED
    BY <2>2
<1>3. [k \in D |-> q[k].to] = weights
  OBVIOUS
<1>4. /\ MeanAccuracy(r) = IF w > 0 THEN SumFunctionOnSet(f, D) \div w
                                    ELSE SumFunctionOnSet(a, D) \div n
      /\ MeanAccuracy(q) = IF w > 0 THEN SumFunctionOnSet(g, D) \div w
                                    ELSE SumFunctionOnSet(b, D) \div n
  BY <1>3 DEF MeanAccuracy, SumFunction
<1>5. \A k \in D : weights[k] \in Nat
  BY <1>1
<1>6. \A k \in D : /\ f[k] \in Int /\ g[k] \in Int /\ f[k] <= g[k]
                   /\ a[k] \in Int /\ b[k] \in Int /\ a[k] <= b[k]
  <2> SUFFICES ASSUME NEW k \in D
               PROVE  /\ Accuracy(r[k]) * r[k].to \in Int /\ Accuracy(q[k]) * r[k].to \in Int
                      /\ Accuracy(r[k]) * r[k].to <= Accuracy(q[k]) * r[k].to
    BY <1>2
  <2> DEFINE x == Accuracy(r[k])
             y == Accuracy(q[k])
             t == r[k].to
  <2>1. x \in Nat /\ y \in Nat /\ x <= y /\ t \in Nat
    BY <1>1, <1>2
  <2> HIDE DEF x, y, t
  <2>2. x * t \in Int /\ y * t \in Int /\ x * t <= y * t
    BY <2>1, ProductGrows
  <2> QED
    BY <2>2 DEF x, y, t
<1>7. n \in Nat \ {0}
  BY <1>1, FS_CardinalityType, FS_EmptySet
<1> HIDE DEF D, weights, f, g, a, b, n
<1>8. w \in Nat
  BY <1>1, <1>5, SumIsNatural
<1> HIDE DEF w
<1>9. /\ SumFunctionOnSet(f, D) \in Int /\ SumFunctionOnSet(g, D) \in Int
      /\ SumFunctionOnSet(f, D) <= SumFunctionOnSet(g, D)
  BY <1>1, <1>6, SumIsInteger, SumGrows
<1>10. /\ SumFunctionOnSet(a, D) \in Int /\ SumFunctionOnSet(b, D) \in Int
       /\ SumFunctionOnSet(a, D) <= SumFunctionOnSet(b, D)
  BY <1>1, <1>6, SumIsInteger, SumGrows
<1>11. CASE w > 0
  BY <1>4, <1>8, <1>9, <1>11, Quotient, QuotientGrows
<1>12. CASE ~ (w > 0)
  BY <1>4, <1>7, <1>10, <1>12, Quotient, QuotientGrows
<1> QED
  BY <1>11, <1>12

LEMMA CoverageGrows ==
  ASSUME NEW r \in Advices, DOMAIN r # {}, NEW q, DOMAIN q = DOMAIN r,
         \A k \in DOMAIN r : r[k].now > 0 => q[k].now > 0
  PROVE  Coverage(r) \in Int /\ Coverage(q) \in Int /\ Coverage(r) <= Coverage(q)
<1> DEFINE S == {k \in DOMAIN r : r[k].now > 0}
           T == {k \in DOMAIN q : q[k].now > 0}
           n == Cardinality(DOMAIN r)
<1>1. IsFiniteSet(DOMAIN r)
  BY AdviceIsTyped
<1>2. n \in Nat \ {0}
  BY <1>1, FS_CardinalityType, FS_EmptySet
<1>3. S \in SUBSET T /\ T \in SUBSET DOMAIN r
  OBVIOUS
<1>4. /\ Coverage(r) = (100 * Cardinality(S)) \div n
      /\ Coverage(q) = (100 * Cardinality(T)) \div n
  BY DEF Coverage
<1> HIDE DEF S, T, n
<1>5. IsFiniteSet(T) /\ IsFiniteSet(S) /\ Cardinality(S) <= Cardinality(T)
  <2>1. IsFiniteSet(T)
    BY <1>1, <1>3, FS_Subset
  <2> QED
    BY <1>3, <2>1, FS_Subset
<1>6. Cardinality(S) \in Nat /\ Cardinality(T) \in Nat
  BY <1>5, FS_CardinalityType
<1>7. /\ 100 * Cardinality(S) \in Int /\ 100 * Cardinality(T) \in Int
      /\ 100 * Cardinality(S) <= 100 * Cardinality(T)
  BY <1>5, <1>6
<1> QED
  BY <1>2, <1>4, <1>7, Quotient, QuotientGrows

LEMMA EfficiencyGrows ==
  ASSUME NEW r \in Advices, NEW k \in DOMAIN r
  PROVE  Efficiency([r EXCEPT ![k].now = r[k].to]) >= Efficiency(r)
<1> DEFINE q == [r EXCEPT ![k].now = r[k].to]
<1>1. \A j \in DOMAIN r : r[j] \in Advice /\ r[j].now \in Nat /\ r[j].to \in Nat
  BY AdviceIsTyped DEF Advice
<1>2. /\ DOMAIN q = DOMAIN r
      /\ q[k].to = r[k].to /\ q[k].now = r[k].to
      /\ \A j \in DOMAIN r : j # k => q[j] = r[j]
  BY <1>1 DEF Advice
<1> HIDE DEF q
<1>3. \A j \in DOMAIN r : Accuracy(r[j]) <= Accuracy(q[j])
  <2> SUFFICES ASSUME NEW j \in DOMAIN r PROVE Accuracy(r[j]) <= Accuracy(q[j])
    OBVIOUS
  <2>1. Accuracy(r[j]) \in 0 .. 100 /\ (r[j].to = 0 => Accuracy(r[j]) = 0)
    BY <1>1, AccuracyType
  <2>2. CASE j # k
    BY <1>2, <2>1, <2>2
  <2>3. CASE j = k
    <3>1. q[k].now \in Nat /\ q[k].to \in Nat
      BY <1>1, <1>2
    <3>2. Accuracy(q[k]) \in 0 .. 100 /\ (q[k].to > 0 => Accuracy(q[k]) = 100)
      BY <1>2, <3>1, AccuracyType
    <3> QED
      BY <1>1, <1>2, <2>1, <2>3, <3>2
  <2> QED
    BY <2>2, <2>3
<1>4. \A j \in DOMAIN r : q[j].to = r[j].to /\ q[j].now \in Nat
  BY <1>1, <1>2
<1>5. \A j \in DOMAIN r : r[j].now > 0 => q[j].now > 0
  BY <1>2, AdviceKeepsFloors
<1>6. DOMAIN r # {}
  OBVIOUS
<1> DEFINE X(p) == (70 * MeanAccuracy(p) + 30 * Coverage(p) + 50) \div 100
<1>7. /\ MeanAccuracy(r) \in Int /\ MeanAccuracy(q) \in Int /\ MeanAccuracy(r) <= MeanAccuracy(q)
      /\ Coverage(r) \in Int /\ Coverage(q) \in Int /\ Coverage(r) <= Coverage(q)
  BY <1>2, <1>3, <1>4, <1>5, <1>6, MeanAccuracyGrows, CoverageGrows
<1>8. X(r) \in Int /\ X(q) \in Int /\ X(r) <= X(q)
  BY <1>7
<1>9. \A p : DOMAIN p = DOMAIN r => Efficiency(p) = Max({0, Min({100, X(p)})})
  BY <1>6 DEF Efficiency
<1> HIDE DEF X
<1>10. ASSUME NEW x \in Int
       PROVE  /\ Min({100, x}) = IF 100 <= x THEN 100 ELSE x
              /\ Max({0, Min({100, x})}) = IF x <= 0 THEN 0 ELSE IF 100 <= x THEN 100 ELSE x
  <2>1. Min({100, x}) = IF 100 <= x THEN 100 ELSE x
    BY OfTwo
  <2> DEFINE m == Min({100, x})
  <2>2. m \in Int
    BY <2>1
  <2>3. Max({0, m}) = IF 0 >= m THEN 0 ELSE m
    BY <2>2, OfTwo
  <2> QED
    BY <2>1, <2>3
<1>11. Efficiency(r) <= Efficiency(q) /\ Efficiency(r) \in Int /\ Efficiency(q) \in Int
  <2> DEFINE C(x) == IF x <= 0 THEN 0 ELSE IF 100 <= x THEN 100 ELSE x
  <2>1. Efficiency(r) = C(X(r)) /\ Efficiency(q) = C(X(q))
    <3>1. \A x \in Int : Max({0, Min({100, x})}) = C(x)
      BY <1>10
    <3>2. Efficiency(r) = Max({0, Min({100, X(r)})})
      BY <1>9
    <3>3. Efficiency(q) = Max({0, Min({100, X(q)})})
      BY <1>2, <1>9
    <3> HIDE DEF C
    <3> QED
      BY <1>8, <3>1, <3>2, <3>3
  <2>2. \A x, y \in Int : x <= y => C(x) \in Int /\ C(y) \in Int /\ C(x) <= C(y)
    OBVIOUS
  <2> HIDE DEF C
  <2> QED
    BY <1>8, <2>1, <2>2
<1> QED
  BY <1>11 DEF q

\* Following any one piece of the published advice never lowers the efficiency score.
THEOREM AdvicePays == Spec => []AdviceRaisesScore
<1>1. PubInv /\ AdviceInv => AdviceRaisesScore
  <2> SUFFICES ASSUME PubInv, AdviceInv, Cluster \in Published
               PROVE  objects[Cluster].status.of \in WorthFollowing
    BY DEF AdviceRaisesScore
  <2>1. objects[Cluster].status.of \in Advices
    BY DEF Published, AdviceInv, StatusAdvised
  <2> QED
    BY <2>1, EfficiencyGrows DEF WorthFollowing
<1> QED
  BY <1>1, Advised, PTL
-----------------------------------------------------------------------------
(* The summary's targets *)

LEMMA WorkloadsType ==
  ASSUME NEW r \in Advices
  PROVE  IsFiniteSet(WorkloadsOf(r)) /\ WorkloadsOf(r) \subseteq Nat
<1> DEFINE first == [k \in DOMAIN r |-> k[1]]
<1>1. IsFiniteSet(DOMAIN r) /\ DOMAIN r \subseteq Workloads \X Containers
  BY AdviceIsTyped
<1>2. IsFiniteSet({first[k] : k \in DOMAIN r})
  BY <1>1, ImageIsFinite
<1>3. {first[k] : k \in DOMAIN r} = WorkloadsOf(r)
  BY DEF WorkloadsOf
<1>4. WorkloadsOf(r) \subseteq Workloads
  BY <1>1 DEF WorkloadsOf
<1> HIDE DEF first
<1>5. IsFiniteSet(WorkloadsOf(r))
  BY <1>2, <1>3, Zenon
<1> QED
  BY <1>4, <1>5, NamesAreNumbers

\* A workload gains what its containers waste, and the waste is all that is gained.
LEMMA GainType ==
  ASSUME NEW r \in Advices, NEW w \in WorkloadsOf(r),
         NEW f, f = [k \in DOMAIN r |-> Waste(r[k])]
  PROVE  Gain(r, w) \in Nat /\ Gain(r, w) = SumFunctionOnSet(f, Of(r, w))
<1> DEFINE g == [k \in Of(r, w) |-> Waste(r[k])]
<1>1. IsFiniteSet(Of(r, w)) /\ Of(r, w) \subseteq DOMAIN r
  BY OfType
<1>2. DOMAIN g = Of(r, w) /\ \A k \in Of(r, w) : g[k] \in Nat /\ g[k] = f[k]
  BY <1>1, OfType, SavingsType
<1>3. Gain(r, w) = SumFunction(g)
  BY DEF Gain
<1> HIDE DEF g
<1>4. SumFunction(g) = SumFunctionOnSet(g, Of(r, w))
  BY <1>2 DEF SumFunction
<1>5. SumFunctionOnSet(g, Of(r, w)) \in Nat
  BY <1>1, <1>2, SumIsNatural
<1>6. SumFunctionOnSet(g, Of(r, w)) = SumFunctionOnSet(f, Of(r, w))
  BY <1>1, <1>2, SumOfSame
<1> QED
  BY <1>3, <1>4, <1>5, <1>6

LEMMA WasteIsGained ==
  ASSUME NEW r \in Advices
  PROVE  LET gains == [w \in Targets(r) |-> Gain(r, w)] IN Wasted(r) = SumFunction(gains)
<1> DEFINE W == WorkloadsOf(r)
           T == Targets(r)
           F == [w \in W |-> Of(r, w)]
           f == [k \in DOMAIN r |-> Waste(r[k])]
           g == [w \in W |-> Gain(r, w)]
           gains == [w \in T |-> Gain(r, w)]
<1>1. IsFiniteSet(W) /\ T \in SUBSET W
  BY WorkloadsType DEF Targets
<1>2. \A k \in DOMAIN r : f[k] \in Int
  BY AdviceIsTyped, SavingsType
<1>3. \A w \in W : Gain(r, w) \in Nat /\ Gain(r, w) = SumFunctionOnSet(f, Of(r, w))
  BY GainType
<1>4. /\ \A w \in W : F[w] = Of(r, w) /\ g[w] = Gain(r, w)
      /\ \A w \in T : gains[w] = Gain(r, w)
      /\ DOMAIN f = DOMAIN r /\ DOMAIN gains = T
  OBVIOUS
<1>5. Wasted(r) = SumFunction(f)
  BY DEF Wasted
<1>6. \A w \in W \ T : Gain(r, w) = 0
  <2>1. \A w \in W : Gain(r, w) \in Nat
    BY <1>3
  <2>2. \A w \in W \ T : ~ (Gain(r, w) > 0)
    BY DEF Targets
  <2> HIDE DEF W, T
  <2> QED
    BY <2>1, <2>2
<1>7. UNION {F[w] : w \in W} = DOMAIN r
  <2>1. \A w \in W : F[w] \subseteq DOMAIN r
    BY <1>4 DEF Of
  <2>2. \A k \in DOMAIN r : k[1] \in W /\ k \in F[k[1]]
    BY <1>4 DEF Of, WorkloadsOf
  <2> HIDE DEF F, W
  <2> QED
    BY <2>1, <2>2
<1>8. \A v, w \in W : v # w => F[v] \cap F[w] = {}
  BY <1>4 DEF Of
<1>9. \A w \in W : IsFiniteSet(F[w]) /\ F[w] \subseteq DOMAIN r
  BY <1>4, OfType
<1> HIDE DEF F, f, g, gains, W, T
<1>10. SumFunctionOnSet(f, UNION {F[w] : w \in W}) = SumFunctionOnSet(g, W)
  <2>1. \A w \in W : IsFiniteSet(F[w]) /\ g[w] = SumFunctionOnSet(f, F[w])
    BY <1>3, <1>4, <1>9
  <2>2. \A w \in W : \A k \in F[w] : f[k] \in Int
    BY <1>2, <1>9
  <2> QED
    BY <1>1, <1>8, <2>1, <2>2, SumOfFamily
<1>11. SumFunctionOnSet(f, DOMAIN r) = SumFunctionOnSet(g, W)
  BY <1>7, <1>10, Zenon
<1>12. \A w \in W : g[w] \in Int
  BY <1>3, <1>4
<1>13. SumFunctionOnSet(g, W) = SumFunctionOnSet(g, T)
  <2>1. \A w \in W \ T : g[w] = 0
    BY <1>4, <1>6
  <2> QED
    BY <1>1, <1>12, <2>1, SumWithoutZeros
<1>14. SumFunctionOnSet(g, T) = SumFunctionOnSet(gains, T)
  <2>1. IsFiniteSet(T)
    BY <1>1, FS_Subset
  <2>2. \A w \in T : g[w] \in Int /\ g[w] = gains[w]
    BY <1>1, <1>4, <1>12
  <2> QED
    BY <2>1, <2>2, SumOfSame
<1>15. SumFunction(f) = SumFunctionOnSet(f, DOMAIN r) /\ SumFunction(gains) = SumFunctionOnSet(gains, T)
  BY <1>4 DEF SumFunction
<1>16. Wasted(r) = SumFunction(gains)
  BY <1>5, <1>11, <1>13, <1>14, <1>15
<1> QED
  BY <1>16 DEF gains, T

\* Every target has its place.
LEMMA TargetsHavePlaces ==
  ASSUME NEW r \in Advices
  PROVE  LET n == Cardinality(Targets(r))
         IN /\ n \in Nat
            /\ \A w \in Targets(r) : Ahead(r, w) \in 0 .. n - 1
            /\ \A v, w \in Targets(r) : Leads(r, v, w) <=> Ahead(r, v) < Ahead(r, w)
            /\ \A i \in 0 .. n - 1 : \E w \in Targets(r) : Ahead(r, w) = i
<1> DEFINE S == Targets(r)
           L == {p \in S \X S : Leads(r, p[1], p[2])}
           place == [w \in S |-> Ahead(r, w)]
<1>1. IsFiniteSet(S) /\ S \subseteq Nat
  BY WorkloadsType, FS_Subset DEF Targets
<1>2. \A w \in S : Gain(r, w) \in Nat
  BY GainType DEF Targets
<1>3. \A v, w \in S : <<v, w>> \in L <=> Leads(r, v, w)
  OBVIOUS
<1>4. \A w \in S : place[w] = Cardinality({v \in S : <<v, w>> \in L})
  <2> SUFFICES ASSUME NEW w \in S
               PROVE  Ahead(r, w) = Cardinality({v \in S : <<v, w>> \in L})
    OBVIOUS
  <2>1. {v \in S : Leads(r, v, w)} = {v \in S : <<v, w>> \in L}
    BY <1>3
  <2>2. Ahead(r, w) = Cardinality({v \in S : Leads(r, v, w)})
    BY DEF Ahead
  <2> HIDE DEF L
  <2> QED
    BY <2>1, <2>2, Zenon
<1>5. \A w \in S : place[w] = Ahead(r, w)
  OBVIOUS
<1>6. Cardinality(S) \in Nat
  BY <1>1, FS_CardinalityType
<1> HIDE DEF S, L, place
<1>7. \A x \in S : <<x, x>> \notin L
  BY <1>1, <1>2, <1>3 DEF Leads
<1>8. \A x, y, z \in S : <<x, y>> \in L /\ <<y, z>> \in L => <<x, z>> \in L
  <2> SUFFICES ASSUME NEW x \in S, NEW y \in S, NEW z \in S, Leads(r, x, y), Leads(r, y, z)
               PROVE  Leads(r, x, z)
    BY <1>3
  <2>1. /\ x \in Nat /\ y \in Nat /\ z \in Nat
        /\ Gain(r, x) \in Nat /\ Gain(r, y) \in Nat /\ Gain(r, z) \in Nat
    BY <1>1, <1>2
  <2> QED
    BY <2>1 DEF Leads
<1>9. \A x, y \in S : x = y \/ <<x, y>> \in L \/ <<y, x>> \in L
  <2> SUFFICES ASSUME NEW x \in S, NEW y \in S
               PROVE  x = y \/ Leads(r, x, y) \/ Leads(r, y, x)
    BY <1>3
  <2>1. x \in Nat /\ y \in Nat /\ Gain(r, x) \in Nat /\ Gain(r, y) \in Nat
    BY <1>1, <1>2
  <2> QED
    BY <2>1 DEF Leads
<1>10. /\ \A x \in S : place[x] \in 0 .. Cardinality(S) - 1
       /\ \A x, y \in S : <<x, y>> \in L <=> place[x] < place[y]
       /\ \A i \in 0 .. Cardinality(S) - 1 : \E x \in S : place[x] = i
  BY <1>1, <1>4, <1>7, <1>8, <1>9, PlacesOfOrder
<1>11. /\ \A x \in S : Ahead(r, x) \in 0 .. Cardinality(S) - 1
       /\ \A x, y \in S : Leads(r, x, y) <=> Ahead(r, x) < Ahead(r, y)
       /\ \A i \in 0 .. Cardinality(S) - 1 : \E x \in S : Ahead(r, x) = i
  <2>1. \A x \in S : Ahead(r, x) \in 0 .. Cardinality(S) - 1
    BY <1>5, <1>10
  <2>2. \A x, y \in S : Leads(r, x, y) <=> Ahead(r, x) < Ahead(r, y)
    BY <1>3, <1>5, <1>10
  <2>3. \A i \in 0 .. Cardinality(S) - 1 : \E x \in S : Ahead(r, x) = i
    BY <1>5, <1>10
  <2> QED
    BY <2>1, <2>2, <2>3
<1> QED
  BY <1>6, <1>11 DEF S

\* The list holds the targets of the first places.
LEMMA TopTargetsType ==
  ASSUME NEW r \in Advices
  PROVE  LET top == TopTargets(r)
             n == Cardinality(Targets(r))
             m == IF TopN <= n THEN TopN ELSE n
         IN /\ m \in Nat /\ DOMAIN top = 1 .. m /\ Len(top) = m
            /\ \A i \in 1 .. m : top[i] \in Targets(r) /\ Ahead(r, top[i]) = i - 1
            /\ \A w \in Targets(r) : Ahead(r, w) < m => w \in Range(top)
<1> DEFINE top == TopTargets(r)
           n == Cardinality(Targets(r))
           m == IF TopN <= n THEN TopN ELSE n
<1>1. n \in Nat /\ TopN \in Nat
  BY TargetsHavePlaces, BoundsAreNatural
<1>2. m = Min({TopN, n})
  <2> HIDE DEF n
  <2>1. TopN \in Int /\ n \in Int
    BY <1>1
  <2> QED
    BY <2>1, OfTwo
<1>3. m \in Nat /\ m <= n
  BY <1>1
<1> HIDE DEF m
<1>4. top = [i \in 1 .. m |-> CHOOSE w \in Targets(r) : Ahead(r, w) = i - 1]
  BY <1>2 DEF TopTargets
<1>5. ASSUME NEW i \in 1 .. m
      PROVE  top[i] \in Targets(r) /\ Ahead(r, top[i]) = i - 1
  <2>1. i - 1 \in 0 .. n - 1
    BY <1>1, <1>3
  <2>2. \E w \in Targets(r) : Ahead(r, w) = i - 1
    BY <2>1, TargetsHavePlaces
  <2> QED
    BY <1>4, <2>2
<1>6. DOMAIN top = 1 .. m /\ Len(top) = m
  <2>1. DOMAIN top = 1 .. m
    BY <1>4
  <2>2. top \in [1 .. m -> Targets(r)]
    BY <1>4, <1>5
  <2> HIDE DEF top
  <2>3. top \in Seq(Targets(r))
    BY <1>3, <2>2
  <2> QED
    BY <1>3, <2>1, <2>3
<1>7. ASSUME NEW w \in Targets(r), Ahead(r, w) < m
      PROVE  w \in Range(top)
  <2> DEFINE i == Ahead(r, w) + 1
  <2>1. Ahead(r, w) \in 0 .. n - 1
    BY TargetsHavePlaces
  <2>2. i \in 1 .. m /\ Ahead(r, w) = i - 1
    BY <1>1, <1>3, <1>7, <2>1
  <2> HIDE DEF i
  <2>3. top[i] \in Targets(r) /\ Ahead(r, top[i]) = Ahead(r, w)
    BY <1>5, <2>2
  <2>4. ~ Leads(r, top[i], w) /\ ~ Leads(r, w, top[i])
    BY <1>1, <2>1, <2>3, TargetsHavePlaces
  <2>5. top[i] = w
    <3>1. \A v \in Targets(r) : v \in Nat /\ Gain(r, v) \in Nat
      BY WorkloadsType, GainType DEF Targets
    <3> QED
      BY <2>3, <2>4, <3>1 DEF Leads
  <2> QED
    BY <1>6, <2>2, <2>5 DEF Range
<1> QED
  BY <1>3, <1>5, <1>6, <1>7 DEF m

\* The summary's targets lead all others, and nothing is left out while there is room.
THEOREM TargetsLeadAll == Spec => []TargetsLead
<1>1. ASSUME NEW r \in Advices
      PROVE  LET top == TopTargets(r)
                 others == WorkloadsOf(r) \ Range(top)
             IN /\ \A i, j \in DOMAIN top : i < j => Gain(r, top[i]) >= Gain(r, top[j])
                /\ \A i \in DOMAIN top, w \in others : Gain(r, top[i]) >= Gain(r, w)
                /\ Len(top) < TopN => Wasted(r) = SumFunction([w \in Range(top) |-> Gain(r, w)])
  <2> DEFINE top == TopTargets(r)
             n == Cardinality(Targets(r))
             m == IF TopN <= n THEN TopN ELSE n
  <2>1. /\ m \in Nat /\ DOMAIN top = 1 .. m /\ Len(top) = m
        /\ \A i \in 1 .. m : top[i] \in Targets(r) /\ Ahead(r, top[i]) = i - 1
        /\ \A w \in Targets(r) : Ahead(r, w) < m => w \in Range(top)
    BY TopTargetsType
  <2>2. n \in Nat /\ TopN \in Nat
    BY TargetsHavePlaces, BoundsAreNatural
  <2>3. \A w \in WorkloadsOf(r) : Gain(r, w) \in Nat
    BY GainType
  <2>4. \A w \in Targets(r) : w \in WorkloadsOf(r) /\ Gain(r, w) > 0
    BY DEF Targets
  <2>5. \A v, w \in Targets(r) : Ahead(r, v) < Ahead(r, w) => Gain(r, v) >= Gain(r, w)
    <3> SUFFICES ASSUME NEW v \in Targets(r), NEW w \in Targets(r), Ahead(r, v) < Ahead(r, w)
                 PROVE  Gain(r, v) >= Gain(r, w)
      OBVIOUS
    <3>1. Leads(r, v, w)
      BY TargetsHavePlaces
    <3> QED
      BY <2>3, <2>4, <3>1 DEF Leads
  <2>6. \A w \in Targets(r) : Ahead(r, w) \in 0 .. n - 1
    BY TargetsHavePlaces
  <2> HIDE DEF top
  <2>7. ASSUME NEW i \in DOMAIN top, NEW j \in DOMAIN top, i < j
        PROVE  Gain(r, top[i]) >= Gain(r, top[j])
    BY <2>1, <2>5, <2>7
  <2>8. ASSUME NEW i \in DOMAIN top, NEW w \in WorkloadsOf(r) \ Range(top)
        PROVE  Gain(r, top[i]) >= Gain(r, w)
    <3>1. i \in 1 .. m /\ top[i] \in Targets(r) /\ Ahead(r, top[i]) = i - 1
      BY <2>1
    <3>2. CASE w \in Targets(r)
      <4>1. ~ (Ahead(r, w) < m) /\ Ahead(r, w) \in 0 .. n - 1
        BY <2>1, <2>6, <3>2
      <4> HIDE DEF m
      <4>2. Ahead(r, top[i]) < Ahead(r, w)
        BY <2>1, <2>2, <3>1, <4>1
      <4> QED
        BY <2>5, <3>1, <3>2, <4>2
    <3>3. CASE w \notin Targets(r)
      <4>1. Gain(r, w) = 0
        BY <2>3, <3>3 DEF Targets
      <4> QED
        BY <2>3, <2>4, <3>1, <4>1
    <3> QED
      BY <3>2, <3>3
  <2>9. ASSUME Len(top) < TopN
        PROVE  Wasted(r) = SumFunction([w \in Range(top) |-> Gain(r, w)])
    <3>1. m = n
      BY <2>1, <2>2, <2>9
    <3>2. \A w \in Targets(r) : Ahead(r, w) < m
      BY <2>2, <2>6, <3>1
    <3>3. Range(top) = Targets(r)
      BY <2>1, <3>2 DEF Range
    <3>4. [w \in Range(top) |-> Gain(r, w)] = [w \in Targets(r) |-> Gain(r, w)]
      BY <3>3
    <3> QED
      BY <3>4, WasteIsGained, Zenon
  <2> QED
    BY <2>7, <2>8, <2>9 DEF top
<1>2. PubInv /\ AdviceInv => TargetsLead
  <2> SUFFICES ASSUME PubInv, AdviceInv, Cluster \in Published PROVE TargetsLead
    BY DEF TargetsLead
  <2>1. objects[Cluster].status.of \in Advices
    BY DEF Published, AdviceInv, StatusAdvised
  <2> QED
    BY <1>1, <2>1 DEF TargetsLead, RankedByGain
<1> QED
  BY <1>2, Advised, PTL
=============================================================================
