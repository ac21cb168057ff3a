------------------------------ MODULE SweepProofs ------------------------------
(***************************************************************************)
(* Theorems about Sweep, for any objects, any number of changes while the   *)
(* lists are made, and any namespace: what is found, and what is missed,    *)
(* although no two of the seven lists need be of the same moment.           *)
(***************************************************************************)
EXTENDS Sweep, TLAPS

-----------------------------------------------------------------------------
(* Moments *)

\* What the list of a kind, and all lists, would return if there were these objects.
At(there, kind) ==
  {x \in there : x.kind = kind /\ (scope = All \/ (kind # "Namespace" /\ x.ns = scope))}

Lists(there) == [k \in Kind |-> At(there, k)]

LEMMA KindNames ==
  Kind = {"Service", "Pod", "PersistentVolumeClaim", "Deployment", "StatefulSet",
          "DaemonSet", "Namespace"}
<1>1. DOMAIN Kinds = 1 .. 7
  BY DEF Kinds
<1> QED
  BY <1>1 DEF Kind, Kinds

LEMMA KindsTyped == Kinds \in Seq(Kind) /\ Len(Kinds) = 7
<1>1. DOMAIN Kinds = 1 .. 7 /\ Len(Kinds) = 7
  BY DEF Kinds
<1>2. \A i \in 1 .. 7 : Kinds[i] \in Kind
  BY <1>1 DEF Kind
<1>3. Kinds = [i \in 1 .. 7 |-> Kinds[i]]
  BY DEF Kinds
<1> QED
  BY <1>1, <1>2, <1>3

\* Each list is that of some moment of the sweep; what Detect reasons over is the
\* seven of them.
Moments ==
  /\ objects \in past
  /\ \A i \in DOMAIN listed : \E there \in past : listed[i] = At(there, Kinds[i])
  /\ outcome \notin {None, Failed} =>
       Len(listed) = Len(Kinds) /\ outcome = Detect(AsInputs(listed))

SweepInv ==
  /\ TypeOK
  /\ listed \in Seq(SUBSET Universe)
  /\ scope # None => Moments

\* What Detect is given for a kind is the list of that kind at some moment.
LEMMA InputsAreMoments ==
  ASSUME SweepInv, scope # None, Len(listed) = Len(Kinds), NEW k \in Kind
  PROVE  \E there \in past : AsInputs(listed)[k] = At(there, k)
<1> DEFINE i == CHOOSE j \in DOMAIN Kinds : Kinds[j] = k
<1>1. i \in DOMAIN Kinds /\ Kinds[i] = k
  BY DEF Kind
<1>2. AsInputs(listed)[k] = listed[i]
  BY DEF AsInputs
<1>3. DOMAIN listed = DOMAIN Kinds
  BY KindsTyped DEF SweepInv
<1> HIDE DEF i
<1> QED
  BY <1>1, <1>2, <1>3 DEF SweepInv, Moments
-----------------------------------------------------------------------------
(* The invariant *)

LEMMA SweepInit == Init => SweepInv
<1> SUFFICES ASSUME Init PROVE SweepInv
  OBVIOUS
<1>1. objects \subseteq Universe
  BY StartsAreThere DEF Init
<1>2. listed = <<>> /\ Len(listed) <= Len(Kinds) /\ listed \in Seq(SUBSET Universe)
  BY KindsTyped DEF Init
<1> QED
  BY <1>1, <1>2, ChangesAreNatural DEF Init, SweepInv, TypeOK

\* A sweep's lists begin anew, and the past with them.
LEMMA SweepBegin ==
  ASSUME SweepInv, NEW flag \in Scopes, Begin(flag)
  PROVE  SweepInv'
<1>1. /\ scope' = flag /\ listed' = <<>> /\ outcome' = None /\ past' = {objects}
      /\ changes' = 0 /\ objects' = objects
  BY DEF Begin
<1>2. TypeOK'
  BY <1>1, KindsTyped, ChangesAreNatural DEF SweepInv, TypeOK
<1>3. listed' \in Seq(SUBSET Universe)
  BY <1>1
<1>4. Moments'
  BY <1>1 DEF Moments
<1> QED
  BY <1>2, <1>3, <1>4 DEF SweepInv

LEMMA SweepList ==
  ASSUME SweepInv, List
  PROVE  SweepInv'
<1> DEFINE n == Len(listed) + 1
           new == Listed(Kinds[n], scope)
<1>1. /\ UNCHANGED <<objects, scope, outcome, past, changes>>
      /\ outcome = None /\ Len(listed) < Len(Kinds) /\ listed' = Append(listed, new)
  BY DEF List, More
<1>2. new = At(objects, Kinds[n]) /\ objects \subseteq Universe
  BY DEF Listed, At, SweepInv, TypeOK
<1>3. new \subseteq Universe /\ \A x \in new : x.kind = Kinds[n]
  BY <1>2 DEF At
<1>4. listed \in Seq(SUBSET Universe) /\ Len(listed) \in Nat
  BY DEF SweepInv
<1> HIDE DEF new
<1>5. /\ listed' \in Seq(SUBSET Universe)
      /\ Len(listed') = n /\ DOMAIN listed' = 1 .. n /\ listed'[n] = new
      /\ \A i \in DOMAIN listed' : i # n => i \in DOMAIN listed /\ listed'[i] = listed[i]
  BY <1>1, <1>3, <1>4
<1>6. TypeOK'
  BY <1>1, <1>3, <1>4, <1>5, KindsTyped DEF SweepInv, TypeOK
<1>7. ASSUME scope # None PROVE Moments'
  <2>1. Moments
    BY <1>7 DEF SweepInv
  <2>2. \A i \in DOMAIN listed' : \E there \in past : listed'[i] = At(there, Kinds[i])
    BY <1>2, <1>5, <2>1 DEF Moments
  <2>3. \A there, k : At(there, k)' = At(there, k)
    BY <1>1 DEF At
  <2> QED
    BY <1>1, <2>1, <2>2, <2>3 DEF Moments
<1> QED
  BY <1>1, <1>5, <1>6, <1>7 DEF SweepInv

LEMMA SweepFinish ==
  ASSUME SweepInv, Finish
  PROVE  SweepInv'
<1>1. /\ UNCHANGED <<objects, scope, listed, past, changes>>
      /\ Len(listed) = Len(Kinds) /\ outcome' = Detect(AsInputs(listed))
  BY DEF Finish
<1>2. \A k \in Kind : AsInputs(listed)[k] \subseteq Universe
  <2> SUFFICES ASSUME NEW k \in Kind PROVE AsInputs(listed)[k] \subseteq Universe
    OBVIOUS
  <2> DEFINE i == CHOOSE j \in DOMAIN Kinds : Kinds[j] = k
  <2>1. i \in DOMAIN Kinds
    BY DEF Kind
  <2>2. AsInputs(listed)[k] = listed[i]
    BY DEF AsInputs
  <2>3. DOMAIN listed = DOMAIN Kinds
    BY <1>1, KindsTyped DEF SweepInv
  <2> HIDE DEF i
  <2> QED
    BY <2>1, <2>2, <2>3 DEF SweepInv, TypeOK
<1>3. outcome' \subseteq Universe
  <2> DEFINE in == AsInputs(listed)
  <2>1. /\ in["Service"] \subseteq Universe /\ in["PersistentVolumeClaim"] \subseteq Universe
        /\ in["Namespace"] \subseteq Universe /\ in["Deployment"] \subseteq Universe
        /\ in["StatefulSet"] \subseteq Universe
    BY <1>2, KindNames
  <2> HIDE DEF in
  <2>2. /\ OrphanedServices(in) \subseteq Universe /\ UnusedPVCs(in) \subseteq Universe
        /\ IdleNamespaces(in) \subseteq Universe /\ ZombieWorkloads(in) \subseteq Universe
    BY <2>1 DEF OrphanedServices, UnusedPVCs, IdleNamespaces, ZombieWorkloads
  <2> QED
    BY <1>1, <2>2 DEF Detect, in
<1>4. TypeOK'
  BY <1>1, <1>3 DEF SweepInv, TypeOK
<1>5. ASSUME scope # None PROVE Moments'
  <2>1. \A there, k : At(there, k)' = At(there, k)
    BY <1>1 DEF At
  <2>2. AsInputs(listed)' = AsInputs(listed)
    BY <1>1
  <2> QED
    BY <1>1, <1>5, <2>1, <2>2 DEF Moments, SweepInv
<1> QED
  BY <1>1, <1>4, <1>5 DEF SweepInv

\* A change adds a moment.
LEMMA SweepBecome ==
  ASSUME SweepInv, NEW there \in SUBSET Universe, Become(there)
  PROVE  SweepInv'
<1>1. /\ outcome = None /\ changes < MaxChanges /\ objects' = there
      /\ past' = past \cup {there} /\ changes' = changes + 1
      /\ UNCHANGED <<scope, listed, outcome>>
  BY DEF Become
<1>2. TypeOK'
  BY <1>1, ChangesAreNatural DEF SweepInv, TypeOK
<1>3. ASSUME scope # None PROVE Moments'
  <2>1. \A t, k : At(t, k)' = At(t, k)
    BY <1>1 DEF At
  <2>2. \A i \in DOMAIN listed : \E t \in past : listed[i] = At(t, Kinds[i])
    BY <1>3 DEF SweepInv, Moments
  <2> QED
    BY <1>1, <2>1, <2>2 DEF Moments
<1> QED
  BY <1>1, <1>2, <1>3 DEF SweepInv

LEMMA SweepStep == SweepInv /\ [Next]_vars => SweepInv'
<1> SUFFICES ASSUME SweepInv, [Next]_vars PROVE SweepInv'
  OBVIOUS
<1>1. ASSUME NEW flag \in Scopes, Begin(flag) PROVE SweepInv'
  BY <1>1, SweepBegin
<1>2. CASE List
  BY <1>2, SweepList
<1>3. ASSUME UNCHANGED <<objects, scope, listed, past, changes>>,
             outcome' = outcome \/ outcome' = Failed
      PROVE  SweepInv'
  <2>1. \A there, k : At(there, k)' = At(there, k)
    BY <1>3 DEF At
  <2>2. AsInputs(listed)' = AsInputs(listed)
    BY <1>3
  <2>3. ASSUME scope # None PROVE Moments'
    BY <1>3, <2>1, <2>2, <2>3 DEF SweepInv, Moments
  <2>4. TypeOK'
    BY <1>3 DEF SweepInv, TypeOK
  <2> QED
    BY <1>3, <2>3, <2>4 DEF SweepInv
<1>4. CASE ListFails
  BY <1>3, <1>4 DEF ListFails
<1>5. CASE Finish
  BY <1>5, SweepFinish
<1>6. ASSUME NEW x \in Universe, Apply(x) \/ Remove(x) PROVE SweepInv'
  <2>1. objects \subseteq Universe
    BY DEF SweepInv, TypeOK
  <2>2. /\ {y \in objects : ~ Same(x, y)} \cup {x} \in SUBSET Universe
        /\ objects \ {x} \in SUBSET Universe
    BY <2>1
  <2> QED
    BY <1>6, <2>2, SweepBecome DEF Apply, Remove
<1>7. CASE UNCHANGED vars
  BY <1>3, <1>7 DEF vars
<1> QED
  BY <1>1, <1>2, <1>4, <1>5, <1>6, <1>7 DEF Next

LEMMA Invariant == Spec => []SweepInv
BY SweepInit, SweepStep, PTL DEF Spec
-----------------------------------------------------------------------------
(* Findings *)

LEMMA TruthIsDetect == \A there : Truth(there) = Detect(Lists(there))
BY DEF Truth, Lists, At

\* Of the four kinds of findings the kind of the object says which one it is.
LEMMA FoundByKind ==
  ASSUME NEW in, NEW x \in Detect(in),
         \A k \in Kind : \A y \in in[k] : y.kind = k
  PROVE  /\ x.kind = "Service" => x \in OrphanedServices(in)
         /\ x.kind = "PersistentVolumeClaim" => x \in UnusedPVCs(in)
         /\ x.kind = "Namespace" => x \in IdleNamespaces(in)
         /\ x.kind \notin {"Service", "PersistentVolumeClaim", "Namespace"}
              => x \in ZombieWorkloads(in)
<1>1. /\ \A y \in OrphanedServices(in) : y.kind = "Service"
      /\ \A y \in UnusedPVCs(in) : y.kind = "PersistentVolumeClaim"
      /\ \A y \in IdleNamespaces(in) : y.kind = "Namespace"
      /\ \A y \in ZombieWorkloads(in) : y.kind \in {"Deployment", "StatefulSet"}
  BY KindNames DEF OrphanedServices, UnusedPVCs, IdleNamespaces, ZombieWorkloads
<1>2. x \in OrphanedServices(in) \cup UnusedPVCs(in) \cup IdleNamespaces(in)
              \cup ZombieWorkloads(in)
  BY DEF Detect
<1> QED
  BY <1>1, <1>2

LEMMA ListsAreOfKind ==
  ASSUME NEW there, NEW k \in Kind
  PROVE  Lists(there)[k] = At(there, k) /\ \A y \in Lists(there)[k] : y.kind = k
BY DEF Lists, At

\* The types: what is listed is of its kind.
THEOREM TypeCorrect == Spec => []TypeOK
<1>1. SweepInv => TypeOK
  BY DEF SweepInv
<1> QED
  BY <1>1, Invariant, PTL

\* What a finished sweep rests on.
LEMMA Outcome ==
  ASSUME SweepInv, Done
  PROVE  /\ objects \in past
         /\ outcome = Detect(AsInputs(listed))
         /\ \A k \in Kind : \E there \in past : AsInputs(listed)[k] = At(there, k)
         /\ \A k \in Kind : \A y \in AsInputs(listed)[k] : y.kind = k
<1>1. Moments /\ scope # None /\ Len(listed) = Len(Kinds)
  BY DEF SweepInv, Done, Moments
<1>2. \A k \in Kind : \E there \in past : AsInputs(listed)[k] = At(there, k)
  BY <1>1, InputsAreMoments
<1>3. \A k \in Kind : \A y \in AsInputs(listed)[k] : y.kind = k
  BY <1>2 DEF At
<1> QED
  BY <1>1, <1>2, <1>3 DEF Moments, Done

\* What is found and stood all the time was as reported at the moment of the list
\* that speaks against it.
THEOREM FindingsHold == Spec => []StandingFindingsHold
<1>1. SweepInv => StandingFindingsHold
  <2> SUFFICES ASSUME SweepInv, Done, NEW x \in outcome \cap Standing, x.kind # "Namespace"
               PROVE  \E there \in past : x \in Truth(there)
    BY DEF StandingFindingsHold
  <2> DEFINE in == AsInputs(listed)
  <2>1. /\ x \in Detect(in)
        /\ \A k \in Kind : \E there \in past : in[k] = At(there, k)
        /\ \A k \in Kind : \A y \in in[k] : y.kind = k
    BY Outcome
  <2>2. \A there \in past : x \in there
    BY DEF Standing
  <2> HIDE DEF in
  <2>3. ASSUME NEW k \in Kind, x \in in[k]
        PROVE  \A there \in past : x \in Lists(there)[k]
    BY <2>1, <2>2, <2>3, ListsAreOfKind DEF At
  <2>4. PICK pods \in past : in["Pod"] = Lists(pods)["Pod"]
    BY <2>1, KindNames, ListsAreOfKind
  <2>5. CASE x.kind = "Service"
    <3>1. x \in OrphanedServices(in)
      BY <2>1, <2>5, FoundByKind
    <3>2. x \in Lists(pods)["Service"]
      BY <2>3, <2>4, <3>1, KindNames DEF OrphanedServices
    <3>3. x \in OrphanedServices(Lists(pods))
      BY <2>4, <3>1, <3>2 DEF OrphanedServices
    <3> QED
      BY <2>4, <3>3, TruthIsDetect DEF Detect
  <2>6. CASE x.kind = "PersistentVolumeClaim"
    <3>1. x \in UnusedPVCs(in)
      BY <2>1, <2>6, FoundByKind
    <3>2. x \in Lists(pods)["PersistentVolumeClaim"]
      BY <2>3, <2>4, <3>1, KindNames DEF UnusedPVCs
    <3>3. x \in UnusedPVCs(Lists(pods))
      BY <2>4, <3>1, <3>2 DEF UnusedPVCs
    <3> QED
      BY <2>4, <3>3, TruthIsDetect DEF Detect
  <2>7. CASE x.kind \notin {"Service", "PersistentVolumeClaim"}
    <3>1. x \in ZombieWorkloads(in)
      BY <2>1, <2>7, FoundByKind
    <3>2. PICK k \in {"Deployment", "StatefulSet"} : x \in in[k] /\ x.replicas = 0
      BY <3>1 DEF ZombieWorkloads
    <3>3. x \in Lists(pods)[k]
      BY <2>3, <2>4, <3>2, KindNames
    <3>4. x \in ZombieWorkloads(Lists(pods))
      BY <3>2, <3>3 DEF ZombieWorkloads
    <3> QED
      BY <2>4, <3>4, TruthIsDetect DEF Detect
  <2> QED
    BY <2>5, <2>6, <2>7
<1> QED
  BY <1>1, Invariant, PTL

\* A namespace is found only if nothing ran in it during all of the sweep: what did is in
\* the list of its kind, whenever that was made.
THEOREM NamespacesIdle == Spec => []IdleUnlessNew
<1>1. SweepInv => IdleUnlessNew
  <2> SUFFICES ASSUME SweepInv, Done, NEW n \in outcome, n.kind = "Namespace",
                      NEW x \in Standing, Runs(x), x.ns = n.name
               PROVE  FALSE
    BY DEF IdleUnlessNew
  <2> DEFINE in == AsInputs(listed)
  <2>1. /\ n \in Detect(in)
        /\ \A k \in Kind : \E there \in past : in[k] = At(there, k)
        /\ \A k \in Kind : \A y \in in[k] : y.kind = k
    BY Outcome
  <2>2. \A there \in past : x \in there
    BY DEF Standing
  <2> HIDE DEF in
  <2>3. n \in IdleNamespaces(in)
    BY <2>1, FoundByKind
  <2>4. n \in in["Namespace"]
    BY <2>3 DEF IdleNamespaces
  <2>5. scope = All
    BY <2>1, <2>4, KindNames DEF At
  <2>6. x.kind \in Kind
    BY KindNames DEF Runs
  <2>7. x \in in[x.kind]
    BY <2>1, <2>2, <2>5, <2>6 DEF At
  <2>8. x \in Live(in)
    BY <2>7 DEF Runs, Live
  <2> QED
    BY <2>3, <2>8 DEF IdleNamespaces
<1> QED
  BY <1>1, Invariant, PTL

\* What could be tidied at every moment is found: each list speaks only of a moment
\* at which it could.
THEOREM NothingMissed == Spec => []NothingStandingMissed
<1>1. SweepInv => NothingStandingMissed
  <2> SUFFICES ASSUME SweepInv, Done, NEW x \in Universe,
                      \A there \in past : x \in Truth(there)
               PROVE  x \in outcome
    BY DEF NothingStandingMissed
  <2> DEFINE in == AsInputs(listed)
  <2>1. /\ objects \in past /\ outcome = Detect(in)
        /\ \A k \in Kind : \E there \in past : in[k] = At(there, k)
    BY Outcome
  <2> HIDE DEF in
  <2>2. \A k \in Kind : \E there \in past : in[k] = Lists(there)[k]
    BY <2>1, ListsAreOfKind
  <2>3. \A there \in past :
          /\ x.kind = "Service" => x \in OrphanedServices(Lists(there))
          /\ x.kind = "PersistentVolumeClaim" => x \in UnusedPVCs(Lists(there))
          /\ x.kind = "Namespace" => x \in IdleNamespaces(Lists(there))
          /\ x.kind \notin {"Service", "PersistentVolumeClaim", "Namespace"}
               => x \in ZombieWorkloads(Lists(there))
    BY TruthIsDetect, ListsAreOfKind, FoundByKind
  <2>4. CASE x.kind = "Service"
    <3>1. x \in in["Service"] /\ x.labels # {}
      BY <2>2, <2>3, <2>4, KindNames DEF OrphanedServices
    <3>2. PICK pods \in past : in["Pod"] = Lists(pods)["Pod"]
      BY <2>2, KindNames
    <3>3. x \in OrphanedServices(in)
      BY <2>3, <2>4, <3>1, <3>2 DEF OrphanedServices
    <3> QED
      BY <2>1, <3>3 DEF Detect
  <2>5. CASE x.kind = "PersistentVolumeClaim"
    <3>1. x \in in["PersistentVolumeClaim"]
      BY <2>2, <2>3, <2>5, KindNames DEF UnusedPVCs
    <3>2. PICK pods \in past : in["Pod"] = Lists(pods)["Pod"]
      BY <2>2, KindNames
    <3>3. x \in UnusedPVCs(in)
      BY <2>3, <2>5, <3>1, <3>2 DEF UnusedPVCs
    <3> QED
      BY <2>1, <3>3 DEF Detect
  <2>6. CASE x.kind = "Namespace"
    <3>1. x \in in["Namespace"] /\ x.name \notin System /\ ~ x.ending
      BY <2>2, <2>3, <2>6, KindNames DEF IdleNamespaces
    <3>2. ASSUME NEW y \in Live(in) PROVE \E there \in past : y \in Live(Lists(there))
      BY <2>2, <3>2, KindNames DEF Live
    <3>3. x \in IdleNamespaces(in)
      BY <2>3, <2>6, <3>1, <3>2 DEF IdleNamespaces
    <3> QED
      BY <2>1, <3>3 DEF Detect
  <2>7. CASE x.kind \notin {"Service", "PersistentVolumeClaim", "Namespace"}
    <3>1. \A there \in past :
            /\ x.replicas = 0
            /\ \E k \in {"Deployment", "StatefulSet"} : x.kind = k /\ x \in Lists(there)[k]
      BY <2>3, <2>7, KindNames, ListsAreOfKind DEF ZombieWorkloads
    <3>2. x.replicas = 0 /\ x.kind \in {"Deployment", "StatefulSet"} /\ x \in in[x.kind]
      BY <2>1, <2>2, <3>1, KindNames
    <3>3. x \in ZombieWorkloads(in)
      BY <3>2 DEF ZombieWorkloads
    <3> QED
      BY <2>1, <3>3 DEF Detect
  <2> QED
    BY <2>4, <2>5, <2>6, <2>7
<1> QED
  BY <1>1, Invariant, PTL
=============================================================================
