---------------------------- MODULE InstallerProofs ----------------------------
(***************************************************************************)
(* Theorems about Installer, for all commands, any number of failures and   *)
(* interruptions: the types, that an install which reports success has left *)
(* behind all it was asked for, that no operator is without its CRDs, and   *)
(* that what others use is kept.                                            *)
(***************************************************************************)
EXTENDS Installer, TLAPS

Level == {"absent", "created", "ready", "terminating"}

-----------------------------------------------------------------------------
(* Types *)

\* The levels of the objects: only CRDs are established later, only CRDs and
\* namespaces go slowly.
Levels ==
  /\ phase \in [Objects -> Level]
  /\ \A x \in Objects : /\ phase[x] = "created" => x \in CRDs
                        /\ phase[x] = "terminating" => x \in CRDs \cup Namespaces

LEMMA InitType == Init => TypeOK
<1> SUFFICES ASSUME Init PROVE TypeOK
  OBVIOUS
<1>1. PICK before \in {"absent", "ready"} :
        phase = [x \in Objects |-> IF x = "monitoring" THEN before ELSE "absent"]
  BY DEF Init
<1>2. Levels
  BY <1>1 DEF Levels, Level
<1>3. /\ pod = FALSE /\ records = {} /\ cmd = NoCommand /\ todo = <<>>
      /\ outcome = "complete" /\ failures = 0 /\ hasty = FALSE
  BY DEF Init
<1>4. failures \in 0 .. MaxFailures
  BY <1>3, MaxFailuresIsNatural
<1> QED
  BY <1>2, <1>3, <1>4, Zenon DEF TypeOK, Levels, Level

\* One object changes its level.
LEMMA LevelMoves ==
  ASSUME Levels, NEW x, NEW level \in Level,
         x \in Objects => /\ level = "created" => x \in CRDs
                          /\ level = "terminating" => x \in CRDs \cup Namespaces,
         phase' = [phase EXCEPT ![x] = level]
  PROVE  Levels'
<1>1. \A y \in Objects : phase'[y] = IF y = x THEN level ELSE phase[y]
  BY DEF Levels
<1> QED
  BY <1>1 DEF Levels

LEMMA FailType ==
  ASSUME TypeOK, Fail, UNCHANGED failures
  PROVE  TypeOK'
<1>1. Levels' <=> Levels
  BY DEF Fail, cluster, Levels
<1> QED
  BY <1>1 DEF TypeOK, Levels, Level, Fail, cluster

LEMMA MadeType ==
  ASSUME TypeOK, NEW call, NEW level \in Level,
         Head(todo).to \in Objects => /\ level = "created" => Head(todo).to \in CRDs
                                      /\ level = "terminating" => Head(todo).to \in CRDs \cup Namespaces,
         Made(call, [phase EXCEPT ![Head(todo).to] = level])
  PROVE  TypeOK'
<1>0. Levels
  BY DEF TypeOK, Levels, Level
<1>1. Levels'
  <2>1. PICK x : x = Head(todo).to
    OBVIOUS
  <2>2. phase' = [phase EXCEPT ![x] = level]
    BY <2>1 DEF Made
  <2>3. x \in Objects => /\ level = "created" => x \in CRDs
                         /\ level = "terminating" => x \in CRDs \cup Namespaces
    BY <2>1
  <2> QED
    BY <1>0, <2>2, <2>3, LevelMoves
<1> QED
  BY <1>1 DEF TypeOK, Levels, Level, Made

LEMMA NextType == TypeOK /\ [Next]_vars => TypeOK'
<1> SUFFICES ASSUME TypeOK, [Next]_vars PROVE TypeOK'
  OBVIOUS
<1>0. /\ Levels /\ pod \in BOOLEAN /\ records \subseteq CRDs
      /\ cmd \in Commands \cup {NoCommand} /\ failures \in 0 .. MaxFailures
      /\ outcome \in {"running", "complete", "failed"} /\ hasty \in BOOLEAN
      /\ todo # <<>> => outcome = "running"
  BY DEF TypeOK, Levels, Level
<1>1. ASSUME NEW c \in Commands, Begin(c) PROVE TypeOK'
  <2>1. Levels'
    BY <1>0, <1>1 DEF Begin, cluster, Levels
  <2>2. hasty' \in BOOLEAN
    BY <1>0, <1>1 DEF Begin, Settled
  <2> QED
    BY <1>0, <1>1, <2>1, <2>2 DEF TypeOK, Levels, Level, Begin, cluster
<1>2. CASE Apply
  <2>1. Made("apply", [phase EXCEPT ![Head(todo).to] = Applied(Head(todo).to)])
    BY <1>2 DEF Apply, Object
  <2>2. Head(todo).to \in Objects =>
          /\ Applied(Head(todo).to) \in Level
          /\ Applied(Head(todo).to) = "created" => Head(todo).to \in CRDs
          /\ Applied(Head(todo).to) = "terminating" => Head(todo).to \in CRDs \cup Namespaces
    <3>1. ASSUME NEW x \in Objects
          PROVE  /\ Applied(x) \in Level
                 /\ Applied(x) = "created" => x \in CRDs
                 /\ Applied(x) = "terminating" => x \in CRDs \cup Namespaces
      <4>1. /\ phase[x] \in Level
            /\ phase[x] = "created" => x \in CRDs
            /\ phase[x] = "terminating" => x \in CRDs \cup Namespaces
        BY <1>0 DEF Levels
      <4> QED
        BY <4>1 DEF Applied, Level
    <3> QED
      BY <3>1
  <2>3. CASE Head(todo).to \in Objects
    BY <2>1, <2>2, <2>3, MadeType
  <2>4. CASE Head(todo).to \notin Objects
    <3>1. Levels'
      BY <1>0, <2>1, <2>4 DEF Made, Levels
    <3> QED
      BY <1>0, <2>1, <3>1 DEF TypeOK, Levels, Level, Made
  <2> QED
    BY <2>3, <2>4
<1>3. CASE Delete
  <2>1. Made("delete", [phase EXCEPT ![Head(todo).to] = Deleted(Head(todo).to)])
    BY <1>3 DEF Delete, Object
  <2>2. /\ Deleted(Head(todo).to) \in Level
        /\ Deleted(Head(todo).to) = "created" => Head(todo).to \in CRDs
        /\ Deleted(Head(todo).to) = "terminating" => Head(todo).to \in CRDs \cup Namespaces
    BY DEF Deleted, Level
  <2> QED
    BY <2>1, <2>2, MadeType
<1>4. CASE Wait \/ Look
  <2>1. \E call : Made(call, phase)
    BY <1>4 DEF Wait, Look
  <2>2. Levels'
    BY <1>0, <2>1 DEF Made, Levels
  <2> QED
    BY <1>0, <2>1, <2>2 DEF TypeOK, Levels, Level, Made
<1>5. CASE Refused \/ TimeOut
  BY <1>5, FailType DEF Refused, TimeOut
<1>6. CASE Failure
  <2>1. Levels' /\ failures' \in 0 .. MaxFailures
    BY <1>0, <1>6, MaxFailuresIsNatural DEF Failure, Fail, cluster, Levels
  <2> QED
    BY <1>0, <1>6, <2>1 DEF TypeOK, Levels, Level, Failure, Fail, cluster
<1>7. CASE Complete
  <2>1. Levels'
    BY <1>0, <1>7 DEF Complete, cluster, Levels
  <2> QED
    BY <1>0, <1>7, <2>1 DEF TypeOK, Levels, Level, Complete, cluster
<1>8. ASSUME NEW crd \in CRDs, Establish(crd) \/ FinishCRD(crd) \/ Record(crd) PROVE TypeOK'
  <2>1. Levels'
    <3>1. CASE Establish(crd)
      BY <1>0, <3>1, LevelMoves DEF Establish, Level
    <3>2. CASE FinishCRD(crd)
      BY <1>0, <3>2, LevelMoves DEF FinishCRD, Level
    <3>3. CASE Record(crd)
      BY <1>0, <3>3 DEF Record, Levels
    <3> QED
      BY <1>8, <3>1, <3>2, <3>3
  <2>2. records' \subseteq CRDs
    BY <1>0, <1>8 DEF Establish, FinishCRD, Record
  <2>3. UNCHANGED <<pod, cmd, todo, outcome, failures, hasty>>
    BY <1>8 DEF Establish, FinishCRD, Record, command
  <2> QED
    BY <1>0, <2>1, <2>2, <2>3 DEF TypeOK, Levels, Level
<1>9. ASSUME NEW ns \in Namespaces, FinishNamespace(ns) PROVE TypeOK'
  <2>1. Levels'
    BY <1>0, <1>9 DEF FinishNamespace, Levels, Level
  <2>2. records' \subseteq CRDs /\ UNCHANGED <<pod, cmd, todo, outcome, failures, hasty>>
    BY <1>0, <1>9 DEF FinishNamespace, command
  <2> QED
    BY <1>0, <2>1, <2>2 DEF TypeOK, Levels, Level
<1>10. CASE PodStarts \/ PodStops
  <2>1. Levels' /\ pod' \in BOOLEAN /\ UNCHANGED <<records, cmd, todo, outcome, failures, hasty>>
    BY <1>0, <1>10 DEF PodStarts, PodStops, command, Levels
  <2> QED
    BY <1>0, <2>1 DEF TypeOK, Levels, Level
<1>11. CASE UNCHANGED vars
  <2>1. UNCHANGED <<phase, pod, records, cmd, todo, outcome, failures, hasty>>
    BY <1>11 DEF vars, cluster
  <2>2. Levels'
    BY <1>0, <2>1 DEF Levels
  <2> QED
    BY <1>0, <2>1, <2>2 DEF TypeOK, Levels, Level
<1> QED
  BY <1>1, <1>2, <1>3, <1>4, <1>5, <1>6, <1>7, <1>8, <1>9, <1>10, <1>11 DEF Next, Proceed

\* The types, whatever is commanded and whatever fails.
THEOREM TypeCorrect == Spec => []TypeOK
BY InitType, NextType, PTL DEF Spec

-----------------------------------------------------------------------------
(* Sequences of calls *)

Call == [do : {"apply", "wait", "delete", "look"}, to : Objects]

Has(calls, do, x) == \E i \in 1 .. Len(calls) : calls[i].do = do /\ calls[i].to = x

\* Each call do of x has the call first of y before it.
Guarded(calls, do, x, first, y) ==
  \A i \in 1 .. Len(calls) :
    calls[i].do = do /\ calls[i].to = x =>
      \E j \in 1 .. Len(calls) : j < i /\ calls[j].do = first /\ calls[j].to = y

LEMMA EachCalls ==
  ASSUME NEW do \in {"apply", "wait", "delete", "look"}, NEW objects \in Seq(Objects)
  PROVE  /\ Each(do, objects) \in Seq(Call)
         /\ \A d, x : Has(Each(do, objects), d, x) <=> d = do /\ x \in ToSet(objects)
<1>1. \A i \in 1 .. Len(objects) : /\ Each(do, objects)[i] = [do |-> do, to |-> objects[i]]
                                   /\ [do |-> do, to |-> objects[i]] \in Call
  BY DEF Each, Call
<1>2. DOMAIN Each(do, objects) = 1 .. Len(objects) /\ Len(objects) \in Nat
  BY DEF Each
<1>3. Each(do, objects) \in [1 .. Len(objects) -> Call]
  BY <1>1, <1>2 DEF Each
<1>4. Each(do, objects) \in Seq(Call) /\ Len(Each(do, objects)) = Len(objects)
  BY <1>2, <1>3
<1>5. ToSet(objects) = {objects[i] : i \in 1 .. Len(objects)}
  BY DEF ToSet
<1>6. ASSUME NEW d, NEW x
      PROVE  Has(Each(do, objects), d, x) <=> d = do /\ x \in ToSet(objects)
  <2>1. \A i \in 1 .. Len(objects) : /\ Each(do, objects)[i].do = do
                                     /\ Each(do, objects)[i].to = objects[i]
    <3>1. \A y : [do |-> do, to |-> y].do = do /\ [do |-> do, to |-> y].to = y
      OBVIOUS
    <3>2. TAKE i \in 1 .. Len(objects)
    <3>3. Each(do, objects)[i] = [do |-> do, to |-> objects[i]]
      BY <1>1, Zenon
    <3> QED
      BY <3>1, <3>3, Zenon
  <2>2. Has(Each(do, objects), d, x) <=>
          \E i \in 1 .. Len(objects) : do = d /\ objects[i] = x
    BY <1>4, <2>1 DEF Has
  <2>3. (d = do) \in BOOLEAN /\ (x \in ToSet(objects)) \in BOOLEAN
    OBVIOUS
  <2>4. x \in ToSet(objects) <=> \E i \in 1 .. Len(objects) : objects[i] = x
    BY <1>5
  <2> QED
    BY <2>2, <2>3, <2>4
<1> QED
  BY <1>4, <1>6

LEMMA ConcatCalls ==
  ASSUME NEW s \in Seq(Call), NEW t \in Seq(Call)
  PROVE  /\ s \o t \in Seq(Call)
         /\ \A d, x : Has(s \o t, d, x) <=> Has(s, d, x) \/ Has(t, d, x)
<1>1. \A i \in 1 .. Len(s) : i \in 1 .. Len(s \o t) /\ (s \o t)[i] = s[i]
  OBVIOUS
<1>2. \A i \in 1 .. Len(t) : /\ Len(s) + i \in 1 .. Len(s \o t)
                             /\ (s \o t)[Len(s) + i] = t[i]
  OBVIOUS
<1>3. \A i \in 1 .. Len(s \o t) : i \in 1 .. Len(s) \/ i - Len(s) \in 1 .. Len(t)
  OBVIOUS
<1>4. ASSUME NEW d, NEW x, Has(s, d, x) \/ Has(t, d, x) PROVE Has(s \o t, d, x)
  BY <1>1, <1>2, <1>4 DEF Has
<1>5. ASSUME NEW d, NEW x, Has(s \o t, d, x) PROVE Has(s, d, x) \/ Has(t, d, x)
  <2>1. PICK i \in 1 .. Len(s \o t) : (s \o t)[i].do = d /\ (s \o t)[i].to = x
    BY <1>5 DEF Has
  <2>2. CASE i \in 1 .. Len(s)
    BY <1>1, <2>1, <2>2 DEF Has
  <2>3. CASE i - Len(s) \in 1 .. Len(t)
    <3>1. (s \o t)[i] = t[i - Len(s)]
      BY <2>3
    <3> QED
      BY <2>1, <2>3, <3>1 DEF Has
  <2> QED
    BY <1>3, <2>2, <2>3
<1> QED
  BY <1>4, <1>5

LEMMA ConditionalCalls ==
  ASSUME NEW condition \in BOOLEAN, NEW s \in Seq(Call)
  PROVE  /\ If(condition, s) \in Seq(Call)
         /\ \A d, x : Has(If(condition, s), d, x) <=> condition /\ Has(s, d, x)
BY DEF If, Has

LEMMA TailCalls ==
  ASSUME NEW s \in Seq(Call), s # <<>>
  PROVE  /\ Head(s) \in Call /\ Tail(s) \in Seq(Call)
         /\ Has(s, Head(s).do, Head(s).to)
         /\ \A d, x : Has(s, d, x) <=> (Head(s).do = d /\ Head(s).to = x) \/ Has(Tail(s), d, x)
<1>1. Head(s) = s[1] /\ 1 \in 1 .. Len(s)
  OBVIOUS
<1>2. \A i \in 1 .. Len(Tail(s)) : i + 1 \in 1 .. Len(s) /\ Tail(s)[i] = s[i + 1]
  OBVIOUS
<1>3. \A i \in 1 .. Len(s) : i = 1 \/ (i - 1 \in 1 .. Len(Tail(s)) /\ Tail(s)[i - 1] = s[i])
  OBVIOUS
<1>4. ASSUME NEW d, NEW x, Has(s, d, x)
      PROVE  (Head(s).do = d /\ Head(s).to = x) \/ Has(Tail(s), d, x)
  BY <1>1, <1>3, <1>4 DEF Has
<1>5. ASSUME NEW d, NEW x, (Head(s).do = d /\ Head(s).to = x) \/ Has(Tail(s), d, x)
      PROVE  Has(s, d, x)
  BY <1>1, <1>2, <1>5 DEF Has
<1> QED
  BY <1>1, <1>4, <1>5

\* Nothing is guarded where nothing is called, and a sequence is guarded by the one before.
LEMMA ConcatGuarded ==
  ASSUME NEW s \in Seq(Call), NEW t \in Seq(Call), NEW do, NEW x, NEW first, NEW y,
         ~Has(s, do, x), Has(s, first, y) \/ ~Has(t, do, x)
  PROVE  Guarded(s \o t, do, x, first, y)
<1> SUFFICES ASSUME NEW i \in 1 .. Len(s \o t), (s \o t)[i].do = do, (s \o t)[i].to = x
             PROVE  \E j \in 1 .. Len(s \o t) : /\ j < i
                                                /\ (s \o t)[j].do = first /\ (s \o t)[j].to = y
  BY DEF Guarded
<1>1. \A j \in 1 .. Len(s) : j \in 1 .. Len(s \o t) /\ (s \o t)[j] = s[j]
  OBVIOUS
<1>2. i \notin 1 .. Len(s)
  BY <1>1 DEF Has
<1>3. i - Len(s) \in 1 .. Len(t) /\ (s \o t)[i] = t[i - Len(s)]
  BY <1>2
<1>4. Has(t, do, x)
  BY <1>3 DEF Has
<1>5. PICK j \in 1 .. Len(s) : s[j].do = first /\ s[j].to = y
  BY <1>4 DEF Has
<1>6. j < i
  BY <1>2
<1> QED
  BY <1>1, <1>5, <1>6

LEMMA AppendGuarded ==
  ASSUME NEW s \in Seq(Call), NEW t \in Seq(Call), NEW do, NEW x, NEW first, NEW y,
         Guarded(s, do, x, first, y), Has(s, first, y) \/ ~Has(t, do, x)
  PROVE  Guarded(s \o t, do, x, first, y)
<1> SUFFICES ASSUME NEW i \in 1 .. Len(s \o t), (s \o t)[i].do = do, (s \o t)[i].to = x
             PROVE  \E j \in 1 .. Len(s \o t) : /\ j < i
                                                /\ (s \o t)[j].do = first /\ (s \o t)[j].to = y
  BY DEF Guarded
<1>1. \A j \in 1 .. Len(s) : j \in 1 .. Len(s \o t) /\ (s \o t)[j] = s[j]
  OBVIOUS
<1>2. CASE i \in 1 .. Len(s)
  BY <1>1, <1>2 DEF Guarded
<1>3. CASE i \notin 1 .. Len(s)
  <2>1. i - Len(s) \in 1 .. Len(t) /\ (s \o t)[i] = t[i - Len(s)]
    BY <1>3
  <2>2. PICK j \in 1 .. Len(s) : s[j].do = first /\ s[j].to = y
    BY <2>1 DEF Has
  <2>3. j < i
    BY <1>3
  <2> QED
    BY <1>1, <2>2, <2>3
<1> QED
  BY <1>2, <1>3

\* The first call is not a guarded one; what it does not guard stays guarded.
LEMMA TailGuarded ==
  ASSUME NEW s \in Seq(Call), s # <<>>, NEW do, NEW x, NEW first, NEW y,
         Guarded(s, do, x, first, y)
  PROVE  /\ ~(Head(s).do = do /\ Head(s).to = x)
         /\ ~(Head(s).do = first /\ Head(s).to = y) => Guarded(Tail(s), do, x, first, y)
<1>1. Head(s) = s[1] /\ 1 \in 1 .. Len(s)
  OBVIOUS
<1>2. \A i \in 1 .. Len(Tail(s)) : i + 1 \in 1 .. Len(s) /\ Tail(s)[i] = s[i + 1]
  OBVIOUS
<1>3. \A i \in 1 .. Len(s) : i = 1 \/ (i - 1 \in 1 .. Len(Tail(s)) /\ Tail(s)[i - 1] = s[i])
  OBVIOUS
<1>4. ~(Head(s).do = do /\ Head(s).to = x)
  BY <1>1 DEF Guarded
<1>5. ASSUME ~(Head(s).do = first /\ Head(s).to = y),
             NEW i \in 1 .. Len(Tail(s)), Tail(s)[i].do = do, Tail(s)[i].to = x
      PROVE  \E j \in 1 .. Len(Tail(s)) : j < i /\ Tail(s)[j].do = first /\ Tail(s)[j].to = y
  <2>1. PICK j \in 1 .. Len(s) : j < i + 1 /\ s[j].do = first /\ s[j].to = y
    BY <1>2, <1>5 DEF Guarded
  <2>2. j # 1
    BY <1>1, <1>5, <2>1
  <2>3. j - 1 \in 1 .. Len(Tail(s)) /\ Tail(s)[j - 1] = s[j] /\ j - 1 < i
    BY <1>3, <2>1, <2>2
  <2> QED
    BY <2>1, <2>3
<1>6. Guarded(Tail(s), do, x, first, y) <=>
        \A i \in 1 .. Len(Tail(s)) :
          Tail(s)[i].do = do /\ Tail(s)[i].to = x =>
            \E j \in 1 .. Len(Tail(s)) : j < i /\ Tail(s)[j].do = first /\ Tail(s)[j].to = y
  BY DEF Guarded
<1> QED
  BY <1>4, <1>5, <1>6

-----------------------------------------------------------------------------
(* The calls of the commands *)

\* What the parts of the manifests contain.
LEMMA Contents ==
  /\ CRDs = {"usageprofiles", "clusterusagesummaries", "recommendations"}
  /\ ToSet(Manifest.operator) = {"kubetidy-system", "operator-role", "operator"}
  /\ ToSet(Manifest.prometheus) = {"monitoring", "prometheus-role", "prometheus"}
  /\ ToSet(SkipNamespaces(Manifest.prometheus)) = ToSet(Manifest.prometheus) \ {"monitoring"}
  /\ ToSet(Manifest.opencost) = {"opencost", "opencost-role", "opencost-server"}
  /\ Objects = CRDs \cup ToSet(Manifest.operator) \cup ToSet(Manifest.prometheus)
                    \cup ToSet(Manifest.opencost)
<1>1. \A a, b, c : ToSet(<<a, b, c>>) = {a, b, c}
  BY DEF ToSet
<1>2. \A a, b : ToSet(<<a, b>>) = {a, b}
  BY DEF ToSet
<1>3. SkipNamespaces(Manifest.prometheus) = <<"prometheus-role", "prometheus">>
  BY DEF SkipNamespaces, Manifest, Namespaces
<1>4. DOMAIN Manifest = {"crds", "operator", "prometheus", "opencost"}
  BY DEF Manifest
<1>5. Objects = ToSet(Manifest["crds"]) \cup ToSet(Manifest["operator"])
                  \cup ToSet(Manifest["prometheus"]) \cup ToSet(Manifest["opencost"])
  BY <1>4 DEF Objects
<1> QED
  BY <1>1, <1>2, <1>3, <1>5 DEF CRDs, Manifest

LEMMA Parcels ==
  /\ Manifest.crds \in Seq(Objects) /\ Manifest.operator \in Seq(Objects)
  /\ Manifest.prometheus \in Seq(Objects) /\ Manifest.opencost \in Seq(Objects)
  /\ SkipNamespaces(Manifest.prometheus) \in Seq(Objects)
<1>1. \A a, b, c \in Objects : <<a, b, c>> \in Seq(Objects) /\ <<a, b>> \in Seq(Objects)
  OBVIOUS
<1>2. {"usageprofiles", "clusterusagesummaries", "recommendations",
       "kubetidy-system", "operator-role", "operator",
       "monitoring", "prometheus-role", "prometheus",
       "opencost", "opencost-role", "opencost-server"} \subseteq Objects
  BY Contents
<1> HIDE DEF Objects
<1> QED
  BY <1>1, <1>2 DEF Manifest, SkipNamespaces, Namespaces

\* An install applies what it is for and waits for the CRDs, before it applies
\* the operator.
LEMMA InitCalls ==
  ASSUME NEW c, c.verb = "init"
  PROVE  /\ Calls(c) \in Seq(Call)
         /\ \A d, x : Has(Calls(c), d, x) <=> \/ d = "apply" /\ x \in Targets(c)
                                              \/ d = "wait" /\ x \in CRDs
         /\ \A crd \in CRDs : Guarded(Calls(c), "apply", "operator", "wait", crd)
<1> DEFINE crds == Each("apply", Manifest.crds)
           waits == Each("wait", Manifest.crds)
           operator == If("crd-only" \notin c.flags, Each("apply", Manifest.operator))
           prometheus == If(IncludePrometheus(c.flags), Each("apply", Manifest.prometheus))
           opencost == If("with-opencost" \in c.flags, Each("apply", Manifest.opencost))
<1>1. Calls(c) = (((crds \o waits) \o operator) \o prometheus) \o opencost
  BY DEF Calls, InstallCalls
<1>2. /\ crds \in Seq(Call) /\ waits \in Seq(Call)
      /\ \A d, x : /\ Has(crds, d, x) <=> d = "apply" /\ x \in CRDs
                   /\ Has(waits, d, x) <=> d = "wait" /\ x \in CRDs
  BY Parcels, EachCalls DEF CRDs
<1>3. /\ operator \in Seq(Call) /\ prometheus \in Seq(Call) /\ opencost \in Seq(Call)
      /\ \A d, x :
           /\ Has(operator, d, x) <=>
                "crd-only" \notin c.flags /\ d = "apply" /\ x \in ToSet(Manifest.operator)
           /\ Has(prometheus, d, x) <=>
                IncludePrometheus(c.flags) /\ d = "apply" /\ x \in ToSet(Manifest.prometheus)
           /\ Has(opencost, d, x) <=>
                "with-opencost" \in c.flags /\ d = "apply" /\ x \in ToSet(Manifest.opencost)
  <2>1. /\ IncludePrometheus(c.flags) \in BOOLEAN /\ ("crd-only" \notin c.flags) \in BOOLEAN
        /\ ("with-opencost" \in c.flags) \in BOOLEAN
    BY DEF IncludePrometheus
  <2>2. \A objects \in Seq(Objects) :
          /\ Each("apply", objects) \in Seq(Call)
          /\ \A d, x : Has(Each("apply", objects), d, x) <=> d = "apply" /\ x \in ToSet(objects)
    BY EachCalls
  <2> QED
    <3>1. Each("apply", Manifest.operator) \in Seq(Call)
      BY <2>2, Parcels
    <3>2. Each("apply", Manifest.prometheus) \in Seq(Call)
      BY <2>2, Parcels
    <3>3. Each("apply", Manifest.opencost) \in Seq(Call)
      BY <2>2, Parcels
    <3>4. \A d, x : Has(operator, d, x) <=>
            "crd-only" \notin c.flags /\ Has(Each("apply", Manifest.operator), d, x)
      BY <2>1, <3>1, ConditionalCalls, Zenon
    <3>5. \A d, x : Has(prometheus, d, x) <=>
            IncludePrometheus(c.flags) /\ Has(Each("apply", Manifest.prometheus), d, x)
      BY <2>1, <3>2, ConditionalCalls, Zenon
    <3>6. \A d, x : Has(opencost, d, x) <=>
            "with-opencost" \in c.flags /\ Has(Each("apply", Manifest.opencost), d, x)
      BY <2>1, <3>3, ConditionalCalls, Zenon
    <3>7. operator \in Seq(Call) /\ prometheus \in Seq(Call) /\ opencost \in Seq(Call)
      BY <2>1, <3>1, <3>2, <3>3, ConditionalCalls, Zenon
    <3> QED
      BY <2>2, <3>4, <3>5, <3>6, <3>7, Parcels
<1>4. Targets(c) = CRDs
        \cup (IF "crd-only" \notin c.flags THEN ToSet(Manifest.operator) ELSE {})
        \cup (IF IncludePrometheus(c.flags) THEN ToSet(Manifest.prometheus) ELSE {})
        \cup (IF "with-opencost" \in c.flags THEN ToSet(Manifest.opencost) ELSE {})
  <2>1. Parts(c) = {"crds"}
          \cup (IF "crd-only" \notin c.flags THEN {"operator"} ELSE {})
          \cup (IF IncludePrometheus(c.flags) THEN {"prometheus"} ELSE {})
          \cup (IF "with-opencost" \in c.flags THEN {"opencost"} ELSE {})
    BY DEF Parts, IncludePrometheus
  <2>2. \A x : x \in Targets(c) <=> \E part \in Parts(c) : x \in ToSet(Manifest[part])
    BY DEF Targets
  <2> QED
    BY <2>1, <2>2 DEF CRDs
<1> HIDE DEF crds, waits, operator, prometheus, opencost
<1> DEFINE first == crds \o waits
           second == first \o operator
           third == second \o prometheus
           fourth == third \o opencost
<1>5. /\ first \in Seq(Call)
      /\ \A d, x : Has(first, d, x) <=> d \in {"apply", "wait"} /\ x \in CRDs
  BY <1>2, ConcatCalls
<1>6. \A crd \in CRDs : Guarded(first, "apply", "operator", "wait", crd)
  BY <1>2, Contents, ConcatGuarded
<1> HIDE DEF first
<1>7. /\ second \in Seq(Call)
      /\ \A d, x : Has(second, d, x) <=> Has(first, d, x) \/ Has(operator, d, x)
      /\ \A crd \in CRDs : Guarded(second, "apply", "operator", "wait", crd)
  BY <1>3, <1>5, <1>6, ConcatCalls, AppendGuarded
<1> HIDE DEF second
<1>8. /\ third \in Seq(Call)
      /\ \A d, x : Has(third, d, x) <=> Has(second, d, x) \/ Has(prometheus, d, x)
      /\ \A crd \in CRDs : Guarded(third, "apply", "operator", "wait", crd)
  BY <1>3, <1>5, <1>7, ConcatCalls, AppendGuarded
<1> HIDE DEF third
<1>9. /\ fourth \in Seq(Call)
      /\ \A d, x : Has(fourth, d, x) <=> Has(third, d, x) \/ Has(opencost, d, x)
      /\ \A crd \in CRDs : Guarded(fourth, "apply", "operator", "wait", crd)
  BY <1>3, <1>5, <1>7, <1>8, ConcatCalls, AppendGuarded
<1>10. Calls(c) = fourth
  BY <1>1 DEF first, second, third
<1> HIDE DEF fourth
<1>11. \A d, x : Has(fourth, d, x) <=> \/ d = "apply" /\ x \in Targets(c)
                                       \/ d = "wait" /\ x \in CRDs
  <2>1. ASSUME NEW d, NEW x
        PROVE  Has(fourth, d, x) <=> \/ d \in {"apply", "wait"} /\ x \in CRDs
                                     \/ Has(operator, d, x)
                                     \/ Has(prometheus, d, x)
                                     \/ Has(opencost, d, x)
    BY <1>5, <1>7, <1>8, <1>9
  <2>2. ASSUME NEW x
        PROVE  x \in Targets(c) <=>
                 \/ x \in CRDs
                 \/ "crd-only" \notin c.flags /\ x \in ToSet(Manifest.operator)
                 \/ IncludePrometheus(c.flags) /\ x \in ToSet(Manifest.prometheus)
                 \/ "with-opencost" \in c.flags /\ x \in ToSet(Manifest.opencost)
    BY <1>4
  <2> QED
    BY <1>3, <2>1, <2>2
<1> QED
  BY <1>9, <1>10, <1>11

\* An uninstall deletes, or in a dry run only asks for, what it is for but the
\* namespace that others may use; the operator goes before the CRDs.
LEMMA UninstallsCalls ==
  ASSUME NEW c, c.verb = "uninstall"
  PROVE  /\ Calls(c) \in Seq(Call)
         /\ \A d, x : Has(Calls(c), d, x) <=>
                        /\ d = IF "dry-run" \in c.flags THEN "look" ELSE "delete"
                        /\ x \in Targets(c) /\ x # "monitoring"
         /\ \A crd \in CRDs : Guarded(Calls(c), "delete", crd, "delete", "operator")
<1> DEFINE call == IF "dry-run" \in c.flags THEN "look" ELSE "delete"
           opencost == If("with-opencost" \in c.flags, Each(call, Manifest.opencost))
           prometheus == If("with-prometheus" \in c.flags,
                            Each(call, SkipNamespaces(Manifest.prometheus)))
           operator == Each(call, Manifest.operator)
           crds == If("keep-crds" \notin c.flags, Each(call, Manifest.crds))
<1>1. Calls(c) = ((opencost \o prometheus) \o operator) \o crds
  BY DEF Calls, UninstallCalls
<1>2. call \in {"apply", "wait", "delete", "look"} /\ call \in {"delete", "look"}
  OBVIOUS
<1> HIDE DEF call
<1>3. /\ operator \in Seq(Call)
      /\ \A d, x : Has(operator, d, x) <=> d = call /\ x \in ToSet(Manifest.operator)
  BY <1>2, Parcels, EachCalls
<1>4. /\ opencost \in Seq(Call) /\ prometheus \in Seq(Call) /\ crds \in Seq(Call)
      /\ \A d, x :
           /\ Has(opencost, d, x) <=>
                "with-opencost" \in c.flags /\ d = call /\ x \in ToSet(Manifest.opencost)
           /\ Has(prometheus, d, x) <=>
                "with-prometheus" \in c.flags /\ d = call
                  /\ x \in ToSet(SkipNamespaces(Manifest.prometheus))
           /\ Has(crds, d, x) <=> "keep-crds" \notin c.flags /\ d = call /\ x \in CRDs
  <2>1. /\ ("with-opencost" \in c.flags) \in BOOLEAN /\ ("keep-crds" \notin c.flags) \in BOOLEAN
        /\ ("with-prometheus" \in c.flags) \in BOOLEAN
    OBVIOUS
  <2>2. \A objects \in Seq(Objects) :
          /\ Each(call, objects) \in Seq(Call)
          /\ \A d, x : Has(Each(call, objects), d, x) <=> d = call /\ x \in ToSet(objects)
    BY <1>2, EachCalls
  <2>3. Each(call, Manifest.opencost) \in Seq(Call)
    BY <2>2, Parcels
  <2>4. Each(call, SkipNamespaces(Manifest.prometheus)) \in Seq(Call)
    BY <2>2, Parcels
  <2>5. Each(call, Manifest.crds) \in Seq(Call)
    BY <2>2, Parcels
  <2>6. \A d, x : Has(opencost, d, x) <=>
          "with-opencost" \in c.flags /\ Has(Each(call, Manifest.opencost), d, x)
    BY <2>1, <2>3, ConditionalCalls, Zenon
  <2>7. \A d, x : Has(prometheus, d, x) <=>
          /\ "with-prometheus" \in c.flags
          /\ Has(Each(call, SkipNamespaces(Manifest.prometheus)), d, x)
    BY <2>1, <2>4, ConditionalCalls, Zenon
  <2>8. \A d, x : Has(crds, d, x) <=>
          "keep-crds" \notin c.flags /\ Has(Each(call, Manifest.crds), d, x)
    BY <2>1, <2>5, ConditionalCalls, Zenon
  <2>9. opencost \in Seq(Call) /\ prometheus \in Seq(Call) /\ crds \in Seq(Call)
    BY <2>1, <2>3, <2>4, <2>5, ConditionalCalls, Zenon
  <2> QED
    BY <2>2, <2>6, <2>7, <2>8, <2>9, Parcels DEF CRDs
<1>5. ASSUME NEW x
      PROVE  x \in Targets(c) <=>
               \/ "keep-crds" \notin c.flags /\ x \in CRDs
               \/ x \in ToSet(Manifest.operator)
               \/ "with-prometheus" \in c.flags /\ x \in ToSet(Manifest.prometheus)
               \/ "with-opencost" \in c.flags /\ x \in ToSet(Manifest.opencost)
  <2>1. Parts(c) = {"operator"}
          \cup (IF "keep-crds" \notin c.flags THEN {"crds"} ELSE {})
          \cup (IF "with-prometheus" \in c.flags THEN {"prometheus"} ELSE {})
          \cup (IF "with-opencost" \in c.flags THEN {"opencost"} ELSE {})
    BY DEF Parts
  <2>2. x \in Targets(c) <=> \E part \in Parts(c) : x \in ToSet(Manifest[part])
    BY DEF Targets
  <2> QED
    BY <2>1, <2>2 DEF CRDs
<1> HIDE DEF opencost, prometheus, operator, crds
<1> DEFINE first == opencost \o prometheus
           second == first \o operator
           third == second \o crds
<1>6. /\ first \in Seq(Call)
      /\ \A d, x : Has(first, d, x) <=> Has(opencost, d, x) \/ Has(prometheus, d, x)
  BY <1>4, ConcatCalls
<1> HIDE DEF first
<1>7. /\ second \in Seq(Call)
      /\ \A d, x : Has(second, d, x) <=> Has(first, d, x) \/ Has(operator, d, x)
  BY <1>3, <1>6, ConcatCalls
<1> HIDE DEF second
<1>8. /\ third \in Seq(Call)
      /\ \A d, x : Has(third, d, x) <=> Has(second, d, x) \/ Has(crds, d, x)
  BY <1>4, <1>7, ConcatCalls
<1>9. Calls(c) = third
  BY <1>1 DEF first, second
<1>10. ASSUME NEW d, NEW x
       PROVE  Has(third, d, x) <=> d = call /\ x \in Targets(c) /\ x # "monitoring"
  <2>1. Has(third, d, x) <=> \/ Has(opencost, d, x) \/ Has(prometheus, d, x)
                             \/ Has(operator, d, x) \/ Has(crds, d, x)
    BY <1>6, <1>7, <1>8
  <2>2. x \in CRDs \cup ToSet(Manifest.operator) \cup ToSet(Manifest.opencost) => x # "monitoring"
    BY Contents
  <2> QED
    BY <1>3, <1>4, <1>5, <2>1, <2>2, Contents
<1>11. ASSUME NEW crd \in CRDs PROVE Guarded(third, "delete", crd, "delete", "operator")
  <2>1. ~Has(second, "delete", crd)
    BY <1>3, <1>4, <1>6, <1>7, Contents
  <2>2. Has(second, "delete", "operator") \/ ~Has(crds, "delete", crd)
    BY <1>3, <1>4, <1>7, Contents
  <2> QED
    BY <1>4, <1>7, <2>1, <2>2, ConcatGuarded
<1> HIDE DEF third
<1> QED
  BY <1>8, <1>9, <1>10, <1>11 DEF call

-----------------------------------------------------------------------------
(* What is still to be done *)

\* The calls left are calls of the command.
Errand ==
  /\ todo \in Seq(Call)
  /\ todo # <<>> => cmd \in Commands
  /\ \A d, x : Has(todo, d, x) => Has(Calls(cmd), d, x)

LEMMA CommandCalls ==
  ASSUME NEW c \in Commands
  PROVE  /\ c.verb \in {"init", "uninstall"} /\ Calls(c) \in Seq(Call)
         /\ c.verb = "init" => c.flags \subseteq InitFlags
<1>1. c \in Command
  BY CommandsAreCommands
<1>2. c.verb \in {"init", "uninstall"} /\ (c.verb = "init" => c.flags \subseteq InitFlags)
  BY <1>1 DEF Command
<1> QED
  BY <1>2, InitCalls, UninstallsCalls

LEMMA ErrandNext == TypeOK /\ Errand /\ [Next]_vars => Errand'
<1> SUFFICES ASSUME TypeOK, Errand, [Next]_vars PROVE Errand'
  OBVIOUS
<1>1. ASSUME NEW c \in Commands, Begin(c) PROVE Errand'
  BY <1>1, CommandCalls DEF Begin, Errand
<1>2. ASSUME NEW call, NEW after, Made(call, after) PROVE Errand'
  <2>1. /\ todo # <<>> /\ todo' = Tail(todo) /\ cmd' = cmd /\ todo \in Seq(Call)
        /\ cmd \in Commands /\ \A d, x : Has(todo, d, x) => Has(Calls(cmd), d, x)
    BY <1>2 DEF Made, Errand
  <2>2. /\ Tail(todo) \in Seq(Call)
        /\ \A d, x : Has(Tail(todo), d, x) => Has(todo, d, x)
    BY <2>1, TailCalls
  <2> QED
    BY <2>1, <2>2 DEF Errand
<1>3. CASE Fail
  BY <1>3 DEF Fail, Errand, Has
<1>4. CASE UNCHANGED <<cmd, todo>>
  BY <1>4 DEF Errand
<1>5. ASSUME Apply \/ Wait \/ Delete \/ Look PROVE Errand'
  BY <1>2, <1>5 DEF Apply, Wait, Delete, Look
<1>6. ASSUME Refused \/ TimeOut \/ Failure PROVE Errand'
  BY <1>3, <1>6 DEF Refused, TimeOut, Failure
<1>7. ASSUME Complete \/ PodStarts \/ PodStops \/ UNCHANGED vars PROVE Errand'
  BY <1>4, <1>7 DEF Complete, PodStarts, PodStops, command, vars
<1>8. ASSUME NEW crd \in CRDs, Establish(crd) \/ FinishCRD(crd) \/ Record(crd) PROVE Errand'
  BY <1>4, <1>8 DEF Establish, FinishCRD, Record, command
<1>9. ASSUME NEW ns \in Namespaces, FinishNamespace(ns) PROVE Errand'
  BY <1>4, <1>9 DEF FinishNamespace, command
<1> QED
  BY <1>1, <1>5, <1>6, <1>7, <1>8, <1>9 DEF Next, Proceed

LEMMA ErrandCorrect == Spec => []Errand
<1>1. Init => Errand
  BY DEF Init, Errand, Has
<1> QED
  BY <1>1, ErrandNext, TypeCorrect, PTL DEF Spec

\* The next call, by the verb of the command.
LEMMA NextCall ==
  ASSUME Errand, todo # <<>>
  PROVE  /\ Head(todo) \in Call /\ cmd \in Commands
         /\ cmd.verb = "init" =>
              \/ Head(todo).do = "apply" /\ Head(todo).to \in Targets(cmd)
              \/ Head(todo).do = "wait" /\ Head(todo).to \in CRDs
         /\ cmd.verb = "uninstall" =>
              /\ Head(todo).do \in {"look", "delete"}
              /\ Head(todo).to \in Targets(cmd) /\ Head(todo).to # "monitoring"
<1>1. Head(todo) \in Call /\ Has(todo, Head(todo).do, Head(todo).to)
  BY TailCalls DEF Errand
<1>2. cmd \in Commands /\ Has(Calls(cmd), Head(todo).do, Head(todo).to)
  BY <1>1 DEF Errand
<1> QED
  BY <1>1, <1>2, InitCalls, UninstallsCalls

-----------------------------------------------------------------------------
(* An install that reports success *)

LEMMA TargetsAreObjects ==
  ASSUME NEW c, NEW x \in Targets(c)
  PROVE  x \in Objects
<1>1. PICK part \in Parts(c) : x \in ToSet(Manifest[part])
  BY DEF Targets
<1>2. part \in {"crds", "operator", "opencost", "prometheus"}
  BY DEF Parts
<1> QED
  BY <1>1, <1>2, Contents DEF CRDs

LEMMA CRDsAreObjects == CRDs \subseteq Objects /\ Namespaces \subseteq Objects
BY Contents DEF Namespaces

\* Who waited for deletions finds nothing going away, and what an install is for
\* is there, or is still to be applied; a CRD is established, or still waited for.
OnTheWay ==
  cmd.verb = "init" /\ ~hasty /\ outcome # "failed" =>
    /\ Settled
    /\ \A x \in Targets(cmd) : phase[x] # "absent" \/ Has(todo, "apply", x)
    /\ \A crd \in CRDs : phase[crd] = "ready" \/ Has(todo, "wait", crd)

LEMMA OnTheWayNext == TypeOK /\ Errand /\ OnTheWay /\ [Next]_vars => OnTheWay'
<1> SUFFICES ASSUME TypeOK, Errand, OnTheWay, [Next]_vars,
                    (cmd.verb = "init" /\ ~hasty /\ outcome # "failed")'
             PROVE  /\ Settled'
                    /\ \A x \in Targets(cmd)' : phase'[x] # "absent" \/ Has(todo', "apply", x)
                    /\ \A crd \in CRDs : phase'[crd] = "ready" \/ Has(todo', "wait", crd)
  BY DEF OnTheWay
<1>0. phase \in [Objects -> Level] /\ hasty \in BOOLEAN /\ todo \in Seq(Call)
  BY DEF TypeOK, Level, Errand
<1>a. ASSUME cmd' = cmd, hasty' = hasty, outcome # "failed"
      PROVE  /\ Settled
             /\ \A x \in Targets(cmd) : x \in Objects /\ (phase[x] # "absent" \/ Has(todo, "apply", x))
             /\ \A crd \in CRDs : crd \in Objects /\ (phase[crd] = "ready" \/ Has(todo, "wait", crd))
             /\ Targets(cmd)' = Targets(cmd)
  <2>1. Targets(cmd)' = Targets(cmd)
    BY <1>a DEF Targets, Parts
  <2> QED
    BY <1>a, <2>1, TargetsAreObjects, CRDsAreObjects DEF OnTheWay
<1>1. ASSUME NEW c \in Commands, Begin(c) PROVE OnTheWay'
  <2>1. ~hasty /\ Settled /\ phase' = phase /\ cmd' = c /\ todo' = Calls(c)
    BY <1>0, <1>1 DEF Begin, cluster
  <2>2. Settled'
    BY <2>1 DEF Settled
  <2>3. c.verb = "init"
    BY <2>1
  <2> QED
    BY <2>1, <2>2, <2>3, InitCalls DEF OnTheWay
<1>2. CASE Apply
  <2>1. /\ outcome = "running" /\ todo # <<>> /\ Head(todo).do = "apply"
        /\ todo' = Tail(todo) /\ cmd' = cmd /\ hasty' = hasty /\ outcome' = outcome
        /\ phase' = [phase EXCEPT ![Head(todo).to] = Applied(Head(todo).to)]
    BY <1>2 DEF Apply, Made, Object
  <2>2. Settled /\ Targets(cmd)' = Targets(cmd)
    BY <1>a, <2>1
  <2>3. PICK y \in Objects : y = Head(todo).to
    BY <2>1, NextCall DEF Call
  <2>4. /\ phase'[y] = Applied(y) /\ \A x \in Objects \ {y} : phase'[x] = phase[x]
    BY <1>0, <2>1, <2>3
  <2>5. /\ Applied(y) # "absent" /\ Applied(y) # "terminating"
        /\ phase[y] = "ready" => Applied(y) = "ready"
    BY <2>2 DEF Applied, Settled
  <2>6. /\ \A x \in Objects : Has(todo, "apply", x) => x = y \/ Has(Tail(todo), "apply", x)
        /\ \A x \in Objects : Has(todo, "wait", x) => Has(Tail(todo), "wait", x)
    BY <1>0, <2>1, <2>3, TailCalls
  <2>7. Settled'
    BY <2>2, <2>4, <2>5 DEF Settled
  <2>8. \A x \in Targets(cmd)' : phase'[x] # "absent" \/ Has(todo', "apply", x)
    BY <1>a, <2>1, <2>2, <2>4, <2>5, <2>6
  <2>9. \A crd \in CRDs : phase'[crd] = "ready" \/ Has(todo', "wait", crd)
    BY <1>a, <2>1, <2>4, <2>5, <2>6
  <2> QED
    BY <2>7, <2>8, <2>9 DEF OnTheWay
<1>3. CASE Wait
  <2>1. /\ outcome = "running" /\ todo # <<>> /\ Head(todo).do = "wait"
        /\ todo' = Tail(todo) /\ cmd' = cmd /\ hasty' = hasty /\ outcome' = outcome
        /\ phase' = phase /\ phase[Head(todo).to] \in {"ready", "terminating"}
    BY <1>3 DEF Wait, Made, Object
  <2>2. Settled /\ Targets(cmd)' = Targets(cmd)
    BY <1>a, <2>1
  <2>3. PICK y \in Objects : y = Head(todo).to
    BY <2>1, NextCall DEF Call
  <2>4. phase[y] = "ready"
    BY <2>1, <2>2, <2>3 DEF Settled
  <2>5. /\ \A x \in Objects : Has(todo, "apply", x) => Has(Tail(todo), "apply", x)
        /\ \A x \in Objects : Has(todo, "wait", x) => x = y \/ Has(Tail(todo), "wait", x)
    BY <1>0, <2>1, <2>3, TailCalls
  <2>6. Settled'
    BY <2>1, <2>2 DEF Settled
  <2>7. \A x \in Targets(cmd)' : phase'[x] # "absent" \/ Has(todo', "apply", x)
    BY <1>a, <2>1, <2>5
  <2>8. \A crd \in CRDs : phase'[crd] = "ready" \/ Has(todo', "wait", crd)
    BY <1>a, <2>1, <2>4, <2>5
  <2> QED
    BY <2>6, <2>7, <2>8 DEF OnTheWay
<1>4. CASE Delete \/ Look
  <2>1. todo # <<>> /\ Head(todo).do \in {"delete", "look"} /\ cmd' = cmd
    BY <1>4 DEF Delete, Look, Made
  <2> QED
    BY <2>1, NextCall
<1>5. CASE Refused \/ TimeOut \/ Failure
  BY <1>5 DEF Refused, TimeOut, Failure, Fail
<1>6. CASE UNCHANGED <<phase, cmd, todo, hasty>> /\ outcome # "failed"
  <2>1. Settled' <=> Settled
    BY <1>6 DEF Settled
  <2> QED
    BY <1>a, <1>6, <2>1
<1>7. ASSUME NEW crd \in CRDs, Establish(crd) PROVE OnTheWay'
  <2>1. /\ cmd' = cmd /\ todo' = todo /\ hasty' = hasty /\ outcome' = outcome
        /\ phase' = [phase EXCEPT ![crd] = "ready"]
    BY <1>7 DEF Establish, command
  <2>2. \A x \in Objects : phase'[x] = phase[x] \/ phase'[x] = "ready"
    BY <1>0, <2>1
  <2>3. Settled'
    BY <1>a, <2>1, <2>2 DEF Settled
  <2> QED
    BY <1>a, <2>1, <2>2, <2>3 DEF OnTheWay
<1>8. ASSUME NEW x \in CRDs \cup Namespaces, FinishCRD(x) \/ FinishNamespace(x) PROVE FALSE
  <2>1. /\ cmd' = cmd /\ hasty' = hasty /\ outcome' = outcome
        /\ phase[x] = "terminating"
    BY <1>8 DEF FinishCRD, FinishNamespace, command
  <2> QED
    BY <1>a, <2>1, CRDsAreObjects DEF Settled
<1>9. CASE Complete \/ (\E crd \in CRDs : Record(crd)) \/ PodStarts \/ PodStops \/ UNCHANGED vars
  <2>1. UNCHANGED <<phase, cmd, todo, hasty>> /\ outcome # "failed"
    BY <1>9 DEF Complete, Record, PodStarts, PodStops, command, cluster, vars
  <2> QED
    BY <1>6, <2>1
<1> QED
  BY <1>1, <1>2, <1>3, <1>4, <1>5, <1>7, <1>8, <1>9 DEF Next, Proceed, OnTheWay

LEMMA OnTheWayCorrect == Spec => []OnTheWay
<1>1. Init => OnTheWay
  BY DEF Init, OnTheWay, NoCommand
<1> QED
  BY <1>1, OnTheWayNext, TypeCorrect, ErrandCorrect, PTL DEF Spec

\* installer.go:8: for all commands and whatever fails, an install that reports
\* success has left behind all it was asked for, working.
THEOREM Installed == Spec => []CompleteIsInstalled
<1>1. TypeOK /\ OnTheWay => CompleteIsInstalled
  <2> SUFFICES ASSUME TypeOK, OnTheWay, outcome = "complete", cmd.verb = "init", ~hasty
               PROVE  \A x \in Targets(cmd) : phase[x] = "ready"
    BY DEF CompleteIsInstalled, Achieved
  <2>1. /\ Settled /\ todo = <<>>
        /\ \A x \in Targets(cmd) : phase[x] # "absent" \/ Has(todo, "apply", x)
        /\ \A crd \in CRDs : phase[crd] = "ready" \/ Has(todo, "wait", crd)
    BY DEF OnTheWay, TypeOK
  <2>2. \A do, x : ~Has(<<>>, do, x)
    BY DEF Has
  <2>3. phase \in [Objects -> Level] /\ \A x \in Objects : phase[x] = "created" => x \in CRDs
    BY DEF TypeOK, Level
  <2>4. ASSUME NEW x \in Targets(cmd) PROVE phase[x] = "ready"
    <3>1. x \in Objects
      BY TargetsAreObjects
    <3>2. phase[x] \in Level /\ phase[x] # "absent" /\ phase[x] # "terminating"
      BY <2>1, <2>2, <2>3, <3>1 DEF Settled
    <3> QED
      BY <2>1, <2>2, <2>3, <3>1, <3>2 DEF Level
  <2> QED
    BY <2>4
<1> QED
  BY <1>1, TypeCorrect, OnTheWayCorrect, PTL

-----------------------------------------------------------------------------
(* The operator and its CRDs *)

\* There is an operator only with all of its CRDs; a command that applies it waits
\* for them first, and one that deletes them deletes it first.
CRDsFirst ==
  ~hasty =>
    /\ phase["operator"] # "absent" => \A crd \in CRDs : phase[crd] = "ready"
    /\ outcome = "running" /\ cmd.verb = "init" =>
         \A crd \in CRDs :
           phase[crd] = "ready" \/ Guarded(todo, "apply", "operator", "wait", crd)
    /\ outcome = "running" /\ cmd.verb = "uninstall" =>
         \/ phase["operator"] = "absent"
         \/ \A crd \in CRDs : Guarded(todo, "delete", crd, "delete", "operator")

LEMMA CRDsFirstNext == TypeOK /\ Errand /\ OnTheWay /\ CRDsFirst /\ [Next]_vars => CRDsFirst'
<1> SUFFICES ASSUME TypeOK, Errand, OnTheWay, CRDsFirst, [Next]_vars, ~hasty'
             PROVE  CRDsFirst'
  BY DEF CRDsFirst
<1>0. /\ phase \in [Objects -> Level] /\ hasty \in BOOLEAN /\ todo \in Seq(Call)
      /\ "operator" \in Objects /\ CRDs \subseteq Objects
      /\ "operator" \notin CRDs /\ "operator" \notin Namespaces
  BY Contents DEF TypeOK, Level, Errand, Namespaces
<1>a. ASSUME hasty' = hasty
      PROVE  /\ phase["operator"] # "absent" => \A crd \in CRDs : phase[crd] = "ready"
             /\ outcome = "running" /\ cmd.verb = "init" =>
                  /\ Settled
                  /\ \A crd \in CRDs :
                       phase[crd] = "ready" \/ Guarded(todo, "apply", "operator", "wait", crd)
             /\ outcome = "running" /\ cmd.verb = "uninstall" =>
                  \/ phase["operator"] = "absent"
                  \/ \A crd \in CRDs : Guarded(todo, "delete", crd, "delete", "operator")
  BY <1>a DEF CRDsFirst, OnTheWay
<1>b. ASSUME todo # <<>>
      PROVE  cmd.verb = IF Head(todo).do \in {"apply", "wait"} THEN "init" ELSE "uninstall"
  BY <1>b, NextCall, CommandCalls DEF Call
<1>1. ASSUME NEW c \in Commands, Begin(c) PROVE CRDsFirst'
  <2>1. ~hasty /\ phase' = phase /\ cmd' = c /\ todo' = Calls(c)
    BY <1>0, <1>1 DEF Begin, cluster
  <2>2. phase["operator"] # "absent" => \A crd \in CRDs : phase[crd] = "ready"
    BY <2>1 DEF CRDsFirst
  <2> QED
    BY <2>1, <2>2, InitCalls, UninstallsCalls DEF CRDsFirst
<1>2. CASE Apply
  <2>1. /\ outcome = "running" /\ todo # <<>> /\ Head(todo).do = "apply"
        /\ todo' = Tail(todo) /\ cmd' = cmd /\ hasty' = hasty
        /\ phase' = [phase EXCEPT ![Head(todo).to] = Applied(Head(todo).to)]
    BY <1>2 DEF Apply, Made, Object
  <2>2. cmd.verb = "init"
    BY <1>b, <2>1
  <2>3. PICK y \in Objects : y = Head(todo).to
    BY <2>1, NextCall DEF Call
  <2>4. /\ phase'[y] = Applied(y) /\ \A x \in Objects \ {y} : phase'[x] = phase[x]
        /\ phase[y] = "ready" => Applied(y) = "ready"
    BY <1>0, <2>1, <2>3 DEF Applied
  <2>5. y = "operator" => \A crd \in CRDs : phase[crd] = "ready"
    BY <1>0, <1>a, <2>1, <2>2, <2>3, TailGuarded
  <2>6. \A crd \in CRDs : phase[crd] = "ready" => phase'[crd] = "ready"
    BY <1>0, <2>4
  <2>7. phase'["operator"] # "absent" => \A crd \in CRDs : phase'[crd] = "ready"
    BY <1>0, <1>a, <2>1, <2>4, <2>5, <2>6
  <2>8. \A crd \in CRDs :
          phase'[crd] = "ready" \/ Guarded(todo', "apply", "operator", "wait", crd)
    BY <1>0, <1>a, <2>1, <2>2, <2>6, TailGuarded
  <2> QED
    BY <2>1, <2>2, <2>7, <2>8 DEF CRDsFirst
<1>3. CASE Wait
  <2>1. /\ outcome = "running" /\ todo # <<>> /\ Head(todo).do = "wait"
        /\ todo' = Tail(todo) /\ cmd' = cmd /\ hasty' = hasty
        /\ phase' = phase /\ phase[Head(todo).to] \in {"ready", "terminating"}
    BY <1>3 DEF Wait, Made, Object
  <2>2. cmd.verb = "init" /\ Settled
    BY <1>a, <1>b, <2>1
  <2>3. PICK y \in Objects : y = Head(todo).to
    BY <2>1, NextCall DEF Call
  <2>4. phase[y] = "ready"
    BY <2>1, <2>2, <2>3 DEF Settled
  <2>5. \A crd \in CRDs :
          phase'[crd] = "ready" \/ Guarded(todo', "apply", "operator", "wait", crd)
    BY <1>0, <1>a, <2>1, <2>2, <2>3, <2>4, TailGuarded
  <2> QED
    BY <1>a, <2>1, <2>2, <2>5 DEF CRDsFirst
<1>4. CASE Delete
  <2>1. /\ outcome = "running" /\ todo # <<>> /\ Head(todo).do = "delete"
        /\ todo' = Tail(todo) /\ cmd' = cmd /\ hasty' = hasty
        /\ phase' = [phase EXCEPT ![Head(todo).to] = Deleted(Head(todo).to)]
    BY <1>4 DEF Delete, Made, Object
  <2>2. cmd.verb = "uninstall"
    BY <1>b, <2>1
  <2>3. PICK y \in Objects : y = Head(todo).to
    BY <2>1, NextCall DEF Call
  <2>4. phase'[y] = Deleted(y) /\ \A x \in Objects \ {y} : phase'[x] = phase[x]
    BY <1>0, <2>1, <2>3
  <2>5. CASE y = "operator"
    <3>1. phase'["operator"] = "absent"
      BY <1>0, <2>4, <2>5 DEF Deleted
    <3> QED
      BY <2>1, <2>2, <3>1 DEF CRDsFirst
  <2>6. CASE y \in CRDs
    <3>1. phase["operator"] = "absent"
      BY <1>0, <1>a, <2>1, <2>2, <2>3, <2>6, TailGuarded
    <3>2. phase'["operator"] = "absent"
      BY <1>0, <2>4, <2>6, <3>1
    <3> QED
      BY <2>1, <2>2, <3>2 DEF CRDsFirst
  <2>7. CASE y # "operator" /\ y \notin CRDs
    <3>1. phase'["operator"] = phase["operator"] /\ \A crd \in CRDs : phase'[crd] = phase[crd]
      BY <1>0, <2>4, <2>7
    <3>2. phase["operator"] = "absent"
            \/ \A crd \in CRDs : Guarded(todo', "delete", crd, "delete", "operator")
      BY <1>0, <1>a, <2>1, <2>2, <2>3, <2>7, TailGuarded
    <3> QED
      BY <1>a, <2>1, <2>2, <3>1, <3>2 DEF CRDsFirst
  <2> QED
    BY <2>5, <2>6, <2>7
<1>5. CASE Look
  <2>1. /\ outcome = "running" /\ todo # <<>> /\ Head(todo).do = "look"
        /\ todo' = Tail(todo) /\ cmd' = cmd /\ hasty' = hasty /\ phase' = phase
    BY <1>5 DEF Look, Made
  <2>2. cmd.verb = "uninstall"
    BY <1>b, <2>1
  <2>3. phase["operator"] = "absent"
          \/ \A crd \in CRDs : Guarded(todo', "delete", crd, "delete", "operator")
    BY <1>0, <1>a, <2>1, <2>2, TailGuarded
  <2> QED
    BY <1>a, <2>1, <2>2, <2>3 DEF CRDsFirst
<1>6. CASE Refused \/ TimeOut \/ Failure \/ Complete
  <2>1. outcome' # "running" /\ phase' = phase /\ hasty' = hasty
    BY <1>6 DEF Refused, TimeOut, Failure, Fail, Complete, cluster
  <2> QED
    BY <1>a, <2>1 DEF CRDsFirst
<1>7. ASSUME NEW crd \in CRDs, Establish(crd) PROVE CRDsFirst'
  <2>1. /\ UNCHANGED <<cmd, todo, outcome, hasty>>
        /\ phase'["operator"] = phase["operator"]
        /\ \A x \in CRDs : phase[x] = "ready" => phase'[x] = "ready"
    BY <1>0, <1>7 DEF Establish, command
  <2> QED
    BY <1>a, <2>1 DEF CRDsFirst
<1>8. ASSUME NEW crd \in CRDs, FinishCRD(crd) PROVE CRDsFirst'
  <2>1. /\ UNCHANGED <<cmd, todo, outcome, hasty>> /\ phase[crd] = "terminating"
        /\ phase'["operator"] = phase["operator"]
    BY <1>0, <1>8 DEF FinishCRD, command
  <2>2. phase'["operator"] = "absent" /\ ~(outcome = "running" /\ cmd.verb = "init")
    BY <1>0, <1>a, <2>1 DEF Settled
  <2> QED
    BY <2>1, <2>2 DEF CRDsFirst
<1>9. ASSUME NEW ns \in Namespaces, FinishNamespace(ns) PROVE CRDsFirst'
  <2>1. /\ UNCHANGED <<cmd, todo, outcome, hasty>>
        /\ \A x \in CRDs : phase'[x] = phase[x]
        /\ phase'["operator"] \in {phase["operator"], "absent"}
    <3>1. \A x \in CRDs : x # ns /\ x \notin DOMAIN Home
      BY Contents DEF Namespaces, Home
    <3> QED
      BY <1>0, <1>9, <3>1 DEF FinishNamespace, command
  <2> QED
    BY <1>a, <2>1 DEF CRDsFirst
<1>10. CASE (\E crd \in CRDs : Record(crd)) \/ PodStarts \/ PodStops \/ UNCHANGED vars
  <2>1. UNCHANGED <<phase, cmd, todo, outcome, hasty>>
    BY <1>10 DEF Record, PodStarts, PodStops, command, vars
  <2> QED
    BY <1>a, <2>1 DEF CRDsFirst
<1> QED
  BY <1>1, <1>2, <1>3, <1>4, <1>5, <1>6, <1>7, <1>8, <1>9, <1>10 DEF Next, Proceed

\* installer.go:8 and the order of Uninstall: for all commands, however they fail
\* and follow one another, there is no operator without all of its CRDs.
THEOREM CRDsFound == Spec => []OperatorFindsCRDs
<1>1. Init => CRDsFirst
  BY Contents DEF Init, CRDsFirst, NoCommand
<1>2. CRDsFirst => OperatorFindsCRDs
  BY DEF CRDsFirst, OperatorFindsCRDs
<1> QED
  BY <1>1, <1>2, CRDsFirstNext, TypeCorrect, ErrandCorrect, OnTheWayCorrect, PTL DEF Spec

-----------------------------------------------------------------------------
(* What belongs to others *)

\* No CRD is going away under a command that keeps them.
CRDsStay ==
  "keep-crds" \in cmd.flags /\ ~hasty => \A crd \in CRDs : phase[crd] # "terminating"

\* What a command deletes: only an uninstall does, and never the shared namespace,
\* a cost server it was not asked about or CRDs that are kept.
LEMMA Deletes ==
  ASSUME Errand, todo # <<>>, Head(todo).do = "delete"
  PROVE  /\ Head(todo).to \in Objects /\ Head(todo).to # "monitoring"
         /\ "with-opencost" \notin cmd.flags => Head(todo).to \notin ToSet(Manifest.opencost)
         /\ "keep-crds" \in cmd.flags => Head(todo).to \notin CRDs
<1>1. cmd \in Commands /\ cmd.verb = "uninstall"
  BY NextCall, CommandCalls
<1>2. Head(todo).to \in Targets(cmd) /\ Head(todo).to # "monitoring"
  BY <1>1, NextCall
<1>3. PICK part \in Parts(cmd) : Head(todo).to \in ToSet(Manifest[part])
  BY <1>2 DEF Targets
<1>4. /\ part \in {"crds", "operator", "opencost", "prometheus"}
      /\ part = "crds" => "keep-crds" \notin cmd.flags
      /\ part = "opencost" => "with-opencost" \in cmd.flags
  BY <1>1, <1>3 DEF Parts
<1> QED
  BY <1>2, <1>3, <1>4, Contents, TargetsAreObjects DEF CRDs

LEMMA CRDsStayNext == TypeOK /\ Errand /\ CRDsStay /\ [Next]_vars => CRDsStay'
<1> SUFFICES ASSUME TypeOK, Errand, CRDsStay, [Next]_vars,
                    ("keep-crds" \in cmd.flags /\ ~hasty)'
             PROVE  \A crd \in CRDs : phase'[crd] # "terminating"
  BY DEF CRDsStay
<1>0. phase \in [Objects -> Level] /\ hasty \in BOOLEAN /\ CRDs \subseteq Objects
  BY CRDsAreObjects DEF TypeOK, Level
<1>a. ASSUME cmd' = cmd, hasty' = hasty PROVE \A crd \in CRDs : phase[crd] # "terminating"
  BY <1>a DEF CRDsStay
<1>1. ASSUME NEW c \in Commands, Begin(c) PROVE \A crd \in CRDs : phase'[crd] # "terminating"
  BY <1>0, <1>1 DEF Begin, Settled, cluster
<1>2. CASE Apply
  <2>1. /\ todo # <<>> /\ cmd' = cmd /\ hasty' = hasty
        /\ phase' = [phase EXCEPT ![Head(todo).to] = Applied(Head(todo).to)]
    BY <1>2 DEF Apply, Made, Object
  <2>2. PICK y \in Objects : y = Head(todo).to
    BY <2>1, NextCall DEF Call
  <2>3. Applied(y) = "terminating" => phase[y] = "terminating"
    BY DEF Applied
  <2> QED
    BY <1>0, <1>a, <2>1, <2>2, <2>3
<1>3. CASE Delete
  <2>1. /\ todo # <<>> /\ Head(todo).do = "delete" /\ cmd' = cmd /\ hasty' = hasty
        /\ phase' = [phase EXCEPT ![Head(todo).to] = Deleted(Head(todo).to)]
    BY <1>3 DEF Delete, Made, Object
  <2>2. PICK y \in Objects : y = Head(todo).to /\ y \notin CRDs
    BY <2>1, Deletes
  <2> QED
    BY <1>0, <1>a, <2>1, <2>2
<1>4. CASE /\ UNCHANGED <<cmd, hasty>>
           /\ \A crd \in CRDs : phase'[crd] = "terminating" => phase[crd] = "terminating"
  BY <1>4, <1>a
<1>5. ASSUME Wait \/ Look \/ Refused \/ TimeOut \/ Failure \/ Complete \/ PodStarts \/ PodStops
             \/ (\E crd \in CRDs : Record(crd)) \/ UNCHANGED vars
      PROVE  UNCHANGED <<phase, cmd, hasty>>
  BY <1>5 DEF Wait, Look, Made, Refused, TimeOut, Failure, Fail, Complete, PodStarts, PodStops,
              Record, command, cluster, vars
<1>6. ASSUME NEW crd \in CRDs, Establish(crd) \/ FinishCRD(crd)
      PROVE  /\ UNCHANGED <<cmd, hasty>>
             /\ \A x \in CRDs : phase'[x] = "terminating" => phase[x] = "terminating"
  BY <1>0, <1>6 DEF Establish, FinishCRD, command
<1>7. ASSUME NEW ns \in Namespaces, FinishNamespace(ns)
      PROVE  /\ UNCHANGED <<cmd, hasty>>
             /\ \A x \in CRDs : phase'[x] = "terminating" => phase[x] = "terminating"
  BY <1>0, <1>7 DEF FinishNamespace, command
<1> QED
  BY <1>1, <1>2, <1>3, <1>4, <1>5, <1>6, <1>7 DEF Next, Proceed

LEMMA CRDsStayCorrect == Spec => []CRDsStay
<1>1. Init => CRDsStay
  BY DEF Init, CRDsStay, NoCommand
<1> QED
  BY <1>1, CRDsStayNext, TypeCorrect, ErrandCorrect, PTL DEF Spec

\* What somebody else may use is not deleted, and nothing else takes it away.
LEMMA OthersKeptNext == TypeOK /\ Errand /\ CRDsStay /\ [Next]_vars => [KeepsOthers]_vars
<1> SUFFICES ASSUME TypeOK, Errand, CRDsStay, Next PROVE KeepsOthers
  BY DEF vars
<1>0. phase \in [Objects -> Level] /\ "monitoring" \in Objects /\ CRDs \subseteq Objects
      /\ ToSet(Manifest.opencost) \subseteq Objects
  BY Contents DEF TypeOK, Level
<1>1. CASE UNCHANGED <<phase, records>>
  BY <1>1 DEF KeepsOthers
<1>2. CASE Apply
  <2>1. /\ todo # <<>> /\ records' = records
        /\ phase' = [phase EXCEPT ![Head(todo).to] = Applied(Head(todo).to)]
    BY <1>2 DEF Apply, Made, Object
  <2>2. PICK y \in Objects : y = Head(todo).to
    BY <2>1, NextCall DEF Call
  <2>3. \A x \in Objects : phase[x] = "ready" => phase'[x] = "ready"
    BY <1>0, <2>1, <2>2 DEF Applied
  <2> QED
    BY <1>0, <2>1, <2>3 DEF KeepsOthers
<1>3. CASE Delete
  <2>1. /\ todo # <<>> /\ Head(todo).do = "delete" /\ records' = records
        /\ phase' = [phase EXCEPT ![Head(todo).to] = Deleted(Head(todo).to)]
    BY <1>3 DEF Delete, Made, Object
  <2>2. PICK y \in Objects :
          /\ y = Head(todo).to /\ y # "monitoring"
          /\ "with-opencost" \notin cmd.flags => y \notin ToSet(Manifest.opencost)
    BY <2>1, Deletes
  <2>3. \A x \in Objects \ {y} : phase'[x] = phase[x]
    BY <1>0, <2>1, <2>2
  <2> QED
    BY <1>0, <2>1, <2>2, <2>3 DEF KeepsOthers
<1>4. ASSUME NEW crd \in CRDs, Establish(crd) PROVE KeepsOthers
  <2>1. records' = records /\ \A x \in Objects : phase[x] = "ready" => phase'[x] = "ready"
    BY <1>0, <1>4 DEF Establish
  <2> QED
    BY <1>0, <2>1 DEF KeepsOthers
<1>5. ASSUME NEW crd \in CRDs, FinishCRD(crd) PROVE KeepsOthers
  <2>1. /\ phase[crd] = "terminating"
        /\ \A x \in Objects : phase[x] = "ready" => phase'[x] = "ready"
    BY <1>0, <1>5 DEF FinishCRD
  <2>2. ~("keep-crds" \in cmd.flags /\ ~hasty)
    BY <2>1 DEF CRDsStay
  <2> QED
    BY <1>0, <2>1, <2>2 DEF KeepsOthers
<1>6. ASSUME NEW ns \in Namespaces, FinishNamespace(ns) PROVE KeepsOthers
  <2>1. /\ phase[ns] = "terminating"
        /\ phase' = [x \in Objects |->
                       IF x = ns \/ (x \in DOMAIN Home /\ Home[x] = ns) THEN "absent"
                                                                     ELSE phase[x]]
        /\ records \ {"clusterusagesummaries"} \subseteq records'
    BY <1>6 DEF FinishNamespace
  <2>2. /\ "monitoring" \notin DOMAIN Home
        /\ \A x \in Objects : phase[x] = "ready" => x # ns
    BY <2>1 DEF Home
  <2>3. /\ phase["monitoring"] = "ready" => phase'["monitoring"] = "ready"
        /\ \A x \in Objects : phase[x] = "ready" /\ (x \in DOMAIN Home => phase[Home[x]] = "ready")
                                => phase'[x] = "ready"
    BY <1>0, <2>1, <2>2
  <2> QED
    BY <1>0, <2>1, <2>3 DEF KeepsOthers
<1>7. ASSUME NEW crd \in CRDs, Record(crd) PROVE KeepsOthers
  BY <1>7 DEF Record, KeepsOthers
<1>8. ASSUME (\E c \in Commands : Begin(c)) \/ Wait \/ Look \/ Refused \/ TimeOut \/ Failure
             \/ Complete \/ PodStarts \/ PodStops
      PROVE  UNCHANGED <<phase, records>>
  BY <1>8 DEF Begin, Wait, Look, Made, Refused, TimeOut, Failure, Fail, Complete, PodStarts,
              PodStops, command, cluster
<1> QED
  BY <1>1, <1>2, <1>3, <1>4, <1>5, <1>6, <1>7, <1>8 DEF Next, Proceed

\* installer.go:250, :240 and :221: for all commands, no step takes away the shared
\* namespace, a cost server that was not asked about, or the records of CRDs kept.
THEOREM OthersAreKept == Spec => OthersKept
BY OthersKeptNext, TypeCorrect, ErrandCorrect, CRDsStayCorrect, PTL DEF Spec, OthersKept
=============================================================================
