--------------------------------- MODULE Sweep ---------------------------------
(***************************************************************************)
(* kubetidy sweep: internal/cli/sweep.go lists the cluster one kind at a    *)
(* time, and Detect of internal/cleanup/cleanup.go reasons over what was    *)
(* listed, while the cluster goes on changing.                              *)
(*                                                                         *)
(* An object is a record: kind, ns and name (ns is the name of a            *)
(* Namespace); labels are those of a Pod, or what a Service selects; claims *)
(* are what a Pod mounts; replicas are those of a Deployment or             *)
(* StatefulSet; ending is that a Namespace is Terminating.                  *)
(***************************************************************************)
EXTENDS Naturals, Sequences, FiniteSets

CONSTANTS
  Universe,    \* the objects there may be
  Starts,      \* what may be there at first
  Scopes,      \* the namespaces a sweep may be limited to, and All
  All,
  System,      \* systemNamespaces
  MaxChanges,  \* bound on changes during a sweep
  None,
  Failed

Kinds == <<"Service", "Pod", "PersistentVolumeClaim", "Deployment", "StatefulSet",
           "DaemonSet", "Namespace">>
Kind == {Kinds[i] : i \in DOMAIN Kinds}

ASSUME UniverseIsTyped ==
  \A x \in Universe : x.kind \in Kind /\ x.replicas \in Nat /\ x.ending \in BOOLEAN
ASSUME StartsAreThere == \A s \in Starts : s \subseteq Universe
ASSUME ChangesAreNatural == MaxChanges \in Nat

VARIABLES
  objects,  \* in the cluster
  scope,    \* the namespace flag, None before the first sweep
  listed,   \* what the lists have returned, a sequence in the order of Kinds
  outcome,  \* None during a sweep, then its findings, or Failed
  past,     \* history: all that objects has been since the sweep began
  changes

vars == <<objects, scope, listed, outcome, past, changes>>
-----------------------------------------------------------------------------
(* Detect, on a function from kinds to sets of objects *)

OrphanedServices(in) ==
  {s \in in["Service"] :
     s.labels # {} /\ \A p \in in["Pod"] : p.ns = s.ns => ~ s.labels \subseteq p.labels}

UnusedPVCs(in) ==
  {c \in in["PersistentVolumeClaim"] :
     \A p \in in["Pod"] : p.ns = c.ns => c.name \notin p.claims}

Live(in) ==
  in["DaemonSet"] \cup in["Pod"]
    \cup {w \in in["Deployment"] \cup in["StatefulSet"] : w.replicas > 0}

IdleNamespaces(in) ==
  {n \in in["Namespace"] :
     n.name \notin System /\ ~ n.ending /\ \A x \in Live(in) : x.ns # n.name}

ZombieWorkloads(in) ==
  {w \in in["Deployment"] \cup in["StatefulSet"] : w.replicas = 0}

Detect(in) ==
  OrphanedServices(in) \cup UnusedPVCs(in) \cup IdleNamespaces(in) \cup ZombieWorkloads(in)
-----------------------------------------------------------------------------
\* Bug: Namespaces are listed whatever the flag says.
ListedAnyway(kind, flag) ==
  {x \in objects : x.kind = kind /\ (flag = All \/ kind = "Namespace" \/ x.ns = flag)}

\* Bug: the condition on the flag is the wrong way round.
ListedInverted(kind, flag) ==
  {x \in objects : x.kind = kind /\ IF kind = "Namespace" THEN flag # All
                                    ELSE flag = All \/ x.ns = flag}

\* With a namespace flag no Namespaces are listed, nor anything outside it.
Listed(kind, flag) ==
  {x \in objects : x.kind = kind /\ (flag = All \/ (kind # "Namespace" /\ x.ns = flag))}

Init ==
  /\ objects \in Starts
  /\ scope = None
  /\ listed = <<>>
  /\ outcome = {}
  /\ past = {}
  /\ changes = 0

Begin(flag) ==
  /\ outcome # None
  /\ scope' = flag
  /\ listed' = <<>>
  /\ outcome' = None
  /\ past' = {objects}
  /\ changes' = 0
  /\ UNCHANGED objects

More == outcome = None /\ Len(listed) < Len(Kinds)

\* Bug: the Deployments are listed a second time as the StatefulSets.
ListDeploymentsTwice ==
  LET kind == Kinds[Len(listed) + 1] IN
  /\ More
  /\ listed' = Append(listed,
                     Listed(IF kind = "StatefulSet" THEN "Deployment" ELSE kind, scope))
  /\ UNCHANGED <<objects, scope, outcome, past, changes>>

List ==
  /\ More
  /\ listed' = Append(listed, Listed(Kinds[Len(listed) + 1], scope))
  /\ UNCHANGED <<objects, scope, outcome, past, changes>>

\* Bug: a failed list counts as an empty one.
ListFailsSoftly ==
  /\ More
  /\ listed' = Append(listed, {})
  /\ UNCHANGED <<objects, scope, outcome, past, changes>>

\* A list that fails ends the sweep without findings; Namespaces may not be asked for.
ListFails ==
  /\ More /\ (scope = All \/ Kinds[Len(listed) + 1] # "Namespace")
  /\ outcome' = Failed
  /\ UNCHANGED <<objects, scope, listed, past, changes>>

AsInputs(lists) == [k \in Kind |-> lists[CHOOSE i \in DOMAIN Kinds : Kinds[i] = k]]

Finish ==
  /\ outcome = None /\ Len(listed) = Len(Kinds)
  /\ outcome' = Detect(AsInputs(listed))
  /\ UNCHANGED <<objects, scope, listed, past, changes>>
-----------------------------------------------------------------------------
Same(x, y) == x.kind = y.kind /\ x.ns = y.ns /\ x.name = y.name

Become(there) ==
  /\ outcome = None /\ changes < MaxChanges /\ there # objects
  /\ objects' = there
  /\ past' = past \cup {there}
  /\ changes' = changes + 1
  /\ UNCHANGED <<scope, listed, outcome>>

\* Somebody creates or alters an object, or deletes one.
Apply(x) == Become({y \in objects : ~ Same(x, y)} \cup {x})
Remove(x) == Become(objects \ {x})

Next ==
  \/ \E flag \in Scopes : Begin(flag)
  \/ List \/ ListFails \/ Finish
  \/ \E x \in Universe : Apply(x) \/ Remove(x)

Spec == Init /\ [][Next]_vars
-----------------------------------------------------------------------------
(* Properties *)

\* The types: what is listed is of its kind.
TypeOK ==
  /\ objects \subseteq Universe
  /\ scope \in Scopes \cup {None}
  /\ Len(listed) <= Len(Kinds)
  /\ \A i \in DOMAIN listed :
       listed[i] \subseteq Universe /\ \A x \in listed[i] : x.kind = Kinds[i]
  /\ outcome \notin {None, Failed} => outcome \subseteq Universe
  /\ changes \in 0 .. MaxChanges

Done == scope # None /\ outcome \notin {None, Failed}

\* What Detect would have found in the scope, had nothing changed.
Truth(there) ==
  Detect([k \in Kind |->
            {x \in there : x.kind = k /\ (scope = All \/ (k # "Namespace" /\ x.ns = scope))}])

Standing == {x \in Universe : \A there \in past : x \in there}

\* cleanup.go:106, "not mounted by any Pod", and likewise for Services and workloads:
\* although the lists are of different moments, and some fail, what is found and was
\* there all the time was as reported at some moment.
StandingFindingsHold ==
  Done => \A x \in (outcome \cap Standing) :
            x.kind # "Namespace" => \E there \in past : x \in Truth(there)

Runs(x) ==
  \/ x.kind \in {"Pod", "DaemonSet"}
  \/ x.kind \in {"Deployment", "StatefulSet"} /\ x.replicas > 0

\* cleanup.go:140, "no running workloads": no namespace is found in which something ran
\* during all of the sweep, though pods, workloads and Namespaces are of different
\* moments; what runs in one that is found has come, or was scaled up, while they were
\* listed.
IdleUnlessNew ==
  Done => \A n \in outcome : n.kind = "Namespace" =>
            \A x \in Standing : Runs(x) => x.ns # n.name

\* sweep.go:100, listing everything: what could be tidied at every moment of the sweep is
\* found.
NothingStandingMissed ==
  Done => \A x \in Universe : (\A there \in past : x \in Truth(there)) => x \in outcome
=============================================================================
