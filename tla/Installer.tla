------------------------------ MODULE Installer ------------------------------
(***************************************************************************)
(* "kubectl tidy init" and "kubectl tidy uninstall": Install and Uninstall  *)
(* of internal/installer/installer.go, called by internal/cli/init.go and   *)
(* internal/cli/uninstall.go, on a cluster that deletes and establishes     *)
(* things in its own time while the operator runs and records.             *)
(*                                                                         *)
(* A command is the sequence of its calls to the API server; it ends at the *)
(* first that fails, and the user may give another command then.           *)
(***************************************************************************)
EXTENDS Integers, Sequences, SequencesExt

CONSTANTS
  Commands,     \* the commands a user may give, see Command
  MaxFailures   \* bound on failed calls and interrupted commands

InitFlags == {"crd-only", "with-opencost", "with-prometheus", "prometheus-url"}
UninstallFlags == {"keep-crds", "with-opencost", "with-prometheus", "dry-run"}

Command == [verb : {"init"}, flags : SUBSET InitFlags]
             \cup [verb : {"uninstall"}, flags : SUBSET UninstallFlags]

ASSUME CommandsAreCommands == Commands \subseteq Command
ASSUME MaxFailuresIsNatural == MaxFailures \in Nat

\* The embedded manifests, in their order; what is created and deleted alike
\* (a role and its binding; the namespaced objects of a part) is one object.
Manifest ==
  [crds |-> <<"usageprofiles", "clusterusagesummaries", "recommendations">>,
   operator |-> <<"kubetidy-system", "operator-role", "operator">>,
   prometheus |-> <<"monitoring", "prometheus-role", "prometheus">>,
   opencost |-> <<"opencost", "opencost-role", "opencost-server">>]

CRDs == ToSet(Manifest.crds)
Namespaces == {"kubetidy-system", "monitoring", "opencost"}
Objects == UNION {ToSet(Manifest[part]) : part \in DOMAIN Manifest}

\* What is in a namespace. The one ClusterUsageSummary is in SummaryNamespace.
Home == [x \in {"operator", "prometheus", "opencost-server"} |->
           CASE x = "operator" -> "kubetidy-system"
             [] x = "prometheus" -> "monitoring"
             [] x = "opencost-server" -> "opencost"]
SummaryNamespace == "kubetidy-system"

VARIABLES
  phase,     \* phase[x]: "absent", "created", "ready" or "terminating"
  pod,       \* is the operator running
  records,   \* the CRDs of which the operator has written objects
  cmd,       \* the last command
  todo,      \* the calls it has still to make
  outcome,   \* "running", "complete" or "failed"
  failures,  \* calls that failed and commands interrupted so far
  hasty      \* has a command been given while deletions were still going on

cluster == <<phase, pod, records>>
vars == <<phase, pod, records, cmd, todo, outcome, failures, hasty>>
-----------------------------------------------------------------------------
(* The calls of a command *)

Each(do, objects) == [i \in DOMAIN objects |-> [do |-> do, to |-> objects[i]]]

If(condition, calls) == IF condition THEN calls ELSE <<>>

\* includePrometheus of init.go: OpenCost cannot run without one.
IncludePrometheus(flags) ==
  \/ "with-prometheus" \in flags
  \/ "with-opencost" \in flags /\ "prometheus-url" \notin flags

\* Bug: the operator is skipped and with it the extras.
InstallCallsSkippingExtras(flags) ==
  Each("apply", Manifest.crds) \o Each("wait", Manifest.crds)
    \o If("crd-only" \notin flags,
          Each("apply", Manifest.operator)
            \o If(IncludePrometheus(flags), Each("apply", Manifest.prometheus))
            \o If("with-opencost" \in flags, Each("apply", Manifest.opencost)))

\* Install and installExtras.
InstallCalls(flags) ==
  Each("apply", Manifest.crds) \o Each("wait", Manifest.crds)
    \o If("crd-only" \notin flags, Each("apply", Manifest.operator))
    \o If(IncludePrometheus(flags), Each("apply", Manifest.prometheus))
    \o If("with-opencost" \in flags, Each("apply", Manifest.opencost))

\* A manifest has at most one namespace, its first object.
SkipNamespaces(objects) ==
  IF Head(objects) \in Namespaces THEN Tail(objects) ELSE objects

\* Bug: the bundled Prometheus goes with its namespace.
UninstallCallsWithNamespaces(flags) ==
  LET do == IF "dry-run" \in flags THEN "look" ELSE "delete"
  IN If("with-opencost" \in flags, Each(do, Manifest.opencost))
       \o If("with-prometheus" \in flags, Each(do, Manifest.prometheus))
       \o Each(do, Manifest.operator)
       \o If("keep-crds" \notin flags, Each(do, Manifest.crds))

\* Bug: the CRDs are deleted first.
UninstallCallsFromCRDs(flags) ==
  LET do == IF "dry-run" \in flags THEN "look" ELSE "delete"
  IN If("keep-crds" \notin flags, Each(do, Manifest.crds))
       \o If("with-opencost" \in flags, Each(do, Manifest.opencost))
       \o If("with-prometheus" \in flags,
             Each(do, SkipNamespaces(Manifest.prometheus)))
       \o Each(do, Manifest.operator)

\* Uninstall: what is furthest from the CRDs goes first, the namespace that
\* others may use stays.
UninstallCalls(flags) ==
  LET do == IF "dry-run" \in flags THEN "look" ELSE "delete"
  IN If("with-opencost" \in flags, Each(do, Manifest.opencost))
       \o If("with-prometheus" \in flags,
             Each(do, SkipNamespaces(Manifest.prometheus)))
       \o Each(do, Manifest.operator)
       \o If("keep-crds" \notin flags, Each(do, Manifest.crds))

Calls(c) ==
  IF c.verb = "init" THEN InstallCalls(c.flags) ELSE UninstallCalls(c.flags)
-----------------------------------------------------------------------------
(* Commands *)

NoCommand == [verb |-> "none", flags |-> {}]

\* Somebody may use the namespace monitoring already.
Init ==
  /\ \E before \in {"absent", "ready"} :
       phase = [x \in Objects |-> IF x = "monitoring" THEN before ELSE "absent"]
  /\ pod = FALSE
  /\ records = {}
  /\ cmd = NoCommand
  /\ todo = <<>>
  /\ outcome = "complete"
  /\ failures = 0
  /\ hasty = FALSE

Settled == \A x \in Objects : phase[x] # "terminating"

\* A bound: who did not wait only gives the same command again.
Begin(c) ==
  /\ outcome # "running"
  /\ hasty => c = cmd
  /\ cmd' = c
  /\ todo' = Calls(c)
  /\ outcome' = "running"
  /\ hasty' = (hasty \/ ~Settled)
  /\ UNCHANGED <<cluster, failures>>

\* A command that failed is given again.
Again == outcome = "failed" /\ Begin(cmd)

Object == Head(todo).to

\* The next call has been made, and phase is then as given.
Made(call, after) ==
  /\ outcome = "running"
  /\ todo # <<>>
  /\ Head(todo).do = call
  /\ phase' = after
  /\ todo' = Tail(todo)
  /\ UNCHANGED <<pod, records, cmd, outcome, failures, hasty>>

\* A namespace that is going away, or gone, takes nothing new.
Welcome(x) == phase[x] # "absent" \/ (x \in DOMAIN Home => phase[Home[x]] = "ready")

\* A server-side apply leaves alone what is there, even if it is going away.
Applied(x) ==
  IF phase[x] # "absent" THEN phase[x] ELSE IF x \in CRDs THEN "created" ELSE "ready"

Apply ==
  /\ Made("apply", [phase EXCEPT ![Object] = Applied(Object)])
  /\ Welcome(Object)

\* crdEstablished: a CRD that is going away is still established.
Wait ==
  /\ Made("wait", phase)
  /\ phase[Object] \in {"ready", "terminating"}

\* Namespaces and established CRDs take their contents away before they go.
Deleted(x) ==
  IF phase[x] \in {"ready", "terminating"} /\ x \in Namespaces \cup CRDs
    THEN "terminating" ELSE "absent"

\* Bug: the calls left over are made by the next command.
FailKeepingCalls == outcome' = "failed" /\ UNCHANGED <<cluster, cmd, todo, hasty>>

Fail == outcome' = "failed" /\ todo' = <<>> /\ UNCHANGED <<cluster, cmd, hasty>>

\* Bug: what is absent already is an error.
DeleteStrict ==
  \/ /\ Made("delete", [phase EXCEPT ![Object] = Deleted(Object)])
     /\ phase[Object] # "absent"
  \/ /\ outcome = "running" /\ todo # <<>>
     /\ Head(todo).do = "delete" /\ phase[Object] = "absent"
     /\ Fail
     /\ UNCHANGED failures

\* deleteObject: what is absent already is no error.
Delete == Made("delete", [phase EXCEPT ![Object] = Deleted(Object)])

\* A dry run asks for each object.
Look == Made("look", phase)

Refused ==
  /\ outcome = "running" /\ todo # <<>>
  /\ Head(todo).do = "apply" /\ ~Welcome(Object)
  /\ Fail
  /\ UNCHANGED failures

\* The minute of waitCRDEstablished is over.
TimeOut ==
  /\ outcome = "running" /\ todo # <<>>
  /\ Head(todo).do = "wait" /\ phase[Object] \in {"absent", "created"}
  /\ Fail
  /\ UNCHANGED failures

\* A call fails, or the user interrupts the command.
Failure ==
  /\ outcome = "running" /\ todo # <<>>
  /\ failures < MaxFailures
  /\ failures' = failures + 1
  /\ Fail

Complete ==
  /\ outcome = "running" /\ todo = <<>>
  /\ outcome' = "complete"
  /\ UNCHANGED <<cluster, cmd, todo, failures, hasty>>

Proceed ==
  Apply \/ Wait \/ Delete \/ Look \/ Refused \/ TimeOut \/ Failure \/ Complete
-----------------------------------------------------------------------------
(* The cluster *)

command == <<cmd, todo, outcome, failures, hasty>>

Establish(crd) ==
  /\ phase[crd] = "created"
  /\ phase' = [phase EXCEPT ![crd] = "ready"]
  /\ UNCHANGED <<pod, records, command>>

\* The objects of a CRD go with it.
FinishCRD(crd) ==
  /\ phase[crd] = "terminating"
  /\ phase' = [phase EXCEPT ![crd] = "absent"]
  /\ records' = records \ {crd}
  /\ UNCHANGED <<pod, command>>

\* Everything in a namespace goes with it, and its processes before it.
FinishNamespace(ns) ==
  /\ phase[ns] = "terminating"
  /\ ns = "kubetidy-system" => ~pod
  /\ phase' = [x \in Objects |->
                 IF x = ns \/ (x \in DOMAIN Home /\ Home[x] = ns) THEN "absent"
                                                               ELSE phase[x]]
  /\ records' = IF ns = SummaryNamespace THEN records \ {"clusterusagesummaries"}
                                          ELSE records
  /\ UNCHANGED <<pod, command>>

PodStarts ==
  /\ ~pod
  /\ phase["operator"] = "ready" /\ phase["kubetidy-system"] = "ready"
  /\ pod' = TRUE
  /\ UNCHANGED <<phase, records, command>>

PodStops ==
  /\ pod
  /\ phase["operator"] = "absent" \/ phase["kubetidy-system"] = "terminating"
  /\ pod' = FALSE
  /\ UNCHANGED <<phase, records, command>>

\* The operator writes its first object of a kind: SaveSummary's is in its own
\* namespace, the others are beside the workloads.
Record(crd) ==
  /\ pod
  /\ crd \notin records
  /\ phase["operator-role"] = "ready" /\ phase[crd] = "ready"
  /\ crd = "clusterusagesummaries" => phase[SummaryNamespace] = "ready"
  /\ records' = records \cup {crd}
  /\ UNCHANGED <<phase, pod, command>>

Next ==
  \/ \E c \in Commands : Begin(c)
  \/ Proceed
  \/ \E crd \in CRDs : Establish(crd) \/ FinishCRD(crd) \/ Record(crd)
  \/ \E ns \in Namespaces : FinishNamespace(ns)
  \/ PodStarts \/ PodStops

Spec == Init /\ [][Next]_vars

\* A command goes on to its end, the cluster finishes what it has begun, and the
\* user tries again what failed, as the documentation of init advises.
FairSpec ==
  /\ Spec
  /\ WF_vars(Proceed) /\ WF_vars(Again) /\ WF_vars(PodStops)
  /\ \A crd \in CRDs : WF_vars(Establish(crd)) /\ WF_vars(FinishCRD(crd))
  /\ \A ns \in Namespaces : WF_vars(FinishNamespace(ns))
-----------------------------------------------------------------------------
(* Properties *)

\* The types of the variables; only CRDs are established later, only CRDs and
\* namespaces go slowly; a command that is over makes no more calls.
TypeOK ==
  /\ phase \in [Objects -> {"absent", "created", "ready", "terminating"}]
  /\ \A x \in Objects : /\ phase[x] = "created" => x \in CRDs
                        /\ phase[x] = "terminating" => x \in CRDs \cup Namespaces
  /\ pod \in BOOLEAN
  /\ records \subseteq CRDs
  /\ cmd \in Commands \cup {NoCommand}
  /\ outcome \in {"running", "complete", "failed"}
  /\ todo # <<>> => outcome = "running"
  /\ failures \in 0 .. MaxFailures
  /\ hasty \in BOOLEAN

\* What a command is for.
Parts(c) ==
  UNION {
    IF c.verb = "init" \/ "keep-crds" \notin c.flags THEN {"crds"} ELSE {},
    IF c.verb = "init" /\ "crd-only" \in c.flags THEN {} ELSE {"operator"},
    IF "with-opencost" \in c.flags THEN {"opencost"} ELSE {},
    IF \/ "with-prometheus" \in c.flags
       \/ /\ c.verb = "init" /\ "with-opencost" \in c.flags
          /\ "prometheus-url" \notin c.flags
      THEN {"prometheus"} ELSE {}}

Targets(c) == UNION {ToSet(Manifest[part]) : part \in Parts(c)}

Achieved(c) ==
  IF c.verb = "init" THEN \A x \in Targets(c) : phase[x] = "ready"
  ELSE "dry-run" \in c.flags \/
         \A x \in Targets(c) \ {"monitoring"} : phase[x] = "absent"

\* installer.go:8, "The CRD is applied first and we wait for it to become
\* Established before applying anything else": an install that reports success
\* has left behind all it was asked for, working, unless an earlier command's
\* deletions were not over.
CompleteIsInstalled ==
  outcome = "complete" /\ cmd.verb = "init" /\ ~hasty => Achieved(cmd)

\* ... "so resources that depend on it never race the API server", and uninstall
\* deletes the operator first: however commands fail and follow one another, there
\* is no operator without all of its CRDs.
OperatorFindsCRDs ==
  phase["operator"] = "ready" /\ ~hasty => \A crd \in CRDs : phase[crd] = "ready"

\* installer.go:250, "the shared monitoring namespace, which may hold a user's
\* other tooling", and :240, "never touch a user's own OpenCost"; :221, keepCRDs
\* "leaves the CRDs (and their recorded data) in place": the profiles and advice
\* beside the workloads, while the summary goes with the operator's namespace.
KeepsOthers ==
  /\ phase["monitoring"] = "ready" => phase'["monitoring"] = "ready"
  /\ "with-opencost" \notin cmd.flags /\ cmd' = cmd =>
       \A x \in ToSet(Manifest.opencost) :
         phase[x] = "ready" /\ (x \in DOMAIN Home => phase[Home[x]] = "ready")
           => phase'[x] = "ready"
  /\ "keep-crds" \in cmd.flags /\ cmd' = cmd /\ ~hasty =>
       records \ {"clusterusagesummaries"} \subseteq records'
OthersKept == [][KeepsOthers]_vars

\* installer.go:7, "running init repeatedly converges the cluster to the embedded
\* manifests", and :219, "a partial prior install still cleans up fully": a
\* command, given again while it fails, achieves what it is for, unless another
\* command is given or some command did not wait for deletions.
Converges ==
  \A c \in Commands :
    (cmd = c /\ outcome = "running") ~>
      (cmd # c \/ hasty \/ (outcome = "complete" /\ Achieved(c)))
=============================================================================
