---------------------------- MODULE DurableHistory ----------------------------
(***************************************************************************)
(* What the operator promises of the usage history, without its protocol:  *)
(* `recorded' is what a running historian holds in memory, `kept' what a   *)
(* reader of the UsageProfiles finds.  A checkpoint is atomic and stores   *)
(* the memory as it is at that moment, for some of the containers; a crash *)
(* loses the memory only; a restarted historian resumes from what is kept, *)
(* workload by workload, before it records anything.                       *)
(***************************************************************************)
CONSTANTS Workloads, Containers, Metrics, Seconds

VARIABLES recorded, kept, running

vars == <<recorded, kept, running>>

Nothing == [c \in {} |-> {}]

Init ==
  /\ recorded = [w \in Workloads |-> Nothing]
  /\ kept = [w \in Workloads |-> Nothing]
  /\ running = FALSE

Start ==
  /\ ~running
  /\ running' = TRUE
  /\ UNCHANGED <<recorded, kept>>

Crash ==
  /\ running
  /\ running' = FALSE
  /\ recorded' = [w \in Workloads |-> Nothing]
  /\ UNCHANGED kept

\* Exactly what is kept, and only before anything is recorded of w.
Resume(w) ==
  /\ running
  /\ recorded[w] = Nothing
  /\ recorded' = [recorded EXCEPT ![w] = kept[w]]
  /\ UNCHANGED <<kept, running>>

\* At one second s, some containers get readings of some metrics.
Record(w) ==
  /\ running
  /\ \E s \in Seconds, new \in SUBSET Containers :
     \E positive \in [new -> SUBSET Metrics] :
       recorded' = [recorded EXCEPT ![w] =
         [c \in DOMAIN @ \cup new |->
            [m \in Metrics |->
               (IF c \in DOMAIN @ THEN @[c][m] ELSE {})
               \cup (IF c \in new /\ m \in positive[c] THEN {s} ELSE {})]]]
  /\ UNCHANGED <<kept, running>>

Checkpoint(w) ==
  /\ running
  /\ \E cs \in SUBSET Containers :
       kept' = [kept EXCEPT ![w] = [c \in cs \cap DOMAIN recorded[w] |-> recorded[w][c]]]
  /\ UNCHANGED <<recorded, running>>

\* Somebody deletes the profile.
Forget(w) ==
  /\ kept' = [kept EXCEPT ![w] = Nothing]
  /\ UNCHANGED <<recorded, running>>

Next ==
  \/ Start \/ Crash
  \/ \E w \in Workloads : Resume(w) \/ Record(w) \/ Checkpoint(w) \/ Forget(w)

Spec == Init /\ [][Next]_vars
=============================================================================
