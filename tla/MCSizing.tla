------------------------------ MODULE MCSizing ------------------------------
(* Values for the constants of Sizing that a cfg cannot write down. *)
EXTENDS Sizing

SmallBounds == <<2, 4, 8>>

\* DefaultPolicy, its floors scaled to the small bounds.
DefaultPolicy ==
  [cpuHeadroom |-> 15, memoryHeadroom |-> 15, snapshotHeadroom |-> 100,
   immatureSafety |-> 100, minCPU |-> 3, minMemory |-> 8,
   setCPULimit |-> FALSE, memoryLimitIsRequest |-> TRUE, downsizeOnly |-> TRUE]

Amounts(c, m) == [cpu |-> c, memory |-> m]

\* Nothing requested; less than the floors; more than is used, and limited.
FewSpecs ==
  {[requests |-> Amounts(0, 0), limits |-> Amounts(0, 0)],
   [requests |-> Amounts(2, 4), limits |-> Amounts(0, 8)],
   [requests |-> Amounts(12, 40), limits |-> Amounts(12, 40)]}

\* Less than is used of CPU, without a limit.
Unlimited == {[requests |-> Amounts(2, 40), limits |-> Amounts(0, 40)]}
=============================================================================
