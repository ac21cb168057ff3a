---------------------------- MODULE MCScanEngine ----------------------------
(* Values for the constants of ScanEngine that a cfg cannot write down. *)
EXTENDS ScanEngine

\* DefaultPolicy, its floors scaled to the small amounts used here.
DefaultPolicy ==
  [cpuHeadroom |-> 15, memoryHeadroom |-> 15, snapshotHeadroom |-> 100,
   immatureSafety |-> 100, minCPU |-> 2, minMemory |-> 4,
   setCPULimit |-> FALSE, memoryLimitIsRequest |-> TRUE, downsizeOnly |-> TRUE]

Unit == [cpu |-> 1, memory |-> 1]

One == CHOOSE c \in Containers : TRUE

Asks(amount) == [requests |-> [cpu |-> amount, memory |-> amount],
                 limits |-> [cpu |-> 0, memory |-> 0]]

Reading(pod, own, c, cpu, memory) ==
  [pod |-> pod, own |-> own, container |-> c, cpu |-> cpu, memory |-> memory]

Profile(cpu, memory) ==
  [p95 |-> cpu, max |-> memory, window |-> 1, samples |-> 8, cv |-> 0,
   tier |-> "operator"]

Of(asks, replicas, series, profile, snapshot) ==
  [current |-> [c \in Containers |-> Asks(asks)], replicas |-> replicas,
   series |-> series, profile |-> profile, snapshot |-> snapshot]

Idle(pod) == {Reading(pod, TRUE, c, 4, 8) : c \in Containers}
Busy(pod) == {Reading(pod, TRUE, c, 20, 40) : c \in Containers}
Unequal(pod) ==
  {IF c = One THEN Reading(pod, TRUE, c, 4, 8) ELSE Reading(pod, TRUE, c, 20, 40) :
     c \in Containers}

\* Each container differs, and only one is recorded.
Part == Of(32, 2, Unequal("p"), [c \in {One} |-> Profile(20, 40)], Unequal("p"))

\* Two pods of different use, one of them not its own; not recorded yet; scaled to 0.
Mixed ==
  LET readings == Idle("p") \cup {Reading("q", FALSE, One, 20, 40)}
  IN Of(60, 0, readings, NoData, readings)

\* Nothing can be had.
Unknown == Of(32, 1, Failed, Failed, Failed)

\* What is asked for is nearly right; metrics-server knows nothing.
Right == Of(12, 1, Idle("p"), [c \in Containers |-> Profile(10, 8)], {})

SmallClusters ==
  {<<Part, Mixed, Unknown>>, <<Mixed, Unknown, Right>>, <<Right, Part, Part>>,
   <<Unknown, Right, Mixed>>, <<Part, Right, Right>>, <<Unknown, Unknown, Part>>}

Allocation(who, synthetic, cpuCost, ramCost) ==
  [controller |-> who, synthetic |-> synthetic, cpuCost |-> cpuCost,
   cpuHours |-> 2, ramCost |-> ramCost, ramHours |-> 2]

Site(url, service, profiles, opencost, allocations) ==
  [url |-> url, service |-> service, profiles |-> profiles, opencost |-> opencost,
   allocations |-> allocations]

\* Prometheus found, given by hand and not to be used; the operator, unreadable and
\* absent; OpenCost absent, mute, empty, and knowing one workload of several.
SmallSites ==
  {Site("none", "answers", "some", "absent", {}),
   Site("good", "absent", "none", "answers",
        {Allocation(NoController, TRUE, 8, 8), Allocation(1, FALSE, 8, 4),
         Allocation(NoController, FALSE, 4, 2)}),
   Site("none", "mute", "some", "answers", {Allocation(NoController, TRUE, 8, 8)}),
   Site("none", "absent", "error", "mute", {}),
   Site("bad", "answers", "some", "absent", {})}

\* Two pods of one workload, unequally busy.
TwoPods ==
  {<<Of(60, 2, Idle("p") \cup Busy("q"), NoData, Idle("p") \cup Busy("q"))>>}
=============================================================================
