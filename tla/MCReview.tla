------------------------------- MODULE MCReview -------------------------------
(* Values for the constants of Review that a cfg cannot write down. *)
EXTENDS Review, TLC

\* Kind, namespace and name of a Deployment, of one in another namespace whose only
\* patch file has the name of the other's second, and of a DaemonSet.
Api == <<"Deployment", "shop-web", "api">>
WebApi == <<"Deployment", "shop", "web-api">>
Log == <<"DaemonSet", "shop", "log">>
Workloads == {Api, WebApi, Log}
KindOf == [o \in Workloads |-> o[1]]

\* patchFileName: the container's name only where it is not the workload's.
Lower == "Deployment" :> "deployment" @@ "DaemonSet" :> "daemonset"
Named ==
  [k \in Workloads \X {"api", "web"} |->
     Lower[k[1][1]] \o "-" \o k[1][2] \o "-" \o k[1][3]
       \o (IF k[2] = k[1][3] THEN "" ELSE "-" \o k[2]) \o ".json"]

Listed ==
  <<Api, "api">> :> 1 @@ <<Api, "web">> :> 2 @@
  <<WebApi, "api">> :> 3 @@ <<WebApi, "web">> :> 4 @@
  <<Log, "api">> :> 5 @@ <<Log, "web">> :> 6

Ask(cpu, memory) == [cpu |-> cpu, memory |-> memory, quoted |-> TRUE]
Bare(cpu, memory) == [cpu |-> cpu, memory |-> memory, quoted |-> FALSE]
Manifest(replicas, requests) == [replicas |-> replicas, requests |-> requests]

TwoContainers == Manifest(2, [c \in {"api", "web"} |-> Ask(2, 2)])
Daemon == Manifest(Unset, [c \in {"api"} |-> Ask(2, 1)])
Other == Manifest(Unset, [c \in {"web"} |-> Ask(1, 2)])
Unquoted == Manifest(3, [c \in {"api", "web"} |-> Bare(2, 2)])
Bigger == Manifest(3, [c \in {"api", "web"} |-> Ask(2, 2)])
Stopped == Manifest(0, [c \in {"api"} |-> Ask(3, 0)])

Repositories ==
  {Api :> TwoContainers @@ Log :> Daemon,
   Api :> TwoContainers @@ WebApi :> Other}

Proposals == {<<Api, Bigger>>, <<Api, Stopped>>, <<WebApi, Other>>}
UnquotedProposals == {<<Api, Unquoted>>, <<Api, Bigger>>}

Amount(cpu, memory) == [cpu |-> cpu, memory |-> memory]

\* Everything can shrink; one trades memory for CPU, one has no CPU metric; one is not
\* observed.
Shrinking == [k \in DOMAIN Named |-> Amount(1, 1)]
Mixed == [k \in {<<Api, "api">>, <<Api, "web">>, <<WebApi, "web">>} |->
            IF k = <<Api, "web">> THEN Amount(4, 1) ELSE Amount(0, 1)]

UsageCases == {Shrinking, Mixed}

\* Without OpenCost everything has the default price. With it the workload it knows has
\* a rate of its own, at which the trade pays, and the others the blended one.
UnitPrice == [cpu |-> 2, memory |-> 1]
Allocated ==
  {[controller |-> Api, synthetic |-> FALSE,
    cpuCost |-> 2, cpuHours |-> 2, ramCost |-> 6, ramHours |-> 2],
   [controller |-> NoController, synthetic |-> FALSE,
    cpuCost |-> 2, cpuHours |-> 1, ramCost |-> 0, ramHours |-> 2]}
PriceSources == {[o \in Workloads |-> UnitPrice],
                 [o \in Workloads |-> OpenCostPrice(Allocated, o)]}
=============================================================================
