------------------------------- MODULE Evidence -------------------------------
(***************************************************************************)
(* The usage providers of internal/usage: what they make of what their      *)
(* sources answer about one workload, and which of them cli/scan.go selects *)
(* for a scan.                                                             *)
(*                                                                         *)
(* A source answers in readings, each of one container of one pod.  Its     *)
(* cpu is the P95 and its memory the peak over the window (Prometheus) or    *)
(* the one current value (metrics-server): the statistics that sizes are    *)
(* computed from.  The others are left out.                                *)
(***************************************************************************)
EXTENDS Rightsizer, Functions

CONSTANTS
  Failed,   \* a call that returned an error
  Lookback  \* the hours of the --window that Prometheus is asked for

ASSUME LookbackIsPositive == Lookback \in Nat \ {0}

\* The pod is of the workload itself (own), or merely matched: the regular
\* expression takes the pods of any workload whose name begins with this one's, the
\* label selector leaves out matchExpressions.
IsReading(r) ==
  /\ DOMAIN r = {"pod", "own", "container", "cpu", "memory"}
  /\ r.own \in BOOLEAN /\ r.cpu \in Nat /\ r.memory \in Nat

ContainersIn(readings) == {r.container : r \in readings}
OfContainer(readings, c) == {r \in readings : r.container = c}

NoData == [c \in {} |-> Failed]
-----------------------------------------------------------------------------
\* metrics-server: the average of the pods.
FromMetricsServer(readings) ==
  IF readings = Failed THEN Failed
  ELSE [c \in ContainersIn(readings) |->
          LET mine == OfContainer(readings, c)
              average(reading) == SumFunction(reading) \div Cardinality(mine)
          IN [p95 |-> average([r \in mine |-> r.cpu]),
              max |-> average([r \in mine |-> r.memory]),
              window |-> 0, samples |-> Cardinality(mine), cv |-> 0,
              tier |-> "snapshot"]]

Historical(cpu, memory) ==
  [p95 |-> cpu, max |-> memory, window |-> Lookback, samples |-> 12 * Lookback,
   cv |-> 0, tier |-> "historical"]

\* Bug: series are taken for each other's whatever their container.
AnySeries(readings) ==
  {[c \in ContainersIn(readings) |-> Historical(last[c][1].cpu, last[c][2].memory)] :
     last \in [ContainersIn(readings) -> readings \X readings]}

\* mergeResults: the series of a query come in any order, and of those with one
\* container label the last one stays, in each query for itself.
MergeResults(readings) ==
  LET labels == ContainersIn(readings)
  IN {[c \in labels |-> Historical(last[c][1].cpu, last[c][2].memory)] :
        last \in {f \in [labels -> readings \X readings] :
                    \A c \in labels : f[c][1].container = c /\ f[c][2].container = c}}

FromPrometheus(readings) ==
  IF readings = Failed THEN {Failed} ELSE MergeResults(readings)

\* An error is "no data".
FromOperator(profile) == IF profile = Failed THEN NoData ELSE profile

\* Bug: the secondary provider is asked only if the primary has failed.
FallbackOnError(primary, secondary) == IF primary = Failed THEN secondary ELSE primary

Fallback(primary, secondary) ==
  IF primary \notin {Failed, NoData} THEN primary ELSE secondary

\* What a provider may answer about a workload of which x is true.
ProviderAnswers(provider, x) ==
  CASE provider = "prometheus" -> FromPrometheus(x.series)
    [] provider = "operator" ->
         {Fallback(FromOperator(x.profile), FromMetricsServer(x.snapshot))}
    [] provider = "metrics-server" -> {FromMetricsServer(x.snapshot)}
-----------------------------------------------------------------------------
\* A site: was a --prometheus-url given ("none", "bad", "good"); is there a
\* Service by a well-known name, and does it answer the query "up" ("absent",
\* "mute", "answers"); what listing UsageProfiles yields.
IsSite(site) ==
  /\ site.url \in {"none", "bad", "good"}
  /\ site.service \in {"absent", "mute", "answers"}
  /\ site.profiles \in {"error", "none", "some"}

\* DetectOperator: an error is "no operator".
DetectOperator(site) == site.profiles = "some"

SelectUsageProvider(site) ==
  CASE site.url = "good" -> "prometheus"
    [] site.url = "bad" -> "metrics-server"
    [] site.url = "none" /\ site.service = "answers" -> "prometheus"
    [] site.url = "none" /\ site.service # "answers" ->
         IF DetectOperator(site) THEN "operator" ELSE "metrics-server"

SelectionNotes(site) ==
  CASE site.url = "good" -> {}
    [] site.url = "bad" -> {"bad url"}
    [] site.url = "none" ->
         IF site.service = "absent" THEN {} ELSE {site.service}
=============================================================================
