-------------------------------- MODULE Sizing --------------------------------
(***************************************************************************)
(* From observations to a proposal: the histogram of a                      *)
(* container, through checkpoints, restarts and rebases, and what the       *)
(* rightsizer makes of it, for the operator (recommendations of             *)
(* internal/operator/collector.go) and for a scan that reads the profile    *)
(* (internal/usage/operator.go).  One histogram stands for both metrics of  *)
(* the container.                                                           *)
(***************************************************************************)
EXTENDS Histogram, Rightsizer

CONSTANTS
  Currents,      \* what the container may request and be limited to now
  Default,       \* DefaultPolicy, the only policy in use
  HoursPerTime   \* hours of a unit of time

ASSUME SpecsAndPolicy ==
  Currents \subseteq ResourceSpec /\ Default \in Policy /\ HoursPerTime \in Nat \ {0}

\* buildProfile: from the first observation to now, the last.
Window ==
  IF seen = <<>> THEN 0 ELSE HoursPerTime * (seen[Len(seen)].at - seen[1].at)

\* Neither sets a coefficient of variation.
UsageStats(window) ==
  [p95 |-> Percentile(95), max |-> max, window |-> window, samples |-> Len(seen),
   cv |-> 0, tier |-> "operator"]

\* recommendations leaves Window unset, Usage takes it from the profile.
PublishedStats == UsageStats(0)
ScannedStats == UsageStats(Window)

Published(current) == Recommend(current, PublishedStats, Default)
Scanned(current) == Recommend(current, ScannedStats, Default)

\* A single sample of metrics-server, which sees what the collector saw.
SnapshotStats(value) ==
  [p95 |-> value, max |-> value, window |-> 0, samples |-> 1, cv |-> 0,
   tier |-> "snapshot"]
-----------------------------------------------------------------------------
(* Properties *)

\* rightsizer.go:66, "Memory is OOM-dangerous and a short window can miss the true
\* peak": whatever was observed, whenever, in whichever life of the operator,
\* neither the memory request nor the limit that comes with it is below it.
PeakIsCovered ==
  \A current \in Currents, k \in DOMAIN seen :
    LET proposed == Scanned(current)
    IN seen[k].value > 0 =>
         /\ proposed.requests.memory >= seen[k].value
         /\ Default.memoryLimitIsRequest =>
              proposed.limits.memory = proposed.requests.memory

\* rightsizer.go:48, a snapshot may shrink a request but "never 'you should grow'",
\* and floors stop it from cutting one to nothing: the proposal is at most the
\* current request, and at least the floor unless that request was below it.
SnapshotIsCautious ==
  \A current \in Currents, k \in DOMAIN seen :
    LET now == current.requests
        sample == SnapshotStats(seen[k].value)
        proposed == Recommend(current, sample, Default).requests
    IN seen[k].value > 0 /\ Default.downsizeOnly =>
         /\ now.cpu > 0 => proposed.cpu <= now.cpu
         /\ now.memory > 0 => proposed.memory <= now.memory
         /\ proposed.cpu >= Default.minCPU \/ proposed.cpu = now.cpu
         /\ proposed.memory >= Default.minMemory \/ proposed.memory = now.memory

\* rightsizer.go:67, headroom "in inverse proportion to data maturity": an
\* observation that comes after the others and is no new peak never raises the
\* memory request of a scan, and none lowers its confidence.
HistoryEarnsTrust ==
  [][Len(seen') > Len(seen) /\ (seen # <<>> => seen'[Len(seen')].at >= seen[Len(seen)].at)
       => /\ Confidence(ScannedStats)' >= Confidence(ScannedStats)
          /\ max' = max /\ max > 0 =>
               \A current \in Currents :
                 Scanned(current).requests.memory' <= Scanned(current).requests.memory
    ]_vars

\* collector.go:235, "mirroring what a scan would compute": once the observations
\* are checkpointed, the operator publishes what a scan of the profile proposes,
\* with the same confidence.
PublishedMirrorsScan ==
  kept = seen =>
    /\ \A current \in Currents : Published(current) = Scanned(current)
    /\ Confidence(PublishedStats) = Confidence(ScannedStats)
=============================================================================
