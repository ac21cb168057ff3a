------------------------------ MODULE Histogram ------------------------------
(***************************************************************************)
(* The decaying histogram of internal/histogram/histogram.go, as the        *)
(* collector uses it: observed, checkpointed with ToSnapshot, rebuilt with  *)
(* FromSnapshot after a restart.                                           *)
(*                                                                         *)
(* Times are counted in half-lives.  A weight is 2^(t - ref) in the code;   *)
(* here weights are integers, in units of 2^-MaxTime, which loses nothing.  *)
(***************************************************************************)
EXTENDS Integers, Sequences, FiniteSets, FiniteSetsExt, Functions

CONSTANTS
  Bounds,     \* upper bounds of the buckets
  Values,     \* what may be observed
  MaxTime,    \* times are 0 .. MaxTime
  Threshold,  \* rebaseThreshold
  MaxSeen,    \* bound on the number of observations
  None

ASSUME BoundsGrow ==
  /\ Bounds \in Seq(Nat \ {0}) /\ Bounds # <<>>
  /\ \A i, j \in DOMAIN Bounds : i < j => Bounds[i] < Bounds[j]
ASSUME ValuesAreNatural == Values \subseteq Nat
ASSUME TimesAreNatural == MaxTime \in Nat /\ Threshold \in Nat \ {0} /\ MaxSeen \in Nat
ASSUME NoneIsNoTime == None \notin Nat

Time == 0 .. MaxTime
Bucket == DOMAIN Bounds

VARIABLES
  weights,  \* weights
  total,    \* total
  ref,      \* refTime, None while it is zero
  max,      \* maxSeen
  snapshot, \* what was checkpointed last: weights, ref, max
  seen,     \* the observations in the histogram, a sequence of [value, at]
  kept      \* the observations in snapshot

histogram == <<weights, total, ref, max>>
vars == <<weights, total, ref, max, snapshot, seen, kept>>
-----------------------------------------------------------------------------
\* Values above the last bound count as being in the last bucket.
BucketFor(value) ==
  Min({i \in Bucket : value <= Bounds[i]} \cup {Len(Bounds)})

Unit == 2 ^ MaxTime

\* 2^(t - r), which is below 1 for a time before the reference.
DecayFactor(t, r) ==
  IF t >= r THEN Unit * 2 ^ (t - r) ELSE Unit \div (2 ^ (r - t))

\* New.
Empty == [i \in Bucket |-> 0]

Init ==
  /\ weights = Empty
  /\ total = 0
  /\ ref = None
  /\ max = 0
  /\ snapshot = [weights |-> Empty, ref |-> None, max |-> 0]
  /\ seen = <<>>
  /\ kept = <<>>

\* maybeRebase, with the reference it starts from and the one it leaves.
Start(t) == IF ref = None THEN t ELSE ref

\* Bug: the reference moves one half-life late.
RebasedLate(t) == IF t - Start(t) <= Threshold THEN Start(t) ELSE t

Rebased(t) == IF t - Start(t) < Threshold THEN Start(t) ELSE t

Down(w, t) == w \div (2 ^ (Rebased(t) - Start(t)))

\* Bug: the total is left as it was.
ObserveKeepingTotal(value, t) ==
  /\ Len(seen) < MaxSeen
  /\ ref' = Rebased(t)
  /\ weights' = [i \in Bucket |-> Down(weights[i], t) +
                   IF i = BucketFor(value) THEN DecayFactor(t, Rebased(t)) ELSE 0]
  /\ total' = total + DecayFactor(t, Rebased(t))
  /\ max' = IF value > max THEN value ELSE max
  /\ seen' = Append(seen, [value |-> value, at |-> t])
  /\ UNCHANGED <<snapshot, kept>>

\* Observe, at a time that may be before those of earlier observations.
Observe(value, t) ==
  /\ Len(seen) < MaxSeen
  /\ ref' = Rebased(t)
  /\ weights' = [i \in Bucket |-> Down(weights[i], t) +
                   IF i = BucketFor(value) THEN DecayFactor(t, Rebased(t)) ELSE 0]
  /\ total' = Down(total, t) + DecayFactor(t, Rebased(t))
  /\ max' = IF value > max THEN value ELSE max
  /\ seen' = Append(seen, [value |-> value, at |-> t])
  /\ UNCHANGED <<snapshot, kept>>

\* ToSnapshot, and the checkpoint that stores it.
ToSnapshot ==
  /\ snapshot' = [weights |-> weights, ref |-> ref, max |-> max]
  /\ kept' = seen
  /\ UNCHANGED <<histogram, seen>>

\* Bug: the reference time is not restored.
FromSnapshotWithoutRef ==
  /\ weights' = snapshot.weights /\ total' = SumFunction(snapshot.weights)
  /\ ref' = None /\ max' = snapshot.max

\* FromSnapshot; without a checkpoint it is New.
FromSnapshot ==
  /\ weights' = snapshot.weights /\ total' = SumFunction(snapshot.weights)
  /\ ref' = snapshot.ref /\ max' = snapshot.max

\* The operator restarts with what was checkpointed.
Restart ==
  /\ FromSnapshot
  /\ seen' = kept
  /\ UNCHANGED <<snapshot, kept>>

Next ==
  \/ \E value \in Values, t \in Time : Observe(value, t)
  \/ ToSnapshot
  \/ Restart

Spec == Init /\ [][Next]_vars
-----------------------------------------------------------------------------
(* What is read from a histogram; quantiles are percentages. *)

UpTo(f, i) == SumFunctionOnSet(f, 1 .. i)

Percentile(q) ==
  IF total <= 0 THEN 0
  ELSE Bounds[Min({i \in Bucket : 100 * UpTo(weights, i) >= q * total}
                    \cup {Len(Bounds)})]
-----------------------------------------------------------------------------
(* Properties *)

\* The types of the variables; the reference is set exactly when something has
\* been observed.
TypeOK ==
  /\ weights \in [Bucket -> Nat]
  /\ total \in Nat
  /\ ref \in Time \cup {None}
  /\ ref = None <=> seen = <<>>
  /\ max \in Nat
  /\ Len(seen) <= MaxSeen

\* The decayed distribution of what was observed, without buckets' weights or
\* reference times: an observation counts 2^t.
Count(S) == SumFunction([k \in S |-> 2 ^ seen[k].at])

\* The least bound that at least q percent of the decayed observations are below,
\* those above all bounds being counted as the last.
TruePercentile(q) ==
  LET atMost(b) == {k \in DOMAIN seen : seen[k].value <= b}
      good == {b \in Range(Bounds) :
                 b = Bounds[Len(Bounds)]
                   \/ 100 * Count(atMost(b)) >= q * Count(DOMAIN seen)}
  IN IF seen = <<>> THEN 0 ELSE Min(good)

\* histogram.go:159, "rescaling all stored weights so percentiles are unchanged":
\* however the reference moves, and through checkpoints, restarts and clocks that
\* step back, percentiles are those of the decayed observations.
PercentilesAreTrue == \A q \in {0, 50, 95, 100} : Percentile(q) = TruePercentile(q)

\* histogram.go:155, "to keep 2^x from overflowing": whatever the clock does, no
\* observation weighs 2^Threshold or more, which at whole times is at most
\* 2^(Threshold - 1).
WeightsAreBounded == total <= Len(seen) * DecayFactor(Threshold - 1, 0)
=============================================================================
