---------------------------- MODULE SizingProofs ----------------------------
(***************************************************************************)
(* Theorems about Sizing, for every policy, spec, bucket layout, clock and  *)
(* number of observations: memory requests cover the peak, a single sample  *)
(* is used with caution, percentiles are those of the decayed observations, *)
(* weights stay bounded, and history only ever earns trust.                 *)
(***************************************************************************)
EXTENDS Sizing, Arithmetic, SequenceTheorems

-----------------------------------------------------------------------------
(* Rounding *)

\* Rounding up to mebibytes rounds up.
LEMMA RoundUp ==
  ASSUME NEW b \in Nat
  PROVE  RoundUpMiB(b) \in Nat /\ RoundUpMiB(b) >= b
BY UnitsArePositive, CeilingCovers DEF RoundUpMiB

\* Headroom makes nothing smaller.
LEMMA HeadroomAdds ==
  ASSUME NEW v \in Nat, NEW h \in Nat
  PROVE  WithHeadroom(v, h) \in Nat /\ WithHeadroom(v, h) >= v
BY SurchargeAdds DEF WithHeadroom

-----------------------------------------------------------------------------
(* Recommendations *)

\* Data maturity is a percentage.
LEMMA MaturityType ==
  ASSUME NEW usage, usage.window \in Int, usage.samples \in Nat
  PROVE  DataMaturity(usage) \in 0 .. 100
<1> DEFINE S == {k \in 1 .. usage.samples : 2 ^ k <= usage.samples}
<1>1. IsFiniteSet(1 .. usage.samples)
  BY FS_Interval
<1>2. IsFiniteSet(S)
  BY <1>1, FS_Subset
<1>3. Log2(usage.samples) \in Nat
  BY <1>2, FS_CardinalityType DEF Log2
<1>4. /\ (100 * usage.window) \div MatureWindow \in Int
      /\ (100 * Log2(usage.samples)) \div MatureLog \in Int
  BY <1>3, UnitsArePositive
<1>5. \A n \in Int : Clamp100(n) \in 0 .. 100
  BY DEF Clamp100, Greatest, Least
<1> QED
  BY <1>4, <1>5 DEF DataMaturity, Least

\* Headrooms are natural numbers.
LEMMA HeadroomType ==
  ASSUME NEW policy \in Policy, NEW usage, usage.window \in Int, usage.samples \in Nat
  PROVE  CPUHeadroom(usage, policy) \in Nat /\ MemoryHeadroom(usage, policy) \in Nat
<1>1. /\ policy.cpuHeadroom \in Nat /\ policy.memoryHeadroom \in Nat
      /\ policy.snapshotHeadroom \in Nat /\ policy.immatureSafety \in Nat
  BY DEF Policy
<1>2. 100 - DataMaturity(usage) \in Nat
  BY MaturityType
<1>3. (100 - DataMaturity(usage)) * policy.immatureSafety \in Nat
  BY <1>1, <1>2
<1> QED
  BY <1>1, <1>3 DEF CPUHeadroom, MemoryHeadroom

\* The memory request before it is clamped: no less than the peak, nor than the
\* floor.
LEMMA Unclamped ==
  ASSUME NEW policy \in Policy, NEW usage, usage.window \in Int, usage.samples \in Nat,
         usage.max \in Nat
  PROVE  LET m == Greatest(RoundUpMiB(WithHeadroom(usage.max, MemoryHeadroom(usage, policy))),
                           RoundUpMiB(policy.minMemory))
         IN m \in Nat /\ m >= usage.max /\ m >= policy.minMemory
<1> DEFINE w == WithHeadroom(usage.max, MemoryHeadroom(usage, policy))
<1>1. w \in Nat /\ w >= usage.max
  BY HeadroomType, HeadroomAdds
<1>2. RoundUpMiB(w) \in Nat /\ RoundUpMiB(w) >= w
  BY <1>1, RoundUp
<1>3. policy.minMemory \in Nat
  BY DEF Policy
<1>4. RoundUpMiB(policy.minMemory) \in Nat /\ RoundUpMiB(policy.minMemory) >= policy.minMemory
  BY <1>3, RoundUp
<1> HIDE DEF w
<1> QED
  BY <1>1, <1>2, <1>3, <1>4 DEF Greatest, w

-----------------------------------------------------------------------------
(* The peak *)

\* What the histogram and its checkpoint know of the peak; a restart makes the
\* latter the former.
PeakInv ==
  /\ max \in Nat /\ snapshot.max \in Nat
  /\ seen \in Seq([value : Values, at : Time])
  /\ kept \in Seq([value : Values, at : Time])
  /\ \A k \in DOMAIN seen : seen[k].value <= max
  /\ \A k \in DOMAIN kept : kept[k].value <= snapshot.max

\* What is typed of observations.
LEMMA SeenType ==
  ASSUME PeakInv, NEW k \in DOMAIN seen
  PROVE  seen[k].value \in Nat /\ seen[k].at \in Int
<1> DEFINE S == [value : Values, at : Time]
<1>1. seen \in Seq(S) /\ k \in 1 .. Len(seen)
  BY DEF PeakInv
<1> HIDE DEF S
<1>2. seen[k] \in S
  BY <1>1, ElementOfSeq
<1>3. seen[k].value \in Values /\ seen[k].at \in Time
  BY <1>2 DEF S
<1>4. Time \subseteq Int
  BY DEF Time
<1> QED
  BY <1>3, <1>4, ValuesAreNatural

LEMMA PeakInit == Init => PeakInv
  BY DEF Init, PeakInv

LEMMA PeakStep == PeakInv /\ [Next]_vars => PeakInv'
<1> SUFFICES ASSUME PeakInv, [Next]_vars PROVE PeakInv'
  OBVIOUS
<1>1. ASSUME NEW value \in Values, NEW t \in Time, Observe(value, t)
      PROVE  PeakInv'
  <2> DEFINE o == [value |-> value, at |-> t]
  <2>1. value \in Nat
    BY ValuesAreNatural
  <2>2. max' = IF value > max THEN value ELSE max
    BY <1>1 DEF Observe
  <2>3. seen' = Append(seen, o) /\ snapshot' = snapshot /\ kept' = kept
    BY <1>1 DEF Observe
  <2>4. max' \in Nat /\ max' >= max /\ max' >= value
    BY <2>1, <2>2 DEF PeakInv
  <2>5. seen' \in Seq([value : Values, at : Time])
    BY <2>3 DEF PeakInv
  <2>6. ASSUME NEW k \in DOMAIN seen' PROVE seen'[k].value <= max'
    <3>1. k \in 1 .. Len(seen) + 1
      BY <2>3, <2>6 DEF PeakInv
    <3>2. CASE k = Len(seen) + 1
      BY <2>3, <2>4, <3>2 DEF PeakInv
    <3>3. CASE k \in 1 .. Len(seen)
      <4>1. k \in DOMAIN seen
        BY <3>3 DEF PeakInv
      <4>2. seen'[k] = seen[k]
        BY <2>3, <3>3 DEF PeakInv
      <4>3. seen[k].value <= max /\ seen[k].value \in Nat
        BY <4>1, SeenType DEF PeakInv
      <4> QED
        BY <4>2, <4>3, <2>4 DEF PeakInv
    <3> QED
      BY <3>1, <3>2, <3>3 DEF PeakInv
  <2> QED
    BY <2>3, <2>4, <2>5, <2>6 DEF PeakInv
<1>2. CASE ToSnapshot
  BY <1>2 DEF ToSnapshot, histogram, PeakInv
<1>3. CASE Restart
  BY <1>3 DEF Restart, FromSnapshot, PeakInv
<1>4. CASE UNCHANGED vars
  BY <1>4 DEF vars, PeakInv
<1> QED
  BY <1>1, <1>2, <1>3, <1>4 DEF Next

\* A scan is based on a maximum, a window and samples of the right types.
LEMMA StatsType ==
  ASSUME PeakInv
  PROVE  /\ ScannedStats.window \in Int /\ ScannedStats.samples \in Nat
         /\ ScannedStats.max = max /\ ~ IsSnapshot(ScannedStats)
<1>1. Len(seen) \in Nat /\ HoursPerTime \in Nat
  BY SpecsAndPolicy DEF PeakInv
<1>2. Window \in Int
  <2>1. CASE seen = <<>>
    BY <2>1 DEF Window
  <2>2. CASE seen # <<>>
    <3>1. Len(seen) \in DOMAIN seen /\ 1 \in DOMAIN seen
      BY <2>2 DEF PeakInv
    <3>2. seen[Len(seen)].at \in Int /\ seen[1].at \in Int
      BY <3>1, SeenType
    <3> QED
      BY <1>1, <2>2, <3>2 DEF Window
  <2> QED
    BY <2>1, <2>2
<1> QED
  BY <1>1, <1>2 DEF ScannedStats, UsageStats, IsSnapshot

LEMMA PeakInvCovers == PeakInv => PeakIsCovered
<1> SUFFICES ASSUME PeakInv, NEW current \in Currents, NEW k \in DOMAIN seen,
                    seen[k].value > 0
             PROVE  /\ Scanned(current).requests.memory >= seen[k].value
                    /\ Default.memoryLimitIsRequest =>
                         Scanned(current).limits.memory = Scanned(current).requests.memory
  BY DEF PeakIsCovered
<1> DEFINE usage == ScannedStats
           m == MemoryRequest(current.requests.memory, usage, Default)
<1>1. seen[k].value \in Nat /\ seen[k].value <= max /\ max \in Nat
  BY SeenType DEF PeakInv
<1>2. usage.max = max /\ usage.max > 0
  BY <1>1, StatsType
<1>3. Default \in Policy
  BY SpecsAndPolicy
<1>4. m \in Nat /\ m >= max
  <2>1. ~ IsSnapshot(usage)
    BY StatsType
  <2>2. m = Greatest(RoundUpMiB(WithHeadroom(usage.max, MemoryHeadroom(usage, Default))),
                     RoundUpMiB(Default.minMemory))
    BY <2>1 DEF MemoryRequest, Shrunk
  <2> HIDE DEF usage, m
  <2> QED
    BY <1>1, <1>2, <1>3, <2>2, StatsType, Unclamped DEF usage
<1>5. Scanned(current).requests.memory = m
  BY <1>2 DEF Scanned, Recommend
<1>6. Default.memoryLimitIsRequest => Scanned(current).limits.memory = m
  BY <1>2 DEF Scanned, Recommend
<1> HIDE DEF m
<1> QED
  BY <1>1, <1>4, <1>5, <1>6

\* Memory never falls below the peak (rightsizer.go:66): after any observations,
\* checkpoints and restarts a scan requests at least what was used at most.
THEOREM PeakCovered == Spec => []PeakIsCovered
<1> QED
  BY PeakInit, PeakStep, PeakInvCovers, PTL DEF Spec
-----------------------------------------------------------------------------
(* Snapshots *)

\* Whatever the histogram holds, SnapshotIsCautious is true of typed observations.
LEMMA PeakInvCautious == PeakInv => SnapshotIsCautious
<1> SUFFICES ASSUME PeakInv, NEW current \in Currents, NEW k \in DOMAIN seen,
                    seen[k].value > 0, Default.downsizeOnly
             PROVE  LET now == current.requests
                        proposed == Recommend(current, SnapshotStats(seen[k].value),
                                              Default).requests
                    IN /\ now.cpu > 0 => proposed.cpu <= now.cpu
                       /\ now.memory > 0 => proposed.memory <= now.memory
                       /\ proposed.cpu >= Default.minCPU \/ proposed.cpu = now.cpu
                       /\ proposed.memory >= Default.minMemory
                            \/ proposed.memory = now.memory
  BY DEF SnapshotIsCautious
<1> DEFINE v == seen[k].value
           usage == SnapshotStats(v)
           cpu == CPURequest(current.requests.cpu, usage, Default)
           memory == MemoryRequest(current.requests.memory, usage, Default)
<1>1. v \in Nat /\ v > 0
  BY SeenType
<1>2. Default \in Policy /\ Default.minCPU \in Nat /\ Default.minMemory \in Nat
  BY SpecsAndPolicy DEF Policy
<1>3. current.requests.cpu \in Nat /\ current.requests.memory \in Nat
  BY SpecsAndPolicy DEF ResourceSpec, Resources
<1>4. /\ usage.p95 = v /\ usage.max = v /\ usage.window = 0 /\ usage.samples = 1
      /\ IsSnapshot(usage)
  BY DEF SnapshotStats, IsSnapshot
<1> HIDE DEF v, usage
<1>5. /\ current.requests.cpu > 0 => cpu <= current.requests.cpu
      /\ cpu >= Default.minCPU \/ cpu = current.requests.cpu
  <2>1. CPUHeadroom(usage, Default) \in Nat
    BY <1>2, <1>4, HeadroomType
  <2>2. WithHeadroom(v, CPUHeadroom(usage, Default)) \in Nat
    BY <1>1, <2>1, HeadroomAdds
  <2> QED
    BY <1>2, <1>3, <1>4, <2>2 DEF CPURequest, Shrunk, Greatest, Least
<1>6. /\ current.requests.memory > 0 => memory <= current.requests.memory
      /\ memory >= Default.minMemory \/ memory = current.requests.memory
  <2> DEFINE m == Greatest(RoundUpMiB(WithHeadroom(usage.max, MemoryHeadroom(usage, Default))),
                           RoundUpMiB(Default.minMemory))
  <2>1. m \in Nat /\ m >= Default.minMemory
    BY <1>1, <1>2, <1>4, Unclamped
  <2>2. memory = Shrunk(m, current.requests.memory, usage, Default)
    BY DEF MemoryRequest
  <2> HIDE DEF m, memory
  <2> QED
    BY <1>2, <1>3, <1>4, <2>1, <2>2 DEF Shrunk, Least
<1>7. LET proposed == Recommend(current, usage, Default).requests
      IN proposed.cpu = cpu /\ proposed.memory = memory
  BY <1>1, <1>4 DEF Recommend
<1> HIDE DEF cpu, memory
<1> QED
  BY <1>5, <1>6, <1>7 DEF v, usage

\* One sample never makes a request grow, nor cuts it below a floor it was above
\* (rightsizer.go:42-50).
THEOREM SnapshotCautious == Spec => []SnapshotIsCautious
<1> QED
  BY PeakInit, PeakStep, PeakInvCautious, PTL DEF Spec
-----------------------------------------------------------------------------
(* Decayed counts *)

Observation == [value : Values, at : Time]

\* What the observations S of s count, each 2^at.
CountIn(s, S) == SumFunctionOnSet([k \in DOMAIN s |-> 2 ^ s[k].at], S)

\* The observations of a bucket, and of all buckets up to one.
In(s, i) == {k \in DOMAIN s : BucketFor(s[k].value) = i}
InUpTo(s, i) == {k \in DOMAIN s : BucketFor(s[k].value) <= i}

LEMMA BoundsType ==
  /\ Len(Bounds) \in Nat \ {0} /\ Bucket = 1 .. Len(Bounds) /\ IsFiniteSet(Bucket)
  /\ \A i \in Bucket : Bounds[i] \in Nat
<1>1. Len(Bounds) \in Nat \ {0} /\ Bucket = 1 .. Len(Bounds)
  BY BoundsGrow DEF Bucket
<1>2. \A i \in Bucket : Bounds[i] \in Nat
  BY BoundsGrow DEF Bucket
<1>3. IsFiniteSet(Bucket)
  <2>1. \A a, b \in Int : IsFiniteSet(a .. b)
    BY FS_Interval
  <2> QED
    BY <1>1, <2>1
<1> QED
  BY <1>1, <1>2, <1>3

LEMMA LeastIsMin ==
  ASSUME NEW S \in SUBSET Nat, S # {}
  PROVE  Min(S) \in S /\ \A x \in S : Min(S) <= x
<1>1. \E x \in S : \A y \in S : x <= y
  BY LeastNatural
<1> QED
  BY <1>1, Zenon DEF Min

\* A value is in a bucket up to i just if it is at most its bound; the last bucket has
\* all values.
LEMMA BucketIsLeast ==
  ASSUME NEW v \in Nat
  PROVE  /\ BucketFor(v) \in Bucket
         /\ \A i \in Bucket : i < Len(Bounds) => (BucketFor(v) <= i <=> v <= Bounds[i])
<1> DEFINE S == {i \in Bucket : v <= Bounds[i]} \cup {Len(Bounds)}
<1>1. S \in SUBSET Nat /\ S # {} /\ S \subseteq Bucket
  BY BoundsType
<1>2. BucketFor(v) = Min(S)
  BY DEF BucketFor
<1>3. \A i \in Bucket : i < Len(Bounds) => (i \in S <=> v <= Bounds[i])
  BY BoundsType
<1>4. \A i, j \in Bucket : i <= j => Bounds[i] <= Bounds[j]
  <2> SUFFICES ASSUME NEW i \in Bucket, NEW j \in Bucket, i <= j
               PROVE  Bounds[i] <= Bounds[j]
    OBVIOUS
  <2>1. Bounds[i] \in Nat /\ Bounds[j] \in Nat /\ i \in Nat /\ j \in Nat
    BY BoundsType
  <2>2. i < j => Bounds[i] < Bounds[j]
    BY BoundsGrow DEF Bucket
  <2> QED
    BY <2>1, <2>2
<1> HIDE DEF S
<1>5. Min(S) \in S /\ \A x \in S : Min(S) <= x
  BY <1>1, LeastIsMin
<1>6. ASSUME NEW i \in Bucket, i < Len(Bounds)
      PROVE  Min(S) <= i <=> v <= Bounds[i]
  <2>1. CASE v <= Bounds[i]
    BY <1>3, <1>5, <1>6, <2>1
  <2>2. CASE Min(S) <= i
    <3>1. Min(S) \in Bucket /\ Min(S) < Len(Bounds) /\ Min(S) \in Nat
      <4>1. Min(S) \in Bucket
        BY <1>1, <1>5
      <4>2. i \in Nat /\ Min(S) \in Nat /\ Len(Bounds) \in Nat
        BY <4>1, BoundsType
      <4> QED
        BY <1>6, <2>2, <4>1, <4>2
    <3>2. v <= Bounds[Min(S)]
      BY <1>3, <1>5, <3>1
    <3>3. Bounds[Min(S)] <= Bounds[i] /\ Bounds[Min(S)] \in Nat /\ Bounds[i] \in Nat
      BY <1>4, <2>2, <3>1, BoundsType
    <3> QED
      BY <2>2, <3>2, <3>3
  <2> QED
    BY <2>1, <2>2
<1> QED
  BY <1>1, <1>2, <1>5, <1>6

LEMMA ObservationType ==
  ASSUME NEW s \in Seq(Observation)
  PROVE  /\ Len(s) \in Nat /\ DOMAIN s = 1 .. Len(s) /\ IsFiniteSet(DOMAIN s)
         /\ \A k \in DOMAIN s :
              /\ s[k].value \in Nat /\ s[k].at \in Time /\ s[k].at \in Nat
              /\ 2 ^ s[k].at \in Nat \ {0}
<1>1. Len(s) \in Nat /\ DOMAIN s = 1 .. Len(s)
  OBVIOUS
<1>2. IsFiniteSet(DOMAIN s)
  <2>1. \A a, b \in Int : IsFiniteSet(a .. b)
    BY FS_Interval
  <2> QED
    BY <1>1, <2>1
<1>3. ASSUME NEW k \in DOMAIN s
      PROVE  s[k].value \in Nat /\ s[k].at \in Time /\ s[k].at \in Nat
  <2>1. s[k] \in Observation
    BY <1>1, ElementOfSeq
  <2>2. s[k].value \in Values /\ s[k].at \in Time
    BY <2>1 DEF Observation
  <2>3. Time \subseteq Nat
    BY TimesAreNatural DEF Time
  <2> QED
    BY <2>2, <2>3, ValuesAreNatural
<1>4. \A k \in DOMAIN s : 2 ^ s[k].at \in Nat \ {0}
  BY <1>3, PowerIsPositive
<1> QED
  BY <1>1, <1>2, <1>3, <1>4

LEMMA CountType ==
  ASSUME NEW s \in Seq(Observation)
  PROVE  /\ \A S \in SUBSET DOMAIN s : CountIn(s, S) \in Nat
         /\ s # <<>> => CountIn(s, DOMAIN s) > 0
<1> DEFINE f == [k \in DOMAIN s |-> 2 ^ s[k].at]
<1>1. \A k \in DOMAIN s : f[k] \in Nat /\ f[k] > 0
  BY ObservationType
<1>2. IsFiniteSet(DOMAIN s)
  BY ObservationType
<1>3. \A S \in SUBSET DOMAIN s : CountIn(s, S) = SumFunctionOnSet(f, S)
  BY DEF CountIn
<1> HIDE DEF f
<1>4. ASSUME NEW S \in SUBSET DOMAIN s
      PROVE  SumFunctionOnSet(f, S) \in Nat
  <2>1. IsFiniteSet(S) /\ \A k \in S : f[k] \in Nat
    BY <1>1, <1>2, FS_Subset
  <2> QED
    BY <2>1, SumIsNatural
<1>5. ASSUME s # <<>>
      PROVE  SumFunctionOnSet(f, DOMAIN s) > 0
  <2>1. 1 \in DOMAIN s
    BY <1>5
  <2>2. SumFunctionOnSet(f, DOMAIN s) >= f[1]
    BY <1>1, <1>2, <2>1, SumCovers
  <2>3. SumFunctionOnSet(f, DOMAIN s) \in Nat /\ f[1] \in Nat /\ f[1] > 0
    BY <1>1, <1>4, <2>1
  <2> QED
    BY <2>2, <2>3
<1> QED
  BY <1>3, <1>4, <1>5

\* Weights that are multiples of their bucket's count add up to that of the counts.
LEMMA WeightsAddUp ==
  ASSUME NEW s \in Seq(Observation), NEW c \in Nat, NEW w,
         \A i \in Bucket : w[i] = c * CountIn(s, In(s, i)),
         NEW n \in 0 .. Len(Bounds)
  PROVE  SumFunctionOnSet(w, 1 .. n) = c * CountIn(s, InUpTo(s, n))
<1> DEFINE W == 1 .. n
           F == [i \in W |-> In(s, i)]
           f == [k \in DOMAIN s |-> 2 ^ s[k].at]
           g == [i \in W |-> CountIn(s, In(s, i))]
<1>1. W \subseteq Bucket /\ IsFiniteSet(W)
  <2>1. W \subseteq Bucket
    BY BoundsType
  <2> QED
    BY <2>1, BoundsType, FS_Subset
<1>2. \A i \in W : /\ F[i] = In(s, i) /\ IsFiniteSet(F[i]) /\ F[i] \subseteq DOMAIN s
                   /\ g[i] = SumFunctionOnSet(f, F[i])
  <2> SUFFICES ASSUME NEW i \in W
               PROVE  /\ F[i] = In(s, i) /\ IsFiniteSet(F[i]) /\ F[i] \subseteq DOMAIN s
                      /\ g[i] = SumFunctionOnSet(f, F[i])
    OBVIOUS
  <2>1. F[i] = In(s, i) /\ F[i] \subseteq DOMAIN s
    BY DEF In
  <2>2. IsFiniteSet(F[i])
    BY <2>1, ObservationType, FS_Subset
  <2>3. g[i] = SumFunctionOnSet(f, In(s, i))
    BY DEF CountIn
  <2> HIDE DEF F, g, f
  <2> QED
    BY <2>1, <2>2, <2>3
<1>3. \A k \in DOMAIN s : f[k] \in Int
  BY ObservationType
<1>4. \A i, j \in W : i # j => F[i] \cap F[j] = {}
  BY <1>2 DEF In
<1>5. UNION {F[i] : i \in W} = InUpTo(s, n)
  <2>1. \A k \in DOMAIN s : BucketFor(s[k].value) \in Bucket
    BY ObservationType, BucketIsLeast
  <2>2. \A k \in DOMAIN s : BucketFor(s[k].value) <= n <=> BucketFor(s[k].value) \in W
    BY <2>1, BoundsType
  <2>3. \A k : k \in InUpTo(s, n) <=> k \in DOMAIN s /\ BucketFor(s[k].value) \in W
    BY <2>2 DEF InUpTo
  <2>4. \A i \in W : \A k : k \in F[i] <=> k \in DOMAIN s /\ BucketFor(s[k].value) = i
    BY <1>2 DEF In
  <2> HIDE DEF F, W
  <2> QED
    BY <2>3, <2>4
<1>6. \A i \in W : w[i] = g[i] * c /\ g[i] \in Int
  <2> SUFFICES ASSUME NEW i \in W
               PROVE  w[i] = g[i] * c /\ g[i] \in Int
    OBVIOUS
  <2>1. g[i] = CountIn(s, In(s, i)) /\ In(s, i) \subseteq DOMAIN s
    BY DEF In
  <2>2. CountIn(s, In(s, i)) \in Nat
    BY <2>1, CountType
  <2>3. w[i] = c * CountIn(s, In(s, i))
    BY <1>1
  <2> HIDE DEF g
  <2> QED
    BY <2>1, <2>2, <2>3
<1>7. CountIn(s, InUpTo(s, n)) = SumFunctionOnSet(f, InUpTo(s, n))
  BY DEF CountIn
<1>8. CountIn(s, InUpTo(s, n)) \in Nat
  <2>1. InUpTo(s, n) \in SUBSET DOMAIN s
    BY DEF InUpTo
  <2> QED
    BY <2>1, CountType
<1> HIDE DEF F, f, g, W
<1>9. SumFunctionOnSet(f, UNION {F[i] : i \in W}) = SumFunctionOnSet(g, W)
  <2>1. \A i \in W : IsFiniteSet(F[i]) /\ g[i] = SumFunctionOnSet(f, F[i])
    BY <1>2
  <2>2. \A i \in W : \A k \in F[i] : f[k] \in Int
    BY <1>2, <1>3
  <2> QED
    BY <1>1, <1>4, <2>1, <2>2, SumOfFamily
<1>10. SumFunctionOnSet(w, W) = SumFunctionOnSet(g, W) * c
  BY <1>1, <1>6, SumOfMultiples
<1>11. SumFunctionOnSet(g, W) = CountIn(s, InUpTo(s, n))
  BY <1>5, <1>7, <1>9
<1> QED
  BY <1>8, <1>10, <1>11 DEF W

\* An observation more counts in its bucket.
LEMMA CountAppended ==
  ASSUME NEW s \in Seq(Observation), NEW o \in Observation
  PROVE  LET t == Append(s, o)
         IN /\ t \in Seq(Observation) /\ t # <<>> /\ Len(t) = Len(s) + 1
            /\ \A i \in Bucket : CountIn(t, In(t, i)) =
                 CountIn(s, In(s, i)) + IF i = BucketFor(o.value) THEN 2 ^ o.at ELSE 0
            /\ CountIn(t, DOMAIN t) = CountIn(s, DOMAIN s) + 2 ^ o.at
<1> DEFINE t == Append(s, o)
           n == Len(s) + 1
           f == [k \in DOMAIN s |-> 2 ^ s[k].at]
           g == [k \in DOMAIN t |-> 2 ^ t[k].at]
<1>1. /\ t \in Seq(Observation) /\ t # <<>> /\ Len(t) = n
      /\ DOMAIN s = 1 .. Len(s) /\ Len(s) \in Nat
      /\ DOMAIN t = DOMAIN s \cup {n} /\ n \notin DOMAIN s
      /\ t[n] = o /\ \A k \in DOMAIN s : t[k] = s[k]
  OBVIOUS
<1>2. /\ \A k \in DOMAIN s : f[k] = 2 ^ s[k].at /\ g[k] = f[k]
      /\ g[n] = 2 ^ o.at
  BY <1>1
<1> HIDE DEF t, n
<1>3. \A k \in DOMAIN t : g[k] \in Int
  BY <1>1, ObservationType
<1>4. /\ \A S \in SUBSET DOMAIN s : CountIn(s, S) = SumFunctionOnSet(f, S)
      /\ \A S \in SUBSET DOMAIN t : CountIn(t, S) = SumFunctionOnSet(g, S)
  BY DEF CountIn
<1> HIDE DEF f, g
<1>5. IsFiniteSet(DOMAIN t)
  BY <1>1, ObservationType
<1>6. ASSUME NEW S \in SUBSET DOMAIN s
      PROVE  /\ CountIn(t, S) = CountIn(s, S)
             /\ CountIn(t, S \cup {n}) = CountIn(s, S) + 2 ^ o.at
             /\ CountIn(s, S) \in Nat
  <2>1. S \in SUBSET DOMAIN t /\ S \cup {n} \in SUBSET DOMAIN t /\ n \in DOMAIN t \ S
    BY <1>1
  <2>2. IsFiniteSet(S)
    BY <1>5, <2>1, FS_Subset
  <2>3. \A k \in S : g[k] \in Int /\ g[k] = f[k]
    BY <1>2, <1>3, <2>1
  <2>4. SumFunctionOnSet(g, S) = SumFunctionOnSet(f, S)
    BY <2>2, <2>3, SumOfSame
  <2>5. SumFunctionOnSet(g, S \cup {n}) = g[n] + SumFunctionOnSet(g, S)
    BY <1>3, <1>5, <2>1, SumAdds
  <2>6. CountIn(s, S) \in Nat
    BY CountType
  <2>7. g[n] \in Int
    BY <1>3, <2>1
  <2> QED
    BY <1>2, <1>4, <2>1, <2>4, <2>5, <2>6, <2>7
<1>7. ASSUME NEW i \in Bucket
      PROVE  CountIn(t, In(t, i)) =
               CountIn(s, In(s, i)) + IF i = BucketFor(o.value) THEN 2 ^ o.at ELSE 0
  <2>1. In(s, i) \in SUBSET DOMAIN s
    BY DEF In
  <2>2. CASE i = BucketFor(o.value)
    <3>1. In(t, i) = In(s, i) \cup {n}
      BY <1>1, <2>2 DEF In
    <3> QED
      BY <1>6, <2>1, <2>2, <3>1
  <2>3. CASE i # BucketFor(o.value)
    <3>1. In(t, i) = In(s, i)
      BY <1>1, <2>3 DEF In
    <3>2. CountIn(t, In(s, i)) = CountIn(s, In(s, i)) /\ CountIn(s, In(s, i)) \in Nat
      BY <1>6, <2>1
    <3>3. CountIn(t, In(t, i)) = CountIn(s, In(s, i)) + 0
      BY <3>1, <3>2
    <3> QED
      BY <2>3, <3>3, Zenon
  <2> QED
    BY <2>2, <2>3
<1>8. CountIn(t, DOMAIN t) = CountIn(s, DOMAIN s) + 2 ^ o.at
  BY <1>1, <1>6
<1> QED
  BY <1>1, <1>7, <1>8 DEF t, n
-----------------------------------------------------------------------------
(* Weights *)

\* What an observation at time 0 weighs by the reference r.
Scale(r) == 2 ^ (MaxTime - r)

LEMMA TimeType ==
  ASSUME NEW t \in Time
  PROVE  t \in Nat /\ t <= MaxTime /\ MaxTime \in Nat /\ MaxTime - t \in Nat
BY TimesAreNatural DEF Time

LEMMA ScaleType ==
  ASSUME NEW r \in Time
  PROVE  Scale(r) \in Nat \ {0} /\ Unit \in Nat \ {0}
BY TimeType, PowerIsPositive DEF Scale, Unit

LEMMA DividedProduct ==
  ASSUME NEW a \in Nat, NEW b \in Nat \ {0}
  PROVE  (a * b) \div b = a
<1> DEFINE q == (a * b) \div b
<1>1. q \in Int /\ b * q <= a * b /\ a * b < b * q + b
  BY Quotient
<1> HIDE DEF q
<1>2. b * (q - a) <= 0 /\ 0 < b * (q - a) + b
  BY <1>1
<1>3. q - a <= 0
  <2> SUFFICES ASSUME q - a >= 1 PROVE FALSE
    BY <1>1
  <2>1. b * (q - a) >= b
    <3>1. \A x \in Int : x >= 1 => b * x >= b
      OBVIOUS
    <3> QED
      BY <1>1, <3>1
  <2> QED
    BY <1>1, <1>2, <2>1
<1>4. q - a >= 0
  <2> SUFFICES ASSUME q - a <= -1 PROVE FALSE
    BY <1>1
  <2>1. b * (q - a) <= -b
    <3>1. \A x \in Int : x <= -1 => b * x <= -b
      OBVIOUS
    <3> QED
      BY <1>1, <3>1
  <2> QED
    BY <1>1, <1>2, <2>1
<1> QED
  BY <1>1, <1>3, <1>4 DEF q

\* An observation weighs its count, by any reference.
LEMMA DecayIsScaled ==
  ASSUME NEW t \in Time, NEW r \in Time
  PROVE  DecayFactor(t, r) = Scale(r) * 2 ^ t
<1>1. t \in Nat /\ r \in Nat /\ MaxTime - r \in Nat /\ MaxTime \in Nat
  BY TimeType
<1>2. 2 ^ ((MaxTime - r) + t) = Scale(r) * 2 ^ t
  BY <1>1, PowerOfSum DEF Scale
<1>3. CASE t >= r
  <2>1. 2 ^ (MaxTime + (t - r)) = Unit * 2 ^ (t - r)
    BY <1>1, <1>3, PowerOfSum DEF Unit
  <2>2. MaxTime + (t - r) = (MaxTime - r) + t
    BY <1>1
  <2> QED
    BY <1>2, <1>3, <2>1, <2>2 DEF DecayFactor
<1>4. CASE ~ (t >= r)
  <2> DEFINE a == (MaxTime - r) + t
             d == r - t
  <2>1. a \in Nat /\ d \in Nat /\ a + d = MaxTime
    BY <1>1, <1>4
  <2>2. 2 ^ (a + d) = 2 ^ a * 2 ^ d /\ 2 ^ a \in Nat /\ 2 ^ d \in Nat \ {0}
    BY <2>1, PowerOfSum, PowerIsPositive
  <2>3. Unit \div (2 ^ d) = 2 ^ a
    BY <2>1, <2>2, DividedProduct DEF Unit
  <2>4. DecayFactor(t, r) = Unit \div (2 ^ d)
    BY <1>4 DEF DecayFactor
  <2> QED
    BY <1>2, <2>3, <2>4
<1> QED
  BY <1>3, <1>4

\* Moving the reference divides weights without a remainder.
LEMMA RebaseIsExact ==
  ASSUME NEW r \in Time, NEW u \in Time, r <= u, NEW c \in Nat
  PROVE  (Scale(r) * c) \div (2 ^ (u - r)) = Scale(u) * c
<1>1. r \in Nat /\ u \in Nat /\ MaxTime - u \in Nat /\ u - r \in Nat
  BY TimeType
<1>2. (MaxTime - u) + (u - r) = MaxTime - r
  BY <1>1, TimesAreNatural
<1>3. Scale(r) = Scale(u) * 2 ^ (u - r)
  BY <1>1, <1>2, PowerOfSum DEF Scale
<1>4. Scale(u) \in Nat /\ 2 ^ (u - r) \in Nat \ {0}
  BY <1>1, ScaleType, PowerIsPositive
<1>5. Scale(r) * c = (Scale(u) * c) * 2 ^ (u - r)
  <2>1. \A a, b \in Nat : (a * b) * c = (a * c) * b
    OBVIOUS
  <2> QED
    BY <1>3, <1>4, <2>1
<1>6. Scale(u) * c \in Nat
  BY <1>4
<1> QED
  BY <1>4, <1>5, <1>6, DividedProduct

\* What an observation may weigh at most.
Heaviest == Unit * 2 ^ (Threshold - 1)

LEMMA HeaviestType == Heaviest \in Nat \ {0} /\ Heaviest = DecayFactor(Threshold - 1, 0)
<1>1. Threshold - 1 \in Nat /\ MaxTime \in Nat
  BY TimesAreNatural
<1>2. Unit \in Nat \ {0} /\ 2 ^ (Threshold - 1) \in Nat \ {0}
  BY <1>1, PowerIsPositive DEF Unit
<1>3. Heaviest \in Nat \ {0}
  BY <1>2, ProductIsPositive DEF Heaviest
<1>4. DecayFactor(Threshold - 1, 0) = Unit * 2 ^ (Threshold - 1)
  BY <1>1 DEF DecayFactor
<1> QED
  BY <1>3, <1>4 DEF Heaviest

LEMMA DecayIsBounded ==
  ASSUME NEW t \in Time, NEW r \in Time, t - r < Threshold
  PROVE  DecayFactor(t, r) \in Nat /\ DecayFactor(t, r) <= Heaviest
<1>1. t \in Nat /\ r \in Nat /\ Threshold - 1 \in Nat
  BY TimeType, TimesAreNatural
<1>2. Unit \in Nat \ {0} /\ 2 ^ (Threshold - 1) \in Nat \ {0}
  BY <1>1, PowerIsPositive, ScaleType
<1>3. DecayFactor(t, r) \in Nat
  <2>1. Scale(r) \in Nat /\ 2 ^ t \in Nat
    BY <1>1, ScaleType, PowerIsPositive
  <2>2. Scale(r) * 2 ^ t \in Nat
    BY <2>1
  <2> QED
    BY <2>2, DecayIsScaled
<1>4. CASE t >= r
  <2>1. t - r \in Nat /\ t - r <= Threshold - 1
    BY <1>1, <1>4, TimesAreNatural
  <2>2. 2 ^ (t - r) <= 2 ^ (Threshold - 1) /\ 2 ^ (t - r) \in Nat
    BY <1>1, <2>1, PowerGrows, PowerIsPositive
  <2>3. 2 ^ (t - r) * Unit <= 2 ^ (Threshold - 1) * Unit
    BY <1>2, <2>2, ProductGrows
  <2>4. \A a, b \in Int : a * b = b * a
    OBVIOUS
  <2> QED
    BY <1>2, <1>3, <1>4, <2>2, <2>3, <2>4 DEF DecayFactor, Heaviest
<1>5. CASE ~ (t >= r)
  <2>1. r - t \in Nat
    BY <1>1, <1>5
  <2>2. 2 ^ (r - t) \in Nat \ {0}
    BY <2>1, PowerIsPositive
  <2> DEFINE q == Unit \div (2 ^ (r - t))
  <2>3. q \in Int /\ 2 ^ (r - t) * q <= Unit
    BY <1>2, <2>2, Quotient
  <2>4. DecayFactor(t, r) = q
    BY <1>5 DEF DecayFactor
  <2> HIDE DEF q
  <2>5. \A a \in Nat, b \in Nat \ {0} : a <= b * a
    OBVIOUS
  <2>6. q \in Nat /\ q <= 2 ^ (r - t) * q
    BY <1>3, <2>2, <2>4, <2>5
  <2>7. Unit <= Unit * 2 ^ (Threshold - 1)
    <3>1. \A a, b \in Nat \ {0} : a <= a * b
      OBVIOUS
    <3> QED
      BY <1>2, <3>1
  <2>8. Unit * 2 ^ (Threshold - 1) \in Nat /\ 2 ^ (r - t) * q \in Int
    BY <1>2, <2>2, <2>6
  <2> QED
    BY <1>2, <1>3, <2>3, <2>4, <2>6, <2>7, <2>8 DEF Heaviest
<1> QED
  BY <1>3, <1>4, <1>5
-----------------------------------------------------------------------------
(* The histogram *)

\* The weights w, by the reference r, are those of the observations s.
Represents(w, r, s) ==
  /\ s \in Seq(Observation) /\ Len(s) <= MaxSeen
  /\ w \in [Bucket -> Nat]
  /\ s = <<>> => r = None /\ w = Empty
  /\ s # <<>> => r \in Time /\ \A i \in Bucket : w[i] = Scale(r) * CountIn(s, In(s, i))
  /\ SumFunctionOnSet(w, Bucket) <= Len(s) * Heaviest

HistInv ==
  /\ Represents(weights, ref, seen)
  /\ Represents(snapshot.weights, snapshot.ref, kept)
  /\ total = SumFunctionOnSet(weights, Bucket)
  /\ max \in Nat /\ snapshot.max \in Nat

LEMMA TotalType ==
  ASSUME NEW w \in [Bucket -> Nat]
  PROVE  SumFunctionOnSet(w, Bucket) \in Nat /\ SumFunction(w) = SumFunctionOnSet(w, Bucket)
<1>1. \A i \in Bucket : w[i] \in Nat
  OBVIOUS
<1>2. SumFunctionOnSet(w, Bucket) \in Nat
  BY <1>1, BoundsType, SumIsNatural
<1>3. DOMAIN w = Bucket
  OBVIOUS
<1> QED
  BY <1>2, <1>3 DEF SumFunction

\* The total is the count of all observations.
LEMMA TotalIsScaled ==
  ASSUME NEW w, NEW r \in Time, NEW s \in Seq(Observation),
         \A i \in Bucket : w[i] = Scale(r) * CountIn(s, In(s, i))
  PROVE  SumFunctionOnSet(w, Bucket) = Scale(r) * CountIn(s, DOMAIN s)
<1>1. Len(Bounds) \in 0 .. Len(Bounds) /\ Bucket = 1 .. Len(Bounds)
  BY BoundsType
<1>2. Scale(r) \in Nat
  BY ScaleType
<1>3. InUpTo(s, Len(Bounds)) = DOMAIN s
  <2>1. \A k \in DOMAIN s : BucketFor(s[k].value) \in Bucket
    BY ObservationType, BucketIsLeast
  <2>2. \A k \in DOMAIN s : BucketFor(s[k].value) <= Len(Bounds)
    BY <1>1, <2>1, BoundsType
  <2> QED
    BY <2>2 DEF InUpTo
<1>4. SumFunctionOnSet(w, 1 .. Len(Bounds)) = Scale(r) * CountIn(s, InUpTo(s, Len(Bounds)))
  BY <1>1, <1>2, WeightsAddUp
<1> QED
  BY <1>1, <1>3, <1>4

LEMMA EmptyIsRepresented == Represents(Empty, None, <<>>)
<1>1. Empty \in [Bucket -> Nat] /\ \A i \in Bucket : Empty[i] = 0
  BY DEF Empty
<1>2. SumFunctionOnSet(Empty, Bucket) = 0
  BY <1>1, BoundsType, SumOfZeros
<1>3. <<>> \in Seq(Observation) /\ Len(<<>>) = 0
  OBVIOUS
<1>4. 0 <= MaxSeen /\ 0 * Heaviest = 0
  BY TimesAreNatural, HeaviestType
<1> QED
  BY <1>1, <1>2, <1>3, <1>4 DEF Represents

LEMMA HistInit == Init => HistInv
<1> SUFFICES ASSUME Init PROVE HistInv
  OBVIOUS
<1>1. Empty \in [Bucket -> Nat] /\ \A i \in Bucket : Empty[i] = 0
  BY DEF Empty
<1>2. SumFunctionOnSet(Empty, Bucket) = 0
  BY <1>1, BoundsType, SumOfZeros
<1> QED
  BY <1>2, EmptyIsRepresented DEF Init, HistInv

\* The reference only moves ahead, and keeps an observation light.
LEMMA RebasedType ==
  ASSUME HistInv, NEW t \in Time
  PROVE  /\ Start(t) \in Time /\ Rebased(t) \in Time /\ Start(t) <= Rebased(t)
         /\ t - Rebased(t) < Threshold
         /\ seen # <<>> => Start(t) = ref
         /\ seen = <<>> => Start(t) = t /\ Rebased(t) = t
<1>1. seen = <<>> => ref = None
  BY DEF HistInv, Represents
<1>2. seen # <<>> => ref \in Time /\ ref # None
  BY NoneIsNoTime, TimeType DEF HistInv, Represents
<1>3. Start(t) \in Time
  BY <1>1, <1>2 DEF Start
<1>4. t \in Nat /\ Start(t) \in Nat /\ Threshold \in Nat \ {0}
  BY <1>3, TimeType, TimesAreNatural
<1>5. seen # <<>> => Start(t) = ref
  BY <1>2 DEF Start
<1>6. seen = <<>> => Start(t) = t
  BY <1>1 DEF Start
<1>7. Rebased(t) = IF t - Start(t) < Threshold THEN Start(t) ELSE t
  BY DEF Rebased
<1>8. CASE t - Start(t) < Threshold
  BY <1>3, <1>4, <1>5, <1>6, <1>7, <1>8
<1>9. CASE ~ (t - Start(t) < Threshold)
  <2>1. Start(t) <= t
    BY <1>4, <1>9
  <2>2. t - t < Threshold
    BY <1>4
  <2> QED
    BY <1>3, <1>5, <1>6, <1>7, <1>9, <2>1, <2>2
<1> QED
  BY <1>8, <1>9

\* An observation leaves the weights of all observations, by the reference it leaves.
LEMMA ObserveStep ==
  ASSUME HistInv, NEW value \in Values, NEW t \in Time, Observe(value, t)
  PROVE  HistInv'
<1> DEFINE o == [value |-> value, at |-> t]
           u == Rebased(t)
           r == Start(t)
           d == DecayFactor(t, u)
           b == BucketFor(value)
           old(i) == CountIn(seen, In(seen, i))
           new(i) == CountIn(seen', In(seen', i))
<1>1. /\ Len(seen) < MaxSeen /\ ref' = u
      /\ weights' = [i \in Bucket |-> Down(weights[i], t) + IF i = b THEN d ELSE 0]
      /\ total' = Down(total, t) + d
      /\ max' = IF value > max THEN value ELSE max
      /\ seen' = Append(seen, o)
      /\ snapshot' = snapshot /\ kept' = kept
  BY DEF Observe
<1>2. /\ seen \in Seq(Observation) /\ weights \in [Bucket -> Nat]
      /\ seen = <<>> => weights = Empty
      /\ seen # <<>> => ref \in Time /\ \A i \in Bucket : weights[i] = Scale(ref) * old(i)
      /\ SumFunctionOnSet(weights, Bucket) <= Len(seen) * Heaviest
      /\ total = SumFunctionOnSet(weights, Bucket)
  BY DEF HistInv, Represents
<1>3. o \in Observation /\ o.at = t /\ o.value = value /\ value \in Nat
  BY ValuesAreNatural DEF Observation
<1>4. /\ r \in Time /\ u \in Time /\ r <= u /\ t - u < Threshold
      /\ seen # <<>> => r = ref
      /\ seen = <<>> => r = t /\ u = t
  BY RebasedType
<1>5. /\ seen' \in Seq(Observation) /\ seen' # <<>> /\ Len(seen') = Len(seen) + 1
      /\ \A i \in Bucket : new(i) = old(i) + IF i = b THEN 2 ^ t ELSE 0
      /\ CountIn(seen', DOMAIN seen') = CountIn(seen, DOMAIN seen) + 2 ^ t
  BY <1>1, <1>2, <1>3, CountAppended
<1>6. \A i \in Bucket : old(i) \in Nat
  <2>1. \A i \in Bucket : In(seen, i) \in SUBSET DOMAIN seen
    BY DEF In
  <2> QED
    BY <1>2, <2>1, CountType
<1>7. CountIn(seen, DOMAIN seen) \in Nat
  BY <1>2, CountType
<1>8. /\ Scale(u) \in Nat \ {0} /\ 2 ^ t \in Nat \ {0} /\ d = Scale(u) * 2 ^ t
      /\ d \in Nat /\ d <= Heaviest
  BY <1>4, ScaleType, TimeType, PowerIsPositive, DecayIsScaled, DecayIsBounded
<1>9. \A w : Down(w, t) = w \div (2 ^ (u - r))
  BY DEF Down
<1> HIDE DEF u, r, d, b, old, new, o
<1>10. ASSUME seen = <<>>
       PROVE  /\ \A i \in Bucket : old(i) = 0 /\ Down(weights[i], t) = 0
              /\ CountIn(seen, DOMAIN seen) = 0 /\ Down(total, t) = 0
  <2>1. \A i \in Bucket : weights[i] = 0
    BY <1>2, <1>10 DEF Empty
  <2>2. total = 0
    BY <1>2, <2>1, BoundsType, SumOfZeros
  <2>3. u - r = 0 /\ 2 ^ 0 = 1 /\ 0 \div 1 = 0
    BY <1>4, <1>10, TimeType
  <2>4. \A w : w = 0 => Down(w, t) = 0
    BY <1>9, <2>3
  <2>5. DOMAIN seen = {} /\ \A i \in Bucket : In(seen, i) = {}
    BY <1>10 DEF In
  <2>6. CountIn(seen, {}) = 0
    BY SumOfNone DEF CountIn
  <2>7. \A i \in Bucket : old(i) = 0
    BY <2>5, <2>6 DEF old
  <2>8. CountIn(seen, DOMAIN seen) = 0
    BY <2>5, <2>6
  <2> QED
    BY <2>1, <2>2, <2>4, <2>7, <2>8
<1>11. /\ \A i \in Bucket : Down(weights[i], t) = Scale(u) * old(i)
       /\ Down(total, t) = Scale(u) * CountIn(seen, DOMAIN seen)
  <2>1. CASE seen = <<>>
    <3>1. Scale(u) * 0 = 0
      BY <1>8
    <3> QED
      BY <1>10, <2>1, <3>1
  <2>2. CASE seen # <<>>
    <3>1. total = Scale(r) * CountIn(seen, DOMAIN seen)
      BY <1>2, <1>4, <2>2, TotalIsScaled DEF old
    <3>2. \A i \in Bucket : weights[i] = Scale(r) * old(i)
      BY <1>2, <1>4, <2>2
    <3>3. ASSUME NEW c \in Nat
          PROVE  Down(Scale(r) * c, t) = Scale(u) * c
      BY <1>4, <1>9, RebaseIsExact
    <3> QED
      BY <1>6, <1>7, <3>1, <3>2, <3>3
  <2> QED
    BY <2>1, <2>2
<1>12. ASSUME NEW i \in Bucket
       PROVE  weights'[i] = Scale(u) * new(i) /\ weights'[i] \in Nat
  <2>1. weights'[i] = Scale(u) * old(i) + IF i = b THEN d ELSE 0
    BY <1>1, <1>11
  <2>2. new(i) = old(i) + IF i = b THEN 2 ^ t ELSE 0
    BY <1>5
  <2>3. \A a, x, y \in Nat : a * x + a * y = a * (x + y) /\ a * x \in Nat
    OBVIOUS
  <2>4. CASE i = b
    <3>1. weights'[i] = Scale(u) * old(i) + Scale(u) * 2 ^ t /\ new(i) = old(i) + 2 ^ t
      BY <1>8, <2>1, <2>2, <2>4
    <3>2. old(i) + 2 ^ t \in Nat
      BY <1>6, <1>8
    <3> QED
      BY <1>6, <1>8, <2>3, <3>1, <3>2
  <2>5. CASE i # b
    <3>1. weights'[i] = Scale(u) * old(i) + 0 /\ new(i) = old(i) + 0
      BY <2>1, <2>2, <2>5
    <3>2. Scale(u) * old(i) \in Nat
      BY <1>6, <1>8, <2>3
    <3> QED
      BY <1>6, <3>1, <3>2
  <2> QED
    BY <2>4, <2>5
<1>13. weights' \in [Bucket -> Nat]
  <2>1. weights' = [i \in Bucket |-> weights'[i]]
    BY <1>1
  <2> QED
    BY <1>12, <2>1
<1>14. SumFunctionOnSet(weights', Bucket) = Scale(u) * CountIn(seen', DOMAIN seen')
  BY <1>4, <1>5, <1>12, TotalIsScaled DEF new
<1>15. total' = SumFunctionOnSet(weights', Bucket)
  <2>1. \A a, x, y \in Nat : a * x + a * y = a * (x + y)
    OBVIOUS
  <2>2. total' = Scale(u) * CountIn(seen, DOMAIN seen) + Scale(u) * 2 ^ t
    BY <1>1, <1>8, <1>11
  <2>3. total' = Scale(u) * (CountIn(seen, DOMAIN seen) + 2 ^ t)
    BY <1>7, <1>8, <2>1, <2>2
  <2> QED
    BY <1>5, <1>14, <2>3
<1>16. total' <= Len(seen') * Heaviest
  <2>1. total \in Nat
    BY <1>2, TotalType
  <2>2. u - r \in Nat
    BY <1>4, TimeType
  <2>3. 2 ^ (u - r) \in Nat \ {0}
    BY <2>2, PowerIsPositive
  <2> DEFINE q == total \div (2 ^ (u - r))
  <2>4. q \in Int /\ 2 ^ (u - r) * q <= total /\ total < 2 ^ (u - r) * q + 2 ^ (u - r)
    BY <2>1, <2>3, Quotient
  <2>5. Down(total, t) = q
    BY <1>9
  <2>6. q \in Nat
    <3>1. Scale(u) * CountIn(seen, DOMAIN seen) \in Nat
      BY <1>7, <1>8
    <3> QED
      BY <1>11, <2>5, <3>1
  <2> HIDE DEF q
  <2>7. \A a \in Nat, x \in Nat \ {0} : a <= x * a /\ x * a \in Nat
    OBVIOUS
  <2>8. q <= 2 ^ (u - r) * q /\ 2 ^ (u - r) * q \in Nat
    BY <2>3, <2>6, <2>7
  <2>9. q <= total
    BY <2>1, <2>4, <2>6, <2>8
  <2>10. Len(seen) \in Nat /\ Heaviest \in Nat
    BY <1>2, HeaviestType
  <2>11. (Len(seen) + 1) * Heaviest = Len(seen) * Heaviest + Heaviest
         /\ Len(seen) * Heaviest \in Nat
    BY <2>10
  <2>12. total' = q + d
    BY <1>1, <2>5
  <2>13. Len(seen') * Heaviest = Len(seen) * Heaviest + Heaviest
    BY <1>5, <2>11
  <2> QED
    BY <1>2, <1>8, <2>1, <2>6, <2>9, <2>10, <2>11, <2>12, <2>13
<1>17. Represents(weights', ref', seen')
  <2>1. Len(seen') <= MaxSeen
    <3>1. Len(seen) \in Nat /\ MaxSeen \in Nat
      BY <1>2, TimesAreNatural
    <3> QED
      BY <1>1, <1>5, <3>1
  <2>2. \A i \in Bucket : weights'[i] = Scale(ref') * CountIn(seen', In(seen', i))
    BY <1>1, <1>12 DEF new
  <2>3. ref' \in Time
    BY <1>1, <1>4
  <2> QED
    BY <1>5, <1>13, <1>15, <1>16, <2>1, <2>2, <2>3 DEF Represents
<1>18. max' \in Nat
  BY <1>1, <1>3 DEF HistInv
<1> QED
  BY <1>1, <1>15, <1>17, <1>18 DEF HistInv

LEMMA HistStep == HistInv /\ [Next]_vars => HistInv'
<1> SUFFICES ASSUME HistInv, [Next]_vars PROVE HistInv'
  OBVIOUS
<1>1. ASSUME NEW value \in Values, NEW t \in Time, Observe(value, t)
      PROVE  HistInv'
  BY <1>1, ObserveStep
<1>2. CASE ToSnapshot
  <2>1. /\ snapshot' = [weights |-> weights, ref |-> ref, max |-> max] /\ kept' = seen
        /\ UNCHANGED <<weights, total, ref, max, seen>>
    BY <1>2 DEF ToSnapshot, histogram
  <2>2. snapshot'.weights = weights /\ snapshot'.ref = ref /\ snapshot'.max = max
    BY <2>1
  <2> QED
    BY <2>1, <2>2 DEF HistInv
<1>3. CASE Restart
  <2>1. /\ weights' = snapshot.weights /\ total' = SumFunction(snapshot.weights)
        /\ ref' = snapshot.ref /\ max' = snapshot.max /\ seen' = kept
        /\ snapshot' = snapshot /\ kept' = kept
    BY <1>3 DEF Restart, FromSnapshot
  <2>2. snapshot.weights \in [Bucket -> Nat]
    BY DEF HistInv, Represents
  <2>3. total' = SumFunctionOnSet(snapshot.weights, Bucket)
    BY <2>1, <2>2, TotalType
  <2> QED
    BY <2>1, <2>3 DEF HistInv
<1>4. CASE UNCHANGED vars
  BY <1>4 DEF vars, histogram, HistInv
<1> QED
  BY <1>1, <1>2, <1>3, <1>4 DEF Next

\* Weights are the observations' counts by the reference there is, after any
\* observations, rebases, checkpoints and restarts.
THEOREM HistogramInvariant == Spec => []HistInv
BY HistInit, HistStep, PTL DEF Spec

LEMMA TypeFromHist == HistInv => TypeOK
<1> SUFFICES ASSUME HistInv PROVE TypeOK
  OBVIOUS
<1>1. weights \in [Bucket -> Nat] /\ Len(seen) <= MaxSeen
  BY DEF HistInv, Represents
<1>2. total \in Nat
  BY <1>1, TotalType DEF HistInv
<1>3. ref \in Time \cup {None} /\ (ref = None <=> seen = <<>>)
  BY NoneIsNoTime, TimeType DEF HistInv, Represents
<1> QED
  BY <1>1, <1>2, <1>3 DEF HistInv, TypeOK

\* Weights, total and peak are natural numbers, and the reference is set once something
\* is observed.
THEOREM TypeCorrect == Spec => []TypeOK
BY HistogramInvariant, TypeFromHist, PTL

LEMMA BoundedFromHist == HistInv => WeightsAreBounded
BY HeaviestType DEF HistInv, Represents, WeightsAreBounded

\* However the clock moves, the histogram weighs no more than its observations, each at
\* most 2^(Threshold - 1).
THEOREM WeightsStayBounded == Spec => []WeightsAreBounded
BY HistogramInvariant, BoundedFromHist, PTL
-----------------------------------------------------------------------------
(* Percentiles *)

\* The bounds are in the order of their buckets.
LEMMA LeastBound ==
  ASSUME NEW X \in SUBSET Bucket, X # {}
  PROVE  Min({Bounds[i] : i \in X}) = Bounds[Min(X)]
<1> DEFINE Y == {Bounds[i] : i \in X}
           m == Min(X)
<1>1. X \in SUBSET Nat
  BY BoundsType
<1>2. m \in X /\ \A i \in X : m <= i
  BY <1>1, LeastIsMin
<1>3. Y \in SUBSET Nat /\ Y # {}
  BY <1>2, BoundsType
<1>4. Min(Y) \in Y /\ \A y \in Y : Min(Y) <= y
  BY <1>3, LeastIsMin
<1> HIDE DEF m
<1>5. Bounds[m] \in Y
  BY <1>2
<1>6. ASSUME NEW i \in X
      PROVE  Bounds[m] <= Bounds[i]
  <2>1. m \in Nat /\ i \in Nat /\ m <= i /\ Bounds[m] \in Nat
    BY <1>1, <1>2, BoundsType
  <2>2. m < i => Bounds[m] < Bounds[i]
    BY <1>2, BoundsGrow DEF Bucket
  <2>3. Bounds[i] \in Nat
    BY BoundsType
  <2> QED
    BY <2>1, <2>2, <2>3
<1>7. \A y \in Y : Bounds[m] <= y
  BY <1>6
<1>8. Min(Y) \in Nat /\ Bounds[m] \in Nat
  BY <1>3, <1>4, <1>5
<1> HIDE DEF Y
<1>9. Min(Y) = Bounds[m]
  BY <1>4, <1>5, <1>7, <1>8
<1> QED
  BY <1>9 DEF Y, m

\* A common factor changes no comparison of shares.
LEMMA SharesCompare ==
  ASSUME NEW c \in Nat \ {0}, NEW a \in Nat, NEW n \in Nat, NEW q \in Nat
  PROVE  100 * (c * a) >= q * (c * n) <=> 100 * a >= q * n
<1>1. \A x, y \in Int : x >= y => c * x >= c * y
  <2> SUFFICES ASSUME NEW x \in Int, NEW y \in Int, x >= y PROVE c * x >= c * y
    OBVIOUS
  <2>1. x - y \in Nat /\ c * (x - y) = c * x - c * y
    OBVIOUS
  <2>2. \A z \in Nat : c * z >= 0
    OBVIOUS
  <2> QED
    BY <2>1, <2>2
<1>2. \A x, y \in Int : x > y => c * x > c * y
  <2> SUFFICES ASSUME NEW x \in Int, NEW y \in Int, x > y PROVE c * x > c * y
    OBVIOUS
  <2>1. x - y \in Nat \ {0} /\ c * (x - y) = c * x - c * y
    OBVIOUS
  <2>2. \A z \in Nat \ {0} : c * z > 0
    OBVIOUS
  <2>3. c * x \in Int /\ c * y \in Int
    OBVIOUS
  <2> QED
    BY <2>1, <2>2, <2>3
<1>3. 100 * (c * a) = c * (100 * a) /\ q * (c * n) = c * (q * n)
  OBVIOUS
<1>4. 100 * a \in Int /\ q * n \in Int /\ c * (100 * a) \in Int /\ c * (q * n) \in Int
  OBVIOUS
<1>5. CASE 100 * a >= q * n
  BY <1>1, <1>3, <1>4, <1>5
<1>6. CASE ~ (100 * a >= q * n)
  <2>1. q * n > 100 * a
    BY <1>4, <1>6
  <2>2. c * (q * n) > c * (100 * a)
    BY <1>2, <1>4, <2>1
  <2> QED
    BY <1>3, <1>4, <1>6, <2>2
<1> QED
  BY <1>5, <1>6

\* The count of the property is that of the invariant.
LEMMA CountIsCountIn ==
  ASSUME seen \in Seq(Observation), NEW S \in SUBSET DOMAIN seen
  PROVE  Count(S) = CountIn(seen, S)
<1> DEFINE f == [k \in S |-> 2 ^ seen[k].at]
           g == [k \in DOMAIN seen |-> 2 ^ seen[k].at]
<1>1. IsFiniteSet(S)
  BY ObservationType, FS_Subset
<1>2. \A k \in S : f[k] \in Int /\ f[k] = g[k]
  BY ObservationType
<1>3. Count(S) = SumFunctionOnSet(f, S)
  BY DEF Count, SumFunction
<1>4. CountIn(seen, S) = SumFunctionOnSet(g, S)
  BY DEF CountIn
<1> HIDE DEF f, g
<1> QED
  BY <1>1, <1>2, <1>3, <1>4, SumOfSame

LEMMA TrueFromHist ==
  ASSUME HistInv, NEW q \in Nat
  PROVE  Percentile(q) = TruePercentile(q)
<1> DEFINE c == Scale(ref)
           N == CountIn(seen, DOMAIN seen)
           A(i) == CountIn(seen, InUpTo(seen, i))
           n == Len(Bounds)
           atMost(b) == {k \in DOMAIN seen : seen[k].value <= b}
<1>1. /\ seen \in Seq(Observation) /\ weights \in [Bucket -> Nat]
      /\ seen = <<>> => weights = Empty
      /\ seen # <<>> => ref \in Time /\ \A i \in Bucket : weights[i] = c * CountIn(seen, In(seen, i))
      /\ total = SumFunctionOnSet(weights, Bucket)
  BY DEF HistInv, Represents
<1>2. n \in Nat \ {0} /\ Bucket = 1 .. n /\ n \in Bucket
  BY BoundsType
<1>3. CASE seen = <<>>
  <2>1. \A i \in Bucket : weights[i] = 0
    BY <1>1, <1>3 DEF Empty
  <2>2. total = 0
    BY <1>1, <2>1, BoundsType, SumOfZeros
  <2> QED
    BY <1>3, <2>2 DEF Percentile, TruePercentile
<1>4. CASE seen # <<>>
  <2>1. ref \in Time /\ c \in Nat \ {0}
    BY <1>1, <1>4, ScaleType
  <2>2. N \in Nat /\ N > 0
    BY <1>1, <1>4, CountType
  <2>3. \A i \in Bucket : weights[i] = c * CountIn(seen, In(seen, i))
    BY <1>1, <1>4
  <2>4. total = c * N
    BY <1>1, <2>1, <2>3, TotalIsScaled
  <2>5. \A i \in Bucket : UpTo(weights, i) = c * A(i) /\ A(i) \in Nat
    <3> SUFFICES ASSUME NEW i \in Bucket
                 PROVE  UpTo(weights, i) = c * A(i) /\ A(i) \in Nat
      OBVIOUS
    <3>1. i \in 0 .. Len(Bounds)
      BY <1>2
    <3>2. SumFunctionOnSet(weights, 1 .. i) = c * A(i)
      BY <1>1, <2>1, <2>3, <3>1, WeightsAddUp
    <3>3. InUpTo(seen, i) \in SUBSET DOMAIN seen
      BY DEF InUpTo
    <3> QED
      BY <1>1, <3>2, <3>3, CountType DEF UpTo
  <2>6. \A i \in Bucket : i < n => Count(atMost(Bounds[i])) = A(i)
    <3> SUFFICES ASSUME NEW i \in Bucket, i < n
                 PROVE  Count(atMost(Bounds[i])) = A(i)
      OBVIOUS
    <3>1. \A k \in DOMAIN seen : seen[k].value \in Nat
      BY <1>1, ObservationType
    <3>2. \A k \in DOMAIN seen : BucketFor(seen[k].value) <= i <=> seen[k].value <= Bounds[i]
      BY <3>1, BucketIsLeast
    <3>3. atMost(Bounds[i]) = InUpTo(seen, i)
      BY <3>2 DEF InUpTo
    <3>4. atMost(Bounds[i]) \in SUBSET DOMAIN seen
      OBVIOUS
    <3>5. Count(atMost(Bounds[i])) = CountIn(seen, atMost(Bounds[i]))
      BY <1>1, <3>4, CountIsCountIn
    <3> QED
      BY <3>3, <3>5
  <2>7. Count(DOMAIN seen) = N
    BY <1>1, CountIsCountIn
  <2>8. total > 0 /\ total \in Nat
    <3>1. c * N \in Nat \ {0}
      BY <2>1, <2>2, ProductIsPositive
    <3> QED
      BY <2>4, <3>1
  <2> DEFINE X == {i \in Bucket : 100 * UpTo(weights, i) >= q * total} \cup {n}
             Y == {b \in Range(Bounds) :
                     b = Bounds[n] \/ 100 * Count(atMost(b)) >= q * Count(DOMAIN seen)}
  <2>9. \A i \in Bucket : i \in X <=> i = n \/ 100 * A(i) >= q * N
    <3> SUFFICES ASSUME NEW i \in Bucket
                 PROVE  100 * UpTo(weights, i) >= q * total <=> 100 * A(i) >= q * N
      OBVIOUS
    <3>1. 100 * UpTo(weights, i) = 100 * (c * A(i)) /\ q * total = q * (c * N)
      BY <2>4, <2>5
    <3>2. A(i) \in Nat
      BY <2>5
    <3> HIDE DEF A, c, N
    <3> QED
      BY <2>1, <2>2, <3>1, <3>2, SharesCompare
  <2>10. \A i \in Bucket : Bounds[i] = Bounds[n] <=> i = n
    BY <1>2, BoundsGrow DEF Bucket
  <2>11. \A i \in Bucket : i # n => i < n
    BY <1>2
  <2>12. \A i \in Bucket : Bounds[i] \in Y <=> i \in X
    <3> SUFFICES ASSUME NEW i \in Bucket
                 PROVE  Bounds[i] \in Y <=> i \in X
      OBVIOUS
    <3>1. Bounds[i] \in Range(Bounds)
      BY DEF Range, Bucket
    <3>2. Bounds[i] \in Y <=> Bounds[i] = Bounds[n]
                                \/ 100 * Count(atMost(Bounds[i])) >= q * Count(DOMAIN seen)
      BY <3>1
    <3>3. CASE i = n
      BY <1>2, <3>2, <3>3
    <3>4. CASE i # n
      <4>1. Count(atMost(Bounds[i])) = A(i)
        BY <2>6, <2>11, <3>4
      <4> HIDE DEF X, Y, A, N
      <4> QED
        BY <2>7, <2>9, <2>10, <3>2, <3>4, <4>1
    <3> QED
      BY <3>3, <3>4
  <2>13. Y = {Bounds[i] : i \in X}
    <3>1. X \subseteq Bucket
      BY <1>2
    <3>2. \A b \in Y : \E i \in Bucket : b = Bounds[i]
      BY DEF Range, Bucket
    <3> HIDE DEF X, Y
    <3> QED
      BY <2>12, <3>1, <3>2
  <2>14. X \in SUBSET Bucket /\ X # {}
    BY <1>2
  <2>15. Percentile(q) = Bounds[Min(X)]
    BY <2>8 DEF Percentile
  <2>16. TruePercentile(q) = Min(Y)
    BY <1>4 DEF TruePercentile
  <2> HIDE DEF X, Y
  <2> QED
    BY <2>13, <2>14, <2>15, <2>16, LeastBound
<1> QED
  BY <1>3, <1>4

\* Percentiles are those of the decayed observations (histogram.go:159), for every
\* bucket layout, every threshold and every clock, after any rebases, checkpoints and
\* restarts.
THEOREM PercentilesTrue == Spec => []PercentilesAreTrue
<1>1. HistInv => PercentilesAreTrue
  BY TrueFromHist DEF PercentilesAreTrue
<1> QED
  BY <1>1, HistogramInvariant, PTL
-----------------------------------------------------------------------------
(* Trust *)

LEMMA LogGrows ==
  ASSUME NEW m \in Nat, NEW n \in Nat, m <= n
  PROVE  Log2(m) \in Nat /\ Log2(n) \in Nat /\ Log2(m) <= Log2(n)
<1> DEFINE A == {k \in 1 .. m : 2 ^ k <= m}
           B == {k \in 1 .. n : 2 ^ k <= n}
<1>1. IsFiniteSet(A) /\ IsFiniteSet(B)
  <2>1. \A a, b \in Int : IsFiniteSet(a .. b)
    BY FS_Interval
  <2>2. IsFiniteSet(1 .. m) /\ IsFiniteSet(1 .. n)
    BY <2>1
  <2> QED
    BY <2>2, FS_Subset
<1>2. A \subseteq B
  <2> SUFFICES ASSUME NEW k \in A PROVE k \in B
    OBVIOUS
  <2>1. 2 ^ k \in Nat /\ 2 ^ k <= m /\ k \in 1 .. m
    BY PowerIsPositive
  <2> QED
    BY <2>1
<1> HIDE DEF A, B
<1>3. Cardinality(A) <= Cardinality(B)
  BY <1>1, <1>2, FS_Subset
<1>4. Cardinality(A) \in Nat /\ Cardinality(B) \in Nat
  BY <1>1, FS_CardinalityType
<1> QED
  BY <1>3, <1>4 DEF Log2, A, B

LEMMA ClampGrows ==
  ASSUME NEW a \in Int, NEW b \in Int, a <= b
  PROVE  /\ Clamp100(a) \in 0 .. 100 /\ Clamp100(b) \in 0 .. 100
         /\ Clamp100(a) <= Clamp100(b)
BY DEF Clamp100, Greatest, Least

\* A longer window and more samples are more history.
LEMMA MaturityGrows ==
  ASSUME NEW u, NEW v, u.window \in Int, v.window \in Int, u.window <= v.window,
         u.samples \in Nat, v.samples \in Nat, u.samples <= v.samples
  PROVE  DataMaturity(u) <= DataMaturity(v)
<1> DEFINE length(w) == Clamp100((100 * w.window) \div MatureWindow)
           size(w) == IF w.samples > 1
                        THEN Clamp100((100 * Log2(w.samples)) \div MatureLog) ELSE 0
<1>1. length(u) <= length(v) /\ length(u) \in Int /\ length(v) \in Int
  <2>1. 100 * u.window \in Int /\ 100 * v.window \in Int /\ 100 * u.window <= 100 * v.window
    OBVIOUS
  <2>2. /\ (100 * u.window) \div MatureWindow \in Int
        /\ (100 * v.window) \div MatureWindow \in Int
        /\ (100 * u.window) \div MatureWindow <= (100 * v.window) \div MatureWindow
    BY <2>1, Quotient, QuotientGrows, UnitsArePositive
  <2> QED
    BY <2>2, ClampGrows
<1>2. size(u) <= size(v) /\ size(u) \in Int /\ size(v) \in Int
  <2> DEFINE a == 100 * Log2(u.samples)
             b == 100 * Log2(v.samples)
  <2>1. a \in Int /\ b \in Int /\ a <= b
    BY LogGrows
  <2> HIDE DEF a, b
  <2>2. a \div MatureLog \in Int /\ b \div MatureLog \in Int /\ a \div MatureLog <= b \div MatureLog
    BY <2>1, Quotient, QuotientGrows, UnitsArePositive
  <2>3. /\ Clamp100(a \div MatureLog) \in 0 .. 100 /\ Clamp100(b \div MatureLog) \in 0 .. 100
        /\ Clamp100(a \div MatureLog) <= Clamp100(b \div MatureLog)
    BY <2>2, ClampGrows
  <2>4. /\ size(u) = IF u.samples > 1 THEN Clamp100(a \div MatureLog) ELSE 0
        /\ size(v) = IF v.samples > 1 THEN Clamp100(b \div MatureLog) ELSE 0
    BY DEF a, b
  <2> HIDE DEF size
  <2> QED
    BY <2>3, <2>4
<1>3. DataMaturity(u) = Least(length(u), size(u)) /\ DataMaturity(v) = Least(length(v), size(v))
  BY DEF DataMaturity
<1> HIDE DEF length, size
<1> QED
  BY <1>1, <1>2, <1>3 DEF Least

\* What is known of the usage of one container does not depend on how it is read, but for
\* the tier and the variance.
LEMMA ConfidenceGrows ==
  ASSUME NEW u, NEW v, u.window \in Int, v.window \in Int, u.window <= v.window,
         u.samples \in Nat, v.samples \in Nat, u.samples <= v.samples,
         u.tier = "operator", v.tier = "operator", u.cv = 0, v.cv = 0
  PROVE  Confidence(u) <= Confidence(v) /\ Confidence(u) \in Int /\ Confidence(v) \in Int
<1> DEFINE a == DataMaturity(u)
           b == DataMaturity(v)
<1>1. a \in 0 .. 100 /\ b \in 0 .. 100 /\ a <= b
  BY MaturityType, MaturityGrows
<1>2. Score(u) = 30 + (a * 55) \div 100 /\ Score(v) = 30 + (b * 55) \div 100
  <2>1. TierBase("operator") = 85
    BY DEF TierBase
  <2> QED
    BY <2>1 DEF Score
<1>3. VariancePenalty(u) = VariancePenalty(v) /\ VariancePenalty(u) \in Int
  <2>1. Clamp100(0) = 0
    BY DEF Clamp100, Greatest, Least
  <2> QED
    BY <2>1 DEF VariancePenalty
<1> HIDE DEF a, b
<1>4. Score(u) \in Int /\ Score(v) \in Int /\ Score(u) <= Score(v)
  BY <1>1, <1>2
<1> QED
  BY <1>3, <1>4 DEF Confidence, Greatest, Least

\* More history is less headroom, and less headroom a smaller request.
LEMMA RequestFalls ==
  ASSUME NEW policy \in Policy, NEW u, NEW v, NEW now,
         u.window \in Int, v.window \in Int, u.window <= v.window,
         u.samples \in Nat, v.samples \in Nat, u.samples <= v.samples,
         u.max \in Nat, v.max = u.max, ~ IsSnapshot(u), ~ IsSnapshot(v)
  PROVE  MemoryRequest(now, v, policy) <= MemoryRequest(now, u, policy)
<1> DEFINE h(w) == MemoryHeadroom(w, policy)
           x(w) == WithHeadroom(u.max, h(w))
           y(w) == RoundUpMiB(x(w))
<1>1. h(u) \in Nat /\ h(v) \in Nat /\ h(v) <= h(u)
  <2>1. /\ DataMaturity(u) \in 0 .. 100 /\ DataMaturity(v) \in 0 .. 100
        /\ DataMaturity(u) <= DataMaturity(v)
    BY MaturityType, MaturityGrows
  <2>2. policy.memoryHeadroom \in Nat /\ policy.immatureSafety \in Nat
    BY DEF Policy
  <2> DEFINE a == 100 - DataMaturity(u)
             b == 100 - DataMaturity(v)
             s == policy.immatureSafety
  <2>3. a \in Nat /\ b \in Nat /\ b <= a
    BY <2>1
  <2>4. h(u) = 100 * policy.memoryHeadroom + a * s /\ h(v) = 100 * policy.memoryHeadroom + b * s
    BY DEF MemoryHeadroom
  <2>5. s \in Nat
    BY <2>2
  <2> HIDE DEF a, b, s, h
  <2>6. b * s <= a * s /\ a * s \in Nat /\ b * s \in Nat
    BY <2>3, <2>5, ProductGrows
  <2> QED
    BY <2>2, <2>4, <2>6
<1> HIDE DEF h
<1>2. x(u) \in Nat /\ x(v) \in Nat /\ x(v) <= x(u)
  <2> DEFINE p == u.max
             a == p * (10000 + h(u)) + 5000
             b == p * (10000 + h(v)) + 5000
  <2>1. p \in Nat
    OBVIOUS
  <2> HIDE DEF p
  <2>2. (10000 + h(v)) * p <= (10000 + h(u)) * p
    BY <1>1, <2>1, ProductGrows
  <2>3. \A i, j \in Int : i * j = j * i /\ i * j \in Int
    OBVIOUS
  <2>4. a \in Int /\ b \in Int /\ b <= a
    BY <1>1, <2>1, <2>2, <2>3
  <2> HIDE DEF a, b
  <2>5. b \div 10000 <= a \div 10000
    BY <2>4, QuotientGrows
  <2>6. x(u) = a \div 10000 /\ x(v) = b \div 10000
    BY DEF WithHeadroom, a, b, p
  <2>7. x(u) \in Nat /\ x(v) \in Nat
    BY <1>1, HeadroomAdds
  <2> QED
    BY <2>5, <2>6, <2>7
<1> HIDE DEF x
<1>3. y(u) \in Nat /\ y(v) \in Nat /\ y(v) <= y(u)
  <2> DEFINE a == x(u) + MiB - 1
             b == x(v) + MiB - 1
  <2>1. a \in Int /\ b \in Int /\ b <= a /\ MiB \in Nat \ {0}
    BY <1>2, UnitsArePositive
  <2> HIDE DEF a, b
  <2>2. b \div MiB <= a \div MiB /\ a \div MiB \in Int /\ b \div MiB \in Int
    BY <2>1, Quotient, QuotientGrows
  <2>3. (b \div MiB) * MiB <= (a \div MiB) * MiB
    BY <2>1, <2>2, ProductGrows
  <2>4. y(u) = (a \div MiB) * MiB /\ y(v) = (b \div MiB) * MiB
    BY DEF RoundUpMiB, a, b
  <2>5. y(u) \in Nat /\ y(v) \in Nat
    BY <1>2, RoundUp
  <2> QED
    BY <2>3, <2>4, <2>5
<1>4. /\ MemoryRequest(now, u, policy) = Greatest(y(u), RoundUpMiB(policy.minMemory))
      /\ MemoryRequest(now, v, policy) = Greatest(y(v), RoundUpMiB(policy.minMemory))
  BY DEF MemoryRequest, Shrunk, x, h
<1>5. RoundUpMiB(policy.minMemory) \in Nat
  <2>1. policy.minMemory \in Nat
    BY DEF Policy
  <2> QED
    BY <2>1, RoundUp
<1> HIDE DEF y
<1> QED
  BY <1>3, <1>4, <1>5 DEF Greatest

\* A checkpoint has no more observations than the histogram, so that a restart never adds
\* one.
KeptInv == PeakInv /\ Len(kept) <= Len(seen)

LEMMA KeptInit == Init => KeptInv
BY PeakInit DEF Init, KeptInv

LEMMA KeptStep == KeptInv /\ [Next]_vars => KeptInv'
<1> SUFFICES ASSUME KeptInv, [Next]_vars PROVE KeptInv'
  OBVIOUS
<1>1. PeakInv'
  BY PeakStep DEF KeptInv
<1>2. Len(seen) \in Nat /\ Len(kept) \in Nat /\ Len(kept) <= Len(seen)
  BY DEF KeptInv, PeakInv
<1>3. ASSUME NEW value \in Values, NEW t \in Time, Observe(value, t)
      PROVE  Len(kept') <= Len(seen')
  <2>1. seen' = Append(seen, [value |-> value, at |-> t]) /\ kept' = kept
    BY <1>3 DEF Observe
  <2>2. Len(seen') = Len(seen) + 1
    BY <2>1 DEF KeptInv, PeakInv
  <2> QED
    BY <1>2, <2>1, <2>2
<1>4. ASSUME ToSnapshot PROVE Len(kept') <= Len(seen')
  BY <1>2, <1>4 DEF ToSnapshot
<1>5. ASSUME Restart PROVE Len(kept') <= Len(seen')
  BY <1>2, <1>5 DEF Restart
<1>6. ASSUME UNCHANGED vars PROVE Len(kept') <= Len(seen')
  BY <1>2, <1>6 DEF vars
<1> QED
  BY <1>1, <1>3, <1>4, <1>5, <1>6 DEF Next, KeptInv

\* The step that adds an observation.
LEMMA LongerIsObserved ==
  ASSUME KeptInv, [Next]_vars, Len(seen') > Len(seen)
  PROVE  \E o \in [value : Values, at : Time] : seen' = Append(seen, o)
<1>1. Len(seen) \in Nat /\ Len(kept) \in Nat /\ Len(kept) <= Len(seen)
  BY DEF KeptInv, PeakInv
<1>2. ~ ToSnapshot
  BY <1>1 DEF ToSnapshot
<1>3. ~ Restart
  BY <1>1 DEF Restart
<1>4. ~ UNCHANGED vars
  BY <1>1 DEF vars
<1>5. PICK value \in Values : \E t \in Time : Observe(value, t)
  BY <1>2, <1>3, <1>4 DEF Next
<1>6. PICK t \in Time : Observe(value, t)
  BY <1>5
<1> QED
  BY <1>6 DEF Observe

LEMMA WindowGrows ==
  ASSUME KeptInv, KeptInv', [Next]_vars, Len(seen') > Len(seen),
         seen # <<>> => seen'[Len(seen')].at >= seen[Len(seen)].at
  PROVE  /\ Window <= Window' /\ Window \in Int /\ Window' \in Int
         /\ Len(seen) <= Len(seen') /\ Len(seen) \in Nat /\ Len(seen') \in Nat
<1>1. PICK o \in [value : Values, at : Time] : seen' = Append(seen, o)
  BY LongerIsObserved
<1>2. seen \in Seq([value : Values, at : Time]) /\ Len(seen) \in Nat
  BY DEF KeptInv, PeakInv
<1>3. /\ seen' # <<>> /\ Len(seen') = Len(seen) + 1 /\ seen'[Len(seen')] = o
      /\ seen # <<>> => seen'[1] = seen[1]
      /\ seen = <<>> => seen'[1] = o
  BY <1>1, <1>2
<1>4. o.at \in Int /\ HoursPerTime \in Nat
  BY TimesAreNatural, SpecsAndPolicy DEF Time
<1>5. Window' = HoursPerTime * (o.at - seen'[1].at)
  BY <1>3 DEF Window
<1>6. CASE seen = <<>>
  <2>1. Window' = HoursPerTime * (o.at - o.at)
    BY <1>3, <1>5, <1>6
  <2>2. Window' = 0
    BY <1>4, <2>1
  <2>3. Window = 0
    BY <1>6 DEF Window
  <2> QED
    BY <1>2, <1>3, <2>2, <2>3
<1>7. CASE seen # <<>>
  <2> DEFINE last == seen[Len(seen)].at
             first == seen[1].at
  <2>1. last \in Int /\ first \in Int
    <3>1. 1 \in DOMAIN seen /\ Len(seen) \in DOMAIN seen
      BY <1>2, <1>7
    <3> QED
      BY <3>1, SeenType DEF KeptInv
  <2>2. o.at >= last
    BY <1>3, <1>7
  <2>3. Window = HoursPerTime * (last - first)
    BY <1>7 DEF Window
  <2>4. Window' = HoursPerTime * (o.at - first)
    BY <1>3, <1>5, <1>7
  <2> HIDE DEF last, first
  <2>5. \A i, j \in Int : i * j = j * i /\ i * j \in Int
    OBVIOUS
  <2>6. last - first \in Int /\ o.at - first \in Int /\ last - first <= o.at - first
    BY <1>4, <2>1, <2>2
  <2>7. (last - first) * HoursPerTime <= (o.at - first) * HoursPerTime
    BY <1>4, <2>6, ProductGrows
  <2>8. /\ Window = (last - first) * HoursPerTime /\ Window' = (o.at - first) * HoursPerTime
        /\ Window \in Int /\ Window' \in Int
    BY <1>4, <2>3, <2>4, <2>5, <2>6
  <2> QED
    BY <1>2, <1>3, <2>7, <2>8
<1> QED
  BY <1>6, <1>7

\* The memory a scan requests, of what it knows of the usage.
LEMMA ScannedMemory ==
  ASSUME PeakInv, max > 0, NEW current
  PROVE  Scanned(current).requests.memory
           = MemoryRequest(current.requests.memory, ScannedStats, Default)
BY StatsType DEF Scanned, Recommend

LEMMA TrustStep ==
  ASSUME KeptInv, KeptInv', [Next]_vars, Len(seen') > Len(seen),
         seen # <<>> => seen'[Len(seen')].at >= seen[Len(seen)].at
  PROVE  /\ Confidence(ScannedStats)' >= Confidence(ScannedStats)
         /\ max' = max /\ max > 0 =>
              \A current \in Currents :
                Scanned(current).requests.memory' <= Scanned(current).requests.memory
<1>1. /\ Window <= Window' /\ Window \in Int /\ Window' \in Int
      /\ Len(seen) <= Len(seen') /\ Len(seen) \in Nat /\ Len(seen') \in Nat
  BY WindowGrows
<1>2. PICK u : u = ScannedStats
  OBVIOUS
<1>3. PICK v : v = ScannedStats'
  OBVIOUS
<1>4. /\ u.window = Window /\ u.samples = Len(seen) /\ u.tier = "operator" /\ u.cv = 0
      /\ u.max = max
  BY <1>2 DEF ScannedStats, UsageStats
<1>5. /\ v.window = Window' /\ v.samples = Len(seen') /\ v.tier = "operator" /\ v.cv = 0
      /\ v.max = max'
  BY <1>3 DEF ScannedStats, UsageStats
<1>6. Confidence(u) <= Confidence(v) /\ Confidence(u) \in Int /\ Confidence(v) \in Int
  BY <1>1, <1>4, <1>5, ConfidenceGrows
<1>7. Confidence(ScannedStats)' = Confidence(v) /\ Confidence(ScannedStats) = Confidence(u)
  BY <1>2, <1>3
<1>8. ASSUME max' = max, max > 0, NEW current \in Currents
      PROVE  Scanned(current).requests.memory' <= Scanned(current).requests.memory
  <2>1. max \in Nat /\ PeakInv /\ PeakInv'
    BY DEF KeptInv, PeakInv
  <2>2. MemoryRequest(current.requests.memory, v, Default)
          <= MemoryRequest(current.requests.memory, u, Default)
    BY <1>1, <1>4, <1>5, <1>8, <2>1, RequestFalls, SpecsAndPolicy DEF IsSnapshot
  <2>3. Scanned(current).requests.memory = MemoryRequest(current.requests.memory, u, Default)
    BY <1>2, <1>8, <2>1, ScannedMemory
  <2>4. Scanned(current).requests.memory' = MemoryRequest(current.requests.memory, v, Default)
    BY <1>3, <1>5, <1>8 DEF Scanned, Recommend
  <2> QED
    BY <2>2, <2>3, <2>4
<1> QED
  BY <1>6, <1>7, <1>8

\* An observation in the order of the clock never lowers the confidence of a scan, nor
\* raises the memory it requests unless it is a new peak (rightsizer.go:67): no number of
\* samples, length of the window or choice of the policy makes more history count less.
THEOREM TrustIsEarned == Spec => HistoryEarnsTrust
<1>1. KeptInv /\ KeptInv' /\ [Next]_vars
        => [Len(seen') > Len(seen) /\ (seen # <<>> => seen'[Len(seen')].at >= seen[Len(seen)].at)
              => /\ Confidence(ScannedStats)' >= Confidence(ScannedStats)
                 /\ max' = max /\ max > 0 =>
                      \A current \in Currents :
                        Scanned(current).requests.memory' <= Scanned(current).requests.memory
           ]_vars
  BY TrustStep
<1> QED
  BY <1>1, KeptInit, KeptStep, PTL DEF Spec, HistoryEarnsTrust
=============================================================================
