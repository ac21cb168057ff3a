------------------------------ MODULE Rightsizer ------------------------------
(***************************************************************************)
(* Recommend and Confidence of internal/rightsizer/rightsizer.go, on the    *)
(* policies, usage statistics and specs of internal/model/model.go.  All    *)
(* fractions are percentages, and what is computed from them is rounded as  *)
(* in the code; the logarithm of the sample count is taken to base 2 and    *)
(* rounded down.                                                           *)
(***************************************************************************)
EXTENDS Integers, FiniteSets

CONSTANTS
  MiB,           \* bytes in a mebibyte
  MatureWindow,  \* matureWindowHours
  MatureLog      \* the logarithm of matureSamples

ASSUME UnitsArePositive ==
  MiB \in Nat \ {0} /\ MatureWindow \in Nat \ {0} /\ MatureLog \in Nat \ {0}

Tier == {"static", "snapshot", "operator", "historical", "allocated"}

Policy ==
  [cpuHeadroom : Nat, memoryHeadroom : Nat, snapshotHeadroom : Nat,
   immatureSafety : Nat, minCPU : Nat, minMemory : Nat,
   setCPULimit : BOOLEAN, memoryLimitIsRequest : BOOLEAN, downsizeOnly : BOOLEAN]

\* P95 of CPU and the largest memory reading, the window and the samples behind
\* them; the coefficient of variation is the worse of the two metrics'.
Usage == [p95 : Nat, max : Nat, window : Int, samples : Nat, cv : Nat, tier : Tier]

Resources == [cpu : Nat, memory : Nat]
ResourceSpec == [requests : Resources, limits : Resources]
-----------------------------------------------------------------------------
Least(a, b) == IF a <= b THEN a ELSE b
Greatest(a, b) == IF a >= b THEN a ELSE b

Log2(n) == Cardinality({k \in 1 .. n : 2 ^ k <= n})

Clamp100(n) == Greatest(0, Least(100, n))

\* How much history there is: the weaker of its length, which is negative if the
\* clock was set back, and its samples.
DataMaturity(usage) ==
  Least(Clamp100((100 * usage.window) \div MatureWindow),
        IF usage.samples > 1 THEN Clamp100((100 * Log2(usage.samples)) \div MatureLog)
                             ELSE 0)

IsSnapshot(usage) == usage.tier = "snapshot"

\* In hundredths of a percent.
CPUHeadroom(usage, policy) ==
  100 * (policy.cpuHeadroom + IF IsSnapshot(usage) THEN policy.snapshotHeadroom ELSE 0)

\* Bug: the cushion grows with the history instead of shrinking.
MemoryHeadroomGrowing(usage, policy) ==
  100 * policy.memoryHeadroom
    + IF IsSnapshot(usage) THEN 100 * policy.snapshotHeadroom
      ELSE DataMaturity(usage) * policy.immatureSafety

MemoryHeadroom(usage, policy) ==
  100 * policy.memoryHeadroom
    + IF IsSnapshot(usage) THEN 100 * policy.snapshotHeadroom
      ELSE (100 - DataMaturity(usage)) * policy.immatureSafety

WithHeadroom(value, headroom) == (value * (10000 + headroom) + 5000) \div 10000

RoundUpMiB(bytes) == ((bytes + MiB - 1) \div MiB) * MiB

\* A single sample must not make a request grow.
Shrunk(proposed, current, usage, policy) ==
  IF IsSnapshot(usage) /\ policy.downsizeOnly /\ current > 0
    THEN Least(proposed, current) ELSE proposed

\* Bug: the floor comes after the clamp.
CPURequestFloored(current, usage, policy) ==
  Greatest(Shrunk(WithHeadroom(usage.p95, CPUHeadroom(usage, policy)),
                  current, usage, policy), policy.minCPU)

CPURequest(current, usage, policy) ==
  Shrunk(Greatest(WithHeadroom(usage.p95, CPUHeadroom(usage, policy)), policy.minCPU),
         current, usage, policy)

\* Bug: the percentile is used for memory too.
MemoryRequestOfP95(current, usage, policy) ==
  Shrunk(Greatest(RoundUpMiB(WithHeadroom(usage.p95, MemoryHeadroom(usage, policy))),
                  RoundUpMiB(policy.minMemory)),
         current, usage, policy)

MemoryRequest(current, usage, policy) ==
  Shrunk(Greatest(RoundUpMiB(WithHeadroom(usage.max, MemoryHeadroom(usage, policy))),
                  RoundUpMiB(policy.minMemory)),
         current, usage, policy)

\* A metric without data keeps its request and limit.
Recommend(current, usage, policy) ==
  LET cpu == CPURequest(current.requests.cpu, usage, policy)
      memory == MemoryRequest(current.requests.memory, usage, policy)
  IN [requests |->
        [cpu |-> IF usage.p95 > 0 THEN cpu ELSE current.requests.cpu,
         memory |-> IF usage.max > 0 THEN memory ELSE current.requests.memory],
      limits |->
        [cpu |-> IF usage.p95 = 0 THEN current.limits.cpu
                 ELSE IF policy.setCPULimit THEN cpu ELSE 0,
         memory |-> IF usage.max > 0 /\ policy.memoryLimitIsRequest
                      THEN memory ELSE current.limits.memory]]
-----------------------------------------------------------------------------
TierBase(tier) ==
  CASE tier \in {"historical", "allocated"} -> 90
    [] tier = "operator" -> 85
    [] tier = "snapshot" -> 50
    [] tier = "static" -> 25

VariancePenalty(usage) == (30 * Clamp100(usage.cv)) \div 100

Score(usage) ==
  IF usage.tier \in {"snapshot", "static"} THEN TierBase(usage.tier)
  ELSE 30 + (DataMaturity(usage) * (TierBase(usage.tier) - 30)) \div 100

Confidence(usage) == Greatest(5, Least(99, Score(usage) - VariancePenalty(usage)))
=============================================================================
