------------------------------- MODULE Pricing -------------------------------
(***************************************************************************)
(* What requests cost: internal/costmodel, and the unit prices of           *)
(* internal/pricing, which are configured or derived from what OpenCost     *)
(* allocated.  Prices are per unit of CPU and of memory; the conversion of  *)
(* hours and bytes into months and gibibytes is left out, and rates are     *)
(* rounded up where the code has floating point, so that what has a cost    *)
(* has a rate.                                                             *)
(***************************************************************************)
EXTENDS Integers, FiniteSets, Functions

CONSTANT NoController  \* an allocation without namespace or controller

Price == [cpu : Int, memory : Int]

\* An entry of OpenCost's answer: whose it is, whether it is one of the pseudo
\* buckets (__idle__, __unallocated__), and what was allocated at what cost.
IsAllocation(a) ==
  /\ DOMAIN a = {"controller", "synthetic", "cpuCost", "cpuHours", "ramCost", "ramHours"}
  /\ a.synthetic \in BOOLEAN
  /\ {a.cpuCost, a.cpuHours, a.ramCost, a.ramHours} \subseteq Nat
-----------------------------------------------------------------------------
NonNegative(v) == IF v < 0 THEN 0 ELSE v

\* Of one replica; limits cost nothing.
MonthlyCost(requests, price) ==
  requests.cpu * NonNegative(price.cpu) + requests.memory * NonNegative(price.memory)

Billed(replicas) == IF replicas <= 0 THEN 1 ELSE replicas

\* Bug: the savings of one replica.
SavingsOfOne(current, proposed, price, replicas) ==
  MonthlyCost(current, price) - MonthlyCost(proposed, price)

MonthlySavings(current, proposed, price, replicas) ==
  (MonthlyCost(current, price) - MonthlyCost(proposed, price)) * Billed(replicas)
-----------------------------------------------------------------------------
UnitRate(cost, quantity) ==
  IF quantity <= 0 THEN 0 ELSE (cost + quantity - 1) \div quantity

RealAllocations(data) == {a \in data : ~a.synthetic}

RateOf(a) == [cpu |-> UnitRate(a.cpuCost, a.cpuHours),
              memory |-> UnitRate(a.ramCost, a.ramHours)]

\* The entries with a rate of their own, by controller.
ByWorkload(data) ==
  {a \in RealAllocations(data) :
     a.controller # NoController /\ (RateOf(a).cpu > 0 \/ RateOf(a).memory > 0)}

Blended(data) ==
  LET real == RealAllocations(data)
  IN [cpu |-> UnitRate(SumFunction([a \in real |-> a.cpuCost]),
                       SumFunction([a \in real |-> a.cpuHours])),
      memory |-> UnitRate(SumFunction([a \in real |-> a.ramCost]),
                          SumFunction([a \in real |-> a.ramHours]))]

\* Bug: whatever answers is taken for a price source.
AnyCostData(data) == TRUE

\* buildProvider: an OpenCost that has collected nothing yet is no provider.
HasCostData(data) ==
  Blended(data).cpu > 0 \/ Blended(data).memory > 0 \/ ByWorkload(data) # {}

OpenCostPrice(data, w) ==
  IF \E a \in ByWorkload(data) : a.controller = w
    THEN RateOf(CHOOSE a \in ByWorkload(data) : a.controller = w)
    ELSE Blended(data)
=============================================================================
