----------------------------- MODULE ReviewProofs -----------------------------
(***************************************************************************)
(* Theorems about Review, for any repository, usage, prices and changes of  *)
(* others: the types, that a change set which is announced has been written,*)
(* that its headline is what the bill goes down by at the prices of its     *)
(* scan, what kubetidy cost finds of it at its own, and that the budget     *)
(* holds while quantities are strings.                                     *)
(***************************************************************************)
EXTENDS Review, Arithmetic

-----------------------------------------------------------------------------
(* Costs *)

LEMMA ProductOfNaturals ==
  ASSUME NEW a \in Nat, NEW b \in Nat
  PROVE  a * b \in Nat
OBVIOUS

LEMMA Distributes ==
  ASSUME NEW a \in Nat, NEW b \in Nat, NEW n \in Nat
  PROVE  (a - b) * n = a * n - b * n
OBVIOUS

LEMMA CostIsNatural ==
  ASSUME NEW a \in Amounts, NEW price \in Price
  PROVE  MonthlyCost(a, price) \in Nat
<1>1. a.cpu \in Nat /\ a.memory \in Nat
  BY DEF Amounts
<1>2. NonNegative(price.cpu) \in Nat /\ NonNegative(price.memory) \in Nat
  BY DEF Price, NonNegative
<1>3. a.cpu * NonNegative(price.cpu) \in Nat /\ a.memory * NonNegative(price.memory) \in Nat
  BY <1>1, <1>2, ProductOfNaturals
<1> QED
  BY <1>3 DEF MonthlyCost

LEMMA BilledIsPositive ==
  ASSUME NEW n \in Int
  PROVE  Billed(n) \in Nat \ {0}
BY DEF Billed

LEMMA ReplicasAreNatural ==
  ASSUME NEW repo, IsRepository(repo), NEW o \in DOMAIN repo
  PROVE  Discovered(o, repo) \in Nat /\ Parsed(o, repo) \in Nat
<1>1. repo[o].replicas \in Nat \cup {Unset}
  BY DEF IsRepository, IsManifest
<1> QED
  BY <1>1, NodesIsNatural DEF Discovered, Parsed

\* The two tools count the pods of everything but a DaemonSet alike.
LEMMA ReplicasAreCountedAlike ==
  ASSUME NEW repo, NEW o, Kind[o] # "DaemonSet"
  PROVE  Discovered(o, repo) = Parsed(o, repo)
BY DEF Discovered, Parsed

LEMMA RequestsOfRepository ==
  ASSUME NEW repo, IsRepository(repo), NEW o \in DOMAIN repo
  PROVE  /\ IsFiniteSet(DOMAIN repo[o].requests)
         /\ DOMAIN repo[o].requests \subseteq Containers
         /\ \A c \in DOMAIN repo[o].requests :
              /\ repo[o].requests[c] \in Requests
              /\ AmountsOf(repo[o].requests[c]) \in Amounts
<1>1. IsManifest(repo[o])
  BY DEF IsRepository
<1>2. ASSUME NEW c \in DOMAIN repo[o].requests
      PROVE  repo[o].requests[c] \in Requests /\ AmountsOf(repo[o].requests[c]) \in Amounts
  <2>1. repo[o].requests[c] \in Requests
    BY <1>1 DEF IsManifest
  <2> QED
    BY <2>1 DEF Requests, AmountsOf, Amounts
<1> QED
  BY <1>1, <1>2 DEF IsManifest

LEMMA ReplicaCostIsInteger ==
  ASSUME NEW repo, IsRepository(repo), NEW o \in DOMAIN repo, NEW price \in Price
  PROVE  ReplicaCost(o, repo, price) \in Int
<1> DEFINE D == DOMAIN repo[o].requests
           f == [c \in D |-> MonthlyCost(AmountsOf(repo[o].requests[c]), price)]
<1>1. \A c \in D : f[c] \in Int
  BY RequestsOfRepository, CostIsNatural
<1>2. IsFiniteSet(D)
  BY RequestsOfRepository
<1>3. DOMAIN f = D
  OBVIOUS
<1>4. ReplicaCost(o, repo, price) = SumFunction(f)
  BY DEF ReplicaCost
<1> HIDE DEF f, D
<1>5. SumFunctionOnSet(f, D) \in Int
  BY <1>1, <1>2, SumIsInteger
<1> QED
  BY <1>3, <1>4, <1>5 DEF SumFunction
-----------------------------------------------------------------------------
(* Scans *)

Proposal(repo, asked, o, c) ==
  Proposed(AmountsOf(repo[o].requests[c]), asked[<<o, c>>])

\* What a recommendation of a scan says.
IsOf(r, repo, asked, prices) ==
  /\ r.of \in DOMAIN repo /\ r.of \in Objects
  /\ r.container \in DOMAIN repo[r.of].requests /\ r.container \in Containers
  /\ Key(r) \in DOMAIN asked
  /\ r = Recommendation(repo, asked, prices, r.of, r.container)
  /\ r.current = AmountsOf(repo[r.of].requests[r.container])
  /\ r.proposed = Proposal(repo, asked, r.of, r.container)
  /\ r.current \in Amounts /\ r.proposed \in Amounts
  /\ r.saving = (MonthlyCost(r.current, prices[r.of]) - MonthlyCost(r.proposed, prices[r.of]))
                  * Billed(Discovered(r.of, repo))
  /\ r.saving \in Int

LEMMA ScanMembers ==
  ASSUME NEW repo, IsRepository(repo), NEW asked \in Needs, NEW prices \in Prices
  PROVE  \A r \in Scan(repo, asked, prices) : IsOf(r, repo, asked, prices)
<1> SUFFICES ASSUME NEW r \in Scan(repo, asked, prices)
             PROVE  IsOf(r, repo, asked, prices)
  OBVIOUS
<1>0. PICK o \in DOMAIN repo : \E c \in DOMAIN repo[o].requests :
        <<o, c>> \in DOMAIN asked /\ r = Recommendation(repo, asked, prices, o, c)
  BY Zenon DEF Scan
<1>1. PICK c \in DOMAIN repo[o].requests :
        <<o, c>> \in DOMAIN asked /\ r = Recommendation(repo, asked, prices, o, c)
  BY <1>0, Zenon
<1> DEFINE cur == AmountsOf(repo[o].requests[c])
           pro == Proposal(repo, asked, o, c)
<1>2. /\ r.of = o /\ r.container = c /\ Key(r) = <<o, c>>
      /\ r.current = cur /\ r.proposed = pro
      /\ r.saving = MonthlySavings(cur, pro, prices[o], Discovered(o, repo))
  BY <1>1 DEF Recommendation, Key, Proposal
<1>3. o \in Objects /\ c \in Containers /\ cur \in Amounts
  BY RequestsOfRepository DEF IsRepository
<1>4. pro \in Amounts
  <2>1. asked[<<o, c>>] \in Amounts
    BY <1>1, NeedsAreAmounts
  <2> HIDE DEF cur
  <2> QED
    BY <1>3, <2>1 DEF Proposal, Proposed, Amounts, cur
<1>5. Discovered(o, repo) \in Int
  BY ReplicasAreNatural
<1> HIDE DEF cur, pro
<1>6. r.saving = (MonthlyCost(cur, prices[o]) - MonthlyCost(pro, prices[o]))
                   * Billed(Discovered(o, repo))
  BY <1>2 DEF MonthlySavings
<1>7. r.saving \in Int
  <2>1. MonthlyCost(cur, prices[o]) \in Nat /\ MonthlyCost(pro, prices[o]) \in Nat
    BY <1>3, <1>4, CostIsNatural, PricesAreTyped
  <2>2. Billed(Discovered(o, repo)) \in Nat
    BY <1>5, BilledIsPositive
  <2> QED
    BY <1>6, <2>1, <2>2
<1>8. r.current = AmountsOf(repo[r.of].requests[r.container])
  BY <1>2 DEF cur
<1>9. r.proposed = Proposal(repo, asked, r.of, r.container)
  BY <1>2 DEF pro
<1> QED
  BY <1>1, <1>2, <1>3, <1>4, <1>6, <1>7, <1>8, <1>9 DEF IsOf

\* There is one for a container.
LEMMA KeysDiffer ==
  ASSUME NEW repo, IsRepository(repo), NEW asked \in Needs, NEW prices \in Prices
  PROVE  \A r, q \in Scan(repo, asked, prices) : Key(r) = Key(q) => r = q
<1> SUFFICES ASSUME NEW r \in Scan(repo, asked, prices), NEW q \in Scan(repo, asked, prices),
                    Key(r) = Key(q)
             PROVE  r = q
  OBVIOUS
<1>1. r.of = q.of /\ r.container = q.container
  BY DEF Key
<1>2. /\ r = Recommendation(repo, asked, prices, r.of, r.container)
      /\ q = Recommendation(repo, asked, prices, q.of, q.container)
  BY ScanMembers DEF IsOf
<1> QED
  BY <1>1, <1>2, Zenon

LEMMA ScanIsFinite ==
  ASSUME NEW repo, IsRepository(repo), NEW asked \in Needs, NEW prices \in Prices
  PROVE  IsFiniteSet(Scan(repo, asked, prices))
<1> DEFINE C(o) == {c \in DOMAIN repo[o].requests : <<o, c>> \in DOMAIN asked}
           R(o) == {Recommendation(repo, asked, prices, o, c) : c \in C(o)}
           all == [o \in DOMAIN repo |-> R(o)]
<1>1. ASSUME NEW o \in DOMAIN repo
      PROVE  IsFiniteSet(R(o))
  <2> DEFINE f == [c \in C(o) |-> Recommendation(repo, asked, prices, o, c)]
  <2>1. IsFiniteSet(C(o))
    BY RequestsOfRepository, FS_Subset
  <2>2. IsFiniteSet({f[c] : c \in C(o)})
    <3> HIDE DEF f, C
    <3> QED
      BY <2>1, ImageIsFinite
  <2>3. R(o) = {f[c] : c \in C(o)}
    BY Zenon
  <2> QED
    BY <2>2, <2>3, Zenon
<1>2. IsFiniteSet(DOMAIN repo)
  BY DEF IsRepository
<1>3. IsFiniteSet({all[o] : o \in DOMAIN repo})
  <2> HIDE DEF all
  <2> QED
    BY <1>2, ImageIsFinite
<1>4. {all[o] : o \in DOMAIN repo} = {R(o) : o \in DOMAIN repo}
  BY Zenon
<1>5. IsFiniteSet(UNION {R(o) : o \in DOMAIN repo})
  <2>1. IsFiniteSet({R(o) : o \in DOMAIN repo})
    BY <1>3, <1>4, Zenon
  <2>2. \A T \in {R(o) : o \in DOMAIN repo} : IsFiniteSet(T)
    BY <1>1, Zenon
  <2> HIDE DEF R
  <2> QED
    BY <2>1, <2>2, FS_UNION
<1>6. Scan(repo, asked, prices) \subseteq UNION {R(o) : o \in DOMAIN repo}
  BY Zenon DEF Scan
<1> HIDE DEF R
<1> QED
  BY <1>5, <1>6, FS_Subset

\* The queue holds recommendations of the scan, each at its place.
LEMMA QueueIsSelected ==
  ASSUME NEW repo, IsRepository(repo), NEW asked \in Needs, NEW prices \in Prices,
         NEW top \in Tops, NEW grow \in BOOLEAN
  PROVE  LET set == SelectRecommendations(Scan(repo, asked, prices), top, grow)
         IN set \in Seq(Scan(repo, asked, prices))
<1> DEFINE out == Selected(Scan(repo, asked, prices), grow)
           n == Cardinality(out)
           L == {p \in out \X out : Precedes(p[1], p[2])}
           place == [r \in out |-> Before(out, r)]
           kept == IF top > 0 /\ top < n THEN top ELSE n
           set == [i \in 1 .. kept |-> CHOOSE r \in out : Before(out, r) = i - 1]
<1>1. out \subseteq Scan(repo, asked, prices)
  BY DEF Selected
<1>2. IsFiniteSet(out) /\ n \in Nat
  BY <1>1, ScanIsFinite, FS_Subset, FS_CardinalityType
<1>3. \A r \in out : r.saving \in Int /\ Key(r) \in Keys
  BY <1>1, ScanMembers DEF IsOf, Key, Keys
<1>4. \A r, q \in out : Key(r) = Key(q) => r = q
  BY <1>1, KeysDiffer
<1>5. \A q, r \in out : <<q, r>> \in L <=> Precedes(q, r)
  OBVIOUS
<1>6. \A r \in out : place[r] = Cardinality({q \in out : <<q, r>> \in L})
  <2> SUFFICES ASSUME NEW r \in out
               PROVE  Before(out, r) = Cardinality({q \in out : <<q, r>> \in L})
    OBVIOUS
  <2>1. {q \in out : Precedes(q, r)} = {q \in out : <<q, r>> \in L}
    BY <1>5
  <2>2. Before(out, r) = Cardinality({q \in out : Precedes(q, r)})
    BY DEF Before
  <2> HIDE DEF L, out
  <2> QED
    BY <2>1, <2>2, Zenon
<1>7. \A r \in out : place[r] = Before(out, r)
  OBVIOUS
<1>8. \A r \in out : Place[Key(r)] \in Nat
  BY <1>3, PlacesDiffer
<1>9. \A q, r \in out : Place[Key(q)] = Place[Key(r)] => q = r
  <2> SUFFICES ASSUME NEW q \in out, NEW r \in out, Place[Key(q)] = Place[Key(r)]
               PROVE  q = r
    OBVIOUS
  <2>1. Key(q) \in Keys /\ Key(r) \in Keys
    BY <1>3
  <2>2. Key(q) = Key(r)
    BY <2>1, PlacesDiffer
  <2> QED
    BY <1>4, <2>2
<1> HIDE DEF out, n, L, place
<1>10. \A r \in out : <<r, r>> \notin L
  BY <1>3, <1>5, <1>8 DEF Precedes
<1>11. \A x, y, z \in out : <<x, y>> \in L /\ <<y, z>> \in L => <<x, z>> \in L
  <2> SUFFICES ASSUME NEW x \in out, NEW y \in out, NEW z \in out,
                      Precedes(x, y), Precedes(y, z)
               PROVE  Precedes(x, z)
    BY <1>5
  <2>1. /\ x.saving \in Int /\ y.saving \in Int /\ z.saving \in Int
        /\ Place[Key(x)] \in Nat /\ Place[Key(y)] \in Nat /\ Place[Key(z)] \in Nat
    BY <1>3, <1>8
  <2> QED
    BY <2>1 DEF Precedes
<1>12. \A x, y \in out : x = y \/ <<x, y>> \in L \/ <<y, x>> \in L
  <2> SUFFICES ASSUME NEW x \in out, NEW y \in out
               PROVE  x = y \/ Precedes(x, y) \/ Precedes(y, x)
    BY <1>5
  <2>1. /\ x.saving \in Int /\ y.saving \in Int
        /\ Place[Key(x)] \in Nat /\ Place[Key(y)] \in Nat
    BY <1>3, <1>8
  <2> QED
    BY <1>9, <2>1 DEF Precedes
<1>13. \A i \in 0 .. Cardinality(out) - 1 : \E x \in out : place[x] = i
  BY <1>2, <1>6, <1>10, <1>11, <1>12, PlacesOfOrder
<1>14. kept \in Nat /\ kept <= n
  BY <1>2, TopsAreIntegers
<1> HIDE DEF kept
<1>15. set \in [1 .. kept -> out]
  <2> SUFFICES ASSUME NEW i \in 1 .. kept
               PROVE  (CHOOSE r \in out : Before(out, r) = i - 1) \in out
    OBVIOUS
  <2>1. i - 1 \in 0 .. Cardinality(out) - 1
    BY <1>2, <1>14 DEF n
  <2>2. \E r \in out : Before(out, r) = i - 1
    BY <1>7, <1>13, <2>1
  <2> QED
    BY <2>2, Zenon
<1>16. set \in Seq(Scan(repo, asked, prices))
  <2>1. set \in [1 .. kept -> Scan(repo, asked, prices)]
    BY <1>1, <1>15
  <2> HIDE DEF set
  <2> QED
    BY <1>14, <2>1
<1> QED
  BY <1>16 DEF SelectRecommendations, set, kept, n, out
-----------------------------------------------------------------------------
(* Bills *)

\* head is repo with the proposals of set.
OnlyPatched(repo, set, head) ==
  /\ DOMAIN head = DOMAIN repo
  /\ \A o \in DOMAIN repo :
       /\ head[o].replicas = repo[o].replicas
       /\ DOMAIN head[o].requests = DOMAIN repo[o].requests
       /\ \A c \in DOMAIN repo[o].requests :
            /\ \A r \in set : Key(r) = <<o, c>> => AmountsOf(head[o].requests[c]) = r.proposed
            /\ (\A r \in set : Key(r) # <<o, c>>) => head[o].requests[c] = repo[o].requests[c]
            /\ repo[o].requests[c].quoted => head[o].requests[c].quoted

\* What a change of requests is worth, at some prices and for pods[o] replicas of o.
Worth(r, prices, pods) ==
  (MonthlyCost(r.current, prices[r.of]) - MonthlyCost(r.proposed, prices[r.of])) * pods[r.of]

IsWorth(worth, set, prices, pods) ==
  \A r \in set : worth[r] = Worth(r, prices, pods)

\* A repository's bill, and what it takes to be a number.
Bill(repo, prices, pods) ==
  SumFunction([o \in DOMAIN repo |-> ReplicaCost(o, repo, prices[o]) * pods[o]])

IsBilling(repo, prices, pods) ==
  \A o \in DOMAIN repo : prices[o] \in Price /\ pods[o] \in Int

\* What a bill goes down by, at whatever prices and replicas it is counted.
LEMMA BillGoesDown ==
  ASSUME NEW repo, IsRepository(repo),
         NEW asked \in Needs, NEW found \in Prices, NEW set \in SUBSET Scan(repo, asked, found),
         NEW head, IsRepository(head), OnlyPatched(repo, set, head),
         NEW prices, NEW pods, IsBilling(repo, prices, pods),
         NEW worth, IsWorth(worth, set, prices, pods)
  PROVE  /\ \A r \in set : worth[r] \in Int
         /\ Bill(repo, prices, pods) - Bill(head, prices, pods) = SumFunctionOnSet(worth, set)
<1> DEFINE D == DOMAIN repo
           C(o) == DOMAIN repo[o].requests
           Old(o, c) == MonthlyCost(AmountsOf(repo[o].requests[c]), prices[o])
           New(o, c) == MonthlyCost(AmountsOf(head[o].requests[c]), prices[o])
           before == [o \in D |-> ReplicaCost(o, repo, prices[o]) * pods[o]]
           after == [o \in D |-> ReplicaCost(o, head, prices[o]) * pods[o]]
           less == [o \in D |-> before[o] - after[o]]
           family == [o \in D |-> {<<o, c>> : c \in C(o)}]
           part == [k \in Keys |-> (Old(k[1], k[2]) - New(k[1], k[2])) * pods[k[1]]]
           key == [r \in set |-> Key(r)]
           all == UNION {family[o] : o \in D}
<1>1. IsFiniteSet(D) /\ DOMAIN head = D
  BY DEF IsRepository, OnlyPatched
<1>2. \A o \in D : /\ IsFiniteSet(C(o)) /\ C(o) = DOMAIN head[o].requests
                   /\ o \in Objects /\ C(o) \subseteq Containers
                   /\ pods[o] \in Int /\ prices[o] \in Price
  BY RequestsOfRepository DEF IsRepository, OnlyPatched, IsBilling
<1>3. \A o \in D : \A c \in C(o) : Old(o, c) \in Int /\ New(o, c) \in Int
  BY <1>1, <1>2, RequestsOfRepository, CostIsNatural
<1>4. \A o \in D : \A c \in C(o) :
        <<o, c>> \in Keys /\ part[<<o, c>>] = (Old(o, c) - New(o, c)) * pods[o]
  BY <1>2 DEF Keys
<1>5. \A o \in D : \A c \in C(o) : part[<<o, c>>] \in Int
  <2> SUFFICES ASSUME NEW o \in D, NEW c \in C(o)
               PROVE  part[<<o, c>>] \in Int
    OBVIOUS
  <2>1. part[<<o, c>>] = (Old(o, c) - New(o, c)) * pods[o]
    BY <1>4
  <2>2. Old(o, c) \in Int /\ New(o, c) \in Int /\ pods[o] \in Int
    BY <1>2, <1>3
  <2> HIDE DEF Old, New, part, C
  <2> QED
    BY <2>1, <2>2
<1>6. \A o \in D : before[o] \in Int /\ after[o] \in Int
  <2> SUFFICES ASSUME NEW o \in D
               PROVE  before[o] \in Int /\ after[o] \in Int
    OBVIOUS
  <2>1. ReplicaCost(o, repo, prices[o]) \in Int /\ ReplicaCost(o, head, prices[o]) \in Int /\ pods[o] \in Int
    BY <1>1, <1>2, ReplicaCostIsInteger
  <2> QED
    BY <2>1
<1>7. ASSUME NEW o \in D
      PROVE  /\ IsFiniteSet(family[o])
             /\ less[o] = SumFunctionOnSet(part, family[o])
  <2> DEFINE old == [c \in C(o) |-> Old(o, c)]
             new == [c \in C(o) |-> New(o, c)]
             diff == [c \in C(o) |-> Old(o, c) - New(o, c)]
             mine == [c \in C(o) |-> part[<<o, c>>]]
             name == [c \in C(o) |-> <<o, c>>]
  <2>1. ReplicaCost(o, repo, prices[o]) = SumFunction(old) /\ ReplicaCost(o, head, prices[o]) = SumFunction(new)
    BY <1>2 DEF ReplicaCost
  <2>2. DOMAIN old = C(o) /\ DOMAIN new = C(o)
    OBVIOUS
  <2>3. \A c \in C(o) : old[c] \in Int /\ new[c] \in Int /\ diff[c] = old[c] - new[c]
    BY <1>3
  <2>4. \A c \in C(o) : diff[c] \in Int /\ mine[c] = diff[c] * pods[o]
    BY <1>3, <1>4
  <2>5. \A c \in C(o) : mine[c] = part[name[c]] /\ mine[c] \in Int
    BY <1>5
  <2>6. \A c, d \in C(o) : name[c] = name[d] => c = d
    OBVIOUS
  <2>7. family[o] = {name[c] : c \in C(o)}
    BY Zenon
  <2>8. IsFiniteSet(C(o)) /\ pods[o] \in Int
    BY <1>2
  <2>9. less[o] = (ReplicaCost(o, repo, prices[o]) * pods[o]) - (ReplicaCost(o, head, prices[o]) * pods[o])
    OBVIOUS
  <2> HIDE DEF old, new, diff, mine, name, C, part, family, less
  <2>10. SumFunctionOnSet(diff, C(o)) = SumFunctionOnSet(old, C(o)) - SumFunctionOnSet(new, C(o))
    BY <2>3, <2>8, SumOfDifference
  <2>11. SumFunctionOnSet(mine, C(o)) = SumFunctionOnSet(diff, C(o)) * pods[o]
    BY <2>4, <2>8, SumOfMultiples
  <2>12. SumFunctionOnSet(part, {name[c] : c \in C(o)}) = SumFunctionOnSet(mine, C(o))
    BY <2>5, <2>6, <2>8, SumRenamed
  <2>13. SumFunctionOnSet(old, C(o)) \in Int /\ SumFunctionOnSet(new, C(o)) \in Int
    BY <2>3, <2>8, SumIsInteger
  <2>14. /\ ReplicaCost(o, repo, prices[o]) = SumFunctionOnSet(old, C(o))
         /\ ReplicaCost(o, head, prices[o]) = SumFunctionOnSet(new, C(o))
    BY <2>1, <2>2 DEF SumFunction
  <2>15. less[o] = SumFunctionOnSet(mine, C(o))
    BY <2>8, <2>9, <2>10, <2>11, <2>13, <2>14
  <2>16. IsFiniteSet({name[c] : c \in C(o)})
    BY <2>8, ImageIsFinite
  <2> QED
    BY <2>7, <2>12, <2>15, <2>16, Zenon
<1>8. \A o \in D : \A k \in family[o] : k \in Keys /\ k[1] = o /\ part[k] \in Int
  <2> SUFFICES ASSUME NEW o \in D, NEW k \in family[o]
               PROVE  k \in Keys /\ k[1] = o /\ part[k] \in Int
    OBVIOUS
  <2>1. PICK c \in C(o) : k = <<o, c>>
    OBVIOUS
  <2> HIDE DEF part, C, family
  <2> QED
    BY <1>4, <1>5, <2>1
<1>9. \A v, w \in D : v # w => family[v] \cap family[w] = {}
  <2> SUFFICES ASSUME NEW v \in D, NEW w \in D, NEW k \in family[v], k \in family[w]
               PROVE  v = w
    OBVIOUS
  <2> HIDE DEF family
  <2> QED
    BY <1>8
<1>10. \A r \in set : IsOf(r, repo, asked, found)
  BY ScanMembers
<1>11. \A r \in set : /\ key[r] \in all /\ worth[r] \in Int
                      /\ part[key[r]] = worth[r]
  <2> SUFFICES ASSUME NEW r \in set
               PROVE  key[r] \in all /\ worth[r] \in Int /\ part[key[r]] = worth[r]
    OBVIOUS
  <2> DEFINE o == r.of
             c == r.container
  <2>1. o \in D /\ c \in C(o) /\ r.current = AmountsOf(repo[o].requests[c])
    BY <1>10 DEF IsOf
  <2>2. key[r] = <<o, c>> /\ Key(r) = <<o, c>>
    BY DEF Key
  <2>3. key[r] \in family[o]
    BY <2>1, <2>2
  <2>4. key[r] \in all
    BY <2>1, <2>3
  <2>5. AmountsOf(head[o].requests[c]) = r.proposed
    BY <2>1, <2>2 DEF OnlyPatched
  <2>6. /\ Old(o, c) = MonthlyCost(r.current, prices[o])
        /\ New(o, c) = MonthlyCost(r.proposed, prices[o])
    BY <2>1, <2>5
  <2>7. worth[r] = (Old(o, c) - New(o, c)) * pods[o]
    BY <2>6 DEF IsWorth, Worth
  <2>8. part[<<o, c>>] = (Old(o, c) - New(o, c)) * pods[o] /\ part[<<o, c>>] \in Int
    BY <1>4, <1>5, <2>1
  <2> HIDE DEF Old, New, part, all, key, o, c
  <2> QED
    BY <2>2, <2>4, <2>7, <2>8
<1>12. ASSUME NEW k \in all \ {key[r] : r \in set}
       PROVE  part[k] = 0
  <2>1. PICK o \in D : k \in family[o]
    OBVIOUS
  <2>2. PICK c \in C(o) : k = <<o, c>>
    BY <2>1
  <2>3. \A r \in set : Key(r) # <<o, c>>
    BY <1>12, <2>2
  <2>4. head[o].requests[c] = repo[o].requests[c]
    BY <2>2, <2>3 DEF OnlyPatched
  <2>5. Old(o, c) = New(o, c)
    BY <2>4
  <2>6. part[k] = (Old(o, c) - New(o, c)) * pods[o]
    BY <1>4, <2>2
  <2>7. Old(o, c) \in Int /\ pods[o] \in Int
    BY <1>2, <1>3, <2>2
  <2> HIDE DEF Old, New, part
  <2> QED
    BY <2>5, <2>6, <2>7
<1>13. \A r, q \in set : key[r] = key[q] => r = q
  BY KeysDiffer
<1>14. \A r \in set : worth[r] = part[key[r]] /\ worth[r] \in Int
  BY <1>11
<1>15. IsFiniteSet(set)
  BY ScanIsFinite, FS_Subset
<1>16. DOMAIN before = D /\ DOMAIN after = D
  OBVIOUS
<1>17. after = [o \in DOMAIN head |-> ReplicaCost(o, head, prices[o]) * pods[o]]
  BY <1>1
<1>18. \A o \in D : less[o] = before[o] - after[o]
  OBVIOUS
<1> HIDE DEF before, after, less, family, part, key, D, C, Old, New
<1>19. SumFunctionOnSet(less, D) = SumFunctionOnSet(before, D) - SumFunctionOnSet(after, D)
  BY <1>1, <1>6, <1>18, SumOfDifference
<1>20. /\ IsFiniteSet(all)
       /\ SumFunctionOnSet(part, all) = SumFunctionOnSet(less, D)
  <2>1. \A o \in D : IsFiniteSet(family[o]) /\ less[o] = SumFunctionOnSet(part, family[o])
    BY <1>7
  <2>2. \A o \in D : \A k \in family[o] : part[k] \in Int
    BY <1>8
  <2>3. /\ IsFiniteSet(UNION {family[o] : o \in D})
        /\ SumFunctionOnSet(part, UNION {family[o] : o \in D}) = SumFunctionOnSet(less, D)
    <3>1. IsFiniteSet(D)
      BY <1>1
    <3>2. \A v, w \in D : v # w => family[v] \cap family[w] = {}
      BY <1>9
    <3> HIDE DEF all
    <3>3. IsFiniteSet(UNION {family[o] : o \in D})
      <4>1. IsFiniteSet({family[o] : o \in D})
        BY <3>1, ImageIsFinite
      <4>2. \A T \in {family[o] : o \in D} : IsFiniteSet(T)
        BY <2>1
      <4> QED
        BY <4>1, <4>2, FS_UNION
    <3>4. SumFunctionOnSet(part, UNION {family[o] : o \in D}) = SumFunctionOnSet(less, D)
      BY <2>1, <2>2, <3>1, <3>2, SumOfFamily
    <3> QED
      BY <3>3, <3>4
  <2> QED
    BY <2>3, Zenon
<1>21. SumFunctionOnSet(part, all) = SumFunctionOnSet(part, {key[r] : r \in set})
  <2>1. \A k \in all : part[k] \in Int
    BY <1>8
  <2>2. {key[r] : r \in set} \in SUBSET all
    BY <1>11
  <2> HIDE DEF all
  <2> QED
    BY <1>12, <1>20, <2>1, <2>2, SumWithoutZeros
<1>22. SumFunctionOnSet(part, {key[r] : r \in set}) = SumFunctionOnSet(worth, set)
  BY <1>13, <1>14, <1>15, SumRenamed
<1>23. SumFunction(before) - SumFunction(after) = SumFunctionOnSet(worth, set)
  BY <1>16, <1>19, <1>20, <1>21, <1>22 DEF SumFunction
<1> QED
  BY <1>11, <1>17, <1>23 DEF Bill, before, D
-----------------------------------------------------------------------------
(* The invariant *)

Patches == [container : Containers, requests : Amounts]

\* The file of r is as it was written.
Holds(r) == NameOf(r) \in DOMAIN dir /\ dir[NameOf(r)] = PatchOf(r)

OfScan(set, base, asked, prices) ==
  /\ IsRepository(base) /\ asked \in Needs /\ prices \in Prices
  /\ set \subseteq Scan(base, asked, prices)

\* A file of a running command is to be written or has been.
IsRunning(c) ==
  /\ DOMAIN c = {"queue", "top", "grow", "set", "base", "asked", "prices"}
  /\ OfScan(c.set, c.base, c.asked, c.prices)
  /\ c.queue \in Seq(c.set)
  /\ NamesDiffer(c.set) => \A r \in c.set : r \in Range(c.queue) \/ Holds(r)

IsChangeSet(a) == OfScan(a.set, a.base, a.asked, a.prices) /\ a.saved = TotalSaved(a.set)

\* The branch of a change set is main with its proposals, if files tell them apart and
\* main is what was scanned.
IsReviewed(b) ==
  /\ IsRepository(b.head)
  /\ b.of # None =>
       /\ IsChangeSet(b.of)
       /\ b.of.base = main /\ Unambiguous(b.of.set) => OnlyPatched(main, b.of.set, b.head)

Files == \A n \in DOMAIN dir : dir[n] \in Patches \cup {Truncated}

Pending == command # None => announced = None /\ IsRunning(command)

Announced ==
  announced # None =>
    /\ IsChangeSet(announced)
    /\ NamesDiffer(announced.set) => \A r \in announced.set : Holds(r)

UnderReview == branch # None => IsReviewed(branch)

ReviewInv ==
  /\ IsRepository(main) /\ need \in Needs /\ events \in 0 .. MaxEvents
  /\ Files /\ Pending /\ Announced /\ UnderReview

-----------------------------------------------------------------------------
(* What the invariant says of the properties *)

LEMMA HeadlineIsNatural ==
  ASSUME NEW repo, NEW asked, NEW prices, NEW set, OfScan(set, repo, asked, prices)
  PROVE  /\ TotalSaved(set) \in Nat
         /\ TotalSaved(set) - Growth(set) = SumFunction([r \in set |-> r.saving])
<1> DEFINE gain == [r \in set |-> IF r.saving > 0 THEN r.saving ELSE 0]
           loss == [r \in set |-> IF r.saving < 0 THEN -r.saving ELSE 0]
           net == [r \in set |-> r.saving]
<1>1. IsFiniteSet(set)
  BY ScanIsFinite, FS_Subset DEF OfScan
<1>2. \A r \in set : r.saving \in Int
  BY ScanMembers DEF OfScan, IsOf
<1>3. \A r \in set : gain[r] \in Nat /\ loss[r] \in Nat /\ net[r] = gain[r] - loss[r]
  BY <1>2
<1>4. /\ DOMAIN gain = set /\ DOMAIN loss = set /\ DOMAIN net = set
      /\ TotalSaved(set) = SumFunction(gain) /\ Growth(set) = SumFunction(loss)
  BY DEF TotalSaved, Growth
<1> HIDE DEF gain, loss, net
<1>5. SumFunctionOnSet(gain, set) \in Nat
  BY <1>1, <1>3, SumIsNatural
<1>6. SumFunctionOnSet(net, set) = SumFunctionOnSet(gain, set) - SumFunctionOnSet(loss, set)
  BY <1>1, <1>3, SumOfDifference
<1>7. TotalSaved(set) \in Nat /\ TotalSaved(set) - Growth(set) = SumFunction(net)
  BY <1>4, <1>5, <1>6 DEF SumFunction
<1> QED
  BY <1>7 DEF net

LEMMA TypeFromInv == ReviewInv => TypeOK
<1> SUFFICES ASSUME ReviewInv PROVE TypeOK
  OBVIOUS
<1>1. ASSUME NEW n \in DOMAIN dir, dir[n] # Truncated
      PROVE  dir[n].container \in Containers /\ dir[n].requests \in Amounts
  BY <1>1 DEF ReviewInv, Files, Patches
<1>2. ASSUME command # None
      PROVE  /\ \A r \in command.set : IsRecommendation(r)
             /\ Range(command.queue) \subseteq command.set
             /\ IsRepository(command.base) /\ command.prices \in Prices
  <2>1. OfScan(command.set, command.base, command.asked, command.prices) /\ command.queue \in Seq(command.set)
    BY <1>2 DEF ReviewInv, Pending, IsRunning
  <2>2. \A r \in command.set : IsOf(r, command.base, command.asked, command.prices)
    BY <2>1, ScanMembers DEF OfScan
  <2>3. \A r \in command.set : IsRecommendation(r)
    BY <2>2 DEF IsOf, IsRecommendation
  <2>4. Range(command.queue) \subseteq command.set
    BY <2>1 DEF Range
  <2> QED
    BY <2>1, <2>3, <2>4 DEF OfScan
<1>3. announced # None => announced.saved \in Nat
  BY HeadlineIsNatural DEF ReviewInv, Announced, IsChangeSet
<1>4. branch # None => IsRepository(branch.head)
  BY DEF ReviewInv, UnderReview, IsReviewed
<1> QED
  BY <1>1, <1>2, <1>3, <1>4 DEF ReviewInv, TypeOK

LEMMA CompleteFromInv == ReviewInv => CompleteWhenAnnounced
BY DEF ReviewInv, Announced, Holds, CompleteWhenAnnounced

\* Where all quantities are strings, kubetidy cost prices what the manifests ask for.
LEMMA StringsArePriced ==
  ASSUME NEW repo, StringsOnly(repo), NEW o \in DOMAIN repo
  PROVE  CostAt(o, repo) = ReplicaCost(o, repo, Rate) * Billed(Parsed(o, repo))
<1>1. \A c \in DOMAIN repo[o].requests :
        ParsedRequests(repo[o].requests[c]) = AmountsOf(repo[o].requests[c])
  BY DEF StringsOnly, ParsedRequests
<1>2. [c \in DOMAIN repo[o].requests |->
         MonthlyCost(ParsedRequests(repo[o].requests[c]), Rate)]
      = [c \in DOMAIN repo[o].requests |-> MonthlyCost(AmountsOf(repo[o].requests[c]), Rate)]
  BY <1>1
<1>3. WorkloadCost(o, repo) = ReplicaCost(o, repo, Rate) * Billed(Parsed(o, repo))
  BY <1>2, Zenon DEF WorkloadCost, ReplicaCost
<1> QED
  BY <1>3 DEF CostAt

LEMMA PricesAreIntegers ==
  ASSUME NEW repo, IsRepository(repo), NEW o \in DOMAIN repo
  PROVE  /\ ReplicaCost(o, repo, Rate) * Billed(Parsed(o, repo)) \in Int
         /\ Billed(Parsed(o, repo)) \in Int /\ Billed(Discovered(o, repo)) \in Int
<1>1. Discovered(o, repo) \in Nat /\ Parsed(o, repo) \in Nat
  BY ReplicasAreNatural
<1>2. Billed(Parsed(o, repo)) \in Int /\ Billed(Discovered(o, repo)) \in Int
  BY <1>1, BilledIsPositive
<1>3. ReplicaCost(o, repo, Rate) \in Int
  BY ReplicaCostIsInteger, RateIsPrice
<1> QED
  BY <1>2, <1>3

\* Then the delta that it reports is what the bill goes up by.
LEMMA DeltaIsOfBills ==
  ASSUME NEW base, IsRepository(base), StringsOnly(base),
         NEW head, IsRepository(head), StringsOnly(head)
  PROVE  /\ ManifestCost(base) \in Int /\ ManifestCost(head) \in Int
         /\ NetDelta(base, head) = ManifestCost(head) - ManifestCost(base)
<1> DEFINE U == DOMAIN head \cup DOMAIN base
           B == DOMAIN base
           H == DOMAIN head
           f == [o \in U |-> CostAt(o, head)]
           g == [o \in U |-> CostAt(o, base)]
           d == [o \in U |-> CostAt(o, head) - CostAt(o, base)]
           fh == [o \in H |-> ReplicaCost(o, head, Rate) * Billed(Parsed(o, head))]
           gb == [o \in B |-> ReplicaCost(o, base, Rate) * Billed(Parsed(o, base))]
<1>1. IsFiniteSet(H) /\ IsFiniteSet(B) /\ IsFiniteSet(U)
  BY FS_Union DEF IsRepository
<1>2. \A o \in H : fh[o] \in Int /\ f[o] = fh[o]
  BY StringsArePriced, PricesAreIntegers
<1>3. \A o \in B : gb[o] \in Int /\ g[o] = gb[o]
  BY StringsArePriced, PricesAreIntegers
<1>4. (\A o \in U \ H : f[o] = 0) /\ (\A o \in U \ B : g[o] = 0)
  BY DEF CostAt
<1>5. H \in SUBSET U /\ B \in SUBSET U
  OBVIOUS
<1>6. \A o \in U : d[o] = f[o] - g[o]
  OBVIOUS
<1>7. DOMAIN fh = H /\ DOMAIN gb = B /\ DOMAIN d = U
  OBVIOUS
<1>8. /\ ManifestCost(head) = SumFunction(fh) /\ ManifestCost(base) = SumFunction(gb)
      /\ NetDelta(base, head) = SumFunction(d)
  BY DEF ManifestCost, NetDelta
<1> HIDE DEF f, g, d, fh, gb, U, H, B
<1>9. \A o \in U : f[o] \in Int /\ g[o] \in Int
  BY <1>2, <1>3, <1>4
<1>10. SumFunctionOnSet(d, U) = SumFunctionOnSet(f, U) - SumFunctionOnSet(g, U)
  BY <1>1, <1>6, <1>9, SumOfDifference
<1>11. SumFunctionOnSet(f, U) = SumFunctionOnSet(f, H)
  BY <1>1, <1>4, <1>5, <1>9, SumWithoutZeros
<1>12. SumFunctionOnSet(g, U) = SumFunctionOnSet(g, B)
  BY <1>1, <1>4, <1>5, <1>9, SumWithoutZeros
<1>13. SumFunctionOnSet(f, H) = SumFunctionOnSet(fh, H)
  BY <1>1, <1>2, SumOfSame
<1>14. SumFunctionOnSet(g, B) = SumFunctionOnSet(gb, B)
  BY <1>1, <1>3, SumOfSame
<1>15. SumFunctionOnSet(fh, H) \in Int /\ SumFunctionOnSet(gb, B) \in Int
  BY <1>1, <1>2, <1>3, SumIsInteger
<1> QED
  BY <1>7, <1>8, <1>10, <1>11, <1>12, <1>13, <1>14, <1>15 DEF SumFunction

\* cost's price, for every workload.
Flat == [o \in Objects |-> Rate]

\* The replicas that the two tools count.
Running(repo) == [o \in DOMAIN repo |-> Billed(Discovered(o, repo))]
Declared(repo) == [o \in DOMAIN repo |-> Billed(Parsed(o, repo))]

LEMMA BillingsAreTyped ==
  ASSUME NEW repo, IsRepository(repo), NEW prices \in Prices
  PROVE  /\ IsBilling(repo, prices, Running(repo))
         /\ IsBilling(repo, Flat, Declared(repo))
<1>1. DOMAIN repo \subseteq Objects
  BY DEF IsRepository
<1>2. \A o \in DOMAIN repo : /\ Running(repo)[o] \in Int /\ Declared(repo)[o] \in Int
                             /\ prices[o] \in Price /\ Flat[o] \in Price
  BY <1>1, PricesAreIntegers, PricesAreTyped, RateIsPrice DEF Running, Declared, Flat
<1> QED
  BY <1>2 DEF IsBilling

\* The bills of a repository and of its branch, over the replicas of the one.
LEMMA BillsOfBranch ==
  ASSUME IsRepository(main), NEW set, NEW head, IsRepository(head),
         OnlyPatched(main, set, head), NEW prices
  PROVE  /\ FleetCost(main, prices) = Bill(main, prices, Running(main))
         /\ FleetCost(head, prices) = Bill(head, prices, Running(main))
         /\ ManifestCost(main) = Bill(main, Flat, Declared(main))
         /\ ManifestCost(head) = Bill(head, Flat, Declared(main))
<1>1. DOMAIN head = DOMAIN main /\ \A o \in DOMAIN main : o \in Objects
  BY DEF OnlyPatched, IsRepository
<1>2. \A o \in DOMAIN main :
        Discovered(o, head) = Discovered(o, main) /\ Parsed(o, head) = Parsed(o, main)
  BY DEF OnlyPatched, Discovered, Parsed
<1>3. \A o \in DOMAIN main :
        /\ Running(main)[o] = Billed(Discovered(o, main))
        /\ Running(main)[o] = Billed(Discovered(o, head))
        /\ Declared(main)[o] = Billed(Parsed(o, main))
        /\ Declared(main)[o] = Billed(Parsed(o, head))
        /\ Flat[o] = Rate
  BY <1>1, <1>2 DEF Running, Declared, Flat
<1>4. [o \in DOMAIN main |-> ReplicaCost(o, main, prices[o]) * Billed(Discovered(o, main))]
      = [o \in DOMAIN main |-> ReplicaCost(o, main, prices[o]) * Running(main)[o]]
  BY <1>3
<1>5. [o \in DOMAIN head |-> ReplicaCost(o, head, prices[o]) * Billed(Discovered(o, head))]
      = [o \in DOMAIN head |-> ReplicaCost(o, head, prices[o]) * Running(main)[o]]
  BY <1>1, <1>3
<1>6. [o \in DOMAIN main |-> ReplicaCost(o, main, Rate) * Billed(Parsed(o, main))]
      = [o \in DOMAIN main |-> ReplicaCost(o, main, Flat[o]) * Declared(main)[o]]
  BY <1>3
<1>7. [o \in DOMAIN head |-> ReplicaCost(o, head, Rate) * Billed(Parsed(o, head))]
      = [o \in DOMAIN head |-> ReplicaCost(o, head, Flat[o]) * Declared(main)[o]]
  BY <1>1, <1>3
<1> QED
  BY <1>4, <1>5, <1>6, <1>7, Zenon DEF FleetCost, ManifestCost, Bill

\* Asking for less is never worth less than nothing.
LEMMA ReductionIsWorth ==
  ASSUME NEW a \in Amounts, NEW b \in Amounts, b.cpu <= a.cpu, b.memory <= a.memory,
         NEW price \in Price, NEW n \in Nat
  PROVE  (MonthlyCost(a, price) - MonthlyCost(b, price)) * n \in Nat
<1>1. /\ a.cpu - b.cpu \in Nat /\ a.memory - b.memory \in Nat
      /\ a.cpu \in Nat /\ a.memory \in Nat /\ b.cpu \in Nat /\ b.memory \in Nat
  BY DEF Amounts
<1> DEFINE p == NonNegative(price.cpu)
           q == NonNegative(price.memory)
<1>2. p \in Nat /\ q \in Nat
  BY DEF Price, NonNegative
<1>3. /\ MonthlyCost(a, price) = a.cpu * p + a.memory * q
      /\ MonthlyCost(b, price) = b.cpu * p + b.memory * q
  BY DEF MonthlyCost
<1> HIDE DEF p, q
<1>4. MonthlyCost(a, price) - MonthlyCost(b, price)
        = (a.cpu - b.cpu) * p + (a.memory - b.memory) * q
  <2>1. /\ (a.cpu - b.cpu) * p = a.cpu * p - b.cpu * p
        /\ (a.memory - b.memory) * q = a.memory * q - b.memory * q
    BY <1>1, <1>2, Distributes
  <2>2. a.cpu * p \in Nat /\ b.cpu * p \in Nat /\ a.memory * q \in Nat /\ b.memory * q \in Nat
    BY <1>1, <1>2, ProductOfNaturals
  <2> QED
    BY <1>3, <2>1, <2>2
<1>5. (a.cpu - b.cpu) * p \in Nat /\ (a.memory - b.memory) * q \in Nat
  BY <1>1, <1>2, ProductOfNaturals
<1>6. MonthlyCost(a, price) - MonthlyCost(b, price) \in Nat
  BY <1>4, <1>5
<1> QED
  BY <1>6, ProductOfNaturals

\* A branch that only has the proposals takes off the bill what they are said to save.
LEMMA BranchSaves ==
  ASSUME NEW asked, NEW found, NEW set, OfScan(set, main, asked, found),
         NEW head, IsRepository(head), OnlyPatched(main, set, head)
  PROVE  FleetCost(main, found) - FleetCost(head, found) = TotalSaved(set) - Growth(set)
<1> DEFINE saving == [r \in set |-> r.saving]
<1>1. /\ IsRepository(main) /\ asked \in Needs /\ found \in Prices
      /\ set \in SUBSET Scan(main, asked, found)
  BY DEF OfScan
<1>2. IsBilling(main, found, Running(main))
  BY <1>1, BillingsAreTyped
<1>3. IsWorth(saving, set, found, Running(main))
  <2> SUFFICES ASSUME NEW r \in set
               PROVE  saving[r] = Worth(r, found, Running(main))
    BY DEF IsWorth
  <2>1. IsOf(r, main, asked, found)
    BY <1>1, ScanMembers
  <2>2. Running(main)[r.of] = Billed(Discovered(r.of, main))
    BY <2>1 DEF IsOf, Running
  <2> QED
    BY <2>1, <2>2 DEF IsOf, Worth
<1>4. DOMAIN saving = set
  OBVIOUS
<1> HIDE DEF saving
<1>5. Bill(main, found, Running(main)) - Bill(head, found, Running(main))
        = SumFunctionOnSet(saving, set)
  BY <1>1, <1>2, <1>3, BillGoesDown
<1>6. FleetCost(main, found) - FleetCost(head, found) = SumFunction(saving)
  BY <1>1, <1>4, <1>5, BillsOfBranch DEF SumFunction
<1>7. TotalSaved(set) - Growth(set) = SumFunction(saving)
  BY HeadlineIsNatural DEF saving
<1> QED
  BY <1>6, <1>7

\* What kubetidy cost makes of it, by its own price and count of replicas.
LEMMA BranchIsPriced ==
  ASSUME NEW asked, NEW found, NEW set, OfScan(set, main, asked, found),
         NEW head, IsRepository(head), OnlyPatched(main, set, head)
  PROVE  /\ (\A r \in set : Kind[r.of] # "DaemonSet" /\ found[r.of] = Rate) =>
              ManifestCost(main) - ManifestCost(head) = TotalSaved(set) - Growth(set)
         /\ OnlyReduces(set) => ManifestCost(main) - ManifestCost(head) >= 0
<1> DEFINE worth == [r \in set |-> Worth(r, Flat, Declared(main))]
           saving == [r \in set |-> r.saving]
<1>1. /\ IsRepository(main) /\ asked \in Needs /\ found \in Prices
      /\ set \in SUBSET Scan(main, asked, found)
  BY DEF OfScan
<1>2. IsBilling(main, Flat, Declared(main))
  BY <1>1, BillingsAreTyped
<1>3. IsWorth(worth, set, Flat, Declared(main))
  BY DEF IsWorth
<1>4. \A r \in set : saving[r] = r.saving
  OBVIOUS
<1>5. \A r \in set : IsOf(r, main, asked, found)
  BY <1>1, ScanMembers
<1>6. DOMAIN saving = set /\ IsFiniteSet(set)
  BY <1>1, ScanIsFinite, FS_Subset
<1>7. TotalSaved(set) - Growth(set) = SumFunctionOnSet(saving, set)
  BY <1>6, HeadlineIsNatural DEF SumFunction
<1> HIDE DEF worth, saving
<1>8. /\ \A r \in set : worth[r] \in Int
      /\ Bill(main, Flat, Declared(main)) - Bill(head, Flat, Declared(main))
           = SumFunctionOnSet(worth, set)
  <2> DEFINE pods == Declared(main)
             prices == Flat
  <2>1. IsBilling(main, prices, pods) /\ IsWorth(worth, set, prices, pods)
    BY <1>2, <1>3
  <2> HIDE DEF pods, prices
  <2>2. /\ \A r \in set : worth[r] \in Int
        /\ Bill(main, prices, pods) - Bill(head, prices, pods) = SumFunctionOnSet(worth, set)
    <3>1. \A r \in set : worth[r] \in Int
      BY <1>1, <2>1, BillGoesDown
    <3>2. Bill(main, prices, pods) - Bill(head, prices, pods) = SumFunctionOnSet(worth, set)
      BY <1>1, <2>1, BillGoesDown
    <3> QED
      BY <3>1, <3>2
  <2> QED
    BY <2>2 DEF pods, prices
<1>9. ManifestCost(main) - ManifestCost(head) = SumFunctionOnSet(worth, set)
  BY <1>1, <1>8, BillsOfBranch
<1>10. \A r \in set : Flat[r.of] = Rate /\ Declared(main)[r.of] = Billed(Parsed(r.of, main))
  BY <1>5 DEF IsOf, Flat, Declared
<1>11. ASSUME \A r \in set : Kind[r.of] # "DaemonSet" /\ found[r.of] = Rate
       PROVE  ManifestCost(main) - ManifestCost(head) = TotalSaved(set) - Growth(set)
  <2>1. ASSUME NEW r \in set
        PROVE  worth[r] = saving[r]
    <3>1. Discovered(r.of, main) = Parsed(r.of, main) /\ found[r.of] = Rate
      BY <1>11, ReplicasAreCountedAlike
    <3>2. r.saving = (MonthlyCost(r.current, Rate) - MonthlyCost(r.proposed, Rate))
                       * Billed(Parsed(r.of, main))
      BY <1>5, <3>1 DEF IsOf
    <3> QED
      BY <1>3, <1>4, <1>10, <3>2 DEF IsWorth, Worth
  <2>2. SumFunctionOnSet(worth, set) = SumFunctionOnSet(saving, set)
    BY <1>6, <1>8, <2>1, SumOfSame
  <2> QED
    BY <1>7, <1>9, <2>2
<1>12. ASSUME OnlyReduces(set)
       PROVE  ManifestCost(main) - ManifestCost(head) >= 0
  <2>1. ASSUME NEW r \in set
        PROVE  worth[r] \in Nat
    <3>1. /\ r.current \in Amounts /\ r.proposed \in Amounts
          /\ r.proposed.cpu <= r.current.cpu /\ r.proposed.memory <= r.current.memory
      BY <1>5, <1>12 DEF IsOf, OnlyReduces
    <3>2. Billed(Parsed(r.of, main)) \in Nat
      BY <1>1, <1>5, ReplicasAreNatural, BilledIsPositive DEF IsOf
    <3>3. (MonthlyCost(r.current, Rate) - MonthlyCost(r.proposed, Rate))
            * Billed(Parsed(r.of, main)) \in Nat
      BY <3>1, <3>2, RateIsPrice, ReductionIsWorth
    <3> QED
      BY <1>3, <1>10, <3>3 DEF IsWorth, Worth
  <2>2. SumFunctionOnSet(worth, set) \in Nat
    BY <1>6, <2>1, SumIsNatural
  <2> QED
    BY <1>9, <2>2
<1> QED
  BY <1>11, <1>12

LEMMA SavingsFromInv == ReviewInv => SavingsAreReal
<1> DEFINE set == branch.of.set
           head == branch.head
           found == branch.of.prices
           saved == branch.of.saved - Growth(set)
<1> SUFFICES ASSUME ReviewInv, Faithful
             PROVE  /\ FleetCost(main, found) - FleetCost(head, found) = saved
                    /\ CountedAlike => NetDelta(main, head) = -saved
                    /\ StringsOnly(main) /\ OnlyReduces(set) => NetDelta(main, head) <= 0
  BY DEF SavingsAreReal
<1>1. branch # None /\ branch.of # None /\ branch.of.base = main /\ Unambiguous(set)
  BY DEF Faithful
<1>2. IsReviewed(branch)
  BY <1>1 DEF ReviewInv, UnderReview
<1>3. /\ IsRepository(head) /\ IsChangeSet(branch.of) /\ OnlyPatched(main, set, head)
      /\ OfScan(set, main, branch.of.asked, found) /\ branch.of.saved = TotalSaved(set)
  BY <1>1, <1>2 DEF IsReviewed, IsChangeSet
<1>4. IsRepository(main)
  BY DEF ReviewInv
<1>5. CountedAlike =>
        StringsOnly(main) /\ \A r \in set : Kind[r.of] # "DaemonSet" /\ found[r.of] = Rate
  BY DEF CountedAlike
<1> HIDE DEF set, head, found
<1>6. FleetCost(main, found) - FleetCost(head, found) = TotalSaved(set) - Growth(set)
  BY <1>3, BranchSaves
<1>7. /\ (\A r \in set : Kind[r.of] # "DaemonSet" /\ found[r.of] = Rate) =>
           ManifestCost(main) - ManifestCost(head) = TotalSaved(set) - Growth(set)
      /\ OnlyReduces(set) => ManifestCost(main) - ManifestCost(head) >= 0
  BY <1>3, BranchIsPriced
<1>8. ASSUME StringsOnly(main)
      PROVE  /\ ManifestCost(main) \in Int /\ ManifestCost(head) \in Int
             /\ NetDelta(main, head) = ManifestCost(head) - ManifestCost(main)
  <2>1. StringsOnly(head)
    <3> SUFFICES ASSUME NEW o \in DOMAIN head, NEW c \in DOMAIN head[o].requests
                 PROVE  head[o].requests[c].quoted
      BY DEF StringsOnly
    <3>1. o \in DOMAIN main /\ c \in DOMAIN main[o].requests
      BY <1>3 DEF OnlyPatched
    <3> QED
      BY <1>3, <1>8, <3>1 DEF OnlyPatched, StringsOnly
  <2> QED
    BY <1>3, <1>4, <1>8, <2>1, DeltaIsOfBills
<1>9. saved = TotalSaved(set) - Growth(set)
  BY <1>3
<1> HIDE DEF saved
<1>10. ASSUME CountedAlike
       PROVE  NetDelta(main, head) = -saved
  BY <1>5, <1>7, <1>8, <1>9, <1>10
<1>11. ASSUME StringsOnly(main), OnlyReduces(set)
       PROVE  NetDelta(main, head) <= 0
  BY <1>7, <1>8, <1>11
<1> QED
  BY <1>6, <1>9, <1>10, <1>11

-----------------------------------------------------------------------------
(* Steps *)

LEMMA PatchOfScan ==
  ASSUME NEW repo, NEW asked, NEW prices, NEW set, OfScan(set, repo, asked, prices),
         NEW r \in set
  PROVE  PatchOf(r) \in Patches /\ PatchOf(r) # Truncated
<1>1. r.container \in Containers /\ r.proposed \in Amounts
  BY ScanMembers DEF OfScan, IsOf
<1>2. PatchOf(r) \in Patches
  BY <1>1 DEF PatchOf, Patches
<1> QED
  BY <1>2, TruncatedIsNoPatch DEF Patches

LEMMA PatchedType ==
  ASSUME NEW r \in Requests, NEW p \in Amounts
  PROVE  /\ Patched(r, p) \in Requests
         /\ r.quoted => Patched(r, p).quoted
BY DEF Requests, Amounts, Patched

\* A merge of a proposal makes the requests what is proposed.
LEMMA ProposalIsMerged ==
  ASSUME NEW r \in Requests, NEW asked \in Amounts
  PROVE  AmountsOf(Patched(r, Proposed(AmountsOf(r), asked))) = Proposed(AmountsOf(r), asked)
BY DEF Requests, Amounts, Patched, Proposed, AmountsOf

\* What a branch with all of the directory holds for a container.
MergedRequests(repo, files, o, c) ==
  IF /\ FileName[<<o, c>>] \in DOMAIN files
     /\ files[FileName[<<o, c>>]] # Truncated
     /\ files[FileName[<<o, c>>]].container = c
    THEN Patched(repo[o].requests[c], files[FileName[<<o, c>>]].requests)
    ELSE repo[o].requests[c]

LEMMA MergedShape ==
  ASSUME NEW repo, IsRepository(repo), NEW files
  PROVE  /\ DOMAIN Merged(repo, files) = DOMAIN repo
         /\ \A o \in DOMAIN repo :
              /\ DOMAIN Merged(repo, files)[o] = {"replicas", "requests"}
              /\ Merged(repo, files)[o].replicas = repo[o].replicas
              /\ DOMAIN Merged(repo, files)[o].requests = DOMAIN repo[o].requests
              /\ \A c \in DOMAIN repo[o].requests :
                   Merged(repo, files)[o].requests[c] = MergedRequests(repo, files, o, c)
<1>1. DOMAIN Merged(repo, files) = DOMAIN repo
  BY DEF Merged
<1>2. ASSUME NEW o \in DOMAIN repo
      PROVE  /\ DOMAIN Merged(repo, files)[o] = {"replicas", "requests"}
             /\ Merged(repo, files)[o].replicas = repo[o].replicas
             /\ DOMAIN Merged(repo, files)[o].requests = DOMAIN repo[o].requests
             /\ \A c \in DOMAIN repo[o].requests :
                  Merged(repo, files)[o].requests[c] = MergedRequests(repo, files, o, c)
  <2> DEFINE q == [c \in DOMAIN repo[o].requests |-> MergedRequests(repo, files, o, c)]
  <2>1. Merged(repo, files)[o] = [repo[o] EXCEPT !.requests = q]
    BY DEF Merged, MergedRequests
  <2>2. DOMAIN repo[o] = {"replicas", "requests"}
    BY DEF IsRepository, IsManifest
  <2>3. /\ DOMAIN q = DOMAIN repo[o].requests
        /\ \A c \in DOMAIN repo[o].requests : q[c] = MergedRequests(repo, files, o, c)
    OBVIOUS
  <2> HIDE DEF q
  <2>4. /\ DOMAIN Merged(repo, files)[o] = {"replicas", "requests"}
        /\ Merged(repo, files)[o].replicas = repo[o].replicas
        /\ Merged(repo, files)[o].requests = q
    BY <2>1, <2>2
  <2> QED
    BY <2>3, <2>4
<1> QED
  BY <1>1, <1>2

LEMMA MergedIsRepository ==
  ASSUME NEW repo, IsRepository(repo), Files
  PROVE  /\ IsRepository(Merged(repo, dir))
         /\ StringsOnly(repo) => StringsOnly(Merged(repo, dir))
<1> DEFINE head == Merged(repo, dir)
<1>1. /\ DOMAIN head = DOMAIN repo
      /\ \A o \in DOMAIN repo :
           /\ DOMAIN head[o] = {"replicas", "requests"}
           /\ head[o].replicas = repo[o].replicas
           /\ DOMAIN head[o].requests = DOMAIN repo[o].requests
           /\ \A c \in DOMAIN repo[o].requests :
                head[o].requests[c] = MergedRequests(repo, dir, o, c)
  BY MergedShape
<1>2. ASSUME NEW o \in DOMAIN repo, NEW c \in DOMAIN repo[o].requests
      PROVE  /\ MergedRequests(repo, dir, o, c) \in Requests
             /\ repo[o].requests[c].quoted => MergedRequests(repo, dir, o, c).quoted
  <2>1. repo[o].requests[c] \in Requests
    BY RequestsOfRepository
  <2> DEFINE name == FileName[<<o, c>>]
  <2>2. CASE name \in DOMAIN dir /\ dir[name] # Truncated /\ dir[name].container = c
    <3>1. dir[name].requests \in Amounts
      BY <2>2 DEF Files, Patches
    <3>2. MergedRequests(repo, dir, o, c) = Patched(repo[o].requests[c], dir[name].requests)
      BY <2>2 DEF MergedRequests
    <3> QED
      BY <2>1, <3>1, <3>2, PatchedType
  <2>3. CASE ~(name \in DOMAIN dir /\ dir[name] # Truncated /\ dir[name].container = c)
    BY <2>1, <2>3 DEF MergedRequests
  <2> QED
    BY <2>2, <2>3
<1> HIDE DEF head
<1>3. \A o \in DOMAIN repo : IsManifest(head[o])
  <2> SUFFICES ASSUME NEW o \in DOMAIN repo PROVE IsManifest(head[o])
    OBVIOUS
  <2>1. IsManifest(repo[o])
    BY DEF IsRepository
  <2> QED
    BY <1>1, <1>2, <2>1 DEF IsManifest
<1>4. IsRepository(head)
  BY <1>1, <1>3 DEF IsRepository
<1>5. ASSUME StringsOnly(repo), NEW o \in DOMAIN head, NEW c \in DOMAIN head[o].requests
      PROVE  head[o].requests[c].quoted
  <2>1. o \in DOMAIN repo /\ c \in DOMAIN repo[o].requests
    BY <1>1, <1>5
  <2> QED
    BY <1>1, <1>2, <1>5, <2>1 DEF StringsOnly
<1>6. StringsOnly(repo) => StringsOnly(head)
  BY <1>5 DEF StringsOnly
<1> QED
  BY <1>4, <1>6 DEF head

\* A directory with the files of an unambiguous change set, and no others, changes what
\* the change set says.
LEMMA MergedIsPatched ==
  ASSUME NEW a, IsChangeSet(a), a.base = main, Unambiguous(a.set),
         \A r \in a.set : Holds(r), DOMAIN dir \ {NameOf(r) : r \in a.set} = {}
  PROVE  OnlyPatched(main, a.set, Merged(main, dir))
<1> DEFINE set == a.set
           head == Merged(main, dir)
<1>1. IsRepository(main) /\ a.asked \in Needs /\ OfScan(set, main, a.asked, a.prices)
  BY DEF IsChangeSet, OfScan
<1>2. \A r \in set : IsOf(r, main, a.asked, a.prices)
  BY <1>1, ScanMembers DEF OfScan
<1>3. /\ DOMAIN head = DOMAIN main
      /\ \A o \in DOMAIN main :
           /\ head[o].replicas = main[o].replicas
           /\ DOMAIN head[o].requests = DOMAIN main[o].requests
           /\ \A c \in DOMAIN main[o].requests :
                head[o].requests[c] = MergedRequests(main, dir, o, c)
  BY <1>1, MergedShape
<1> HIDE DEF head
<1>4. ASSUME NEW o \in DOMAIN main, NEW c \in DOMAIN main[o].requests,
             NEW r \in set, Key(r) = <<o, c>>
      PROVE  /\ AmountsOf(head[o].requests[c]) = r.proposed
             /\ main[o].requests[c].quoted => head[o].requests[c].quoted
  <2>1. r.of = o /\ r.container = c /\ NameOf(r) = FileName[<<o, c>>]
    BY <1>4 DEF Key, NameOf
  <2>2. FileName[<<o, c>>] \in DOMAIN dir /\ dir[FileName[<<o, c>>]] = PatchOf(r)
    BY <2>1 DEF Holds
  <2>3. PatchOf(r) # Truncated /\ PatchOf(r).container = c /\ PatchOf(r).requests = r.proposed
    BY <1>1, <2>1, PatchOfScan DEF PatchOf
  <2>4. head[o].requests[c] = Patched(main[o].requests[c], r.proposed)
    BY <1>3, <2>2, <2>3 DEF MergedRequests
  <2>5. main[o].requests[c] \in Requests /\ r.proposed \in Amounts
    BY <1>1, <1>2, RequestsOfRepository DEF IsOf
  <2>6. r.proposed = Proposed(AmountsOf(main[o].requests[c]), a.asked[<<o, c>>])
    BY <1>2, <2>1 DEF IsOf, Proposal
  <2>7. a.asked[<<o, c>>] \in Amounts
    BY <1>1, <1>2, <1>4, NeedsAreAmounts DEF IsOf
  <2>8. AmountsOf(Patched(main[o].requests[c], r.proposed)) = r.proposed
    BY <2>5, <2>6, <2>7, ProposalIsMerged
  <2> QED
    BY <2>4, <2>5, <2>8, PatchedType
<1>5. ASSUME NEW o \in DOMAIN main, NEW c \in DOMAIN main[o].requests,
             \A r \in set : Key(r) # <<o, c>>
      PROVE  head[o].requests[c] = main[o].requests[c]
  <2>1. \A r \in set : FileName[<<o, c>>] # NameOf(r)
    BY <1>5 DEF Unambiguous
  <2>2. FileName[<<o, c>>] \notin DOMAIN dir
    BY <2>1
  <2> QED
    BY <1>3, <2>2 DEF MergedRequests
<1>6. ASSUME NEW o \in DOMAIN main, NEW c \in DOMAIN main[o].requests
      PROVE  /\ \A r \in set : Key(r) = <<o, c>> => AmountsOf(head[o].requests[c]) = r.proposed
             /\ (\A r \in set : Key(r) # <<o, c>>) => head[o].requests[c] = main[o].requests[c]
             /\ main[o].requests[c].quoted => head[o].requests[c].quoted
  BY <1>4, <1>5
<1> QED
  BY <1>3, <1>6 DEF OnlyPatched, head

\* Files that stand for one container each have names of their own.
LEMMA UnambiguousNamesDiffer ==
  ASSUME NEW set, NEW asked, NEW prices, OfScan(set, main, asked, prices), Unambiguous(set)
  PROVE  NamesDiffer(set)
<1> SUFFICES ASSUME NEW r \in set, NEW q \in set, NameOf(r) = NameOf(q)
             PROVE  r = q
  BY DEF NamesDiffer
<1>1. /\ r.of \in DOMAIN main /\ r.container \in DOMAIN main[r.of].requests
      /\ Key(r) = <<r.of, r.container>>
  BY ScanMembers DEF OfScan, IsOf, Key
<1>2. FileName[<<r.of, r.container>>] = NameOf(q)
  BY <1>1 DEF NameOf
<1>3. Key(r) = Key(q)
  BY <1>1, <1>2 DEF Unambiguous
<1> QED
  BY <1>3, KeysDiffer DEF OfScan
LEMMA ReviewInit == Init => ReviewInv
BY MainsAreRepositories, MaxEventsIsNatural
   DEF Init, ReviewInv, Files, Pending, Announced, UnderReview

LEMMA GenerateStep ==
  ASSUME ReviewInv, NEW top \in Tops, NEW grow \in BOOLEAN, NEW prices \in Prices,
         Generate(top, grow, prices)
  PROVE  ReviewInv'
<1> DEFINE queue == SelectRecommendations(Scan(main, need, prices), top, grow)
<1>1. IsRepository(main) /\ need \in Needs
  BY DEF ReviewInv
<1>2. queue \in Seq(Scan(main, need, prices))
  BY <1>1, QueueIsSelected
<1>3. /\ command' = None \/ command' = [queue |-> queue, top |-> top, grow |-> grow,
                                        set |-> Range(queue), base |-> main, asked |-> need,
                                        prices |-> prices]
      /\ announced' = None
      /\ UNCHANGED <<main, need, dir, branch, events>>
  BY DEF Generate
<1> HIDE DEF queue
<1>4. Range(queue) \subseteq Scan(main, need, prices) /\ queue \in Seq(Range(queue))
  <2>1. /\ Len(queue) \in Nat
        /\ queue = [i \in 1 .. Len(queue) |-> queue[i]]
        /\ DOMAIN queue = 1 .. Len(queue)
        /\ \A i \in 1 .. Len(queue) : queue[i] \in Scan(main, need, prices)
    BY <1>2
  <2>2. queue \in [1 .. Len(queue) -> Range(queue)]
    BY <2>1 DEF Range
  <2>3. Range(queue) \subseteq Scan(main, need, prices)
    BY <2>1 DEF Range
  <2> QED
    BY <2>1, <2>2, <2>3
<1>5. Pending'
  <2> SUFFICES ASSUME command' # None
               PROVE  announced' = None /\ IsRunning(command)'
    BY DEF Pending
  <2>1. command' = [queue |-> queue, top |-> top, grow |-> grow,
                    set |-> Range(queue), base |-> main, asked |-> need,
                    prices |-> prices]
    BY <1>3
  <2>2. /\ DOMAIN command' = {"queue", "top", "grow", "set", "base", "asked", "prices"}
        /\ command'.set = Range(queue) /\ command'.base = main /\ command'.asked = need
        /\ command'.prices = prices
        /\ command'.queue = queue
    BY <2>1
  <2>3. OfScan(command'.set, command'.base, command'.asked, command'.prices)
    BY <1>1, <1>4, <2>2 DEF OfScan
  <2>4. command'.queue \in Seq(command'.set)
    BY <1>4, <2>2
  <2>5. \A r \in command'.set : r \in Range(command'.queue)
    BY <2>2
  <2> QED
    BY <1>3, <2>2, <2>3, <2>4, <2>5 DEF IsRunning
<1> QED
  BY <1>3, <1>5 DEF ReviewInv, Files, Announced, UnderReview, IsReviewed, IsChangeSet, Unambiguous

LEMMA WriteFileStep ==
  ASSUME ReviewInv, WriteFile
  PROVE  ReviewInv'
<1>1. command # None /\ command.queue # <<>>
  BY DEF WriteFile
<1>2. announced = None /\ IsRunning(command)
  BY <1>1 DEF ReviewInv, Pending
<1> DEFINE r == Head(command.queue)
           set == command.set
<1>3. command.queue \in Seq(set) /\ OfScan(set, command.base, command.asked, command.prices)
  BY <1>2 DEF IsRunning
<1>4. /\ r \in set /\ Tail(command.queue) \in Seq(set)
      /\ \A q \in Range(command.queue) : q = r \/ q \in Range(Tail(command.queue))
  <2> DEFINE s == command.queue
  <2>1. s \in Seq(set) /\ s # <<>>
    BY <1>1, <1>3
  <2> HIDE DEF s, set
  <2>2. Head(s) \in set /\ Tail(s) \in Seq(set)
    BY <2>1
  <2>3. /\ Len(s) \in Nat \ {0} /\ DOMAIN s = 1 .. Len(s)
        /\ Len(Tail(s)) = Len(s) - 1 /\ DOMAIN Tail(s) = 1 .. Len(s) - 1
        /\ \A i \in 1 .. Len(s) - 1 : Tail(s)[i] = s[i + 1]
        /\ Head(s) = s[1]
    BY <2>1
  <2>4. ASSUME NEW i \in DOMAIN s, i # 1
        PROVE  s[i] \in Range(Tail(s))
    <3>1. i - 1 \in 1 .. Len(s) - 1 /\ Tail(s)[i - 1] = s[i]
      BY <2>3, <2>4
    <3>2. i - 1 \in DOMAIN Tail(s)
      BY <2>3, <3>1
    <3> QED
      BY <3>1, <3>2, Zenon DEF Range
  <2>5. \A q \in Range(s) : q = Head(s) \/ q \in Range(Tail(s))
    BY <2>3, <2>4 DEF Range
  <2> QED
    BY <2>2, <2>5 DEF s
<1>5. /\ dir' = Written(NameOf(r), PatchOf(r))
      /\ command' = [command EXCEPT !.queue = Tail(command.queue)]
      /\ UNCHANGED <<main, need, announced, branch, events>>
  BY DEF WriteFile
<1>6. PatchOf(r) \in Patches
  BY <1>3, <1>4, PatchOfScan
<1> HIDE DEF r
<1>7. /\ DOMAIN dir' = DOMAIN dir \cup {NameOf(r)}
      /\ dir'[NameOf(r)] = PatchOf(r)
      /\ \A n \in DOMAIN dir : n # NameOf(r) => dir'[n] = dir[n]
  BY <1>5 DEF Written
<1>8. Files'
  <2> SUFFICES ASSUME NEW n \in DOMAIN dir'
               PROVE  dir'[n] \in Patches \cup {Truncated}
    BY DEF Files, Patches
  <2>1. CASE n = NameOf(r)
    BY <1>6, <1>7, <2>1
  <2>2. CASE n # NameOf(r)
    BY <1>7, <2>2 DEF ReviewInv, Files
  <2> QED
    BY <2>1, <2>2
<1>9. /\ DOMAIN command' = DOMAIN command
      /\ command'.queue = Tail(command.queue) /\ command'.set = set
      /\ command'.base = command.base /\ command'.asked = command.asked
      /\ command'.prices = command.prices
  <2>1. DOMAIN command = {"queue", "top", "grow", "set", "base", "asked", "prices"}
    BY <1>2 DEF IsRunning
  <2> QED
    BY <1>5, <2>1
<1>10. ASSUME NamesDiffer(set), NEW q \in set
       PROVE  q \in Range(command'.queue) \/ Holds(q)'
  <2>1. CASE q = r
    BY <1>7, <2>1 DEF Holds
  <2>2. CASE q # r
    <3>1. NameOf(q) # NameOf(r)
      BY <1>4, <1>10, <2>2 DEF NamesDiffer, r
    <3>2. q \in Range(command.queue) \/ Holds(q)
      BY <1>2, <1>10 DEF IsRunning
    <3>3. CASE q \in Range(command.queue)
      BY <1>4, <1>9, <2>2, <3>3 DEF r
    <3>4. CASE Holds(q)
      BY <1>7, <3>1, <3>4 DEF Holds
    <3> QED
      BY <3>2, <3>3, <3>4
  <2> QED
    BY <2>1, <2>2
<1>11. IsRunning(command)'
  <2>1. DOMAIN command' = {"queue", "top", "grow", "set", "base", "asked", "prices"}
    BY <1>2, <1>9 DEF IsRunning
  <2>2. OfScan(command'.set, command'.base, command'.asked, command'.prices) /\ command'.queue \in Seq(command'.set)
    BY <1>3, <1>4, <1>9
  <2>3. NamesDiffer(command'.set) =>
          \A q \in command'.set : q \in Range(command'.queue) \/ Holds(q)'
    BY <1>9, <1>10
  <2> QED
    BY <2>1, <2>2, <2>3 DEF IsRunning
<1>12. Pending' /\ Announced'
  BY <1>2, <1>5, <1>11 DEF Pending, Announced
<1> QED
  BY <1>5, <1>8, <1>12 DEF ReviewInv, UnderReview, IsReviewed, IsChangeSet, Unambiguous

LEMMA WriteFailsStep ==
  ASSUME ReviewInv, WriteFails
  PROVE  ReviewInv'
<1>1. /\ command # None /\ events < MaxEvents /\ command' = None /\ events' = events + 1
      /\ UNCHANGED <<main, need, announced, branch>>
      /\ \/ dir' = dir
         \/ \E n : dir' = Written(n, Truncated)
  BY DEF WriteFails
<1>2. announced = None
  BY <1>1 DEF ReviewInv, Pending
<1>3. Files'
  <2>1. CASE dir' = dir
    BY <2>1 DEF ReviewInv, Files
  <2>2. CASE \E n : dir' = Written(n, Truncated)
    <3>1. PICK n : dir' = Written(n, Truncated)
      BY <2>2
    <3> QED
      BY <3>1 DEF ReviewInv, Files, Written
  <2> QED
    BY <1>1, <2>1, <2>2
<1>4. Pending' /\ Announced'
  BY <1>1, <1>2 DEF Pending, Announced
<1>5. UnderReview'
  BY <1>1 DEF ReviewInv, UnderReview, IsReviewed, IsChangeSet, Unambiguous
<1>6. events' \in 0 .. MaxEvents
  BY <1>1, MaxEventsIsNatural DEF ReviewInv
<1> QED
  BY <1>1, <1>3, <1>4, <1>5, <1>6 DEF ReviewInv

LEMMA AnnounceStep ==
  ASSUME ReviewInv, Announce
  PROVE  ReviewInv'
<1>1. /\ command # None /\ command.queue = <<>> /\ command' = None
      /\ announced' = [set |-> command.set, saved |-> TotalSaved(command.set),
                       grow |-> command.grow, base |-> command.base,
                       asked |-> command.asked, prices |-> command.prices]
      /\ UNCHANGED <<main, need, dir, branch, events>>
  BY DEF Announce
<1>2. IsRunning(command)
  BY <1>1 DEF ReviewInv, Pending
<1>3. /\ announced'.set = command.set /\ announced'.base = command.base
      /\ announced'.asked = command.asked /\ announced'.prices = command.prices
      /\ announced'.saved = TotalSaved(command.set)
  BY <1>1
<1>4. Range(command.queue) = {}
  BY <1>1 DEF Range
<1>5. NamesDiffer(command.set) => \A r \in command.set : Holds(r)
  BY <1>2, <1>4 DEF IsRunning
<1>6. \A r : Holds(r)' = Holds(r)
  BY <1>1 DEF Holds
<1>7. Announced'
  <2>1. IsChangeSet(announced)'
    BY <1>2, <1>3 DEF IsRunning, IsChangeSet
  <2>2. NamesDiffer(announced'.set) => \A r \in announced'.set : Holds(r)'
    BY <1>3, <1>5, <1>6
  <2> QED
    BY <2>1, <2>2 DEF Announced
<1>8. Pending' /\ Files'
  BY <1>1 DEF ReviewInv, Pending, Files
<1> QED
  BY <1>1, <1>7, <1>8 DEF ReviewInv, UnderReview, IsReviewed, IsChangeSet, Unambiguous

LEMMA OpenBranchStep ==
  ASSUME ReviewInv, OpenBranch
  PROVE  ReviewInv'
<1> DEFINE head == Merged(main, dir)
           of == IF Leftovers = {} THEN announced ELSE None
<1>1. /\ announced # None /\ branch' = [head |-> head, of |-> of]
      /\ UNCHANGED <<main, need, dir, command, announced, events>>
  BY DEF OpenBranch
<1>2. /\ IsRepository(main) /\ Files /\ IsChangeSet(announced)
      /\ NamesDiffer(announced.set) => \A r \in announced.set : Holds(r)
  BY <1>1 DEF ReviewInv, Announced
<1>3. IsRepository(head)
  BY <1>2, MergedIsRepository
<1>4. ASSUME of # None, of.base = main, Unambiguous(of.set)
      PROVE  OnlyPatched(main, of.set, head)
  <2>1. of = announced /\ Leftovers = {}
    BY <1>4
  <2>2. OfScan(announced.set, main, announced.asked, announced.prices) /\ Unambiguous(announced.set)
    BY <1>2, <1>4, <2>1 DEF IsChangeSet
  <2>3. NamesDiffer(announced.set)
    BY <2>2, UnambiguousNamesDiffer
  <2>4. \A r \in announced.set : Holds(r)
    BY <1>2, <2>3
  <2>5. DOMAIN dir \ {NameOf(r) : r \in announced.set} = {}
    BY <2>1 DEF Leftovers
  <2>6. announced.base = main
    BY <1>4, <2>1
  <2>7. OnlyPatched(main, announced.set, Merged(main, dir))
    BY <1>2, <2>2, <2>4, <2>5, <2>6, MergedIsPatched
  <2> QED
    BY <2>1, <2>7
<1>5. of # None => IsChangeSet(of)
  BY <1>2
<1> HIDE DEF head, of
<1>6. branch'.head = head /\ branch'.of = of
  BY <1>1
<1>7. UnderReview'
  <2>1. /\ IsRepository(branch'.head)
        /\ branch'.of # None => IsChangeSet(branch'.of)
    BY <1>3, <1>5, <1>6
  <2>2. Unambiguous(branch.of.set)' => Unambiguous(of.set)
    BY <1>1, <1>6 DEF Unambiguous
  <2>3. ASSUME branch'.of # None, branch'.of.base = main', Unambiguous(branch.of.set)'
        PROVE  OnlyPatched(main', branch'.of.set, branch'.head)
    BY <1>1, <1>4, <1>6, <2>2, <2>3
  <2> QED
    BY <2>1, <2>3 DEF UnderReview, IsReviewed, IsChangeSet
<1> QED
  BY <1>1, <1>7 DEF ReviewInv, Files, Pending, IsRunning, Announced, Holds

LEMMA RestIsRepository ==
  ASSUME NEW repo, IsRepository(repo), NEW o
  PROVE  IsRepository([p \in DOMAIN repo \ {o} |-> repo[p]])
<1> DEFINE rest == [p \in DOMAIN repo \ {o} |-> repo[p]]
<1>1. /\ DOMAIN rest = DOMAIN repo \ {o}
      /\ \A p \in DOMAIN rest : rest[p] = repo[p]
  OBVIOUS
<1> HIDE DEF rest
<1>2. IsFiniteSet(DOMAIN rest)
  BY <1>1, FS_Subset DEF IsRepository
<1>3. IsRepository(rest)
  BY <1>1, <1>2 DEF IsRepository
<1> QED
  BY <1>3 DEF rest

LEMMA MoreIsRepository ==
  ASSUME NEW repo, IsRepository(repo), NEW o \in Objects, NEW m, IsManifest(m)
  PROVE  IsRepository([p \in DOMAIN repo \cup {o} |-> IF p = o THEN m ELSE repo[p]])
<1> DEFINE more == [p \in DOMAIN repo \cup {o} |-> IF p = o THEN m ELSE repo[p]]
<1>1. /\ DOMAIN more = DOMAIN repo \cup {o}
      /\ \A p \in DOMAIN more : more[p] = IF p = o THEN m ELSE repo[p]
  OBVIOUS
<1> HIDE DEF more
<1>2. IsFiniteSet(DOMAIN more)
  BY <1>1, FS_AddElement DEF IsRepository
<1>3. IsRepository(more)
  BY <1>1, <1>2 DEF IsRepository
<1> QED
  BY <1>3 DEF more

LEMMA ProposeStep ==
  ASSUME ReviewInv, Propose
  PROVE  ReviewInv'
<1>1. /\ events < MaxEvents /\ events' = events + 1
      /\ UNCHANGED <<main, need, dir, command, announced>>
  BY DEF Propose
<1>2. branch'.of = None /\ IsRepository(branch'.head)
  <2>1. IsRepository(main)
    BY DEF ReviewInv
  <2>2. ASSUME NEW x \in Changes,
               branch' = [head |-> [p \in DOMAIN main \cup {x[1]} |->
                                      IF p = x[1] THEN x[2] ELSE main[p]],
                          of |-> None]
        PROVE  branch'.of = None /\ IsRepository(branch'.head)
    <3>1. x[1] \in Objects /\ IsManifest(x[2])
      BY ChangesAreManifests
    <3>2. IsRepository([p \in DOMAIN main \cup {x[1]} |-> IF p = x[1] THEN x[2] ELSE main[p]])
      BY <2>1, <3>1, MoreIsRepository
    <3> QED
      BY <2>2, <3>2
  <2>3. ASSUME NEW o \in DOMAIN main,
               branch' = [head |-> [p \in DOMAIN main \ {o} |-> main[p]], of |-> None]
        PROVE  branch'.of = None /\ IsRepository(branch'.head)
    BY <2>1, <2>3, RestIsRepository
  <2> QED
    BY <2>2, <2>3 DEF Propose
<1>3. UnderReview'
  BY <1>2 DEF UnderReview, IsReviewed
<1>4. events' \in 0 .. MaxEvents
  BY <1>1, MaxEventsIsNatural DEF ReviewInv
<1> QED
  BY <1>1, <1>3, <1>4 DEF ReviewInv, Files, Pending, IsRunning, Announced, Holds

LEMMA GuardStep ==
  ASSUME ReviewInv, Guard
  PROVE  ReviewInv'
<1>1. /\ branch # None /\ branch' = None
      /\ main' = main \/ main' = branch.head
      /\ UNCHANGED <<need, dir, command, announced, events>>
  BY DEF Guard
<1>2. IsRepository(main')
  BY <1>1 DEF ReviewInv, UnderReview, IsReviewed
<1> QED
  BY <1>1, <1>2 DEF ReviewInv, Files, Pending, IsRunning, Announced, Holds, UnderReview

LEMMA ReviewStep == ReviewInv /\ [Next]_vars => ReviewInv'
<1> SUFFICES ASSUME ReviewInv, [Next]_vars PROVE ReviewInv'
  OBVIOUS
<1>1. ASSUME NEW top \in Tops, NEW grow \in BOOLEAN, NEW prices \in Prices,
             Generate(top, grow, prices)
      PROVE  ReviewInv'
  BY <1>1, GenerateStep
<1>2. CASE WriteFile
  BY <1>2, WriteFileStep
<1>3. CASE WriteFails
  BY <1>3, WriteFailsStep
<1>4. CASE Announce
  BY <1>4, AnnounceStep
<1>5. CASE OpenBranch
  BY <1>5, OpenBranchStep
<1>6. CASE Propose
  BY <1>6, ProposeStep
<1>7. CASE Guard
  BY <1>7, GuardStep
<1>8. CASE UsageChanges
  <2>1. /\ events < MaxEvents /\ events' = events + 1 /\ need' \in Needs
        /\ UNCHANGED <<main, dir, command, announced, branch>>
    BY <1>8 DEF UsageChanges
  <2>2. events' \in 0 .. MaxEvents
    BY <2>1, MaxEventsIsNatural DEF ReviewInv
  <2> QED
    BY <2>1, <2>2
       DEF ReviewInv, Files, Pending, IsRunning, Announced, Holds, UnderReview, IsReviewed,
           IsChangeSet, Unambiguous
<1>9. CASE UNCHANGED vars
  BY <1>9
     DEF vars, ReviewInv, Files, Pending, IsRunning, Announced, Holds, UnderReview, IsReviewed,
         IsChangeSet, Unambiguous
<1> QED
  BY <1>1, <1>2, <1>3, <1>4, <1>5, <1>6, <1>7, <1>8, <1>9 DEF Next

\* Files, commands, change sets and branches stay what their descriptions say, in every
\* interleaving of commands, failed writes, authors and CI.
THEOREM ReviewInvariant == Spec => []ReviewInv
BY ReviewInit, ReviewStep, PTL DEF Spec

\* Manifests, usage, files and change sets keep their types, and a headline is never
\* negative.
THEOREM TypeCorrect == Spec => []TypeOK
BY ReviewInvariant, TypeFromInv, PTL

\* What kubetidy pr reports is in the directory, whatever earlier runs and failed writes
\* left there.
THEOREM Complete == Spec => []CompleteWhenAnnounced
BY ReviewInvariant, CompleteFromInv, PTL

\* Whatever prices a scan found, OpenCost's for each workload or the same for all, the
\* headline of its change set is what a merge takes off the bill at those prices, less what
\* its growing workloads add. kubetidy cost, which has its own price, finds as much where
\* that is the price of the changes too, and no increase where requests only fall.
THEOREM HeadlineIsReal == Spec => []SavingsAreReal
BY ReviewInvariant, SavingsFromInv, PTL
-----------------------------------------------------------------------------
(* The budget *)

\* Nobody writes quantities as numbers, which kubetidy cost does not read.
QuantitiesAreStrings ==
  /\ \A repo \in Mains : StringsOnly(repo)
  /\ \A x \in Changes : \A c \in DOMAIN x[2].requests : x[2].requests[c].quoted

StringsInv == StringsOnly(main) /\ (branch # None => StringsOnly(branch.head))

LEMMA StringsInit ==
  ASSUME QuantitiesAreStrings
  PROVE  Init => StringsInv
BY DEF QuantitiesAreStrings, Init, StringsInv

LEMMA StringsStep ==
  ASSUME QuantitiesAreStrings
  PROVE  ReviewInv /\ StringsInv /\ [Next]_vars => StringsInv'
<1> SUFFICES ASSUME ReviewInv, StringsInv, [Next]_vars PROVE StringsInv'
  OBVIOUS
<1>1. CASE OpenBranch
  <2>1. branch'.head = Merged(main, dir) /\ main' = main
    BY <1>1 DEF OpenBranch
  <2>2. StringsOnly(Merged(main, dir))
    BY MergedIsRepository DEF ReviewInv, StringsInv
  <2> QED
    BY <2>1, <2>2 DEF StringsInv
<1>2. CASE Propose
  <2>1. main' = main
    BY <1>2 DEF Propose
  <2>2. ASSUME NEW x \in Changes,
               branch' = [head |-> [p \in DOMAIN main \cup {x[1]} |->
                                      IF p = x[1] THEN x[2] ELSE main[p]],
                          of |-> None]
        PROVE  StringsOnly(branch'.head)
    BY <2>2 DEF QuantitiesAreStrings, StringsInv, StringsOnly
  <2>3. ASSUME NEW o \in DOMAIN main,
               branch' = [head |-> [p \in DOMAIN main \ {o} |-> main[p]], of |-> None]
        PROVE  StringsOnly(branch'.head)
    BY <2>3 DEF StringsInv, StringsOnly
  <2>4. StringsOnly(branch'.head)
    BY <1>2, <2>2, <2>3 DEF Propose
  <2> QED
    BY <2>1, <2>4 DEF StringsInv
<1>3. CASE Guard
  BY <1>3 DEF Guard, StringsInv
<1>4. CASE UNCHANGED <<main, branch>>
  BY <1>4 DEF StringsInv
<1>5. \/ OpenBranch \/ Propose \/ Guard
      \/ UNCHANGED <<main, branch>>
  BY DEF Next, vars, Generate, WriteFile, WriteFails, Announce, UsageChanges
<1> QED
  BY <1>1, <1>2, <1>3, <1>4, <1>5

\* What kubetidy cost lets through adds no more than the budget to what the manifests ask
\* for, whoever wrote it, as long as quantities are strings.
THEOREM BudgetIsKept ==
  ASSUME QuantitiesAreStrings
  PROVE  Spec => BudgetHolds
<1>1. ReviewInv /\ StringsInv /\ [Next]_vars
        => [ManifestCost(main') - ManifestCost(main) <= Budget]_main
  <2> SUFFICES ASSUME ReviewInv, StringsInv, [Next]_vars, main' # main
               PROVE  ManifestCost(main') - ManifestCost(main) <= Budget
    OBVIOUS
  <2>1. Guard
    BY DEF Next, vars, Generate, WriteFile, WriteFails, Announce, OpenBranch, Propose,
           UsageChanges
  <2>2. branch # None /\ main' = branch.head /\ ~ ExceedsBudget(main, branch.head)
    BY <2>1 DEF Guard
  <2>3. /\ IsRepository(main) /\ StringsOnly(main)
        /\ IsRepository(branch.head) /\ StringsOnly(branch.head)
    BY <2>2 DEF ReviewInv, UnderReview, IsReviewed, StringsInv
  <2>4. /\ ManifestCost(main) \in Int /\ ManifestCost(branch.head) \in Int
        /\ NetDelta(main, branch.head) = ManifestCost(branch.head) - ManifestCost(main)
    BY <2>3, DeltaIsOfBills
  <2>5. ManifestCost(branch.head) - ManifestCost(main) <= Budget
    BY <2>2, <2>4, BudgetIsNatural DEF ExceedsBudget
  <2>6. ManifestCost(main') = ManifestCost(branch.head)
    BY <2>2
  <2> QED
    BY <2>5, <2>6
<1>2. Init => StringsInv
  BY StringsInit
<1>3. ReviewInv /\ StringsInv /\ [Next]_vars => StringsInv'
  BY StringsStep
<1> QED
  BY <1>1, <1>2, <1>3, ReviewInvariant, PTL DEF Spec, BudgetHolds
=============================================================================
