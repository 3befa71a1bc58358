----------------------------- MODULE BranchProofs -----------------------------
(***************************************************************************)
(* Proofs about what a branch computes for its staff and its guests: what  *)
(* an order costs, whether a dish can be sold and when it is open, for any *)
(* lines, amounts, rates, recipes, balances and hours.                     *)
(***************************************************************************)
EXTENDS BackOffice, SumLemmas, TLAPS

(* Each of these parts runs as its own module says while the others move.    *)
LEMMA PricingRuns == Spec => PricingInit /\ [][PricingNext]_pricingVars
<1>1. Init => PricingInit
  BY DEF Init
<1>2. [Next]_backOfficeVars => [PricingNext]_pricingVars
  BY DEF Next, backOfficeVars, AuditTurn, HoursTurn, PricingTurn, MenuTurn, TaxTurn,
         ThrottleTurn, FactorTurn, AccessTurn, PrivacyTurn, AlertTurn, LayoutTurn,
         RuntimeTurn, CommandTurn, AvailabilityTurn, PageTurn
<1>. QED BY <1>1, <1>2, PTL DEF Spec

LEMMA AvailabilityRuns == Spec => AvailabilityInit /\ [][AvailabilityNext]_availabilityVars
<1>1. Init => AvailabilityInit
  BY DEF Init
<1>2. [Next]_backOfficeVars => [AvailabilityNext]_availabilityVars
  BY DEF Next, backOfficeVars, AuditTurn, HoursTurn, PricingTurn, MenuTurn, TaxTurn,
         ThrottleTurn, FactorTurn, AccessTurn, PrivacyTurn, AlertTurn, LayoutTurn,
         RuntimeTurn, CommandTurn, AvailabilityTurn, PageTurn
<1>. QED BY <1>1, <1>2, PTL DEF Spec

LEMMA HoursRuns == Spec => HoursInit /\ [][HoursNext]_hoursVars
<1>1. Init => HoursInit
  BY DEF Init
<1>2. [Next]_backOfficeVars => [HoursNext]_hoursVars
  BY DEF Next, backOfficeVars, AuditTurn, HoursTurn, PricingTurn, MenuTurn, TaxTurn,
         ThrottleTurn, FactorTurn, AccessTurn, PrivacyTurn, AlertTurn, LayoutTurn,
         RuntimeTurn, CommandTurn, AvailabilityTurn, PageTurn
<1>. QED BY <1>1, <1>2, PTL DEF Spec

(***************************************************************************)
(* Products and quotients.                                                 *)
(***************************************************************************)

LEMMA ProductIsNat == \A m, n \in Nat : m * n \in Nat
  OBVIOUS

-----------------------------------------------------------------------------
LEMMA Larger ==
    ASSUME NEW a \in Int, NEW b \in Int, NEW d \in Nat, a <= b
    PROVE  a * d <= b * d
<1>1. PICK k \in Nat : b = a + k
  <2>1. b - a \in Nat /\ b = a + (b - a)
    OBVIOUS
  <2>. QED BY <2>1
<1>2. b * d = a * d + k * d /\ k * d \in Nat /\ a * d \in Int
  BY <1>1
<1>. QED BY <1>2

LEMMA Smaller ==
    ASSUME NEW a \in Int, NEW b \in Int, NEW d \in Nat, a * d < b * d
    PROVE  a < b
<1>1. a * d \in Int /\ b * d \in Int
  OBVIOUS
<1>2. b <= a => b * d <= a * d
  BY Larger
<1>. QED BY <1>1, <1>2

LEMMA Divided ==
    ASSUME NEW n \in Nat, NEW d \in Nat \ {0}
    PROVE  /\ n \div d \in Nat /\ n % d \in 0..(d - 1)
           /\ n = (n \div d) * d + (n % d)
  OBVIOUS

LEMMA OneMore ==
    ASSUME NEW q \in Int, NEW d \in Int
    PROVE  (q + 1) * d = q * d + d /\ q * d \in Int
  OBVIOUS

(* A whole number and a remainder are a quotient and its remainder.          *)
LEMMA DividedOnce ==
    ASSUME NEW c \in Nat, NEW w \in Nat \ {0}, NEW r \in 0..(w - 1)
    PROVE  (c * w + r) \div w = c
<1>1. PICK m, n \in Nat : m = c * w /\ n = m + r
  BY ProductIsNat
<1>2. PICK d \in Nat, e \in 0..(w - 1) : d = n \div w /\ n = d * w + e
  BY <1>1, Divided
<1>3. PICK k \in Nat : k = d * w
  BY ProductIsNat
<1>4. (c + 1) * w = c * w + w /\ (d + 1) * w = d * w + w
  BY OneMore
<1>5. c * w < (d + 1) * w /\ d * w < (c + 1) * w
  BY <1>1, <1>2, <1>3, <1>4
<1>6. c < d + 1 /\ d < c + 1
  BY <1>5, Smaller
<1>. QED BY <1>1, <1>2, <1>6

LEMMA RemainderOnce ==
    ASSUME NEW c \in Nat, NEW w \in Nat \ {0}, NEW r \in 0..(w - 1)
    PROVE  (c * w + r) % w = r
<1>1. PICK m, n \in Nat : m = c * w /\ n = m + r
  BY ProductIsNat
<1>2. PICK k \in Nat, e \in 0..(w - 1) : k = n \div w /\ e = n % w /\ n = k * w + e
  BY Divided
<1>3. k = c
  BY <1>1, <1>2, DividedOnce
<1>4. n = m + e
  BY <1>1, <1>2, <1>3
<1>. QED BY <1>1, <1>2, <1>4

(***************************************************************************)
(* Pricing.  The till and the server round alike; what is dealt out comes  *)
(* to the total; what is taxed together is off by less than one unit for   *)
(* each rounding.                                                          *)
(***************************************************************************)

(* The sum that the module takes is the sum of the community modules.        *)
LEMMA TotalIsSum == \A f, S : TotalOf(f, S) = SumFunctionOnSet(f, S)
  BY Zenon DEF TotalOf, SumFunctionOnSet, FoldFunctionOnSet

LEMMA RulesAreSound ==
    ASSUME NEW p \in TaxRules
    PROVE  /\ IsFiniteSet(DOMAIN p.rate) /\ Scale \in Nat \ {0}
           /\ \A c \in DOMAIN p.rate : p.rate[c] \in Nat
           /\ TotalRate(p) \in Nat /\ Scale + TotalRate(p) \in Nat \ {0}
           /\ p.priceMode \in {"INCLUSIVE", "EXCLUSIVE"}
           /\ p.rounding \in {"HALF_UP", "HALF_EVEN", "DOWN"}
<1>1. /\ IsFiniteSet(DOMAIN p.rate) /\ Scale \in Nat \ {0}
      /\ \A c \in DOMAIN p.rate : p.rate[c] \in Nat
      /\ p.priceMode \in {"INCLUSIVE", "EXCLUSIVE"}
      /\ p.rounding \in {"HALF_UP", "HALF_EVEN", "DOWN"}
  BY PricingAssumption DEF PricingAssumption
<1>2. TotalRate(p) \in Nat
  BY <1>1, TotalIsSum, SumIsNat DEF TotalRate
<1>. QED BY <1>1, <1>2

(* The two ways of rounding a quotient are the same.                        *)
LEMMA RoundedSo ==
    ASSUME NEW n \in Nat, NEW d \in Nat \ {0}, NEW mode \in {"HALF_UP", "HALF_EVEN", "DOWN"}
    PROVE  Rounded(n, d, mode) = RoundDivision(n, d, mode)
<1>1. PICK q, r : q = n \div d /\ r = n % d
  OBVIOUS
<1>2. q \in Int /\ r \in 0..(d - 1)
  BY <1>1
<1>3. q % 2 \in {0, 1}
  BY <1>2
<1>. QED BY <1>1, <1>2, <1>3 DEF Rounded, RoundDivision

(* The till's tax is the server's.                                          *)
LEMMA TillTaxSo ==
    ASSUME NEW amount \in Nat, NEW treatment, NEW p \in TaxRules
    PROVE  TillTax(amount, treatment, p) = CalculateTax(amount, treatment, p).tax
<1>. DEFINE exact == [c \in DOMAIN p.rate |-> amount * p.rate[c]]
            atServer == [c \in DOMAIN p.rate |-> RoundDivision(exact[c], Scale, p.rounding)]
            atTill == [c \in DOMAIN p.rate |-> Rounded(amount * p.rate[c], Scale, p.rounding)]
            below == Scale + TotalRate(p)
            inclusive == RoundDivision(amount * TotalRate(p), below, p.rounding)
<1>1. atTill = atServer
  <2>1. \A c \in DOMAIN p.rate : atTill[c] = atServer[c]
    BY RulesAreSound, ProductIsNat, RoundedSo
  <2>. QED BY <2>1
<1>2. Rounded(amount * TotalRate(p), below, p.rounding) = inclusive
  BY RulesAreSound, ProductIsNat, RoundedSo
<1>3. CalculateTax(amount, treatment, p).tax =
         IF treatment # "STANDARD" THEN 0
         ELSE IF p.priceMode = "EXCLUSIVE" THEN TotalOf(atServer, DOMAIN atServer) ELSE inclusive
  BY DEF CalculateTax
<1>4. TillTax(amount, treatment, p) =
         IF treatment # "STANDARD" THEN 0
         ELSE IF p.priceMode = "EXCLUSIVE" THEN TotalOf(atTill, DOMAIN atTill)
         ELSE Rounded(amount * TotalRate(p), below, p.rounding)
  BY DEF TillTax
<1>. HIDE DEF atTill, atServer, inclusive, below
<1>. QED BY <1>1, <1>2, <1>3, <1>4

PricingInv == taxRules \in TaxRules /\ line \in [Lines -> {NoLine} \cup [amount: Nat, treatment: Treatments]]

LEMMA PricingFirst == PricingInit => PricingInv
  BY DEF PricingInit, PricingInv

LEMMA PricingStep == PricingInv /\ [PricingNext]_pricingVars => PricingInv'
<1>1. SUFFICES ASSUME PricingInv, [PricingNext]_pricingVars PROVE PricingInv'
  OBVIOUS
<1>2. ASSUME NEW l \in Lines, NEW amount \in LineAmounts, NEW treatment \in Treatments,
             AddLine(l, amount, treatment)
      PROVE  PricingInv'
  <2>1. [amount |-> amount, treatment |-> treatment] \in [amount: Nat, treatment: Treatments]
    BY PricingAssumption DEF PricingAssumption
  <2>. QED BY <1>1, <1>2, <2>1 DEF AddLine, PricingInv
<1>3. ASSUME NEW l \in Lines, RemoveLine(l) PROVE PricingInv'
  BY <1>1, <1>3 DEF RemoveLine, PricingInv
<1>4. CASE UNCHANGED pricingVars
  BY <1>1, <1>4 DEF pricingVars, PricingInv
<1>. QED BY <1>1, <1>2, <1>3, <1>4 DEF PricingNext

(* Lines on the order, and what they come to.                               *)
LEMMA LinesAreSound ==
    ASSUME PricingInv
    PROVE  /\ IsFiniteSet(Present) /\ \A l \in Present : line[l].amount \in Nat
           /\ \A l \in Present : line[l].treatment \in Treatments
           /\ \A S \in SUBSET Present : IsFiniteSet(S) /\ Input(S) \in Nat
           /\ \A t : Group(t) \subseteq Present
<1>1. Present \subseteq Lines /\ IsFiniteSet(Lines)
  BY PricingAssumption DEF PricingAssumption, Present
<1>2. /\ \A l \in Present : line[l].amount \in Nat
      /\ \A l \in Present : line[l].treatment \in Treatments
  BY DEF PricingInv, Present
<1>3. IsFiniteSet(Present)
  BY <1>1, FS_Subset
<1>4. ASSUME NEW S \in SUBSET Present PROVE IsFiniteSet(S) /\ Input(S) \in Nat
  <2>1. IsFiniteSet(S)
    BY <1>3, FS_Subset
  <2>. DEFINE f == [l \in S |-> line[l].amount]
  <2>2. \A l \in S : f[l] \in Nat
    BY <1>2
  <2>. HIDE DEF f
  <2>3. SumFunctionOnSet(f, S) \in Nat
    BY <2>1, <2>2, SumIsNat
  <2>. QED BY <2>1, <2>3, TotalIsSum DEF Input, f
<1>5. \A t : Group(t) \subseteq Present
  BY DEF Group
<1>. QED BY <1>2, <1>3, <1>4, <1>5

LEMMA TillSo == PricingInv => TillAgreesWithServer
<1>1. SUFFICES ASSUME PricingInv PROVE TillAgreesWithServer
  OBVIOUS
<1>2. PICK p \in TaxRules : p = taxRules
  BY <1>1 DEF PricingInv
<1>3. CalculateOrderTotals = [l \in Present |-> CalculateOrder[l].price]
  <2>1. CASE p.scope = "LINE"
    <3>1. CalculateOrderTotals =
             [l \in Present |-> Priced(line[l].amount, TillTax(line[l].amount, line[l].treatment, p), p)]
      BY <1>2, <2>1 DEF CalculateOrderTotals
    <3>2. \A l \in Present : CalculateOrder[l].price =
             Priced(line[l].amount, CalculateTax(line[l].amount, line[l].treatment, p).tax, p)
      BY <1>2, <2>1 DEF CalculateOrder
    <3>3. \A l \in Present : TillTax(line[l].amount, line[l].treatment, p) =
             CalculateTax(line[l].amount, line[l].treatment, p).tax
      BY <1>1, LinesAreSound, TillTaxSo
    <3>. QED BY <3>1, <3>2, <3>3
  <2>2. CASE p.scope # "LINE"
    <3>. DEFINE dealt == [t \in Treatments |-> Allocate(TillTax(Input(Group(t)), t, p), Group(t))]
                tax == [t \in Treatments |->
                          Allocate(CalculateTax(Input(Group(t)), t, p).tax, Group(t))]
    <3>1. CalculateOrderTotals =
             [l \in Present |-> Priced(line[l].amount, dealt[line[l].treatment][l], p)]
      BY <1>2, <2>2 DEF CalculateOrderTotals
    <3>2. \A l \in Present : CalculateOrder[l].price =
             Priced(line[l].amount, tax[line[l].treatment][l], p)
      BY <1>1, <1>2, <2>2, LinesAreSound DEF CalculateOrder
    <3>3. dealt = tax
      <4>1. \A t \in Treatments :
               TillTax(Input(Group(t)), t, p) = CalculateTax(Input(Group(t)), t, p).tax
        BY <1>1, LinesAreSound, TillTaxSo
      <4>. QED BY <4>1
    <3>. HIDE DEF dealt, tax
    <3>. QED BY <3>1, <3>2, <3>3
  <2>. QED BY <2>1, <2>2
<1>. QED BY <1>3 DEF TillAgreesWithServer

(* A rounded quotient is off by less than one.                              *)
LEMMA RoundSo ==
    ASSUME NEW n \in Nat, NEW d \in Nat \ {0}, NEW mode
    PROVE  LET q == RoundDivision(n, d, mode)
           IN  /\ q \in Nat /\ q * d \in Nat
               /\ q * d <= n + (d - 1) /\ n <= q * d + (d - 1)
<1>. DEFINE q == RoundDivision(n, d, mode)
<1>1. PICK w \in Nat, r \in 0..(d - 1) : w = n \div d /\ r = n % d /\ n = w * d + r
  BY Divided
<1>2. q = w \/ (q = w + 1 /\ r > 0)
  BY <1>1 DEF RoundDivision
<1>3. (w + 1) * d = w * d + d /\ w * d \in Nat
  BY OneMore, ProductIsNat
<1>. HIDE DEF q
<1>4. q \in Nat /\ q * d \in Nat
  BY <1>2, ProductIsNat
<1>5. PICK v \in Nat, k \in Nat : v = w * d /\ k = q * d /\ (q = w + 1 => k = v + d)
  BY <1>2, <1>3, <1>4
<1>6. (q = w => k = v) /\ n = v + r /\ d \in Nat /\ r \in Nat /\ r <= d - 1
  BY <1>1, <1>5
<1>7. q \in Nat /\ q * d \in Nat /\ q * d <= n + (d - 1) /\ n <= q * d + (d - 1)
  BY <1>2, <1>4, <1>5, <1>6
<1>. QED BY <1>7 DEF q

(* Sums of a constant, and of multiples.                                    *)
LEMMA SumOnes ==
    ASSUME NEW S, IsFiniteSet(S), NEW f, \A x \in S : f[x] = 1
    PROVE  SumFunctionOnSet(f, S) = Cardinality(S)
<1>. DEFINE G == {T \in SUBSET S : SumFunctionOnSet(f, T) = Cardinality(T)}
<1>1. ASSUME NEW T \in SUBSET S, \A U \in SUBSET T : U # T => U \in G
      PROVE  T \in G
  <2>1. IsFiniteSet(T)
    BY FS_Subset
  <2>2. CASE T = {}
    BY <2>1, <2>2, SumEmpty, FS_EmptySet
  <2>3. CASE T # {}
    <3>1. PICK o \in T : o = OneOf(T)
      BY <2>3, OneOfIsIn
    <3>2. SumFunctionOnSet(f, T) = f[o] + SumFunctionOnSet(f, T \ {o})
      BY <2>1, <2>3, <3>1, SumStep
    <3>3. T \ {o} \in G
      BY <1>1, <3>1
    <3>4. Cardinality(T \ {o}) = Cardinality(T) - 1 /\ Cardinality(T) \in Nat
      BY <2>1, <3>1, FS_RemoveElement, FS_CardinalityType
    <3>. QED BY <3>2, <3>3, <3>4
  <2>. QED BY <2>2, <2>3
<1>2. S \in G
  <2>. HIDE DEF G
  <2>. QED BY <1>1, SetInduction
<1>. QED BY <1>2

LEMMA SumTimes ==
    ASSUME NEW S, IsFiniteSet(S), NEW f, NEW g, NEW a \in Int,
           \A x \in S : f[x] \in Int /\ g[x] = a * f[x]
    PROVE  SumFunctionOnSet(g, S) = a * SumFunctionOnSet(f, S)
<1>. DEFINE G == {T \in SUBSET S : SumFunctionOnSet(g, T) = a * SumFunctionOnSet(f, T)}
<1>1. ASSUME NEW T \in SUBSET S, \A U \in SUBSET T : U # T => U \in G
      PROVE  T \in G
  <2>1. IsFiniteSet(T)
    BY FS_Subset
  <2>2. CASE T = {}
    BY <2>1, <2>2, SumEmpty
  <2>3. CASE T # {}
    <3>1. PICK o \in T : o = OneOf(T)
      BY <2>3, OneOfIsIn
    <3>2. PICK m, n : m = SumFunctionOnSet(f, T \ {o}) /\ n = SumFunctionOnSet(g, T \ {o})
      OBVIOUS
    <3>3. SumFunctionOnSet(f, T) = f[o] + m /\ SumFunctionOnSet(g, T) = g[o] + n
      BY <2>1, <2>3, <3>1, <3>2, SumStep
    <3>4. n = a * m
      <4>1. T \ {o} \in G
        BY <1>1, <3>1
      <4>. QED BY <4>1, <3>2
    <3>5. m \in Int
      <4>1. IsFiniteSet(T \ {o}) /\ \A x \in T \ {o} : f[x] \in Int
        BY <2>1, FS_Subset
      <4>. QED BY <4>1, <3>2, SumType
    <3>6. f[o] \in Int /\ g[o] = a * f[o]
      BY <3>1
    <3>7. \A i, j \in Int : a * i + a * j = a * (i + j)
      OBVIOUS
    <3>8. g[o] + n = a * (f[o] + m)
      BY <3>4, <3>5, <3>6, <3>7
    <3>. QED BY <3>3, <3>8
  <2>. QED BY <2>2, <2>3
<1>2. S \in G
  <2>. HIDE DEF G
  <2>. QED BY <1>1, SetInduction
<1>. QED BY <1>2

-----------------------------------------------------------------------------
(* Dealing out.  Who has fewer than k ahead of them are k, in any order.     *)
LEMMA Ranked ==
    ASSUME NEW S, IsFiniteSet(S), NEW rank \in [S -> Nat],
           \A x \in S : rank[x] < Cardinality(S),
           \A x, y \in S : rank[x] = rank[y] => x = y,
           NEW k \in 0..Cardinality(S)
    PROVE  Cardinality({x \in S : rank[x] < k}) = k
<1>. DEFINE N == Cardinality(S)
            I == {rank[x] : x \in S}
            A == {x \in S : rank[x] < k}
            f == [x \in A |-> rank[x]]
<1>1. N \in Nat
  BY FS_CardinalityType
<1>2. rank \in Bijection(S, I)
  BY DEF Bijection, Injection, Surjection, IsInjective
<1>3. Cardinality(I) = N
  <2>1. ExistsBijection(S, I)
    BY <1>2 DEF ExistsBijection
  <2>. HIDE DEF I
  <2>. QED BY <2>1, FS_Bijection
<1>4. I \subseteq 0..(N - 1)
  BY <1>1
<1>5. IsFiniteSet(0..(N - 1)) /\ Cardinality(0..(N - 1)) = N
  <2>. HIDE DEF N
  <2>1. 0 \in Int /\ N - 1 \in Int
    BY <1>1
  <2>2. /\ IsFiniteSet(0..(N - 1))
        /\ Cardinality(0..(N - 1)) = IF 0 > N - 1 THEN 0 ELSE (N - 1) - 0 + 1
    BY <2>1, FS_Interval
  <2>. QED BY <1>1, <2>2
<1>6. I = 0..(N - 1)
  <2>. HIDE DEF I, N
  <2>. QED BY <1>3, <1>4, <1>5, FS_Subset
<1>7. f \in Bijection(A, 0..(k - 1))
  <2>1. \A x \in A : f[x] \in 0..(k - 1)
    BY <1>1
  <2>2. \A i \in 0..(k - 1) : \E x \in A : f[x] = i
    <3>1. TAKE i \in 0..(k - 1)
    <3>2. i \in 0..(N - 1) /\ i < k
      BY <1>1
    <3>3. PICK x \in S : rank[x] = i
      BY <1>6, <3>2
    <3>. QED BY <3>2, <3>3
  <2>3. \A x, y \in A : f[x] = f[y] => x = y
    OBVIOUS
  <2>. QED BY <2>1, <2>2, <2>3 DEF Bijection, Injection, Surjection, IsInjective
<1>8. IsFiniteSet(A)
  BY FS_Subset
<1>9. Cardinality(A) = Cardinality(0..(k - 1))
  <2>1. ExistsBijection(A, 0..(k - 1))
    BY <1>7 DEF ExistsBijection
  <2>. HIDE DEF A
  <2>. QED BY <2>1, <1>8, FS_Bijection
<1>10. Cardinality(0..(k - 1)) = k
  <2>1. k \in Nat
    BY <1>1
  <2>. QED BY <2>1, FS_Interval
<1>. QED BY <1>9, <1>10

Preceding(r, x) == {y \in DOMAIN r : r[y] > r[x] \/ (r[y] = r[x] /\ y < x)}

(* Larger remainders first, then smaller names.                             *)
LEMMA PrecedingRanks ==
    ASSUME NEW S, IsFiniteSet(S), S \subseteq Nat, NEW r \in [S -> Nat],
           NEW k \in 0..Cardinality(S)
    PROVE  Cardinality({x \in S : Cardinality(Preceding(r, x)) < k}) = k
<1>. DEFINE rank == [x \in S |-> Cardinality(Preceding(r, x))]
<1>1. ASSUME NEW x \in S
      PROVE  /\ IsFiniteSet(Preceding(r, x)) /\ Cardinality(Preceding(r, x)) \in Nat
             /\ Cardinality(Preceding(r, x)) < Cardinality(S)
  <2>1. Preceding(r, x) \subseteq S /\ x \notin Preceding(r, x)
    BY DEF Preceding
  <2>2. IsFiniteSet(S \ {x}) /\ Cardinality(S \ {x}) = Cardinality(S) - 1
        /\ Cardinality(S) \in Nat
    BY FS_RemoveElement, FS_CardinalityType
  <2>3. Preceding(r, x) \in SUBSET (S \ {x})
    BY <2>1
  <2>4. IsFiniteSet(Preceding(r, x))
        /\ Cardinality(Preceding(r, x)) <= Cardinality(S \ {x})
    BY <2>2, <2>3, FS_Subset
  <2>5. Cardinality(Preceding(r, x)) \in Nat
    BY <2>4, FS_CardinalityType
  <2>. QED BY <2>2, <2>4, <2>5
<1>2. ASSUME NEW x \in S, NEW y \in S, x \in Preceding(r, y)
      PROVE  rank[x] # rank[y]
  <2>1. Preceding(r, x) \in SUBSET Preceding(r, y) /\ x \notin Preceding(r, x)
    <3>1. x \in Nat /\ y \in Nat /\ r[x] \in Nat /\ r[y] \in Nat /\ DOMAIN r = S
          /\ (r[x] > r[y] \/ (r[x] = r[y] /\ x < y))
      BY <1>2 DEF Preceding
    <3>2. ASSUME NEW z \in Preceding(r, x) PROVE z \in Preceding(r, y)
      <4>1. z \in S /\ z \in Nat /\ r[z] \in Nat /\ (r[z] > r[x] \/ (r[z] = r[x] /\ z < x))
        BY <3>1, <3>2 DEF Preceding
      <4>2. r[z] > r[y] \/ (r[z] = r[y] /\ z < y)
        BY <3>1, <4>1
      <4>. QED BY <3>1, <4>1, <4>2 DEF Preceding
    <3>3. x \notin Preceding(r, x)
      BY <3>1 DEF Preceding
    <3>. QED BY <3>2, <3>3
  <2>2. Preceding(r, x) # Preceding(r, y)
    BY <1>2, <2>1
  <2>3. Cardinality(Preceding(r, x)) # Cardinality(Preceding(r, y))
    BY <1>1, <2>1, <2>2, FS_Subset
  <2>. QED BY <2>3
<1>3. ASSUME NEW x \in S, NEW y \in S, x # y
      PROVE  x \in Preceding(r, y) \/ y \in Preceding(r, x)
  BY <1>3 DEF Preceding
<1>4. rank \in [S -> Nat] /\ \A x \in S : rank[x] < Cardinality(S)
  BY <1>1
<1>5. \A x, y \in S : rank[x] = rank[y] => x = y
  <2>. HIDE DEF rank
  <2>. QED BY <1>2, <1>3
<1>6. {x \in S : Cardinality(Preceding(r, x)) < k} = {x \in S : rank[x] < k}
  OBVIOUS
<1>7. PICK m : m = rank
  OBVIOUS
<1>8. Cardinality({x \in S : m[x] < k}) = k
  <2>1. /\ m \in [S -> Nat] /\ \A x \in S : m[x] < Cardinality(S)
        /\ \A x, y \in S : m[x] = m[y] => x = y
    BY <1>4, <1>5, <1>7
  <2>. HIDE DEF rank
  <2>. QED BY <2>1, Ranked
<1>. QED BY <1>6, <1>7, <1>8

(* Ones on a part of a set are counted.                                     *)
LEMMA SumIndicates ==
    ASSUME NEW S, IsFiniteSet(S), NEW A \in SUBSET S, NEW f,
           \A x \in S : f[x] = IF x \in A THEN 1 ELSE 0
    PROVE  SumFunctionOnSet(f, S) = Cardinality(A)
<1>1. IsFiniteSet(A) /\ \A x \in A : f[x] = 1
  BY FS_Subset
<1>2. SumFunctionOnSet(f, A) = Cardinality(A)
  BY <1>1, SumOnes
<1>3. SumFunctionOnSet(f, S) = SumFunctionOnSet(f, A)
  BY <1>1, SumExtended
<1>. QED BY <1>2, <1>3

(* Remainders come to less than one for each that is not zero.              *)
LEMMA RemaindersSum ==
    ASSUME NEW S, IsFiniteSet(S), NEW d \in Nat \ {0}, NEW r \in [S -> 0..(d - 1)]
    PROVE  /\ SumFunctionOnSet(r, S) \in Nat
           /\ SumFunctionOnSet(r, S) <= (d - 1) * Cardinality({x \in S : r[x] > 0})
<1>. DEFINE P == {x \in S : r[x] > 0}
            ones == [x \in S |-> IF x \in P THEN 1 ELSE 0]
            most == [x \in S |-> (d - 1) * ones[x]]
<1>1. SumFunctionOnSet(r, S) \in Nat
  BY SumIsNat
<1>2. SumFunctionOnSet(ones, S) = Cardinality(P)
  <2>1. P \in SUBSET S /\ \A x \in S : ones[x] = IF x \in P THEN 1 ELSE 0
    OBVIOUS
  <2>. HIDE DEF P, ones
  <2>. QED BY <2>1, SumIndicates
<1>3. SumFunctionOnSet(most, S) = (d - 1) * SumFunctionOnSet(ones, S)
  <2>1. d - 1 \in Int /\ \A x \in S : ones[x] \in Int /\ most[x] = (d - 1) * ones[x]
    OBVIOUS
  <2>. HIDE DEF most, ones
  <2>. QED BY <2>1, SumTimes
<1>4. SumFunctionOnSet(r, S) <= SumFunctionOnSet(most, S)
  <2>1. ASSUME NEW x \in S PROVE r[x] \in Int /\ most[x] \in Int /\ r[x] <= most[x]
    <3>1. r[x] \in 0..(d - 1) /\ most[x] = (IF r[x] > 0 THEN d - 1 ELSE 0)
      OBVIOUS
    <3>. QED BY <3>1
  <2>. HIDE DEF most
  <2>. QED BY <2>1, SumMonotone
<1>. QED BY <1>1, <1>2, <1>3, <1>4

LEMMA DividedSum ==
    ASSUME NEW S, IsFiniteSet(S), NEW d \in Nat, NEW num \in [S -> Nat],
           NEW whole \in [S -> Nat], NEW r \in [S -> Nat],
           \A x \in S : num[x] = whole[x] * d + r[x]
    PROVE  SumFunctionOnSet(num, S) = d * SumFunctionOnSet(whole, S) + SumFunctionOnSet(r, S)
<1>. DEFINE times == [x \in S |-> d * whole[x]]
<1>1. \A x \in S : whole[x] \in Int /\ times[x] = d * whole[x]
  OBVIOUS
<1>2. \A x \in S : times[x] \in Int /\ r[x] \in Int /\ num[x] = times[x] + r[x]
  <2>1. \A n \in Nat : d * n = n * d /\ d * n \in Int
    OBVIOUS
  <2>. QED BY <2>1
<1>. HIDE DEF times
<1>3. SumFunctionOnSet(times, S) = d * SumFunctionOnSet(whole, S)
  <2>1. d \in Int
    OBVIOUS
  <2>. QED BY <1>1, <2>1, SumTimes
<1>4. SumFunctionOnSet(num, S) = SumFunctionOnSet(times, S) + SumFunctionOnSet(r, S)
  BY <1>2, SumOfSums
<1>. QED BY <1>3, <1>4

LEMMA RaisedSum ==
    ASSUME NEW S, IsFiniteSet(S), NEW A \in SUBSET S, NEW whole \in [S -> Nat], NEW a,
           \A x \in S : a[x] = IF x \in A THEN whole[x] + 1 ELSE whole[x]
    PROVE  SumFunctionOnSet(a, S) = SumFunctionOnSet(whole, S) + Cardinality(A)
<1>. DEFINE ones == [x \in S |-> IF x \in A THEN 1 ELSE 0]
<1>1. /\ \A x \in S : whole[x] \in Int /\ ones[x] \in Int /\ a[x] = whole[x] + ones[x]
      /\ \A x \in S : ones[x] = IF x \in A THEN 1 ELSE 0
  OBVIOUS
<1>. HIDE DEF ones
<1>. QED BY <1>1, SumOfSums, SumIndicates

Numbered(S) == S \subseteq Nat

(* q is off n / d by less than one.                                         *)
Within(q, n, d) == q * d < n + d /\ n < q * d + d

LEMMA WithinNothing ==
    ASSUME NEW q \in Nat, NEW d \in Nat \ {0}, Within(q, 0, d)
    PROVE  q = 0
<1>1. q * d < 1 * d
  BY DEF Within
<1>2. q < 1
  BY <1>1, Smaller
<1>. QED BY <1>2

(* What is dealt out comes to the total, and nobody's part is off by one.    *)
LEMMA ApportionSo ==
    ASSUME NEW S, IsFiniteSet(S), Numbered(S), NEW num \in [S -> Nat],
           NEW d \in Nat \ {0}, NEW total \in Int,
           Within(total, SumFunctionOnSet(num, S), d)
    PROVE  LET a == Apportion(total, num, d)
           IN  /\ a \in [S -> Nat] /\ SumFunctionOnSet(a, S) = total
               /\ \A x \in S : Within(a[x], num[x], d)
<1>. DEFINE a == Apportion(total, num, d)
            Chosen(k, r) == {x \in S : Cardinality(Preceding(r, x)) < k}
<1>1. PICK whole, r : /\ whole = [x \in S |-> num[x] \div d]
                      /\ r = [x \in S |-> num[x] % d]
  OBVIOUS
<1>2. /\ whole \in [S -> Nat] /\ r \in [S -> 0..(d - 1)] /\ r \in [S -> Nat]
      /\ \A x \in S : num[x] = whole[x] * d + r[x]
  <2>1. ASSUME NEW x \in S
        PROVE  /\ whole[x] \in Nat /\ r[x] \in 0..(d - 1) /\ r[x] \in Nat
               /\ num[x] = whole[x] * d + r[x]
    <3>1. num[x] \in Nat /\ whole[x] = num[x] \div d /\ r[x] = num[x] % d
      BY <1>1
    <3>2. /\ num[x] \div d \in Nat /\ num[x] % d \in 0..(d - 1)
          /\ num[x] = (num[x] \div d) * d + (num[x] % d)
      BY <3>1, Divided
    <3>. QED BY <3>1, <3>2
  <2>2. whole = [x \in S |-> whole[x]] /\ r = [x \in S |-> r[x]]
    BY <1>1
  <2>. QED BY <2>1, <2>2
<1>3. PICK V, W, R, C : /\ V = SumFunctionOnSet(num, S) /\ W = SumFunctionOnSet(whole, S)
                        /\ R = SumFunctionOnSet(r, S) /\ C = Cardinality({x \in S : r[x] > 0})
  OBVIOUS
<1>4. /\ V \in Nat /\ W \in Nat /\ R \in Nat /\ R <= (d - 1) * C
      /\ C \in Nat /\ Cardinality(S) \in Nat /\ C <= Cardinality(S)
  <2>1. IsFiniteSet({x \in S : r[x] > 0}) /\ C <= Cardinality(S)
    BY <1>3, FS_Subset
  <2>2. C \in Nat /\ Cardinality(S) \in Nat
    BY <2>1, <1>3, FS_CardinalityType
  <2>3. V \in Nat /\ W \in Nat
    BY <1>2, <1>3, SumIsNat
  <2>4. R \in Nat /\ R <= (d - 1) * C
    BY <1>2, <1>3, RemaindersSum
  <2>. QED BY <2>1, <2>2, <2>3, <2>4
<1>5. V = d * W + R
  BY <1>2, <1>3, DividedSum
<1>6. PICK left \in Int : left = total - W
  BY <1>4
<1>7. left * d < R + d /\ R < left * d + d
  <2>1. PICK t, m, k \in Int : t = total * d /\ m = d * W /\ k = left * d
    BY <1>4
  <2>2. k = t - m
    BY <1>4, <1>6, <2>1
  <2>3. t < V + d /\ V < t + d
    BY <1>3, <2>1 DEF Within
  <2>4. V = m + R
    BY <1>5, <2>1
  <2>5. k < R + d /\ R < k + d
    BY <1>4, <2>2, <2>3, <2>4
  <2>. QED BY <2>1, <2>5
<1>8. left >= 0
  <2>1. (-1) * d < left * d
    BY <1>4, <1>6, <1>7
  <2>2. -1 < left
    BY <1>6, <2>1, Smaller
  <2>. QED BY <2>2, <1>6
<1>9. left <= C
  <2>1. (d - 1) * C + d <= (C + 1) * d
    BY <1>4
  <2>2. left * d < (C + 1) * d
    BY <1>4, <1>6, <1>7, <2>1
  <2>3. C + 1 \in Int /\ d \in Nat
    BY <1>4
  <2>4. left < C + 1
    BY <1>6, <2>2, <2>3, Smaller
  <2>. QED BY <2>4, <1>4, <1>6
<1>10. left \in 0..Cardinality(S)
  BY <1>4, <1>8, <1>9
<1>11. Cardinality(Chosen(left, r)) = left
  BY <1>2, <1>10, PrecedingRanks DEF Numbered
<1>12. a = [x \in S |-> IF x \in Chosen(left, r) THEN whole[x] + 1 ELSE whole[x]]
  BY <1>1, <1>3, <1>6, TotalIsSum DEF Apportion, Preceding
<1>13. SumFunctionOnSet(a, S) = total
  <2>1. /\ Chosen(left, r) \in SUBSET S
        /\ \A x \in S : a[x] = IF x \in Chosen(left, r) THEN whole[x] + 1 ELSE whole[x]
    BY <1>12
  <2>. HIDE DEF a, Chosen
  <2>2. SumFunctionOnSet(a, S) = W + left
    BY <2>1, <1>2, <1>3, <1>11, RaisedSum
  <2>. QED BY <2>2, <1>4, <1>6
<1>14. ASSUME NEW x \in S PROVE Within(a[x], num[x], d)
  <2>1. /\ whole[x] \in Nat /\ r[x] \in 0..(d - 1) /\ num[x] = whole[x] * d + r[x]
        /\ whole[x] * d \in Nat /\ (whole[x] + 1) * d = whole[x] * d + d
    BY <1>2, ProductIsNat, OneMore
  <2>2. CASE x \notin Chosen(left, r)
    <3>1. a[x] = whole[x]
      BY <1>12, <2>2
    <3>. QED BY <2>1, <3>1 DEF Within
  <2>3. CASE x \in Chosen(left, r)
    <3>1. r[x] > 0
      <4>1. SUFFICES ASSUME r[x] = 0 PROVE FALSE
        BY <2>1
      <4>2. {y \in S : r[y] > 0} \in SUBSET Preceding(r, x) /\ Preceding(r, x) \in SUBSET S
        BY <1>2, <4>1 DEF Preceding
      <4>3. IsFiniteSet(Preceding(r, x))
        BY <4>2, FS_Subset
      <4>4. C <= Cardinality(Preceding(r, x)) /\ Cardinality(Preceding(r, x)) \in Nat
        BY <4>2, <4>3, <1>3, FS_Subset, FS_CardinalityType
      <4>. QED BY <4>4, <2>3, <1>4, <1>6, <1>9
    <3>2. a[x] = whole[x] + 1
      BY <1>12, <2>3
    <3>3. a[x] * d = whole[x] * d + d
      BY <2>1, <3>2
    <3>. QED BY <2>1, <3>1, <3>3 DEF Within
  <2>. QED BY <2>2, <2>3
<1>15. a \in [S -> Nat]
  BY <1>2, <1>12
<1>. HIDE DEF a
<1>16. a \in [S -> Nat] /\ SumFunctionOnSet(a, S) = total
       /\ \A x \in S : Within(a[x], num[x], d)
  BY <1>13, <1>14, <1>15
<1>. QED BY <1>16 DEF a

LEMMA SumsClose ==
    ASSUME NEW S, IsFiniteSet(S), NEW e \in Nat, NEW f, NEW g,
           \A x \in S : f[x] \in Int /\ g[x] \in Int /\ f[x] <= g[x] + e
    PROVE  SumFunctionOnSet(f, S) <= SumFunctionOnSet(g, S) + e * Cardinality(S)
<1>. DEFINE ones == [x \in S |-> 1]
            more == [x \in S |-> e * ones[x]]
            h == [x \in S |-> g[x] + more[x]]
<1>1. \A x \in S : ones[x] = 1 /\ ones[x] \in Int /\ more[x] = e * ones[x]
  OBVIOUS
<1>2. \A x \in S : g[x] \in Int /\ more[x] \in Int /\ h[x] = g[x] + more[x]
  BY <1>1
<1>3. \A x \in S : f[x] \in Int /\ h[x] \in Int /\ f[x] <= h[x]
  BY <1>1
<1>4. e \in Int
  OBVIOUS
<1>. HIDE DEF ones, more, h
<1>5. SumFunctionOnSet(ones, S) = Cardinality(S)
  BY <1>1, SumOnes
<1>6. SumFunctionOnSet(more, S) = e * SumFunctionOnSet(ones, S)
  BY <1>1, <1>4, SumTimes
<1>7. SumFunctionOnSet(h, S) = SumFunctionOnSet(g, S) + SumFunctionOnSet(more, S)
  BY <1>2, SumOfSums
<1>8. SumFunctionOnSet(f, S) <= SumFunctionOnSet(h, S)
  BY <1>3, SumMonotone
<1>. QED BY <1>5, <1>6, <1>7, <1>8

Below(p) == IF p.priceMode = "EXCLUSIVE" THEN Scale ELSE Scale + TotalRate(p)
Roundings(p) == IF p.priceMode = "EXCLUSIVE" THEN Cardinality(DOMAIN p.rate) ELSE 1

(* tax is off an amount's exact tax by less than one for each rounding.      *)
TaxIsClose(tax, amount, p) ==
    /\ tax * Below(p) < amount * TotalRate(p) + Roundings(p) * Below(p)
    /\ amount * TotalRate(p) < tax * Below(p) + Roundings(p) * Below(p)

Taxes(result, amount, treatment, p) ==
    /\ result.tax \in Nat /\ result.component \in [DOMAIN p.rate -> Nat]
    /\ SumFunctionOnSet(result.component, DOMAIN p.rate) = result.tax
    /\ treatment # "STANDARD" \/ amount = 0
          => result.tax = 0 /\ \A c \in DOMAIN p.rate : result.component[c] = 0
    /\ \A c \in DOMAIN p.rate : p.rate[c] = 0 => result.component[c] = 0
    /\ p.priceMode = "INCLUSIVE" => result.tax <= amount
    /\ treatment = "STANDARD" => TaxIsClose(result.tax, amount, p)

(* Each component is rounded by itself.                                     *)
LEMMA ExclusiveSo ==
    ASSUME NEW amount \in Nat, NEW p \in TaxRules, p.priceMode = "EXCLUSIVE"
    PROVE  Taxes(CalculateTax(amount, "STANDARD", p), amount, "STANDARD", p)
<1>. DEFINE D == DOMAIN p.rate
            exact == [c \in D |-> amount * p.rate[c]]
            part == [c \in D |-> RoundDivision(exact[c], Scale, p.rounding)]
            scaled == [c \in D |-> Scale * part[c]]
            result == CalculateTax(amount, "STANDARD", p)
<1>1. /\ IsFiniteSet(D) /\ D # {} /\ Scale \in Nat \ {0}
      /\ \A c \in D : p.rate[c] \in Nat
      /\ TotalRate(p) = SumFunctionOnSet(p.rate, D) /\ TotalRate(p) \in Nat
  BY PricingAssumption, RulesAreSound, TotalIsSum DEF PricingAssumption, TotalRate
<1>2. Cardinality(D) \in Nat \ {0}
  BY <1>1, FS_CardinalityType, FS_EmptySet
<1>3. ASSUME NEW c \in D
      PROVE  /\ exact[c] \in Nat /\ part[c] \in Nat /\ scaled[c] \in Nat
             /\ scaled[c] <= exact[c] + (Scale - 1) /\ exact[c] <= scaled[c] + (Scale - 1)
             /\ exact[c] = 0 => part[c] = 0
  <2>1. exact[c] \in Nat
    BY <1>1, ProductIsNat
  <2>2. PICK n \in Nat : n = exact[c]
    BY <2>1
  <2>2a. PICK q : q = part[c] /\ q = RoundDivision(n, Scale, p.rounding)
    BY <2>2
  <2>3. /\ q \in Nat /\ q * Scale \in Nat
        /\ q * Scale <= n + (Scale - 1) /\ n <= q * Scale + (Scale - 1)
    BY <1>1, <2>2a, RoundSo
  <2>4. scaled[c] = q * Scale
    BY <1>1, <2>2a, <2>3
  <2>5. n = 0 => q = 0
    <3>1. q * Scale < 1 * Scale => q < 1
      BY <1>1, <2>3, Smaller
    <3>. QED BY <1>1, <2>3, <3>1
  <2>. HIDE DEF exact, part, scaled
  <2>. QED BY <2>2, <2>2a, <2>3, <2>4, <2>5
<1>4. /\ result.tax = TotalOf(part, D) /\ result.component = part
  BY DEF CalculateTax
<1>5. \A c \in D : exact[c] = amount * p.rate[c] /\ scaled[c] = Scale * part[c]
  OBVIOUS
<1>6. part = [c \in D |-> part[c]]
  OBVIOUS
<1>7. \A c \in D : amount = 0 \/ p.rate[c] = 0 => exact[c] = 0
  BY <1>1
<1>. HIDE DEF exact, part, scaled, result
<1>8. SumFunctionOnSet(scaled, D) = Scale * SumFunctionOnSet(part, D)
  <2>1. Scale \in Int /\ \A c \in D : part[c] \in Int /\ scaled[c] = Scale * part[c]
    BY <1>1, <1>3, <1>5
  <2>. HIDE DEF D
  <2>. QED BY <1>1, <2>1, SumTimes
<1>9. SumFunctionOnSet(exact, D) = amount * SumFunctionOnSet(p.rate, D)
  <2>1. amount \in Int /\ \A c \in D : p.rate[c] \in Int /\ exact[c] = amount * p.rate[c]
    BY <1>1, <1>5
  <2>. HIDE DEF D
  <2>. QED BY <1>1, <2>1, SumTimes
<1>10. PICK a, b, s, k, e \in Int : /\ a = SumFunctionOnSet(scaled, D) /\ b = SumFunctionOnSet(exact, D)
                              /\ s = SumFunctionOnSet(part, D) /\ k = Cardinality(D) /\ e = Scale - 1
                              /\ s \in Nat
  <2>1. /\ SumFunctionOnSet(scaled, D) \in Nat /\ SumFunctionOnSet(exact, D) \in Nat
        /\ SumFunctionOnSet(part, D) \in Nat
    <3>. HIDE DEF D
    <3>. QED BY <1>1, <1>3, SumIsNat
  <2>2. Scale - 1 \in Int /\ Cardinality(D) \in Int
    BY <1>1, <1>2
  <2>. QED BY <2>1, <2>2
<1>11. a <= b + e * k /\ b <= a + e * k
  <2>1. /\ \A c \in D : scaled[c] \in Int /\ exact[c] \in Int /\ scaled[c] <= exact[c] + e
        /\ \A c \in D : exact[c] \in Int /\ scaled[c] \in Int /\ exact[c] <= scaled[c] + e
        /\ e \in Nat
    BY <1>1, <1>3, <1>10
  <2>. HIDE DEF D
  <2>2. SumFunctionOnSet(scaled, D) <= SumFunctionOnSet(exact, D) + e * Cardinality(D)
    BY <1>1, <2>1, SumsClose
  <2>3. SumFunctionOnSet(exact, D) <= SumFunctionOnSet(scaled, D) + e * Cardinality(D)
    BY <1>1, <2>1, SumsClose
  <2>. QED BY <1>10, <2>2, <2>3
<1>12. TaxIsClose(s, amount, p)
  <2>1. a = Scale * s /\ b = amount * TotalRate(p)
    BY <1>1, <1>8, <1>9, <1>10
  <2>2. Scale * s = s * Scale /\ k \in Nat \ {0} /\ k * Scale = e * k + k
    BY <1>1, <1>2, <1>10
  <2>3. PICK ek, ks \in Int : ek = e * k /\ ks = k * Scale
    BY <1>1, <1>10
  <2>4. a < b + ks /\ b < a + ks
    <3>1. ks = ek + k /\ k > 0
      BY <2>2, <2>3
    <3>2. a <= b + ek /\ b <= a + ek
      BY <1>11, <2>3
    <3>. QED BY <1>10, <2>3, <3>1, <3>2
  <2>5. Below(p) = Scale /\ Roundings(p) = k
    BY <1>10 DEF Below, Roundings
  <2>. QED BY <2>1, <2>2, <2>3, <2>4, <2>5 DEF TaxIsClose
<1>13. amount = 0 => s = 0
  <2>1. SUFFICES ASSUME amount = 0 PROVE s = 0
    OBVIOUS
  <2>2. \A c \in D : part[c] = 0
    BY <1>3, <1>7, <2>1
  <2>. HIDE DEF D
  <2>. QED BY <1>1, <1>10, <2>2, SumZero
<1>14. result.tax = s /\ result.component = part
  BY <1>4, <1>10, TotalIsSum
<1>15. part \in [D -> Nat]
  BY <1>3, <1>6
<1>. QED BY <1>3, <1>7, <1>10, <1>12, <1>13, <1>14, <1>15 DEF Taxes, result

(* The tax is rounded once and dealt out to the components.                 *)
LEMMA InclusiveSo ==
    ASSUME NEW amount \in Nat, NEW p \in TaxRules, p.priceMode = "INCLUSIVE"
    PROVE  Taxes(CalculateTax(amount, "STANDARD", p), amount, "STANDARD", p)
<1>. DEFINE D == DOMAIN p.rate
            exact == [c \in D |-> amount * p.rate[c]]
            result == CalculateTax(amount, "STANDARD", p)
<1>1. /\ IsFiniteSet(D) /\ \A c \in D : p.rate[c] \in Nat
      /\ TotalRate(p) = SumFunctionOnSet(p.rate, D)
  BY PricingAssumption, RulesAreSound, TotalIsSum DEF PricingAssumption, TotalRate
<1>2. PICK d, rate : /\ d = Scale + TotalRate(p) /\ rate = TotalRate(p)
                     /\ d \in Nat \ {0} /\ rate \in Nat /\ rate <= d
  BY RulesAreSound
<1>3. PICK n \in Nat : n = amount * rate
  BY <1>2, ProductIsNat
<1>4. PICK tax : tax = RoundDivision(n, d, p.rounding)
  OBVIOUS
<1>5. /\ tax \in Nat /\ tax * d \in Nat /\ tax * d <= n + (d - 1) /\ n <= tax * d + (d - 1)
  BY <1>2, <1>4, RoundSo
<1>6. /\ result.tax = tax /\ result.component = Apportion(tax, exact, d)
  BY <1>2, <1>3, <1>4 DEF CalculateTax
<1>7. /\ exact \in [D -> Nat] /\ \A c \in D : exact[c] = amount * p.rate[c]
      /\ \A c \in D : amount = 0 \/ p.rate[c] = 0 => exact[c] = 0
  <2>1. \A c \in D : amount * p.rate[c] \in Nat
    BY <1>1, ProductIsNat
  <2>2. \A c \in D : amount = 0 \/ p.rate[c] = 0 => exact[c] = 0
    BY <1>1
  <2>. QED BY <2>1, <2>2
<1>. HIDE DEF exact, result
<1>8. SumFunctionOnSet(exact, D) = n
  <2>1. amount \in Int /\ \A c \in D : p.rate[c] \in Int /\ exact[c] = amount * p.rate[c]
    BY <1>1, <1>7
  <2>. HIDE DEF D
  <2>2. SumFunctionOnSet(exact, D) = amount * SumFunctionOnSet(p.rate, D)
    BY <1>1, <2>1, SumTimes
  <2>. QED BY <1>1, <1>2, <1>3, <2>2
<1>9. Within(tax, n, d)
  BY <1>2, <1>5 DEF Within
<1>10. PICK a : a = Apportion(tax, exact, d)
  OBVIOUS
<1>11. /\ a \in [D -> Nat] /\ SumFunctionOnSet(a, D) = tax
       /\ \A c \in D : Within(a[c], exact[c], d)
  <2>1. Numbered(D) /\ tax \in Int
    BY <1>5, PricingAssumption DEF PricingAssumption, Numbered
  <2>. HIDE DEF D
  <2>2. Within(tax, SumFunctionOnSet(exact, D), d)
    BY <1>8, <1>9
  <2>. QED BY <1>1, <1>2, <1>7, <1>10, <2>1, <2>2, ApportionSo
<1>12. ASSUME NEW c \in D, exact[c] = 0 PROVE a[c] = 0
  <2>1. PICK m \in Nat : m = a[c] /\ Within(m, 0, d)
    BY <1>11, <1>12
  <2>. QED BY <1>2, <2>1, WithinNothing
<1>13. n = 0 => tax = 0
  BY <1>2, <1>5, <1>9, WithinNothing
<1>14. amount = 0 => n = 0
  BY <1>2, <1>3
<1>15. tax <= amount
  <2>1. n <= amount * d
    <3>1. rate * amount <= d * amount /\ rate * amount = amount * rate /\ d * amount = amount * d
      BY <1>2, Larger
    <3>. QED BY <1>3, <3>1
  <2>2. tax * d < (amount + 1) * d
    <3>1. (amount + 1) * d = amount * d + d /\ amount * d \in Int
      BY <1>2, OneMore
    <3>. QED BY <1>2, <1>5, <2>1, <3>1
  <2>3. tax < amount + 1
    BY <1>2, <1>5, <2>2, Smaller
  <2>. QED BY <1>5, <2>3
<1>16. TaxIsClose(tax, amount, p)
  <2>1. Below(p) = d /\ Roundings(p) = 1 /\ 1 * d = d
    BY <1>2 DEF Below, Roundings
  <2>. QED BY <1>2, <1>3, <1>9, <2>1 DEF Within, TaxIsClose
<1>. QED BY <1>5, <1>6, <1>7, <1>10, <1>11, <1>12, <1>13, <1>14, <1>15, <1>16 DEF Taxes, result

LEMMA ExemptSo ==
    ASSUME NEW amount \in Nat, NEW treatment, treatment # "STANDARD", NEW p \in TaxRules
    PROVE  Taxes(CalculateTax(amount, treatment, p), amount, treatment, p)
<1>. DEFINE none == [c \in DOMAIN p.rate |-> 0]
<1>1. /\ CalculateTax(amount, treatment, p).tax = 0
      /\ CalculateTax(amount, treatment, p).component = none
  BY DEF CalculateTax
<1>2. none \in [DOMAIN p.rate -> Nat] /\ \A c \in DOMAIN p.rate : none[c] = 0
  OBVIOUS
<1>. HIDE DEF none
<1>3. SumFunctionOnSet(none, DOMAIN p.rate) = 0
  BY <1>2, RulesAreSound, SumZero
<1>. QED BY <1>1, <1>2, <1>3 DEF Taxes

LEMMA CalculateTaxSo ==
    ASSUME NEW amount \in Nat, NEW treatment, NEW p \in TaxRules
    PROVE  Taxes(CalculateTax(amount, treatment, p), amount, treatment, p)
<1>1. p.priceMode \in {"INCLUSIVE", "EXCLUSIVE"}
  BY RulesAreSound
<1>. QED BY <1>1, ExclusiveSo, InclusiveSo, ExemptSo

(* a is what dealing total out to the lines of S gives them.                 *)
Dealt(a, total, S) ==
    /\ a \in [S -> Nat]
    /\ Input(S) # 0 \/ total = 0 => SumFunctionOnSet(a, S) = total
    /\ Input(S) # 0 => \A l \in S : Within(a[l], total * line[l].amount, Input(S))
    /\ \A l \in S : total = 0 \/ line[l].amount = 0 => a[l] = 0
    /\ total <= Input(S) => \A l \in S : a[l] <= line[l].amount

(* Nothing to divide by: nobody gets anything.                              *)
LEMMA AllocateNone ==
    ASSUME NEW S, IsFiniteSet(S), \A l \in S : line[l].amount \in Nat,
           NEW total \in Nat, Input(S) = 0
    PROVE  Dealt(Allocate(total, S), total, S)
<1>. DEFINE none == [l \in S |-> 0]
            amount == [l \in S |-> line[l].amount]
<1>1. Allocate(total, S) = none
  BY DEF Allocate, Input
<1>2. none \in [S -> Nat] /\ \A l \in S : none[l] = 0
  OBVIOUS
<1>. HIDE DEF none
<1>3. SumFunctionOnSet(none, S) = 0
  BY <1>2, SumZero
<1>. QED BY <1>1, <1>2, <1>3 DEF Dealt

(* No more than a whole d is dealt out of d: no part exceeds its weight.      *)
LEMMA PartWithinWeight ==
    ASSUME NEW q \in Nat, NEW t \in Nat, NEW w \in Nat, NEW d \in Nat \ {0},
           Within(q, t * w, d), t <= d
    PROVE  q <= w
<1>1. t * w <= d * w
  BY Larger
<1>2. (w + 1) * d = w * d + d /\ w * d = d * w /\ t * w \in Nat /\ q * d \in Nat /\ w * d \in Nat
  BY OneMore, ProductIsNat
<1>3. q * d < (w + 1) * d
  <2>1. PICK m, n, k, o \in Nat : m = q * d /\ n = t * w /\ k = w * d /\ o = (w + 1) * d
    BY <1>2
  <2>2. m < n + d /\ n <= k /\ o = k + d
    BY <1>1, <1>2, <2>1 DEF Within
  <2>. QED BY <2>1, <2>2
<1>4. q < w + 1
  BY <1>3, Smaller
<1>. QED BY <1>4

LEMMA WeightsSum ==
    ASSUME NEW S, IsFiniteSet(S), \A l \in S : line[l].amount \in Nat, NEW total \in Nat
    PROVE  /\ Input(S) \in Nat
           /\ SumFunctionOnSet([l \in S |-> total * line[l].amount], S) = total * Input(S)
           /\ [l \in S |-> total * line[l].amount] \in [S -> Nat]
<1>. DEFINE amount == [l \in S |-> line[l].amount]
            num == [l \in S |-> total * line[l].amount]
<1>1. \A l \in S : amount[l] \in Nat /\ amount[l] \in Int /\ num[l] = total * amount[l]
  OBVIOUS
<1>2. Input(S) = SumFunctionOnSet(amount, S)
  BY TotalIsSum DEF Input
<1>3. \A l \in S : total * line[l].amount \in Nat
  BY ProductIsNat
<1>4. num \in [S -> Nat]
  BY <1>3
<1>. HIDE DEF amount, num
<1>5. Input(S) \in Nat
  BY <1>1, <1>2, SumIsNat
<1>6. SumFunctionOnSet(num, S) = total * SumFunctionOnSet(amount, S)
  <2>1. total \in Int
    OBVIOUS
  <2>. QED BY <1>1, <2>1, SumTimes
<1>. QED BY <1>2, <1>4, <1>5, <1>6 DEF num

LEMMA AllocateSo ==
    ASSUME NEW S, IsFiniteSet(S), Numbered(S), \A l \in S : line[l].amount \in Nat,
           NEW total \in Nat
    PROVE  Dealt(Allocate(total, S), total, S)
<1>1. CASE Input(S) = 0
  BY <1>1, AllocateNone
<1>2. CASE Input(S) # 0
  <2>1. PICK num : num = [l \in S |-> total * line[l].amount]
    OBVIOUS
  <2>2. PICK sum \in Nat \ {0} : sum = Input(S)
    BY <1>2, WeightsSum
  <2>3. num \in [S -> Nat] /\ SumFunctionOnSet(num, S) = total * sum
    BY <2>1, <2>2, WeightsSum
  <2>4. PICK a : a = Apportion(total, num, sum)
    OBVIOUS
  <2>5. Allocate(total, S) = a
    BY <1>2, <2>1, <2>2, <2>4 DEF Allocate, Input
  <2>6. Within(total, SumFunctionOnSet(num, S), sum)
    <3>1. PICK n \in Nat : n = total * sum
      BY ProductIsNat
    <3>2. n < n + sum
      OBVIOUS
    <3>. QED BY <2>3, <3>1, <3>2 DEF Within
  <2>7. a \in [S -> Nat] /\ SumFunctionOnSet(a, S) = total /\ \A l \in S : Within(a[l], num[l], sum)
    <3>1. total \in Int
      OBVIOUS
    <3>. QED BY <2>3, <2>4, <2>6, <3>1, ApportionSo
  <2>8. ASSUME NEW l \in S
        PROVE  /\ a[l] \in Nat /\ Within(a[l], total * line[l].amount, sum)
               /\ total = 0 \/ line[l].amount = 0 => a[l] = 0
               /\ total <= sum => a[l] <= line[l].amount
    <3>1. PICK w \in Nat : w = line[l].amount
      OBVIOUS
    <3>2. a[l] \in Nat /\ Within(a[l], total * w, sum)
      BY <2>1, <2>7, <3>1
    <3>3. total = 0 \/ w = 0 => total * w = 0
      OBVIOUS
    <3>4. total = 0 \/ w = 0 => a[l] = 0
      BY <3>2, <3>3, WithinNothing
    <3>5. total <= sum => a[l] <= w
      BY <3>2, PartWithinWeight
    <3>. QED BY <3>1, <3>2, <3>4, <3>5
  <2>9. /\ \A l \in S : Within(a[l], total * line[l].amount, sum)
        /\ \A l \in S : total = 0 \/ line[l].amount = 0 => a[l] = 0
        /\ total <= sum => \A l \in S : a[l] <= line[l].amount
    BY <2>8
  <2>. QED BY <2>2, <2>5, <2>7, <2>9 DEF Dealt
<1>. QED BY <1>1, <1>2

(* What is taxed together: each line, or all the lines that are taxed.       *)
Together(p) == IF p.scope = "LINE" THEN {{l} : l \in Group("STANDARD")} ELSE {Group("STANDARD")}

(* tau and part are a right reckoning of the tax of the lines.               *)
Reckoned(tau, part, p) ==
    /\ tau \in [Present -> Nat]
    /\ \A l \in Present, c \in DOMAIN p.rate : part[l][c] \in Nat
    /\ SumFunctionOnSet(tau, Present) =
          SumFunctionOnSet([c \in DOMAIN p.rate |->
                               SumFunctionOnSet([l \in Present |-> part[l][c]], Present)],
                           DOMAIN p.rate)
    /\ p.priceMode = "INCLUSIVE" => \A l \in Present : tau[l] <= line[l].amount
    /\ \A S \in Together(p) :
          /\ TaxIsClose(SumFunctionOnSet(tau, S), Input(S), p)
          /\ \A l \in S : \/ Input(S) = 0
                          \/ Within(tau[l], SumFunctionOnSet(tau, S) * line[l].amount, Input(S))
    /\ \A l \in Present : line[l].treatment # "STANDARD" \/ line[l].amount = 0 => tau[l] = 0
    /\ \A l \in Present, c \in DOMAIN p.rate : p.rate[c] = 0 => part[l][c] = 0

LEMMA SelfWithin ==
    ASSUME NEW q \in Nat, NEW d \in Nat \ {0}
    PROVE  Within(q, q * d, d)
<1>1. PICK n \in Nat : n = q * d
  BY ProductIsNat
<1>2. n < n + d
  OBVIOUS
<1>. QED BY <1>1, <1>2 DEF Within

(* When each line is taxed by itself.                                       *)
LEMMA LineScope ==
    ASSUME PricingInv, NEW p \in TaxRules, p.scope = "LINE",
           NEW r, \A l \in Present : r[l] = CalculateTax(line[l].amount, line[l].treatment, p)
    PROVE  Reckoned([l \in Present |-> r[l].tax], [l \in Present |-> r[l].component], p)
<1>. DEFINE D == DOMAIN p.rate
            tau == [l \in Present |-> r[l].tax]
            part == [l \in Present |-> r[l].component]
            column == [c \in D |-> [l \in Present |-> part[l][c]]]
            columns == [c \in D |-> SumFunctionOnSet([l \in Present |-> part[l][c]], Present)]
<1>1. \A l \in Present : Taxes(r[l], line[l].amount, line[l].treatment, p)
  BY LinesAreSound, CalculateTaxSo
<1>2. /\ tau \in [Present -> Nat]
      /\ \A l \in Present, c \in D : part[l][c] \in Nat
      /\ \A l \in Present : tau[l] = SumFunctionOnSet(part[l], D)
  BY <1>1 DEF Taxes
<1>3. SumFunctionOnSet(tau, Present) = SumFunctionOnSet(columns, D)
  <2>1. /\ \A l \in Present, c \in D : part[l][c] \in Int /\ column[c][l] = part[l][c]
        /\ \A c \in D : columns[c] = SumFunctionOnSet(column[c], Present)
    BY <1>2
  <2>2. IsFiniteSet(Present) /\ IsFiniteSet(D)
    BY LinesAreSound, RulesAreSound
  <2>. HIDE DEF tau, part, column, columns
  <2>3. Tabled(Present, D, part, tau, column, columns)
    BY <1>2, <2>1, <2>2 DEF Tabled
  <2>. QED BY <2>3, SumSwap
<1>4. /\ p.priceMode = "INCLUSIVE" => \A l \in Present : tau[l] <= line[l].amount
      /\ \A l \in Present : line[l].treatment # "STANDARD" \/ line[l].amount = 0 => tau[l] = 0
      /\ \A l \in Present, c \in D : p.rate[c] = 0 => part[l][c] = 0
  BY <1>1 DEF Taxes
<1>5. ASSUME NEW l \in Group("STANDARD")
      PROVE  /\ TaxIsClose(SumFunctionOnSet(tau, {l}), Input({l}), p)
             /\ \/ Input({l}) = 0
                \/ Within(tau[l], SumFunctionOnSet(tau, {l}) * line[l].amount, Input({l}))
  <2>1. l \in Present /\ line[l].treatment = "STANDARD" /\ line[l].amount \in Nat
    BY LinesAreSound DEF Group
  <2>2. tau[l] \in Nat /\ tau[l] \in Int /\ TaxIsClose(tau[l], line[l].amount, p)
    BY <1>1, <2>1 DEF Taxes
  <2>. DEFINE amount == [k \in {l} |-> line[k].amount]
  <2>3. amount[l] = line[l].amount /\ amount[l] \in Int
    BY <2>1
  <2>4. Input({l}) = SumFunctionOnSet(amount, {l})
    BY TotalIsSum DEF Input
  <2>. HIDE DEF tau, amount
  <2>5. SumFunctionOnSet(tau, {l}) = tau[l] /\ Input({l}) = line[l].amount
    BY <2>2, <2>3, <2>4, SumSingle
  <2>6. Input({l}) = 0 \/ Within(tau[l], tau[l] * Input({l}), Input({l}))
    BY <2>1, <2>2, <2>5, SelfWithin
  <2>. QED BY <2>2, <2>5, <2>6
<1>6. ASSUME NEW S \in Together(p)
      PROVE  /\ TaxIsClose(SumFunctionOnSet(tau, S), Input(S), p)
             /\ \A l \in S : \/ Input(S) = 0
                             \/ Within(tau[l], SumFunctionOnSet(tau, S) * line[l].amount, Input(S))
  <2>1. PICK l \in Group("STANDARD") : S = {l}
    BY DEF Together
  <2>. HIDE DEF tau
  <2>. QED BY <1>5, <2>1
<1>7. Reckoned(tau, part, p)
  <2>. HIDE DEF tau, part
  <2>. QED BY <1>2, <1>3, <1>4, <1>6, Zenon DEF Reckoned
<1>. QED BY <1>7

(* When the tax of all the lines together is dealt out to them.              *)
LEMMA InvoiceScope ==
    ASSUME PricingInv, NEW p \in TaxRules, p.scope # "LINE",
           NEW r, \A t \in Treatments : r[t] = CalculateTax(Input(Group(t)), t, p),
           NEW tau, NEW part, tau = [l \in Present |-> tau[l]],
           \A l \in Present : tau[l] =
              Allocate(r[line[l].treatment].tax, Group(line[l].treatment))[l],
           \A l \in Present, c \in DOMAIN p.rate : part[l][c] =
              Allocate(r[line[l].treatment].component[c], Group(line[l].treatment))[l]
    PROVE  Reckoned(tau, part, p)
<1>. DEFINE D == DOMAIN p.rate
            G == Group("STANDARD")
            of(t, c) == Allocate(r[t].component[c], Group(t))
            columns == [c \in D |-> SumFunctionOnSet([l \in Present |-> part[l][c]], Present)]
<1>1. \A t \in Treatments : /\ IsFiniteSet(Group(t)) /\ Numbered(Group(t)) /\ Input(Group(t)) \in Nat
                            /\ Group(t) \subseteq Present
                            /\ \A l \in Group(t) : line[l].amount \in Nat
  <2>1. Numbered(Present)
    BY PricingAssumption DEF PricingAssumption, Numbered, Present
  <2>2. \A S \in SUBSET Present : Numbered(S)
    BY <2>1 DEF Numbered
  <2>. QED BY <2>2, LinesAreSound
<1>2. \A t \in Treatments : Taxes(r[t], Input(Group(t)), t, p)
  BY <1>1, CalculateTaxSo
<1>3. \A l \in Present : line[l].treatment \in Treatments /\ l \in Group(line[l].treatment)
  BY LinesAreSound DEF Group
<1>4. ASSUME NEW t \in Treatments
      PROVE  /\ Dealt(Allocate(r[t].tax, Group(t)), r[t].tax, Group(t))
             /\ \A c \in D : Dealt(of(t, c), r[t].component[c], Group(t))
  <2>1. r[t].tax \in Nat /\ \A c \in D : r[t].component[c] \in Nat
    BY <1>2 DEF Taxes
  <2>. QED BY <1>1, <2>1, AllocateSo
<1>5. ASSUME NEW l \in Present
      PROVE  /\ tau[l] \in Nat /\ \A c \in D : part[l][c] \in Nat
             /\ p.priceMode = "INCLUSIVE" => tau[l] <= line[l].amount
             /\ line[l].treatment # "STANDARD" \/ line[l].amount = 0 => tau[l] = 0
             /\ \A c \in D : p.rate[c] = 0 \/ line[l].treatment # "STANDARD" => part[l][c] = 0
  <2>1. PICK t \in Treatments : t = line[l].treatment /\ l \in Group(t)
    BY <1>3
  <2>2. PICK a : a = Allocate(r[t].tax, Group(t))
    OBVIOUS
  <2>3. Dealt(a, r[t].tax, Group(t)) /\ tau[l] = a[l]
    BY <1>4, <2>1, <2>2
  <2>4. \A c \in D : Dealt(of(t, c), r[t].component[c], Group(t)) /\ part[l][c] = of(t, c)[l]
    BY <1>4, <2>1
  <2>5. /\ t # "STANDARD" => r[t].tax = 0 /\ \A c \in D : r[t].component[c] = 0
        /\ \A c \in D : p.rate[c] = 0 => r[t].component[c] = 0
        /\ p.priceMode = "INCLUSIVE" => r[t].tax <= Input(Group(t))
    BY <1>2 DEF Taxes
  <2>6. /\ tau[l] \in Nat
        /\ r[t].tax <= Input(Group(t)) => tau[l] <= line[l].amount
        /\ r[t].tax = 0 \/ line[l].amount = 0 => tau[l] = 0
    BY <2>1, <2>3 DEF Dealt
  <2>7. \A c \in D : part[l][c] \in Nat /\ (r[t].component[c] = 0 => part[l][c] = 0)
    <3>. HIDE DEF of
    <3>. QED BY <2>1, <2>4 DEF Dealt
  <2>. QED BY <2>1, <2>5, <2>6, <2>7
<1>6. \A S \in SUBSET Present : \A l \in S : tau[l] \in Int
  BY <1>5
<1>7. "STANDARD" \in Treatments /\ r["STANDARD"].tax \in Nat
      /\ \A c \in D : r["STANDARD"].component[c] \in Nat
  BY <1>2 DEF Treatments, Taxes
<1>8. /\ Input(G) = 0 => r["STANDARD"].tax = 0 /\ \A c \in D : r["STANDARD"].component[c] = 0
      /\ SumFunctionOnSet(r["STANDARD"].component, D) = r["STANDARD"].tax
      /\ TaxIsClose(r["STANDARD"].tax, Input(G), p)
  BY <1>2, <1>7 DEF Taxes
<1>9. /\ SumFunctionOnSet(tau, G) = r["STANDARD"].tax
      /\ \A l \in G : Input(G) = 0 \/ Within(tau[l], r["STANDARD"].tax * line[l].amount, Input(G))
  <2>1. PICK a : a = Allocate(r["STANDARD"].tax, G)
    OBVIOUS
  <2>2. Dealt(a, r["STANDARD"].tax, G)
    BY <1>4, <1>7, <2>1
  <2>3. \A l \in G : tau[l] = a[l]
    BY <2>1 DEF Group
  <2>4. SumFunctionOnSet(tau, G) = SumFunctionOnSet(a, G)
    <3>1. IsFiniteSet(G)
      BY <1>1, <1>7
    <3>. HIDE DEF G
    <3>. QED BY ONLY <2>3, <3>1, SumSame
  <2>. QED BY <1>8, <2>2, <2>3, <2>4 DEF Dealt
<1>10. SumFunctionOnSet(tau, Present) = r["STANDARD"].tax
  <2>1. /\ IsFiniteSet(Present) /\ G \subseteq Present /\ \A l \in G : tau[l] \in Int
        /\ \A l \in Present \ G : tau[l] = 0
    BY LinesAreSound, <1>5 DEF Group
  <2>. HIDE DEF G
  <2>2. SumFunctionOnSet(tau, Present) = SumFunctionOnSet(tau, G)
    BY <2>1, SumExtended
  <2>. QED BY <1>9, <2>2
<1>11. \A c \in D : columns[c] = r["STANDARD"].component[c]
  <2>. SUFFICES ASSUME NEW c \in D PROVE columns[c] = r["STANDARD"].component[c]
    OBVIOUS
  <2>1. PICK f : f = [l \in Present |-> part[l][c]]
    OBVIOUS
  <2>2. PICK a : a = of("STANDARD", c)
    OBVIOUS
  <2>3. Dealt(a, r["STANDARD"].component[c], G)
    BY <1>4, <1>7, <2>2
  <2>4. \A l \in G : f[l] = a[l]
    BY <2>1, <2>2 DEF Group
  <2>5. /\ IsFiniteSet(Present) /\ IsFiniteSet(G) /\ G \subseteq Present
        /\ \A l \in G : f[l] \in Int
        /\ \A l \in Present \ G : f[l] = 0
    BY LinesAreSound, <1>5, <2>1, FS_Subset DEF Group
  <2>. HIDE DEF G
  <2>6. SumFunctionOnSet(f, Present) = SumFunctionOnSet(f, G)
    BY <2>5, SumExtended
  <2>7. SumFunctionOnSet(f, G) = SumFunctionOnSet(a, G)
    BY <2>4, <2>5, SumSame
  <2>8. SumFunctionOnSet(a, G) = r["STANDARD"].component[c]
    BY <1>8, <2>3 DEF Dealt, G
  <2>. QED BY <2>1, <2>6, <2>7, <2>8
<1>12. SumFunctionOnSet(tau, Present) = SumFunctionOnSet(columns, D)
  <2>1. IsFiniteSet(D)
    BY RulesAreSound
  <2>. HIDE DEF columns, D
  <2>2. SumFunctionOnSet(columns, D) = SumFunctionOnSet(r["STANDARD"].component, D)
    BY <1>11, <2>1, SumSame
  <2>. QED BY <1>8, <1>10, <2>2
<1>13. tau \in [Present -> Nat]
  BY <1>5
<1>14. Together(p) = {G}
  BY DEF Together
<1>15. ASSUME NEW S \in Together(p)
       PROVE  /\ TaxIsClose(SumFunctionOnSet(tau, S), Input(S), p)
              /\ \A l \in S : \/ Input(S) = 0
                              \/ Within(tau[l], SumFunctionOnSet(tau, S) * line[l].amount, Input(S))
  BY <1>8, <1>9, <1>14
<1>. QED BY <1>5, <1>12, <1>13, <1>15 DEF Reckoned

LEMMA OrderSo ==
    ASSUME PricingInv, NEW p \in TaxRules, p = taxRules
    PROVE  \E tau, part :
              /\ Reckoned(tau, part, p)
              /\ \A l \in Present :
                    /\ CalculateOrder[l].price = Priced(line[l].amount, tau[l], p)
                    /\ \A c \in DOMAIN p.rate : CalculateOrder[l].component[c] = part[l][c]
<1>1. CASE p.scope = "LINE"
  <2>. DEFINE result == [l \in Present |-> CalculateTax(line[l].amount, line[l].treatment, p)]
  <2>1. PICK r : r = result
    OBVIOUS
  <2>2. \A l \in Present : r[l] = CalculateTax(line[l].amount, line[l].treatment, p)
    BY <2>1
  <2>3. \A l \in Present : /\ CalculateOrder[l].price = Priced(line[l].amount, r[l].tax, p)
                           /\ CalculateOrder[l].component = r[l].component
    BY <1>1, <2>2 DEF CalculateOrder
  <2>4. PICK tau, part : /\ tau = [l \in Present |-> r[l].tax]
                         /\ part = [l \in Present |-> r[l].component]
    OBVIOUS
  <2>5. Reckoned(tau, part, p)
    BY <1>1, <2>2, <2>4, LineScope
  <2>. QED BY <2>3, <2>4, <2>5
<1>2. CASE p.scope # "LINE"
  <2>. DEFINE aggregate == [t \in Treatments |-> CalculateTax(Input(Group(t)), t, p)]
              tax == [t \in Treatments |-> Allocate(aggregate[t].tax, Group(t))]
              dealt == [t \in Treatments |->
                          [c \in DOMAIN p.rate |-> Allocate(aggregate[t].component[c], Group(t))]]
  <2>1. \A l \in Present :
           /\ CalculateOrder[l].price = Priced(line[l].amount, tax[line[l].treatment][l], p)
           /\ \A c \in DOMAIN p.rate :
                 CalculateOrder[l].component[c] = dealt[line[l].treatment][c][l]
    BY <1>2 DEF CalculateOrder
  <2>2. PICK r : r = aggregate
    OBVIOUS
  <2>3. PICK tau, part : /\ tau = [l \in Present |-> tax[line[l].treatment][l]]
                         /\ part = [l \in Present |->
                                      [c \in DOMAIN p.rate |-> dealt[line[l].treatment][c][l]]]
    OBVIOUS
  <2>4. \A t \in Treatments : r[t] = CalculateTax(Input(Group(t)), t, p)
    BY <2>2
  <2>5. \A l \in Present : line[l].treatment \in Treatments
    BY LinesAreSound
  <2>6. /\ tau = [l \in Present |-> tau[l]]
        /\ \A l \in Present : tau[l] =
              Allocate(r[line[l].treatment].tax, Group(line[l].treatment))[l]
        /\ \A l \in Present, c \in DOMAIN p.rate : part[l][c] =
              Allocate(r[line[l].treatment].component[c], Group(line[l].treatment))[l]
    BY <2>2, <2>3, <2>5
  <2>7. Reckoned(tau, part, p)
    BY <1>2, <2>4, <2>6, InvoiceScope
  <2>. HIDE DEF tax, dealt
  <2>8. \A l \in Present :
           /\ CalculateOrder[l].price = Priced(line[l].amount, tau[l], p)
           /\ \A c \in DOMAIN p.rate : CalculateOrder[l].component[c] = part[l][c]
    BY <2>1, <2>3
  <2>. QED BY <2>7, <2>8
<1>. QED BY <1>1, <1>2

LEMMA PricedSo ==
    ASSUME NEW amount, NEW tax, NEW p
    PROVE  /\ Priced(amount, tax, p).tax = tax
           /\ Priced(amount, tax, p).net = IF p.priceMode = "INCLUSIVE" THEN amount - tax ELSE amount
           /\ Priced(amount, tax, p).gross = IF p.priceMode = "INCLUSIVE" THEN amount ELSE amount + tax
  BY DEF Priced

LEMMA TaxSo == PricingInv => TaxReconciles
<1>. SUFFICES ASSUME PricingInv PROVE TaxReconciles
  OBVIOUS
<1>1. PICK p \in TaxRules : p = taxRules
  BY DEF PricingInv
<1>2. PICK tau, part, order :
         /\ Reckoned(tau, part, p) /\ order = CalculateOrder
         /\ \A l \in Present :
               /\ order[l].price = Priced(line[l].amount, tau[l], p)
               /\ \A c \in DOMAIN p.rate : order[l].component[c] = part[l][c]
  BY <1>1, OrderSo
<1>. DEFINE D == DOMAIN p.rate
            amount == [l \in Present |-> line[l].amount]
            net == [l \in Present |-> order[l].price.net]
            tax == [l \in Present |-> order[l].price.tax]
            gross == [l \in Present |-> order[l].price.gross]
            price == [l \in Present |-> order[l].price]
            columns == [c \in D |-> TotalOf([l \in Present |-> order[l].component[c]], Present)]
            TaxOf(S) == TotalOf([l \in S |-> order[l].price.tax], S)
            Near(m, n, d) == m < n + d /\ n < m + d
<1>3. /\ IsFiniteSet(Present) /\ \A l \in Present : line[l].amount \in Nat
      /\ p.priceMode \in {"INCLUSIVE", "EXCLUSIVE"} /\ IsFiniteSet(D)
  BY LinesAreSound, RulesAreSound
<1>4. \A l \in Present : tau[l] \in Nat
  BY <1>2 DEF Reckoned
<1>4a. \A l \in Present :
         /\ order[l].price.tax = tau[l]
         /\ order[l].price.net =
               IF p.priceMode = "INCLUSIVE" THEN line[l].amount - tau[l] ELSE line[l].amount
         /\ order[l].price.gross =
               IF p.priceMode = "INCLUSIVE" THEN line[l].amount ELSE line[l].amount + tau[l]
  BY <1>2, PricedSo
<1>5. \A l \in Present :
         /\ amount[l] \in Int /\ net[l] \in Int /\ tax[l] \in Int /\ gross[l] \in Int
         /\ gross[l] = net[l] + tax[l] /\ tax[l] = tau[l]
         /\ p.priceMode = "INCLUSIVE" => gross[l] = amount[l]
         /\ p.priceMode = "EXCLUSIVE" => net[l] = amount[l]
  BY <1>3, <1>4, <1>4a
<1>6. /\ Totals(price).net = SumFunctionOnSet(net, Present)
      /\ Totals(price).tax = SumFunctionOnSet(tax, Present)
      /\ Totals(price).gross = SumFunctionOnSet(gross, Present)
      /\ Input(Present) = SumFunctionOnSet(amount, Present)
  <2>1. /\ net = [l \in Present |-> price[l].net] /\ tax = [l \in Present |-> price[l].tax]
        /\ gross = [l \in Present |-> price[l].gross]
    OBVIOUS
  <2>. HIDE DEF net, tax, gross, price
  <2>. QED BY <2>1, TotalIsSum DEF Totals, Input
<1>7. /\ SumFunctionOnSet(gross, Present) =
            SumFunctionOnSet(net, Present) + SumFunctionOnSet(tax, Present)
      /\ SumFunctionOnSet(tax, Present) = SumFunctionOnSet(tau, Present)
  <2>. HIDE DEF net, tax, gross, amount
  <2>1. SumFunctionOnSet(gross, Present) =
            SumFunctionOnSet(net, Present) + SumFunctionOnSet(tax, Present)
    BY ONLY <1>3, <1>5, SumOfSums
  <2>2. SumFunctionOnSet(tax, Present) = SumFunctionOnSet(tau, Present)
    BY ONLY <1>3, <1>5, SumSame
  <2>. QED BY <2>1, <2>2
<1>8. /\ p.priceMode = "INCLUSIVE" =>
            SumFunctionOnSet(gross, Present) = SumFunctionOnSet(amount, Present)
      /\ p.priceMode = "EXCLUSIVE" =>
            SumFunctionOnSet(net, Present) = SumFunctionOnSet(amount, Present)
  <2>. HIDE DEF net, tax, gross, amount
  <2>1. ASSUME p.priceMode = "INCLUSIVE"
        PROVE  SumFunctionOnSet(gross, Present) = SumFunctionOnSet(amount, Present)
    BY ONLY <1>3, <1>5, <2>1, SumSame
  <2>2. ASSUME p.priceMode = "EXCLUSIVE"
        PROVE  SumFunctionOnSet(net, Present) = SumFunctionOnSet(amount, Present)
    BY ONLY <1>3, <1>5, <2>2, SumSame
  <2>. QED BY <2>1, <2>2
<1>9. SumFunctionOnSet(tau, Present) = TotalOf(columns, D)
  <2>1. columns = [c \in D |-> SumFunctionOnSet([l \in Present |-> part[l][c]], Present)]
    <3>1. \A c \in D : [l \in Present |-> order[l].component[c]] = [l \in Present |-> part[l][c]]
      BY <1>2
    <3>. QED BY <3>1, TotalIsSum
  <2>. HIDE DEF columns
  <2>. QED BY <1>2, <2>1, TotalIsSum DEF Reckoned
<1>10. ASSUME NEW S \in Together(p)
       PROVE  /\ S \subseteq Present /\ TaxOf(S) = SumFunctionOnSet(tau, S)
              /\ \A l \in S : line[l].treatment = "STANDARD"
  <2>1. S \subseteq Present /\ \A l \in S : line[l].treatment = "STANDARD"
    BY DEF Together, Group
  <2>2. IsFiniteSet(S)
    BY <1>3, <2>1, FS_Subset
  <2>. DEFINE f == [l \in S |-> order[l].price.tax]
  <2>3. \A l \in S : f[l] = tau[l]
    BY <1>4a, <2>1
  <2>. HIDE DEF f
  <2>4. SumFunctionOnSet(f, S) = SumFunctionOnSet(tau, S)
    BY ONLY <2>2, <2>3, SumSame
  <2>. QED BY <2>1, <2>4, TotalIsSum DEF f
<1>11. \A S \in Together(p) :
         Near(TaxOf(S) * Below(p), Input(S) * TotalRate(p), Roundings(p) * Below(p))
  BY <1>2, <1>10 DEF Reckoned, TaxIsClose
<1>12. ASSUME NEW S \in Together(p), NEW l \in S
       PROVE  /\ \/ Input(S) = 0
                 \/ Near(order[l].price.tax * Input(S), TaxOf(S) * line[l].amount, Input(S))
              /\ line[l].amount = 0 => order[l].price.tax = 0
  <2>1. l \in Present /\ order[l].price.tax = tau[l]
    BY <1>10, <1>4a
  <2>2. Input(S) = 0 \/ Within(tau[l], TaxOf(S) * line[l].amount, Input(S))
    BY <1>2, <1>10 DEF Reckoned
  <2>3. line[l].amount = 0 => tau[l] = 0
    BY <1>2, <2>1 DEF Reckoned
  <2>. QED BY <2>1, <2>2, <2>3 DEF Within
<1>13. \A l \in Present : line[l].treatment # "STANDARD" => order[l].price.tax = 0
  BY <1>2, <1>4a DEF Reckoned
<1>14. \A l \in Present : order[l].price.net >= 0
  <2>. SUFFICES ASSUME NEW l \in Present PROVE order[l].price.net >= 0
    OBVIOUS
  <2>1. p.priceMode = "INCLUSIVE" => tau[l] <= line[l].amount
    BY <1>2 DEF Reckoned
  <2>. QED BY <1>3, <1>4, <1>4a, <2>1
<1>15. \A l \in Present, c \in D : p.rate[c] = 0 => order[l].component[c] = 0
  BY <1>2 DEF Reckoned
<1>. HIDE DEF columns, price, TaxOf, Near
<1>16. /\ Totals(price).gross = Totals(price).net + Totals(price).tax
       /\ p.priceMode = "INCLUSIVE" => Totals(price).gross = Input(Present)
       /\ p.priceMode = "EXCLUSIVE" => Totals(price).net = Input(Present)
       /\ Totals(price).tax = TotalOf(columns, D)
  BY <1>6, <1>7, <1>8, <1>9
<1>. QED BY <1>1, <1>2, <1>11, <1>12, <1>13, <1>14, <1>15, <1>16
         DEF TaxReconciles, columns, price, TaxOf, Near, Together, Below, Roundings

(* A till that is offline shows, and collects, the totals that the server    *)
(* will compute, however many lines and whatever the tax profile             *)
(* (packages/domain/src/order-tax.ts, orders/order-calculator.ts).           *)
THEOREM TillAlwaysAgrees == Spec => []TillAgreesWithServer
  BY TillSo, PricingFirst, PricingStep, PricingRuns, PTL

(* Whatever is rounded and dealt out, the tax of an order is its components, *)
(* its lines add up, and nobody is taxed off his share by a unit or more     *)
(* (calculateOrder, calculateTax, allocate).                                 *)
THEOREM TaxAlwaysReconciles == Spec => []TaxReconciles
  BY TaxSo, PricingFirst, PricingStep, PricingRuns, PTL

(***************************************************************************)
(* Availability.                                                           *)
(***************************************************************************)

(* What can be made of v at w for y.                                         *)
Capacity(v, y, w) == IF v <= 0 THEN 0 ELSE (v * y) \div w

LEMMA CapacityType ==
    ASSUME NEW v \in Int, NEW y \in Nat \ {0}, NEW w \in Nat \ {0}
    PROVE  Capacity(v, y, w) \in Nat
<1>1. v > 0 => v * y \in Nat
  BY ProductIsNat
<1>. QED BY <1>1, Divided DEF Capacity

(* u is enough for q of them exactly when the capacity is, and what is left  *)
(* has the capacity that is left.                                           *)
Exact(k, y, q, w) == k * y = q * w

LEMMA QuoteSo ==
    ASSUME NEW u \in Int, NEW y \in Nat \ {0}, NEW w \in Nat \ {0}, NEW q \in Nat \ {0},
           NEW k \in Nat, Exact(k, y, q, w)
    PROVE  /\ u >= k <=> q <= Capacity(u, y, w)
           /\ u >= k => Capacity(u - k, y, w) = Capacity(u, y, w) - q
<1>0. k * y = q * w
  BY DEF Exact
<1>1. k > 0
  <2>1. 1 * w <= q * w
    BY Larger
  <2>2. 0 * y < k * y
    BY <1>0, <2>1
  <2>. QED BY <2>2, Smaller
<1>2. CASE u <= 0
  BY <1>1, <1>2 DEF Capacity
<1>3. CASE u > 0
  <2>1. u * y \in Nat
    BY <1>3, ProductIsNat
  <2>2. PICK m \in Nat : m = u * y
    BY <2>1
  <2>3. PICK c \in Nat, r \in 0..(w - 1) : c = m \div w /\ m = c * w + r
    BY Divided
  <2>4. Capacity(u, y, w) = c
    BY <1>3, <2>2, <2>3 DEF Capacity
  <2>5. PICK kw, qw \in Nat : kw = c * w /\ qw = q * w
    BY ProductIsNat
  <2>6. u >= k => q <= c
    <3>1. u >= k => k * y <= u * y
      BY Larger
    <3>2. (c + 1) * w = c * w + w
      BY OneMore
    <3>3. u >= k => q * w < (c + 1) * w
      BY <1>0, <2>2, <2>3, <2>5, <3>1, <3>2
    <3>4. u >= k => q < c + 1
      BY <3>3, Smaller
    <3>. QED BY <3>4
  <2>7. q <= c => u >= k
    <3>1. q <= c => q * w <= c * w
      BY Larger
    <3>2. (u + 1) * y = u * y + y
      BY OneMore
    <3>3. q <= c => k * y < (u + 1) * y
      BY <1>0, <2>2, <2>3, <2>5, <3>1, <3>2
    <3>4. q <= c => k < u + 1
      BY <3>3, Smaller
    <3>. QED BY <3>4
  <2>8. ASSUME u >= k PROVE Capacity(u - k, y, w) = c - q
    <3>1. PICK v \in Nat : v = u - k
      BY <2>8
    <3>2. PICK n \in Nat : n = v * y
      BY ProductIsNat
    <3>3. n = m - qw
      <4>1. (u - k) * y = u * y - k * y
        OBVIOUS
      <4>. QED BY <1>0, <2>2, <2>5, <3>1, <3>2, <4>1
    <3>4. PICK d \in Nat : d = c - q
      BY <2>6, <2>8
    <3>5. PICK e \in Nat : e = d * w
      BY ProductIsNat
    <3>6. e = kw - qw
      <4>1. (c - q) * w = c * w - q * w
        OBVIOUS
      <4>. QED BY <2>5, <3>4, <3>5, <4>1
    <3>7. n = d * w + r
      BY <2>3, <2>5, <3>3, <3>5, <3>6
    <3>8. n \div w = d
      BY <3>7, DividedOnce
    <3>9. v = 0 => d = 0
      <4>1. v = 0 => n = 0
        BY <3>2
      <4>2. v = 0 => d * w < 1 * w
        BY <3>5, <3>7, <4>1
      <4>3. v = 0 => d < 1
        BY <4>2, Smaller
      <4>. QED BY <4>3
    <3>. QED BY <3>1, <3>2, <3>4, <3>8, <3>9 DEF Capacity
  <2>. QED BY <2>4, <2>6, <2>7, <2>8
<1>. QED BY <1>2, <1>3

(* The greatest and the least of a finite set of numbers are among them.     *)
LEMMA MaxIs ==
    ASSUME NEW S, IsFiniteSet(S), S # {}, \A x \in S : x \in Int
    PROVE  Max(S) \in S /\ \A y \in S : Max(S) >= y
  BY GreatestExists DEF Max

LEMMA MinIs ==
    ASSUME NEW S, IsFiniteSet(S), S # {}, \A x \in S : x \in Int
    PROVE  Min(S) \in S /\ \A y \in S : Min(S) <= y
<1>. DEFINE f == [x \in S |-> -x]
            T == {f[x] : x \in S}
<1>1. IsFiniteSet(T) /\ T # {} /\ \A x \in T : x \in Int
  <2>1. \A x \in S : f[x] \in Int
    OBVIOUS
  <2>. HIDE DEF f
  <2>. QED BY <2>1, ImageIsFinite
<1>. HIDE DEF T
<1>2. PICK t \in T : \A y \in T : t >= y
  BY <1>1, GreatestExists
<1>3. PICK x \in S : t = -x
  BY DEF T
<1>4. \A y \in S : x <= y
  <2>. SUFFICES ASSUME NEW y \in S PROVE x <= y
    OBVIOUS
  <2>1. -y \in T
    BY DEF T
  <2>. QED BY <1>2, <1>3, <2>1
<1>. QED BY <1>4 DEF Min

(* When each number falls by q, so does the least of them.                   *)
LEMMA MinFalls ==
    ASSUME NEW D, IsFiniteSet(D), D # {}, NEW f, NEW g, NEW q \in Int,
           \A i \in D : f[i] \in Int /\ g[i] = f[i] - q
    PROVE  Min({g[i] : i \in D}) = Min({f[i] : i \in D}) - q
<1>. DEFINE F == {f[i] : i \in D}
            G == {g[i] : i \in D}
<1>1. /\ IsFiniteSet(F) /\ F # {} /\ \A x \in F : x \in Int
      /\ IsFiniteSet(G) /\ G # {} /\ \A x \in G : x \in Int
  BY ImageIsFinite
<1>2. Min(F) \in F /\ (\A y \in F : Min(F) <= y) /\ Min(G) \in G /\ \A y \in G : Min(G) <= y
  <2>. HIDE DEF F, G
  <2>. QED BY <1>1, MinIs
<1>3. PICK i \in D : Min(F) = f[i]
  BY <1>2
<1>4. PICK j \in D : Min(G) = g[j]
  BY <1>2
<1>5. f[i] <= f[j] /\ g[j] <= g[i]
  BY <1>2, <1>3, <1>4
<1>. QED BY <1>3, <1>4, <1>5

(* A rule for which there is a proposal rests on a recipe that is in use.    *)
AvailabilityInv ==
    /\ rules \in [Proposals -> [status: {"NONE", "DRAFT", "CONFIRMED", "ACTIVE", "CANCELLED"},
                                version: Nat]]
    /\ cookable \subseteq RecipeBook
    /\ \A p \in Proposals : rules[p].status # "NONE" =>
          /\ p.recipe \in cookable /\ p.recipe.from <= p.from
          /\ DOMAIN p.safety \subseteq DOMAIN p.recipe.takes

LEMMA AvailabilityFirst == AvailabilityInit => AvailabilityInv
  BY DEF AvailabilityInit, AvailabilityInv, NoRules

LEMMA AvailabilityStep == AvailabilityInv /\ [AvailabilityNext]_availabilityVars => AvailabilityInv'
<1>. SUFFICES ASSUME AvailabilityInv, [AvailabilityNext]_availabilityVars PROVE AvailabilityInv'
  OBVIOUS
<1>1. CASE \E r \in RecipeBook : r \notin cookable /\ ActivateRecipe(r)
  BY <1>1 DEF ActivateRecipe, AvailabilityInv
<1>2. ASSUME NEW p \in Proposals, NEW status \in {"CONFIRMED", "ACTIVE", "CANCELLED"},
             rules[p].status # "NONE", SetStatus(p, status)
      PROVE  AvailabilityInv'
  BY <1>2 DEF SetStatus, AvailabilityInv
<1>3. ASSUME NEW p \in Proposals, CreateRule(p) PROVE AvailabilityInv'
  <2>. DEFINE V == {rules[o].version : o \in Proposals}
  <2>1. IsFiniteSet(V) /\ V # {} /\ \A x \in V : x \in Nat
    <3>. DEFINE f == [o \in Proposals |-> rules[o].version]
    <3>1. IsFiniteSet({f[o] : o \in Proposals}) /\ V = {f[o] : o \in Proposals}
      BY AvailabilityAssumption, ImageIsFinite DEF AvailabilityAssumption
    <3>2. p \in Proposals /\ \A o \in Proposals : rules[o].version \in Nat
      BY DEF AvailabilityInv
    <3>. QED BY <3>1, <3>2
  <2>2. Max(V) \in Nat
    <3>. HIDE DEF V
    <3>. QED BY <2>1, MaxIs
  <2>. HIDE DEF V
  <2>3. PICK n \in Nat : n = 1 + Max(V)
    BY <2>2
  <2>4. /\ rules' = [rules EXCEPT ![p] = [status |-> "DRAFT", version |-> n]]
        /\ p.recipe \in cookable /\ p.recipe.from <= p.from
        /\ DOMAIN p.safety \subseteq DOMAIN p.recipe.takes /\ cookable' = cookable
    BY <1>3, <2>3 DEF CreateRule, V
  <2>. QED BY <2>4 DEF AvailabilityInv
<1>4. ASSUME NEW p \in Proposals, ConfirmRule(p) \/ ActivateRule(p) \/ CancelRule(p)
      PROVE  AvailabilityInv'
  BY <1>2, <1>4 DEF ConfirmRule, ActivateRule, CancelRule
<1>5. CASE UNCHANGED <<rules, cookable>>
  BY <1>5 DEF AvailabilityInv
<1>6. ASSUME NEW t \in Sellables, NEW e \in Records, NEW expected \in 0..MostRecords,
             RecordManual(t, e, expected)
      PROVE  AvailabilityInv'
  BY <1>5, <1>6 DEF RecordManual
<1>. QED BY <1>1, <1>3, <1>4, <1>5, <1>6 DEF AvailabilityNext, SwitchOnMenu, availabilityVars

(* Of the rules in effect, there is one that the query ranks first.          *)
LEMMA RuleAtSo ==
    ASSUME AvailabilityInv, NEW at, RulesInEffect(at) # {}
    PROVE  RuleAt(at) \in RulesInEffect(at)
<1>. DEFINE E == RulesInEffect(at)
<1>0. E # {}
  OBVIOUS
<1>1. /\ IsFiniteSet(E) /\ E \subseteq Proposals
      /\ \A p \in E : p.from \in Int /\ rules[p].version \in Int
  BY AvailabilityAssumption, FS_Subset DEF AvailabilityAssumption, AvailabilityInv, RulesInEffect
<1>. HIDE DEF E
<1>2. PICK p \in E : \A o \in E : p.from >= o.from
  <2>. DEFINE S == {o.from : o \in E}
  <2>1. IsFiniteSet(S) /\ S # {} /\ \A x \in S : x \in Int
    <3>. DEFINE f == [o \in E |-> o.from]
    <3>1. IsFiniteSet({f[o] : o \in E}) /\ S = {f[o] : o \in E}
      BY <1>1, ImageIsFinite
    <3>. QED BY <1>1, <1>0, <3>1
  <2>2. PICK x \in S : \A y \in S : x >= y
    <3>. HIDE DEF S
    <3>. QED BY <2>1, GreatestExists
  <2>. QED BY <2>2
<1>. DEFINE L == {o \in E : o.from = p.from}
<1>3. PICK b \in L : \A o \in L : rules[b].version >= rules[o].version
  <2>. DEFINE S == {rules[o].version : o \in L}
  <2>1. IsFiniteSet(S) /\ S # {} /\ \A x \in S : x \in Int
    <3>. DEFINE f == [o \in L |-> rules[o].version]
    <3>1. IsFiniteSet(L)
      BY <1>1, FS_Subset
    <3>2. IsFiniteSet({f[o] : o \in L}) /\ S = {f[o] : o \in L}
      <4>. HIDE DEF L
      <4>. QED BY <3>1, ImageIsFinite
    <3>. QED BY <1>1, <3>2
  <2>2. PICK x \in S : \A y \in S : x >= y
    <3>. HIDE DEF S
    <3>. QED BY <2>1, GreatestExists
  <2>. QED BY <2>2
<1>4. b \in E /\ \A o \in E :
         b.from > o.from \/ (b.from = o.from /\ rules[b].version >= rules[o].version)
  BY <1>1, <1>2, <1>3
<1>. QED BY <1>4 DEF RuleAt, E

LEMMA RuleSound ==
    ASSUME AvailabilityInv, NEW at \in Nat, NEW p \in RulesInEffect(at)
    PROVE  /\ p \in Proposals /\ RuleIsValid(p, at)
           /\ p.recipe.yields \in Nat \ {0}
           /\ \A i \in DOMAIN p.safety : p.recipe.takes[i] \in Nat \ {0}
<1>1. p \in Proposals /\ rules[p].status # "NONE" /\ p.from <= at
  BY DEF RulesInEffect
<1>2. /\ p.recipe \in cookable /\ p.recipe.from <= p.from
      /\ DOMAIN p.safety \subseteq DOMAIN p.recipe.takes
  BY <1>1 DEF AvailabilityInv
<1>3. /\ p.from \in Nat /\ p.recipe.from \in Nat /\ p.recipe.yields \in Nat \ {0}
      /\ \A i \in DOMAIN p.recipe.takes : p.recipe.takes[i] \in Nat \ {0}
      /\ DOMAIN p.shelves = DOMAIN p.safety
      /\ \A i \in DOMAIN p.safety : p.shelves[i] # {}
  BY <1>1, AvailabilityAssumption DEF AvailabilityAssumption
<1>4. p.recipe.from <= at
  BY <1>1, <1>2, <1>3
<1>. QED BY <1>1, <1>2, <1>3, <1>4 DEF RuleIsValid

(* What q portions take of an ingredient, without a remainder.               *)
LEMMA NeededSo ==
    ASSUME NEW p, NEW q \in Nat \ {0}, NEW i \in DOMAIN p.safety,
           p.recipe.yields \in Nat \ {0}, p.recipe.takes[i] \in Nat \ {0}, ~Fractional(p, q)
    PROVE  /\ Needed(p, i, q) \div p.recipe.yields \in Nat
           /\ p.recipe.takes[i] * Portion \in Nat \ {0}
           /\ (Needed(p, i, q) \div p.recipe.yields) * p.recipe.yields =
                 q * (p.recipe.takes[i] * Portion)
<1>1. PICK t, y \in Nat \ {0} : t = p.recipe.takes[i] /\ y = p.recipe.yields
  OBVIOUS
<1>2. PICK m \in Nat \ {0} : m = Portion
  BY AvailabilityAssumption DEF AvailabilityAssumption
<1>3. t * m \in Nat \ {0}
  <2>1. 1 * m <= t * m /\ t * m \in Nat
    BY Larger
  <2>. QED BY <2>1
<1>4. PICK w \in Nat \ {0} : w = t * m
  BY <1>3
<1>5. PICK n \in Nat : n = q * w
  BY ProductIsNat
<1>6. Needed(p, i, q) = n
  <2>1. t * q * m = q * (t * m)
    OBVIOUS
  <2>. QED BY <1>1, <1>2, <1>4, <1>5, <2>1 DEF Needed
<1>7. n % y = 0
  BY <1>1, <1>6 DEF Fractional
<1>8. n \div y \in Nat /\ n = (n \div y) * y + (n % y)
  BY Divided
<1>9. PICK k \in Nat : k = n \div y
  BY <1>8
<1>10. PICK z \in Nat : z = k * y
  BY ProductIsNat
<1>11. z = n
  BY <1>7, <1>8, <1>9, <1>10
<1>. QED BY <1>1, <1>2, <1>4, <1>5, <1>6, <1>9, <1>10, <1>11

(* What is usable of an ingredient, now and after the goods were taken.      *)
LEMMA UsableSo ==
    ASSUME NEW p \in Proposals, NEW i \in DOMAIN p.safety, NEW balance \in Ledgers, NEW q,
           Needed(p, i, q) \div p.recipe.yields \in Nat
    PROVE  /\ Usable(p, i, balance) \in Int
           /\ Usable(p, i, LedgerAfter(p, q, balance)) =
                 Usable(p, i, balance) - Needed(p, i, q) \div p.recipe.yields
<1>. DEFINE later == LedgerAfter(p, q, balance)
            f == [s \in p.shelves[i] |-> balance[<<s, i>>]]
            g == [s \in p.shelves[i] |-> later[<<s, i>>]]
<1>1. /\ IsFiniteSet(p.shelves[i]) /\ p.shelves[i] # {} /\ p.shelves[i] \subseteq Shelves
      /\ i \in Ingredients /\ p.safety[i] \in Nat
      /\ \A x \in Shelves \X Ingredients : balance[x] \in Int
  BY AvailabilityAssumption DEF AvailabilityAssumption
<1>2. PICK k \in Nat : k = Needed(p, i, q) \div p.recipe.yields
  OBVIOUS
<1>3. PICK o \in p.shelves[i] : o = CHOOSE s \in p.shelves[i] : TRUE
  BY <1>1
<1>4. \A s \in p.shelves[i] : <<s, i>> \in Shelves \X Ingredients
  BY <1>1
<1>5. \A s \in p.shelves[i] : f[s] = balance[<<s, i>>] /\ f[s] \in Int
  BY <1>1, <1>4
<1>6. \A s \in p.shelves[i] : g[s] = IF s = o THEN f[s] - k ELSE f[s]
  BY <1>2, <1>3, <1>4, <1>5 DEF LedgerAfter
<1>7. Usable(p, i, balance) = SumFunctionOnSet(f, p.shelves[i]) - p.safety[i]
  BY SumOver DEF Usable
<1>8. Usable(p, i, later) = SumFunctionOnSet(g, p.shelves[i]) - p.safety[i]
  BY SumOver DEF Usable
<1>. HIDE DEF f, g, later
<1>9. SumFunctionOnSet(f, p.shelves[i]) \in Int
  BY ONLY <1>1, <1>5, SumType
<1>10. k \in Int /\ o \in p.shelves[i] /\ f[o] \in Int /\ g[o] = f[o] - k
       /\ \A s \in p.shelves[i] \ {o} : g[s] = f[s]
  <2>1. k \in Int /\ o \in p.shelves[i]
    OBVIOUS
  <2>. QED BY ONLY <1>5, <1>6, <2>1, Zenon
<1>11. g[o] \in Int /\ g[o] - f[o] = -k
  BY ONLY <1>10
<1>12. SumFunctionOnSet(g, p.shelves[i]) = SumFunctionOnSet(f, p.shelves[i]) + (g[o] - f[o])
  <2>1. PICK S : S = p.shelves[i]
    OBVIOUS
  <2>2. /\ IsFiniteSet(S) /\ o \in S /\ \A y \in S : f[y] \in Int
        /\ g[o] \in Int /\ \A y \in S \ {o} : g[y] = f[y]
    BY <1>1, <1>5, <1>10, <1>11, <2>1
  <2>3. SumFunctionOnSet(g, S) = SumFunctionOnSet(f, S) + (g[o] - f[o])
    BY ONLY <2>2, SumUpdate
  <2>. QED BY <2>1, <2>3
<1>. QED BY <1>1, <1>2, <1>7, <1>8, <1>9, <1>10, <1>11, <1>12 DEF later

(* What one ingredient allows.                                              *)
LEMMA IngredientSo ==
    ASSUME NEW p \in Proposals, NEW q \in Nat \ {0}, NEW i \in DOMAIN p.safety,
           NEW balance \in Ledgers,
           p.recipe.yields \in Nat \ {0}, p.recipe.takes[i] \in Nat \ {0}, ~Fractional(p, q)
    PROVE  LET later == LedgerAfter(p, q, balance)
               enough == Usable(p, i, balance) >= Needed(p, i, q) \div p.recipe.yields
           IN  /\ CapacityOf(p, i, balance) \in Nat
               /\ enough <=> q <= CapacityOf(p, i, balance)
               /\ enough => /\ Usable(p, i, later) >= 0
                            /\ CapacityOf(p, i, later) = CapacityOf(p, i, balance) - q
<1>. DEFINE later == LedgerAfter(p, q, balance)
<1>1. PICK y \in Nat \ {0} : y = p.recipe.yields
  OBVIOUS
<1>2. PICK k \in Nat, w \in Nat \ {0} : /\ k = Needed(p, i, q) \div p.recipe.yields
                                        /\ w = p.recipe.takes[i] * Portion /\ k * y = q * w
  BY <1>1, NeededSo
<1>3. PICK u \in Int : u = Usable(p, i, balance)
  BY <1>2, UsableSo
<1>4. Usable(p, i, later) = u - k
  BY <1>2, <1>3, UsableSo
<1>. HIDE DEF later
<1>5. /\ CapacityOf(p, i, balance) = Capacity(u, y, w)
      /\ CapacityOf(p, i, later) = Capacity(u - k, y, w)
  BY <1>1, <1>2, <1>3, <1>4 DEF CapacityOf, Capacity
<1>6. /\ u >= k <=> q <= Capacity(u, y, w)
      /\ u >= k => Capacity(u - k, y, w) = Capacity(u, y, w) - q
  <2>1. /\ u \in Int /\ y \in Nat \ {0} /\ w \in Nat \ {0} /\ q \in Nat \ {0} /\ k \in Nat
        /\ Exact(k, y, q, w)
    BY <1>2 DEF Exact
  <2>. QED BY ONLY <2>1, QuoteSo
<1>7. Capacity(u, y, w) \in Nat
  BY CapacityType
<1>8. u >= k => u - k >= 0
  OBVIOUS
<1>. QED BY <1>2, <1>3, <1>4, <1>5, <1>6, <1>7, <1>8 DEF later

(* What a rule allows is what its scarcest ingredient does.                  *)
LEMMA OfferSo ==
    ASSUME NEW p \in Proposals, NEW q \in Nat \ {0}, NEW balance \in Ledgers,
           p.recipe.yields \in Nat \ {0},
           \A i \in DOMAIN p.safety : p.recipe.takes[i] \in Nat \ {0}, ~Fractional(p, q)
    PROVE  LET later == LedgerAfter(p, q, balance)
           IN  /\ Sufficient(p, q, balance) <=> q <= CapacityLeft(p, balance)
               /\ Sufficient(p, q, balance) =>
                     /\ \A i \in DOMAIN p.safety : Usable(p, i, later) >= 0
                     /\ CapacityLeft(p, later) = CapacityLeft(p, balance) - q
<1>. DEFINE D == DOMAIN p.safety
            later == LedgerAfter(p, q, balance)
            f == [i \in D |-> CapacityOf(p, i, balance)]
            g == [i \in D |-> CapacityOf(p, i, later)]
            enough(i) == Usable(p, i, balance) >= Needed(p, i, q) \div p.recipe.yields
            F == {f[i] : i \in D}
<1>1. IsFiniteSet(D) /\ D # {}
  BY AvailabilityAssumption DEF AvailabilityAssumption
<1>2. \A i \in D :
         /\ f[i] \in Nat /\ (enough(i) <=> q <= f[i])
         /\ enough(i) => Usable(p, i, later) >= 0 /\ g[i] = f[i] - q
  BY IngredientSo
<1>3. Sufficient(p, q, balance) <=> \A i \in D : enough(i)
  BY DEF Sufficient
<1>4. CapacityLeft(p, balance) = Min(F) /\ CapacityLeft(p, later) = Min({g[i] : i \in D})
  <2>1. /\ {CapacityOf(p, i, balance) : i \in D} = F
        /\ {CapacityOf(p, i, later) : i \in D} = {g[i] : i \in D}
    OBVIOUS
  <2>. QED BY <2>1 DEF CapacityLeft
<1>. HIDE DEF D, later, f, g, enough
<1>5. IsFiniteSet(F) /\ F # {} /\ \A x \in F : x \in Int
  BY <1>1, <1>2, ImageIsFinite
<1>6. Min(F) \in F /\ \A x \in F : Min(F) <= x
  <2>. HIDE DEF F
  <2>. QED BY <1>5, MinIs
<1>7. (\A i \in D : q <= f[i]) <=> q <= Min(F)
  <2>1. PICK i \in D : Min(F) = f[i]
    BY <1>6
  <2>2. \A j \in D : Min(F) <= f[j]
    BY <1>6
  <2>. QED BY <1>2, <2>1, <2>2
<1>8. ASSUME \A i \in D : enough(i)
      PROVE  Min({g[i] : i \in D}) = Min(F) - q
  <2>1. q \in Int /\ \A i \in D : f[i] \in Int /\ g[i] = f[i] - q
    BY <1>2, <1>8
  <2>. QED BY <1>1, <2>1, MinFalls
<1>. HIDE DEF F
<1>. QED BY <1>2, <1>3, <1>4, <1>7, <1>8 DEF D, later

LEMMA QuotesSo == AvailabilityInv => QuotesAddUp
<1>. SUFFICES ASSUME AvailabilityInv,
                     NEW at \in {t \in Instants : RulesInEffect(t) # {}}, NEW q \in 1..MostOrdered,
                     NEW balance \in Ledgers, NEW modifiers \in {{}, {"MODIFIER"}}
              PROVE  LET answer == Verdict(q, at, balance, modifiers) IN
                     /\ answer # "RULE_INVALID"
                     /\ answer \in {"AVAILABLE", "STOCK_INSUFFICIENT"} =>
                           LET p == RuleAt(at)
                               offered == CapacityLeft(p, balance)
                           IN  /\ (answer = "AVAILABLE") <=> q <= offered
                               /\ answer = "AVAILABLE" =>
                                     LET later == LedgerAfter(p, q, balance) IN
                                         /\ \A i \in DOMAIN p.safety : Usable(p, i, later) >= 0
                                         /\ CapacityLeft(p, later) = offered - q
  BY DEF QuotesAddUp
<1>1. at \in Nat /\ q \in Nat \ {0} /\ RulesInEffect(at) # {}
  BY DEF Instants
<1>2. PICK p : p = RuleAt(at)
  OBVIOUS
<1>3. p \in RulesInEffect(at)
  BY <1>1, <1>2, RuleAtSo
<1>4. /\ p \in Proposals /\ RuleIsValid(p, at) /\ p.recipe.yields \in Nat \ {0}
      /\ \A i \in DOMAIN p.safety : p.recipe.takes[i] \in Nat \ {0}
  BY <1>1, <1>3, RuleSound
<1>5. PICK answer : answer = Verdict(q, at, balance, modifiers)
  OBVIOUS
<1>6. /\ answer # "RULE_INVALID"
      /\ answer = "AVAILABLE" => ~Fractional(p, q) /\ Sufficient(p, q, balance)
      /\ answer = "STOCK_INSUFFICIENT" => ~Fractional(p, q) /\ ~Sufficient(p, q, balance)
  BY <1>1, <1>2, <1>4, <1>5 DEF Verdict
<1>7. ~Fractional(p, q) =>
         LET later == LedgerAfter(p, q, balance)
         IN  /\ Sufficient(p, q, balance) <=> q <= CapacityLeft(p, balance)
             /\ Sufficient(p, q, balance) =>
                   /\ \A i \in DOMAIN p.safety : Usable(p, i, later) >= 0
                   /\ CapacityLeft(p, later) = CapacityLeft(p, balance) - q
  BY <1>1, <1>4, OfferSo
<1>. QED BY <1>2, <1>5, <1>6, <1>7

(* What a preview offers is what can be sold, whatever recipes, rules and    *)
(* balances there are, and no rule in effect turns out invalid               *)
(* (inventory-availability.service.ts, resolve).                             *)
THEOREM QuotesAlwaysAddUp == Spec => []QuotesAddUp
  BY QuotesSo, AvailabilityFirst, AvailabilityStep, AvailabilityRuns, PTL

(***************************************************************************)
(* Opening hours.                                                          *)
(***************************************************************************)

(* Active schedules, and active special hours, are sound and one of a kind.  *)
HoursInv ==
    /\ HoursTypeOK
    /\ \A s \in Schedules : schedule[s].status = "ACTIVE" =>
          ~WeeklyWindowsOverlap(schedule[s].choice.windows)
    /\ \A r, s \in Schedules :
          (schedule[r].status = "ACTIVE" /\ schedule[s].status = "ACTIVE"
           /\ schedule[r].from = schedule[s].from) => r = s
    /\ \A s \in Specials : special[s].status = "ACTIVE" => SpecialIsSound(special[s].choice)
    /\ \A r, s \in Specials :
          (special[r].status = "ACTIVE" /\ special[s].status = "ACTIVE"
           /\ special[r].date = special[s].date) => r = s

LEMMA HoursFirst == HoursInit => HoursInv
<1>. SUFFICES ASSUME HoursInit PROVE HoursInv
  OBVIOUS
<1>1. today \in Dates
  BY HoursAssumption DEF HoursAssumption, HoursInit, Dates
<1>2. /\ \A s \in Schedules : schedule[s].status # "ACTIVE"
      /\ \A s \in Specials : special[s].status # "ACTIVE"
  BY DEF HoursInit, NoSchedule, NoSpecial
<1>3. HoursTypeOK
  BY <1>1 DEF HoursInit, HoursTypeOK
<1>. QED BY <1>2, <1>3, Zenon DEF HoursInv

(* A step on the schedules leaves the special hours alone, and conversely.   *)
SchedulesFit ==
    /\ schedule \in [Schedules ->
          {NoSchedule} \cup [status: {"DRAFT", "ACTIVE", "CANCELLED"},
                            from: Starts, choice: WeeklyChoices]]
    /\ \A s \in Schedules : schedule[s].status = "ACTIVE" =>
          ~WeeklyWindowsOverlap(schedule[s].choice.windows)
    /\ \A r, s \in Schedules :
          (schedule[r].status = "ACTIVE" /\ schedule[s].status = "ACTIVE"
           /\ schedule[r].from = schedule[s].from) => r = s
SpecialsFit ==
    /\ special \in [Specials ->
          {NoSpecial} \cup [status: {"DRAFT", "ACTIVE", "SUPERSEDED", "CANCELLED"},
                           date: Holidays, choice: SpecialChoices]]
    /\ \A s \in Specials : special[s].status = "ACTIVE" => SpecialIsSound(special[s].choice)
    /\ \A r, s \in Specials :
          (special[r].status = "ACTIVE" /\ special[s].status = "ACTIVE"
           /\ special[r].date = special[s].date) => r = s

LEMMA HoursParts ==
    /\ HoursInv <=> today \in Dates /\ SchedulesFit /\ SpecialsFit
    /\ HoursInv' <=> today' \in Dates /\ SchedulesFit' /\ SpecialsFit'
  BY DEF HoursInv, HoursTypeOK, SchedulesFit, SpecialsFit

ScheduleStep ==
    \E s \in Schedules :
        \/ \E from \in Starts, c \in WeeklyChoices :
              CreateSchedule(s, from, c) \/ UpdateSchedule(s, from, c)
        \/ ActivateSchedule(s) \/ CancelSchedule(s)
SpecialStep ==
    \E s \in Specials :
        \/ \E date \in Holidays, c \in SpecialChoices :
              CreateSpecialHours(s, date, c) \/ UpdateSpecialHours(s, date, c)
        \/ ActivateSpecialHours(s) \/ CancelSpecialHours(s)

LEMMA SchedulesStep == SchedulesFit /\ ScheduleStep => SchedulesFit'
<1>. SUFFICES ASSUME SchedulesFit, ScheduleStep PROVE SchedulesFit'
  OBVIOUS
<1>1. PICK s \in Schedules :
         \/ \E from \in Starts, c \in WeeklyChoices :
               CreateSchedule(s, from, c) \/ UpdateSchedule(s, from, c)
         \/ ActivateSchedule(s) \/ CancelSchedule(s)
  BY DEF ScheduleStep
<1>2. ASSUME NEW status \in {"DRAFT", "ACTIVE", "CANCELLED"}, NEW from \in Starts, NEW c \in WeeklyChoices,
             schedule' = [schedule EXCEPT ![s] = [status |-> status, from |-> from, choice |-> c]],
             status = "ACTIVE" =>
                /\ ~WeeklyWindowsOverlap(c.windows)
                /\ \A r \in Schedules \ {s} : ~(schedule[r].status = "ACTIVE" /\ schedule[r].from = from)
      PROVE  SchedulesFit'
  <2>1. PICK n : n = [status |-> status, from |-> from, choice |-> c]
    OBVIOUS
  <2>2. /\ n \in [status: {"DRAFT", "ACTIVE", "CANCELLED"}, from: Starts, choice: WeeklyChoices]
        /\ n.status = status /\ n.from = from /\ n.choice = c
    BY <2>1
  <2>3. schedule' = [schedule EXCEPT ![s] = n]
    BY <1>2, <2>1
  <2>4. schedule \in [Schedules ->
          {NoSchedule} \cup [status: {"DRAFT", "ACTIVE", "CANCELLED"},
                            from: Starts, choice: WeeklyChoices]]
    BY DEF SchedulesFit
  <2>5. schedule' \in [Schedules ->
          {NoSchedule} \cup [status: {"DRAFT", "ACTIVE", "CANCELLED"},
                            from: Starts, choice: WeeklyChoices]]
    BY <2>2, <2>3, <2>4
  <2>6. \A r \in Schedules : schedule'[r] = IF r = s THEN n ELSE schedule[r]
    BY <2>3, <2>4
  <2>7. \A r \in Schedules : schedule'[r].status = "ACTIVE" =>
           ~WeeklyWindowsOverlap(schedule'[r].choice.windows)
    BY <1>2, <2>2, <2>6 DEF SchedulesFit
  <2>8. \A q, r \in Schedules :
          (schedule'[q].status = "ACTIVE" /\ schedule'[r].status = "ACTIVE"
           /\ schedule'[q].from = schedule'[r].from) => q = r
    <3>. SUFFICES ASSUME NEW q \in Schedules, NEW r \in Schedules,
                         schedule'[q].status = "ACTIVE", schedule'[r].status = "ACTIVE",
                         schedule'[q].from = schedule'[r].from
                  PROVE  q = r
      OBVIOUS
    <3>1. CASE q = s \/ r = s
      BY <1>2, <2>2, <2>6, <3>1
    <3>2. CASE q # s /\ r # s
      <4>1. schedule'[q] = schedule[q] /\ schedule'[r] = schedule[r]
        BY <2>6, <3>2
      <4>. QED BY <4>1 DEF SchedulesFit
    <3>. QED BY <3>1, <3>2
  <2>. QED BY <2>5, <2>7, <2>8 DEF SchedulesFit, WeeklyWindowsOverlap
<1>3. schedule[s].status # "NONE" =>
         schedule[s] \in [status: {"DRAFT", "ACTIVE", "CANCELLED"}, from: Starts, choice: WeeklyChoices]
  BY DEF SchedulesFit, NoSchedule
<1>3a. \A status : schedule[s].status # "NONE" =>
          [schedule[s] EXCEPT !.status = status] =
             [status |-> status, from |-> schedule[s].from, choice |-> schedule[s].choice]
  BY <1>3
<1>4. ASSUME NEW from \in Starts, NEW c \in WeeklyChoices, CreateSchedule(s, from, c)
      PROVE  SchedulesFit'
  BY <1>2, <1>4 DEF CreateSchedule
<1>5. ASSUME NEW from \in Starts, NEW c \in WeeklyChoices, UpdateSchedule(s, from, c)
      PROVE  SchedulesFit'
  <2>1. schedule' = [schedule EXCEPT ![s] = [status |-> "DRAFT", from |-> from, choice |-> c]]
    BY <1>5 DEF UpdateSchedule
  <2>. QED BY <1>2, <2>1
<1>6. CASE ActivateSchedule(s)
  <2>1. /\ schedule' = [schedule EXCEPT ![s] =
              [status |-> "ACTIVE", from |-> schedule[s].from, choice |-> schedule[s].choice]]
        /\ schedule[s].from \in Starts /\ schedule[s].choice \in WeeklyChoices
    BY <1>3, <1>3a, <1>6 DEF ActivateSchedule
  <2>. QED BY <1>2, <1>6, <2>1 DEF ActivateSchedule
<1>7. CASE CancelSchedule(s)
  <2>1. /\ schedule' = [schedule EXCEPT ![s] =
              [status |-> "CANCELLED", from |-> schedule[s].from, choice |-> schedule[s].choice]]
        /\ schedule[s].from \in Starts /\ schedule[s].choice \in WeeklyChoices
    BY <1>3, <1>3a, <1>7 DEF CancelSchedule
  <2>. QED BY <1>2, <2>1
<1>. QED BY <1>1, <1>4, <1>5, <1>6, <1>7

LEMMA SpecialsStep == SpecialsFit /\ SpecialStep => SpecialsFit'
<1>. SUFFICES ASSUME SpecialsFit, SpecialStep PROVE SpecialsFit'
  OBVIOUS
<1>1. PICK s \in Specials :
         \/ \E date \in Holidays, c \in SpecialChoices :
               CreateSpecialHours(s, date, c) \/ UpdateSpecialHours(s, date, c)
         \/ ActivateSpecialHours(s) \/ CancelSpecialHours(s)
  BY DEF SpecialStep
<1>. DEFINE R == [status: {"DRAFT", "ACTIVE", "SUPERSEDED", "CANCELLED"},
                  date: Holidays, choice: SpecialChoices]
<1>2. /\ special \in [Specials -> {NoSpecial} \cup R]
      /\ \A r \in Specials : special[r].status # "NONE" => special[r] \in R
      /\ \A r \in Specials : special[r].status # "NONE" => \A status :
            [special[r] EXCEPT !.status = status] =
               [status |-> status, date |-> special[r].date, choice |-> special[r].choice]
  BY DEF SpecialsFit, NoSpecial
<1>3. ASSUME NEW status \in {"DRAFT", "CANCELLED"}, NEW date \in Holidays, NEW c \in SpecialChoices,
             special' = [special EXCEPT ![s] = [status |-> status, date |-> date, choice |-> c]]
      PROVE  SpecialsFit'
  <2>1. PICK n \in R : n = [status |-> status, date |-> date, choice |-> c] /\ n.status # "ACTIVE"
    <3>1. /\ [status |-> status, date |-> date, choice |-> c] \in R
          /\ [status |-> status, date |-> date, choice |-> c].status # "ACTIVE"
      OBVIOUS
    <3>. HIDE DEF R
    <3>. QED BY <3>1
  <2>2. special' \in [Specials -> {NoSpecial} \cup R]
        /\ \A r \in Specials : special'[r] = IF r = s THEN n ELSE special[r]
    BY <1>2, <1>3, <2>1
  <2>3. \A r \in Specials : special'[r].status = "ACTIVE" => special'[r] = special[r]
    BY <2>1, <2>2
  <2>4. \A r \in Specials : special'[r].status = "ACTIVE" => SpecialIsSound(special'[r].choice)
    BY <2>3 DEF SpecialsFit
  <2>5. \A q, r \in Specials :
          (special'[q].status = "ACTIVE" /\ special'[r].status = "ACTIVE"
           /\ special'[q].date = special'[r].date) => q = r
    BY <2>3 DEF SpecialsFit
  <2>. QED BY <2>2, <2>4, <2>5 DEF SpecialsFit
<1>4. ASSUME NEW date \in Holidays, NEW c \in SpecialChoices,
             CreateSpecialHours(s, date, c) \/ UpdateSpecialHours(s, date, c)
      PROVE  SpecialsFit'
  BY <1>3, <1>4 DEF CreateSpecialHours, UpdateSpecialHours
<1>5. CASE CancelSpecialHours(s)
  <2>1. /\ special' = [special EXCEPT ![s] =
              [status |-> "CANCELLED", date |-> special[s].date, choice |-> special[s].choice]]
        /\ special[s].date \in Holidays /\ special[s].choice \in SpecialChoices
    BY <1>2, <1>5 DEF CancelSpecialHours
  <2>. QED BY <1>3, <2>1
<1>6. CASE ActivateSpecialHours(s)
  <2>. DEFINE Same(r) == special[r].status = "ACTIVE" /\ special[r].date = special[s].date
              As(r, status) == [status |-> status, date |-> special[r].date, choice |-> special[r].choice]
  <2>1. special[s].status = "DRAFT" /\ SpecialIsSound(special[s].choice)
    BY <1>6 DEF ActivateSpecialHours
  <2>2. \A r \in Specials : special'[r] = IF r = s THEN As(r, "ACTIVE")
                                          ELSE IF Same(r) THEN As(r, "SUPERSEDED") ELSE special[r]
    BY <1>2, <1>6, <2>1 DEF ActivateSpecialHours
  <2>3. \A r \in Specials : special[r].status # "NONE" =>
           \A status \in {"ACTIVE", "SUPERSEDED"} :
              As(r, status) \in R /\ As(r, status).status = status
              /\ As(r, status).date = special[r].date /\ As(r, status).choice = special[r].choice
    BY <1>2
  <2>. HIDE DEF As
  <2>4. \A r \in Specials : special'[r] \in {NoSpecial} \cup R
    BY <1>2, <2>1, <2>2, <2>3
  <2>5. special' \in [Specials -> {NoSpecial} \cup R]
    <3>1. special' = [r \in Specials |-> special'[r]]
      BY <1>6 DEF ActivateSpecialHours
    <3>. HIDE DEF R
    <3>. QED BY <2>4, <3>1
  <2>6. \A r \in Specials : special'[r].status = "ACTIVE" =>
           /\ special'[r].date = special[r].date /\ special'[r].choice = special[r].choice
           /\ r = s \/ (special[r].status = "ACTIVE" /\ special[r].date # special[s].date)
    BY <2>1, <2>2, <2>3
  <2>7. \A r \in Specials : special'[r].status = "ACTIVE" => SpecialIsSound(special'[r].choice)
    BY <2>1, <2>6 DEF SpecialsFit
  <2>8. \A q, r \in Specials :
          (special'[q].status = "ACTIVE" /\ special'[r].status = "ACTIVE"
           /\ special'[q].date = special'[r].date) => q = r
    BY <2>6 DEF SpecialsFit
  <2>. QED BY <2>5, <2>7, <2>8 DEF SpecialsFit
<1>. QED BY <1>1, <1>4, <1>5, <1>6

LEMMA HoursStep == HoursInv /\ [HoursNext]_hoursVars => HoursInv'
<1>. SUFFICES ASSUME HoursInv, [HoursNext]_hoursVars PROVE HoursInv'
  OBVIOUS
<1>1. today \in Dates /\ SchedulesFit /\ SpecialsFit
  BY HoursParts
<1>2. /\ schedule' = schedule => SchedulesFit'
      /\ special' = special => SpecialsFit'
  BY <1>1 DEF SchedulesFit, SpecialsFit
<1>3. HoursNext => \/ Midnight \/ ScheduleStep \/ SpecialStep
  BY DEF HoursNext, ScheduleStep, SpecialStep
<1>4. CASE Midnight
  BY <1>1, <1>2, <1>4, HoursParts, HoursAssumption DEF Midnight, Dates, HoursAssumption
<1>5. CASE ScheduleStep
  <2>1. today' = today /\ special' = special
    BY <1>5 DEF ScheduleStep, CreateSchedule, UpdateSchedule, ActivateSchedule, CancelSchedule
  <2>. QED BY <1>1, <1>2, <1>5, <2>1, SchedulesStep, HoursParts DEF Dates
<1>6. CASE SpecialStep
  <2>1. today' = today /\ schedule' = schedule
    BY <1>6 DEF SpecialStep, CreateSpecialHours, UpdateSpecialHours, ActivateSpecialHours,
                CancelSpecialHours
  <2>. QED BY <1>1, <1>2, <1>6, <2>1, SpecialsStep, HoursParts DEF Dates
<1>7. CASE UNCHANGED hoursVars
  BY <1>1, <1>2, <1>7, HoursParts DEF hoursVars, Dates
<1>. QED BY <1>3, <1>4, <1>5, <1>6, <1>7

(* Where in the week an offset from the beginning of a weekday lies.         *)
Place(k, offset) ==
    LET n == (k - 1) * Day + offset IN IF n < Week * Day THEN n ELSE n - Week * Day

IsWeekly(x) == x.weekday \in 1..Week /\ x.opens \in 0..(Day - 1) /\ x.lasts \in 1..Day

(* A window that is open at an offset covers that place of the week.         *)
LEMMA SegmentCovers ==
    ASSUME NEW x, IsWeekly(x), NEW offset \in Nat, Holds(x, offset)
    PROVE  \E p \in Segments(x) :
              /\ p[1] \in Int /\ p[2] \in Int /\ Place(x.weekday, offset) \in Int
              /\ p[1] <= Place(x.weekday, offset) /\ Place(x.weekday, offset) < p[2]
<1>1. Day \in Nat \ {0} /\ Week \in Nat \ {0}
  BY HoursAssumption DEF HoursAssumption
<1>2. PICK m, t \in Nat : m = (x.weekday - 1) * Day /\ t = Week * Day
  <2>1. x.weekday - 1 \in Nat
    BY <1>1 DEF IsWeekly
  <2>. QED BY <1>1, <2>1, ProductIsNat
<1>2a. m + Day <= t
  <2>1. x.weekday - 1 \in Int /\ x.weekday \in Int /\ x.weekday <= Week /\ (x.weekday - 1) + 1 = x.weekday
    BY <1>1 DEF IsWeekly
  <2>2. x.weekday * Day <= Week * Day
    BY <1>1, <2>1, Larger
  <2>3. x.weekday * Day = m + Day
    BY <1>1, <1>2, <2>1, OneMore
  <2>. QED BY <1>2, <2>2, <2>3
<1>3. PICK a, b \in Nat : /\ a = x.opens /\ b = x.lasts /\ a <= Day - 1 /\ b <= Day /\ b >= 1
                          /\ a <= offset /\ offset < a + b
  BY <1>1 DEF IsWeekly, Holds
<1>4. PICK n : n = Place(x.weekday, offset)
  OBVIOUS
<1>5. n = IF m + offset < t THEN m + offset ELSE m + offset - t
  BY <1>2, <1>4 DEF Place
<1>6. n \in Int
  BY <1>5
<1>7. CASE m + a + b <= t
  <2>1. Segments(x) = {<<m + a, m + a + b>>}
    BY <1>2, <1>3, <1>7 DEF Segments
  <2>2. m + a <= n /\ n < m + a + b
    BY <1>3, <1>5, <1>7
  <2>. QED BY <1>4, <1>6, <2>1, <2>2
<1>8. CASE m + a + b > t
  <2>1. Segments(x) = {<<m + a, t>>, <<0, m + a + b - t>>}
    BY <1>2, <1>3, <1>8 DEF Segments
  <2>2. CASE m + offset < t
    BY <1>3, <1>4, <1>5, <1>6, <2>1, <2>2
  <2>3. CASE m + offset >= t
    BY <1>3, <1>4, <1>5, <1>6, <1>8, <2>1, <2>3
  <2>. QED BY <2>2, <2>3
<1>. QED BY <1>7, <1>8

(* Windows of a schedule that does not overlap never cover the same place.   *)
LEMMA ApartInTheWeek ==
    ASSUME NEW W, ~WeeklyWindowsOverlap(W), NEW x \in W, NEW y \in W, IsWeekly(x), IsWeekly(y),
           NEW m \in Nat, NEW n \in Nat, Holds(x, m), Holds(y, n),
           Place(x.weekday, m) = Place(y.weekday, n)
    PROVE  x = y
<1>1. PICK p \in Segments(x) :
         /\ p[1] \in Int /\ p[2] \in Int /\ Place(x.weekday, m) \in Int
         /\ p[1] <= Place(x.weekday, m) /\ Place(x.weekday, m) < p[2]
  BY SegmentCovers
<1>2. PICK q \in Segments(y) :
         /\ q[1] \in Int /\ q[2] \in Int /\ Place(y.weekday, n) \in Int
         /\ q[1] <= Place(y.weekday, n) /\ Place(y.weekday, n) < q[2]
  BY SegmentCovers
<1>3. Meet(p, q)
  BY <1>1, <1>2 DEF Meet
<1>. QED BY <1>1, <1>2, <1>3 DEF WeeklyWindowsOverlap

(* Midnight: a day later in the week is a day's minutes less.                *)
LEMMA PlaceAtMidnight ==
    ASSUME NEW d \in Nat \ {0}, NEW minute \in 0..(Day - 1)
    PROVE  Place(((d - 1) % Week) + 1, Day + minute) = Place((d % Week) + 1, minute)
<1>1. Day \in Nat \ {0} /\ Week \in Nat \ {0}
  BY HoursAssumption DEF HoursAssumption
<1>2. PICK e \in Nat : e = d - 1
  OBVIOUS
<1>3. PICK c \in Nat, a \in 0..(Week - 1) : a = e % Week /\ e = c * Week + a
  BY <1>1, Divided
<1>4. PICK m, t, s \in Nat : m = a * Day /\ t = Week * Day /\ s = c * Week
  BY <1>1, ProductIsNat
<1>5. (a + 1) * Day = m + Day
  BY <1>1, <1>4, OneMore
<1>6. CASE a + 1 < Week
  <2>1. d = c * Week + (a + 1)
    BY <1>2, <1>3, <1>4
  <2>2. d % Week = a + 1
    BY <1>1, <1>6, <2>1, RemainderOnce
  <2>3. (a + 2) * Day <= Week * Day
    BY <1>1, <1>6, Larger
  <2>4. (a + 2) * Day = m + Day + Day
    <3>1. ((a + 1) + 1) * Day = (a + 1) * Day + Day
      BY <1>1, OneMore
    <3>2. (a + 1) + 1 = a + 2
      BY <1>1
    <3>. QED BY <1>5, <3>1, <3>2
  <2>5. m + Day + minute < t
    BY <1>1, <1>4, <2>3, <2>4
  <2>6. Place(a + 1, Day + minute) = m + Day + minute
    <3>1. ((a + 1) - 1) * Day = m
      BY <1>1, <1>4
    <3>. QED BY <1>1, <1>4, <2>5, <3>1 DEF Place
  <2>7. Place((a + 1) + 1, minute) = m + Day + minute
    <3>1. (((a + 1) + 1) - 1) * Day = m + Day
      <4>1. ((a + 1) + 1) - 1 = a + 1
        BY <1>1
      <4>. QED BY <1>5, <4>1
    <3>. QED BY <1>1, <1>4, <2>5, <3>1 DEF Place
  <2>. QED BY <1>2, <1>3, <2>2, <2>6, <2>7
<1>7. CASE a + 1 = Week
  <2>1. (c + 1) * Week = s + Week
    BY <1>1, <1>4, OneMore
  <2>2. d = (c + 1) * Week + 0
    BY <1>2, <1>3, <1>4, <1>7, <2>1
  <2>3. d % Week = 0
    BY <1>1, <2>2, RemainderOnce
  <2>4. m + Day = t
    BY <1>4, <1>5, <1>7
  <2>5. Place(a + 1, Day + minute) = minute
    <3>1. ((a + 1) - 1) * Day = m
      BY <1>1, <1>4
    <3>. QED BY <1>1, <1>4, <2>4, <3>1 DEF Place
  <2>6. Place(0 + 1, minute) = minute
    <3>1. ((0 + 1) - 1) * Day = 0
      BY <1>1
    <3>2. minute < t
      BY <1>1, <2>4
    <3>. QED BY <1>1, <1>4, <3>1, <3>2 DEF Place
  <2>. QED BY <1>2, <1>3, <2>3, <2>5, <2>6
<1>. QED BY <1>1, <1>3, <1>6, <1>7

(* What is in effect on a date, and its windows.                            *)
LEMMA InEffectSo ==
    ASSUME HoursInv, NEW d \in Nat
    PROVE  /\ \A s \in EffectiveSchedules(d) :
                 /\ s \in Schedules /\ schedule[s].from \in Nat /\ schedule[s].from <= d
                 /\ schedule[s].from >= 1 /\ schedule[s].status = "ACTIVE"
                 /\ schedule[s].choice \in WeeklyChoices
                 /\ ~WeeklyWindowsOverlap(schedule[s].choice.windows)
           /\ \A s \in ActiveSpecial(d) :
                 /\ s \in Specials /\ special[s].choice \in SpecialChoices
                 /\ SpecialIsSound(special[s].choice)
           /\ EffectiveSchedules(0) = {}
<1>1. ASSUME NEW s \in Schedules, schedule[s].status = "ACTIVE"
      PROVE  /\ schedule[s].from \in Nat /\ schedule[s].from >= 1
             /\ schedule[s].choice \in WeeklyChoices
             /\ ~WeeklyWindowsOverlap(schedule[s].choice.windows)
  <2>1. schedule[s].from \in Starts /\ schedule[s].choice \in WeeklyChoices
    BY <1>1 DEF HoursInv, HoursTypeOK, NoSchedule
  <2>2. schedule[s].from \in 1..LastDate
    BY <2>1, HoursAssumption DEF HoursAssumption
  <2>. QED BY <1>1, <2>1, <2>2, HoursAssumption DEF HoursInv, HoursAssumption
<1>2. ASSUME NEW s \in Specials, special[s].status = "ACTIVE"
      PROVE  special[s].choice \in SpecialChoices /\ SpecialIsSound(special[s].choice)
  BY <1>2 DEF HoursInv, HoursTypeOK, NoSpecial
<1>. QED BY <1>1, <1>2 DEF EffectiveSchedules, ActiveSpecial

(* There is a latest schedule, and only one.                                *)
LEMMA LatestSo ==
    ASSUME HoursInv, NEW d \in Nat, EffectiveSchedules(d) # {}
    PROVE  /\ EffectiveSchedule(d) \in EffectiveSchedules(d)
           /\ \A r \in EffectiveSchedules(d) : schedule[r].from <= schedule[EffectiveSchedule(d)].from
           /\ \A s \in EffectiveSchedules(d) :
                 (\A r \in EffectiveSchedules(d) : schedule[r].from <= schedule[s].from)
                    => s = EffectiveSchedule(d)
<1>. DEFINE E == EffectiveSchedules(d)
            F == {schedule[s].from : s \in E}
<1>1. F \in SUBSET (0..d) /\ F # {}
  BY InEffectSo
<1>2. IsFiniteSet(F) /\ \A x \in F : x \in Int
  <2>. HIDE DEF F
  <2>1. IsFiniteSet(0..d)
    BY FS_Interval
  <2>2. IsFiniteSet(F)
    BY <1>1, <2>1, FS_Subset
  <2>3. \A x \in F : x \in Int
    BY <1>1
  <2>. QED BY <2>2, <2>3
<1>3. PICK x \in F : \A y \in F : x >= y
  <2>. HIDE DEF F
  <2>. QED BY <1>1, <1>2, GreatestExists
<1>4. \E s \in E : \A r \in E : schedule[r].from <= schedule[s].from
  BY <1>3, InEffectSo
<1>5. /\ EffectiveSchedule(d) \in E
      /\ \A r \in E : schedule[r].from <= schedule[EffectiveSchedule(d)].from
  BY <1>4 DEF EffectiveSchedule
<1>6. ASSUME NEW s \in E, \A r \in E : schedule[r].from <= schedule[s].from
      PROVE  s = EffectiveSchedule(d)
  <2>1. schedule[s].from = schedule[EffectiveSchedule(d)].from
    BY <1>5, <1>6, InEffectSo
  <2>. QED BY <1>5, <2>1, InEffectSo DEF HoursInv
<1>. QED BY <1>5, <1>6

(* Where a window of a date comes from.                                     *)
LEMMA AnchorSo ==
    ASSUME HoursInv, NEW d \in Nat, NEW v \in Anchor(d)
    PROVE  /\ d >= 1 /\ v.opens \in 0..(Day - 1) /\ v.lasts \in 1..Day
           /\ EffectiveSchedules(d) # {}
           /\ \/ \E s \in ActiveSpecial(d) : /\ Anchor(d) = special[s].choice.windows
                                             /\ ~SpecialWindowsOverlap(Anchor(d))
              \/ /\ ActiveSpecial(d) = {}
                 /\ \A u \in Anchor(d) : \E x \in schedule[EffectiveSchedule(d)].choice.windows :
                       /\ u = [opens |-> x.opens, lasts |-> x.lasts]
                       /\ x.weekday = (d % Week) + 1 /\ IsWeekly(x)
<1>1. EffectiveSchedules(d) # {}
  BY DEF Anchor
<1>2. d >= 1
  BY <1>1, InEffectSo
<1>3. CASE ActiveSpecial(d) # {}
  <2>1. PICK s \in ActiveSpecial(d) : Anchor(d) = special[s].choice.windows
    BY <1>1, <1>3 DEF Anchor
  <2>2. special[s].choice \in SpecialChoices /\ SpecialIsSound(special[s].choice)
    BY InEffectSo
  <2>3. /\ special[s].choice.kind \in {"CLOSED", "CUSTOM_HOURS"}
        /\ \A w \in special[s].choice.windows : w.opens \in 0..(Day - 1) /\ w.lasts \in 1..Day
    BY <2>2, HoursAssumption DEF HoursAssumption
  <2>4. ~SpecialWindowsOverlap(Anchor(d))
    BY <2>1, <2>2, <2>3 DEF SpecialIsSound
  <2>. QED BY <1>1, <1>2, <2>1, <2>3, <2>4
<1>4. CASE ActiveSpecial(d) = {}
  <2>1. PICK W : W = schedule[EffectiveSchedule(d)].choice.windows
    OBVIOUS
  <2>2. \A x \in W : IsWeekly(x)
    <3>1. schedule[EffectiveSchedule(d)].choice \in WeeklyChoices
      BY <1>1, LatestSo, InEffectSo
    <3>. QED BY <2>1, <3>1, HoursAssumption DEF HoursAssumption, IsWeekly
  <2>3. Anchor(d) = {[opens |-> w.opens, lasts |-> w.lasts] : w \in {x \in W : x.weekday = (d % Week) + 1}}
    BY <1>1, <1>4, <2>1 DEF Anchor
  <2>4. \A u \in Anchor(d) : \E x \in W :
           u = [opens |-> x.opens, lasts |-> x.lasts] /\ x.weekday = (d % Week) + 1 /\ IsWeekly(x)
    BY <2>2, <2>3
  <2>5. v.opens \in 0..(Day - 1) /\ v.lasts \in 1..Day
    BY <2>4 DEF IsWeekly
  <2>. QED BY <1>1, <1>2, <1>4, <2>1, <2>4, <2>5
<1>. QED BY <1>3, <1>4

(* Of the windows of a date, one at most is open at a time.                  *)
LEMMA OneIsOpen ==
    ASSUME HoursInv, NEW d \in Nat, NEW v \in Anchor(d), NEW w \in Anchor(d), NEW offset \in Nat,
           Holds(v, offset), Holds(w, offset)
    PROVE  v = w
<1>0. Day \in Nat \ {0}
  BY HoursAssumption DEF HoursAssumption
<1>1. /\ v.opens \in 0..(Day - 1) /\ v.lasts \in 1..Day
      /\ w.opens \in 0..(Day - 1) /\ w.lasts \in 1..Day
  BY AnchorSo
<1>2. CASE ~SpecialWindowsOverlap(Anchor(d))
  <2>1. Meet(<<v.opens, v.opens + v.lasts>>, <<w.opens, w.opens + w.lasts>>)
    BY <1>0, <1>1 DEF Meet, Holds
  <2>. QED BY <1>2, <2>1 DEF SpecialWindowsOverlap
<1>3. CASE \A u \in Anchor(d) : \E x \in schedule[EffectiveSchedule(d)].choice.windows :
              /\ u = [opens |-> x.opens, lasts |-> x.lasts]
              /\ x.weekday = (d % Week) + 1 /\ IsWeekly(x)
  <2>1. PICK W : W = schedule[EffectiveSchedule(d)].choice.windows
    OBVIOUS
  <2>2. PICK x \in W : v = [opens |-> x.opens, lasts |-> x.lasts] /\ x.weekday = (d % Week) + 1 /\ IsWeekly(x)
    BY <1>3, <2>1
  <2>3. PICK y \in W : w = [opens |-> y.opens, lasts |-> y.lasts] /\ y.weekday = (d % Week) + 1 /\ IsWeekly(y)
    BY <1>3, <2>1
  <2>4. Holds(x, offset) /\ Holds(y, offset)
    BY <2>2, <2>3 DEF Holds
  <2>5. ~WeeklyWindowsOverlap(W)
    <3>1. EffectiveSchedules(d) # {}
      BY AnchorSo
    <3>. QED BY <2>1, <3>1, LatestSo, InEffectSo
  <2>6. Place(x.weekday, offset) = Place(y.weekday, offset)
    BY <2>2, <2>3
  <2>7. x = y
    BY <2>2, <2>3, <2>4, <2>5, <2>6, ApartInTheWeek
  <2>. QED BY <2>2, <2>3, <2>7
<1>. QED BY <1>2, <1>3, AnchorSo

(* With one schedule all along and no special hours, no window of yesterday  *)
(* is open together with one of today.                                      *)
LEMMA OneOverMidnight ==
    ASSUME HoursInv, NEW d \in Nat \ {0}, Cardinality(EffectiveSchedules(d)) = 1,
           ActiveSpecial(d - 1) = {}, ActiveSpecial(d) = {},
           NEW v \in Anchor(d - 1), NEW w \in Anchor(d), NEW minute \in 0..(Day - 1),
           Holds(v, Day + minute), Holds(w, minute)
    PROVE  FALSE
<1>0. Day \in Nat \ {0} /\ Week \in Nat \ {0} /\ d - 1 \in Nat /\ minute \in Nat /\ Day + minute \in Nat
  BY HoursAssumption DEF HoursAssumption
<1>1. EffectiveSchedules(d - 1) # {} /\ EffectiveSchedules(d) # {}
  BY <1>0, AnchorSo
<1>2. EffectiveSchedules(d - 1) \subseteq EffectiveSchedules(d)
  BY <1>0, InEffectSo DEF EffectiveSchedules
<1>3. EffectiveSchedule(d - 1) = EffectiveSchedule(d)
  <2>1. PICK e : EffectiveSchedules(d) = {e}
    <3>. DEFINE E == EffectiveSchedules(d)
                f == [s \in E |-> schedule[s].from]
    <3>0. f \in Injection(E, 0..d)
      <4>1. \A s \in E : f[s] \in 0..d
        BY InEffectSo
      <4>2. \A r, s \in E : f[r] = f[s] => r = s
        BY InEffectSo DEF HoursInv
      <4>. HIDE DEF E
      <4>. QED BY <4>1, <4>2 DEF Injection, IsInjective
    <3>1. IsFiniteSet(EffectiveSchedules(d))
      <4>1. IsFiniteSet(0..d)
        BY FS_Interval
      <4>. HIDE DEF f, E
      <4>2. IsFiniteSet(E)
        BY <3>0, <4>1, FS_Injection
      <4>. QED BY <4>2 DEF E
    <3>. QED BY <3>1, FS_Singleton
  <2>. QED BY <1>0, <1>1, <1>2, <2>1, LatestSo
<1>4. PICK W : W = schedule[EffectiveSchedule(d)].choice.windows
  OBVIOUS
<1>5. ~WeeklyWindowsOverlap(W)
  BY <1>1, <1>4, LatestSo, InEffectSo
<1>6. PICK x \in W : /\ v = [opens |-> x.opens, lasts |-> x.lasts]
                     /\ x.weekday = ((d - 1) % Week) + 1 /\ IsWeekly(x)
  BY <1>0, <1>3, <1>4, AnchorSo
<1>7. PICK y \in W : /\ w = [opens |-> y.opens, lasts |-> y.lasts]
                     /\ y.weekday = (d % Week) + 1 /\ IsWeekly(y)
  BY <1>0, <1>4, AnchorSo
<1>8. Holds(x, Day + minute) /\ Holds(y, minute)
  BY <1>6, <1>7 DEF Holds
<1>9. Place(x.weekday, Day + minute) = Place(y.weekday, minute)
  BY <1>6, <1>7, PlaceAtMidnight
<1>10. x = y
  BY <1>0, <1>5, <1>6, <1>7, <1>8, <1>9, ApartInTheWeek
<1>. QED BY <1>0, <1>6, <1>8, <1>10 DEF Holds, IsWeekly

LEMMA WindowsSo == HoursInv => WindowsAreFound
<1>. SUFFICES ASSUME HoursInv PROVE WindowsAreFound
  OBVIOUS
<1>1. Day \in Nat \ {0} /\ today \in Nat \ {0} /\ today - 1 \in Nat
  BY HoursAssumption DEF HoursInv, HoursTypeOK, HoursAssumption, Dates
<1>2. SUFFICES ASSUME NEW minute \in 0..(Day - 1)
               PROVE  LET open  == {t \in UNION {{d} \X Anchor(d) : d \in 0..today} :
                                      Holds(t[2], (today - t[1]) * Day + minute)}
                          found == ResolveOpenWindow(today, minute)
                      IN  /\ found = {} <=> open = {}
                          /\ found \subseteq open
                          /\ Cardinality(found) <= 1
                          /\ (/\ Cardinality(EffectiveSchedules(today)) = 1
                              /\ \A d \in 0..today : ActiveSpecial(d) = {}) => found = open
  BY DEF WindowsAreFound
<1>. DEFINE open  == {t \in UNION {{d} \X Anchor(d) : d \in 0..today} :
                         Holds(t[2], (today - t[1]) * Day + minute)}
            found == ResolveOpenWindow(today, minute)
            before == {w \in Anchor(today - 1) : Holds(w, Day + minute)}
            anew == {w \in Anchor(today) : Holds(w, minute)}
<1>3. minute \in Nat /\ Day + minute \in Nat
  BY <1>1
<1>4. found = IF before # {} THEN {<<today - 1, w>> : w \in before} ELSE {<<today, w>> : w \in anew}
  BY DEF ResolveOpenWindow
<1>5. ASSUME NEW d \in 0..today, NEW w \in Anchor(d)
      PROVE  Holds(w, (today - d) * Day + minute) <=>
                \/ d = today - 1 /\ Holds(w, Day + minute)
                \/ d = today /\ Holds(w, minute)
  <2>1. d \in Nat /\ w.opens \in 0..(Day - 1) /\ w.lasts \in 1..Day
    BY <1>1, AnchorSo
  <2>2. CASE d = today
    <3>1. (today - d) * Day + minute = minute
      BY <1>1, <1>3, <2>2
    <3>. QED BY <1>1, <2>2, <3>1
  <2>3. CASE d = today - 1
    <3>1. today - d = 1
      BY <1>1, <2>3
    <3>2. (today - d) * Day + minute = Day + minute
      BY <1>1, <1>3, <3>1
    <3>. QED BY <1>1, <2>3, <3>2
  <2>4. CASE d # today /\ d # today - 1
    <3>1. PICK k \in Nat : k = today - d /\ 2 <= k
      BY <1>1, <2>1, <2>4
    <3>2. 2 * Day <= k * Day
      BY <1>1, <3>1, Larger
    <3>3. PICK n \in Nat : n = k * Day
      BY <1>1, ProductIsNat
    <3>4. ~Holds(w, n + minute)
      BY <1>1, <1>3, <2>1, <3>2, <3>3 DEF Holds
    <3>. QED BY <2>4, <3>1, <3>3, <3>4
  <2>. QED BY <2>2, <2>3, <2>4
<1>6. open = {<<today - 1, w>> : w \in before} \cup {<<today, w>> : w \in anew}
  <2>1. ASSUME NEW t \in open
        PROVE  t \in {<<today - 1, w>> : w \in before} \cup {<<today, w>> : w \in anew}
    <3>1. PICK d \in 0..today : t \in {d} \X Anchor(d)
      OBVIOUS
    <3>2. PICK w \in Anchor(d) : t = <<d, w>>
      BY <3>1
    <3>3. Holds(w, (today - d) * Day + minute)
      BY <3>2
    <3>. QED BY <1>5, <3>2, <3>3
  <2>2. ASSUME NEW w \in before PROVE <<today - 1, w>> \in open
    <3>1. today - 1 \in 0..today /\ w \in Anchor(today - 1) /\ Holds(w, Day + minute)
      BY <1>1
    <3>2. Holds(w, (today - (today - 1)) * Day + minute)
      BY <1>5, <3>1
    <3>. QED BY <3>1, <3>2
  <2>3. ASSUME NEW w \in anew PROVE <<today, w>> \in open
    <3>1. today \in 0..today /\ w \in Anchor(today) /\ Holds(w, minute)
      BY <1>1
    <3>2. Holds(w, (today - today) * Day + minute)
      BY <1>5, <3>1
    <3>. QED BY <3>1, <3>2
  <2>. HIDE DEF open, before, anew
  <2>. QED BY <2>1, <2>2, <2>3
<1>7. \A s, t \in found : s = t
  <2>1. /\ \A v, w \in before : v = w
        /\ \A v, w \in anew : v = w
    BY <1>1, <1>3, OneIsOpen
  <2>. HIDE DEF found, before, anew
  <2>. QED BY <1>4, <2>1
<1>8. Cardinality(found) <= 1
  <2>. HIDE DEF found
  <2>. QED BY <1>7, AtMostOne
<1>9. ASSUME Cardinality(EffectiveSchedules(today)) = 1,
             \A d \in 0..today : ActiveSpecial(d) = {}
      PROVE  found = open
  <2>1. ActiveSpecial(today - 1) = {} /\ ActiveSpecial(today) = {}
    BY <1>1, <1>9
  <2>2. before = {} \/ anew = {}
    <3>. SUFFICES ASSUME NEW v \in before, NEW w \in anew PROVE FALSE
      OBVIOUS
    <3>. QED BY <1>1, <1>9, <2>1, OneOverMidnight
  <2>. HIDE DEF found, open, before, anew
  <2>. QED BY <1>4, <1>6, <2>2
<1>10. (found = {} <=> open = {}) /\ found \subseteq open
  <2>. HIDE DEF found, open, before, anew
  <2>. QED BY <1>4, <1>6
<1>. HIDE DEF found, open
<1>11. /\ found = {} <=> open = {}
       /\ found \subseteq open
       /\ Cardinality(found) <= 1
       /\ (/\ Cardinality(EffectiveSchedules(today)) = 1
           /\ \A d \in 0..today : ActiveSpecial(d) = {}) => found = open
  BY <1>8, <1>9, <1>10
<1>. QED BY <1>11 DEF found, open

LEMMA DatesSo == HoursInv => BusinessDatesAdvance
<1>. SUFFICES ASSUME HoursInv, NEW d \in Dates, NEW m \in 0..(Day - 1), NEW n \in 0..(Day - 1),
                     EffectiveSchedules(d) # {}
              PROVE  /\ m < n => BusinessDateFor(d, m) <= BusinessDateFor(d, n)
                     /\ d < LastDate => BusinessDateFor(d, m) <= BusinessDateFor(d + 1, n)
  BY DEF BusinessDatesAdvance
<1>1. d \in Nat /\ Day \in Nat \ {0} /\ LastDate \in Nat
  BY HoursAssumption DEF HoursAssumption, Dates
<1>2. EffectiveSchedules(d + 1) # {}
  BY <1>1, InEffectSo DEF EffectiveSchedules
<1>3. PICK a, b \in 0..(Day - 1) : /\ a = schedule[EffectiveSchedule(d)].choice.cutoff
                                   /\ b = schedule[EffectiveSchedule(d + 1)].choice.cutoff
  <2>1. /\ schedule[EffectiveSchedule(d)].choice \in WeeklyChoices
        /\ schedule[EffectiveSchedule(d + 1)].choice \in WeeklyChoices
    BY <1>1, <1>2, LatestSo, InEffectSo
  <2>. QED BY <2>1, HoursAssumption DEF HoursAssumption
<1>. QED BY <1>1, <1>3 DEF BusinessDateFor

(* What was in effect on a date that is past stays as it was.                *)
LEMMA PastSo ==
    ASSUME HoursInv, HoursInv', [HoursNext]_hoursVars, NEW d \in 1..(today - 1)
    PROVE  /\ EffectiveSchedules(d)' = EffectiveSchedules(d)
           /\ \A s \in EffectiveSchedules(d) : schedule'[s] = schedule[s]
           /\ ActiveSpecial(d)' = ActiveSpecial(d)
           /\ \A s \in ActiveSpecial(d) : special'[s].choice = special[s].choice
<1>1. d \in Nat /\ today \in Nat /\ d < today
  BY HoursAssumption DEF HoursInv, HoursTypeOK, HoursAssumption, Dates
<1>2. /\ schedule \in [Schedules -> {NoSchedule} \cup [status: {"DRAFT", "ACTIVE", "CANCELLED"},
                                                        from: Starts, choice: WeeklyChoices]]
      /\ special \in [Specials -> {NoSpecial} \cup
                        [status: {"DRAFT", "ACTIVE", "SUPERSEDED", "CANCELLED"},
                         date: Holidays, choice: SpecialChoices]]
      /\ \A s \in Schedules : schedule[s].status # "NONE" => schedule[s].from \in Nat
      /\ \A s \in Specials : special[s].status # "NONE" => special[s].date \in Nat
  <2>1. /\ \A s \in Schedules : schedule[s].status # "NONE" => schedule[s].from \in Starts
        /\ \A s \in Specials : special[s].status # "NONE" => special[s].date \in Holidays
    BY DEF HoursInv, HoursTypeOK, NoSchedule, NoSpecial
  <2>2. \A x \in Starts \cup Holidays : x \in Nat
    BY HoursAssumption DEF HoursAssumption
  <2>. QED BY <2>1, <2>2 DEF HoursInv, HoursTypeOK
<1>3. ASSUME NEW r \in Schedules
      PROVE  /\ (schedule'[r].status = "ACTIVE" /\ schedule'[r].from <= d)
                   <=> (schedule[r].status = "ACTIVE" /\ schedule[r].from <= d)
             /\ (schedule[r].status = "ACTIVE" /\ schedule[r].from <= d) => schedule'[r] = schedule[r]
  <2>1. ASSUME NEW s \in Schedules, NEW from \in Starts, NEW c \in WeeklyChoices,
               CreateSchedule(s, from, c) \/ UpdateSchedule(s, from, c)
        PROVE  schedule'[r] = schedule[r]
                  \/ (schedule'[r].status # "ACTIVE" /\ schedule[r].status # "ACTIVE")
    BY <1>2, <2>1 DEF CreateSchedule, UpdateSchedule
  <2>2. ASSUME NEW s \in Schedules, ActivateSchedule(s)
        PROVE  schedule'[r] = schedule[r]
                  \/ (schedule[r].status = "DRAFT" /\ schedule'[r].from = schedule[r].from
                      /\ schedule[r].from >= today)
    BY <1>2, <2>2 DEF ActivateSchedule
  <2>3. ASSUME NEW s \in Schedules, CancelSchedule(s)
        PROVE  schedule'[r] = schedule[r]
                  \/ (schedule'[r].status = "CANCELLED" /\ schedule[r].status = "ACTIVE"
                      /\ schedule[r].from > today)
    BY <1>2, <2>3 DEF CancelSchedule
  <2>4. \/ schedule'[r] = schedule[r]
        \/ schedule'[r].status # "ACTIVE" /\ schedule[r].status # "ACTIVE"
        \/ schedule[r].status = "DRAFT" /\ schedule'[r].from = schedule[r].from
              /\ schedule[r].from >= today
        \/ schedule'[r].status = "CANCELLED" /\ schedule[r].status = "ACTIVE"
              /\ schedule[r].from > today
    <3>1. CASE UNCHANGED schedule
      BY <3>1
    <3>2. CASE ScheduleStep
      BY <2>1, <2>2, <2>3, <3>2 DEF ScheduleStep
    <3>3. ScheduleStep \/ UNCHANGED schedule
      BY DEF HoursNext, ScheduleStep, Midnight, CreateSpecialHours, UpdateSpecialHours,
             ActivateSpecialHours, CancelSpecialHours, hoursVars
    <3>. QED BY <3>1, <3>2, <3>3
  <2>. QED BY <1>1, <1>2, <2>4
<1>4. ASSUME NEW r \in Specials
      PROVE  /\ (special'[r].status = "ACTIVE" /\ special'[r].date = d)
                   <=> (special[r].status = "ACTIVE" /\ special[r].date = d)
             /\ special[r].status = "ACTIVE" => special'[r].choice = special[r].choice
  <2>1. ASSUME NEW s \in Specials, NEW date \in Holidays, NEW c \in SpecialChoices,
               CreateSpecialHours(s, date, c) \/ UpdateSpecialHours(s, date, c)
        PROVE  special'[r] = special[r]
                  \/ (special'[r].status # "ACTIVE" /\ special[r].status # "ACTIVE")
    BY <1>2, <2>1 DEF CreateSpecialHours, UpdateSpecialHours
  <2>2. ASSUME NEW s \in Specials, ActivateSpecialHours(s)
        PROVE  special'[r] = special[r]
                  \/ (special[r].date >= today /\ special'[r].date = special[r].date
                      /\ special'[r].choice = special[r].choice /\ special[r].status # "NONE")
    BY <1>2, <2>2 DEF ActivateSpecialHours
  <2>3. ASSUME NEW s \in Specials, CancelSpecialHours(s)
        PROVE  special'[r] = special[r]
                  \/ (special[r].date >= today /\ special'[r].date = special[r].date
                      /\ special'[r].choice = special[r].choice /\ special[r].status # "NONE")
    BY <1>2, <2>3 DEF CancelSpecialHours
  <2>4. \/ special'[r] = special[r]
        \/ special'[r].status # "ACTIVE" /\ special[r].status # "ACTIVE"
        \/ /\ special[r].date >= today /\ special'[r].date = special[r].date
           /\ special'[r].choice = special[r].choice /\ special[r].status # "NONE"
    <3>1. CASE UNCHANGED special
      BY <3>1
    <3>2. CASE SpecialStep
      BY <2>1, <2>2, <2>3, <3>2 DEF SpecialStep
    <3>3. SpecialStep \/ UNCHANGED special
      BY DEF HoursNext, SpecialStep, Midnight, CreateSchedule, UpdateSchedule,
             ActivateSchedule, CancelSchedule, hoursVars
    <3>. QED BY <3>1, <3>2, <3>3
  <2>. QED BY <1>1, <1>2, <2>4
<1>5. /\ EffectiveSchedules(d)' = {s \in Schedules : schedule'[s].status = "ACTIVE" /\ schedule'[s].from <= d}
      /\ ActiveSpecial(d)' = {s \in Specials : special'[s].status = "ACTIVE" /\ special'[s].date = d}
  BY DEF EffectiveSchedules, ActiveSpecial
<1>6. /\ EffectiveSchedules(d)' = EffectiveSchedules(d)
      /\ \A s \in EffectiveSchedules(d) : schedule'[s] = schedule[s]
  <2>1. \A r \in Schedules : (schedule'[r].status = "ACTIVE" /\ schedule'[r].from <= d)
                                <=> (schedule[r].status = "ACTIVE" /\ schedule[r].from <= d)
    BY <1>3
  <2>2. EffectiveSchedules(d)' = EffectiveSchedules(d)
    BY <1>5, <2>1 DEF EffectiveSchedules
  <2>3. \A s \in EffectiveSchedules(d) : schedule'[s] = schedule[s]
    BY <1>3 DEF EffectiveSchedules
  <2>. QED BY <2>2, <2>3
<1>7. /\ ActiveSpecial(d)' = ActiveSpecial(d)
      /\ \A s \in ActiveSpecial(d) : special'[s].choice = special[s].choice
  BY <1>4, <1>5 DEF ActiveSpecial
<1>. QED BY <1>6, <1>7

LEMMA PastIsKept ==
    HoursInv /\ HoursInv' /\ [HoursNext]_hoursVars =>
       [\A d \in 1..(today - 1) : /\ EffectiveSchedules(d)' = EffectiveSchedules(d)
                                  /\ Anchor(d)' = Anchor(d)]_hoursVars
<1>. SUFFICES ASSUME HoursInv, HoursInv', [HoursNext]_hoursVars, NEW d \in 1..(today - 1)
              PROVE  /\ EffectiveSchedules(d)' = EffectiveSchedules(d)
                     /\ Anchor(d)' = Anchor(d)
  OBVIOUS
<1>0. d \in Nat
  BY DEF HoursInv, HoursTypeOK, Dates
<1>1. /\ EffectiveSchedules(d)' = EffectiveSchedules(d)
      /\ \A s \in EffectiveSchedules(d) : schedule'[s] = schedule[s]
      /\ ActiveSpecial(d)' = ActiveSpecial(d)
      /\ \A s \in ActiveSpecial(d) : special'[s].choice = special[s].choice
  BY PastSo
<1>2. CASE EffectiveSchedules(d) = {}
  BY <1>1, <1>2 DEF Anchor
<1>3. CASE EffectiveSchedules(d) # {} /\ ActiveSpecial(d) # {}
  <2>1. PICK s : s = (CHOOSE r \in ActiveSpecial(d) : TRUE)
    OBVIOUS
  <2>2. s \in ActiveSpecial(d)
    BY <1>3, <2>1
  <2>3. Anchor(d) = special[s].choice.windows
    BY <1>3, <2>1 DEF Anchor
  <2>4. Anchor(d)' = special'[s].choice.windows
    BY <1>1, <1>3, <2>1 DEF Anchor
  <2>. QED BY <1>1, <2>2, <2>3, <2>4
<1>4. CASE EffectiveSchedules(d) # {} /\ ActiveSpecial(d) = {}
  <2>1. PICK E, s : E = EffectiveSchedules(d) /\ s = EffectiveSchedule(d) /\ s \in E
                    /\ \A r \in E : schedule[r].from <= schedule[s].from
    BY <1>0, <1>4, LatestSo
  <2>2. EffectiveSchedule(d)' = CHOOSE q \in E : \A r \in E : schedule'[r].from <= schedule'[q].from
    BY <1>1, <2>1 DEF EffectiveSchedule
  <2>3. EffectiveSchedule(d) = CHOOSE q \in E : \A r \in E : schedule[r].from <= schedule[q].from
    BY <2>1 DEF EffectiveSchedule
  <2>4. EffectiveSchedule(d)' = s
    <3>1. \A q : (q \in E /\ \A r \in E : schedule'[r].from <= schedule'[q].from)
                    <=> (q \in E /\ \A r \in E : schedule[r].from <= schedule[q].from)
      BY <1>1, <2>1
    <3>. QED BY <2>1, <2>2, <2>3, <3>1
  <2>5. Anchor(d) = {[opens |-> w.opens, lasts |-> w.lasts] :
                        w \in {v \in schedule[s].choice.windows : v.weekday = (d % Week) + 1}}
    BY <1>4, <2>1 DEF Anchor
  <2>6. Anchor(d)' = {[opens |-> w.opens, lasts |-> w.lasts] :
                        w \in {v \in schedule'[s].choice.windows : v.weekday = (d % Week) + 1}}
    BY <1>1, <1>4, <2>4 DEF Anchor
  <2>. QED BY <1>1, <2>1, <2>5, <2>6
<1>. QED BY <1>1, <1>2, <1>3, <1>4

(* Whatever is planned, edited, superseded and cancelled, an instant         *)
(* resolves to the one window that is open, the business date does not go    *)
(* back, and past dates keep their schedule and their hours                  *)
(* (branch-hours.service.ts, business-date-resolver.ts).                     *)
THEOREM TimetableIsKept == Spec => ResolutionIsTimetable
<1>1. HoursInv => WindowsAreFound /\ BusinessDatesAdvance
  BY WindowsSo, DatesSo
<1>. QED BY <1>1, HoursFirst, HoursStep, PastIsKept, HoursRuns, PTL DEF ResolutionIsTimetable
=============================================================================
