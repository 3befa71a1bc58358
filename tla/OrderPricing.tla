---------------------------- MODULE OrderPricing ----------------------------
(***************************************************************************)
(* What an order costs: the tax calculator and the order calculator of the *)
(* server (apps/api/src/tax/tax-calculator.ts, orders/order-calculator.ts) *)
(* and the second implementation that the till uses while it is offline    *)
(* (packages/domain/src/order-tax.ts).                                     *)
(*                                                                         *)
(* Amounts are in minor units.  A tax component is its position in the     *)
(* order (calculationOrder, code).  Numbers stay far below the safe range  *)
(* whose overflow the code rejects.                                        *)
(***************************************************************************)
EXTENDS Integers, FiniteSets, Folds

CONSTANTS
    Lines,      \* ids of order lines, compared as the code compares them
    LineAmounts, \* what a line may come to before tax
    Scale,      \* the denominator of a rate: 1,000,000 in the code
    TaxRules    \* tax profiles: price mode, rounding mode and scope, rates

ASSUME PricingAssumption ==
    /\ Scale \in Nat \ {0}
    /\ IsFiniteSet(Lines) /\ Lines \subseteq Nat /\ LineAmounts \subseteq Nat
    /\ \A p \in TaxRules :
          /\ p.priceMode \in {"INCLUSIVE", "EXCLUSIVE"}
          /\ p.rounding \in {"HALF_UP", "HALF_EVEN", "DOWN"}
          /\ p.scope \in {"LINE", "INVOICE"}
          /\ IsFiniteSet(DOMAIN p.rate) /\ DOMAIN p.rate # {} /\ DOMAIN p.rate \subseteq Nat
          /\ \A c \in DOMAIN p.rate : p.rate[c] \in 0..Scale

VARIABLES
    taxRules,   \* the profile the order was begun under
    line        \* line[l]: amount and tax treatment, or NoLine

pricingVars == <<taxRules, line>>

NoLine == [amount |-> 0, treatment |-> "NONE"]
Treatments == {"STANDARD", "EXEMPT"}

Present == {l \in Lines : line[l] # NoLine}
TotalOf(f, S) == MapThenFoldSet(+, 0, LAMBDA x : f[x], LAMBDA T : CHOOSE x \in T : TRUE, S)

PricingTypeOK ==
    /\ taxRules \in TaxRules
    /\ line \in [Lines -> {NoLine} \cup [amount: LineAmounts, treatment: Treatments]]

PricingInit == taxRules \in TaxRules /\ line = [l \in Lines |-> NoLine]

AddLine(l, amount, treatment) ==
    /\ line[l] = NoLine
    /\ line' = [line EXCEPT ![l] = [amount |-> amount, treatment |-> treatment]]
    /\ UNCHANGED taxRules

RemoveLine(l) ==
    /\ line[l] # NoLine
    /\ line' = [line EXCEPT ![l] = NoLine]
    /\ UNCHANGED taxRules

PricingNext ==
    \E l \in Lines :
        \/ \E amount \in LineAmounts, treatment \in Treatments : AddLine(l, amount, treatment)
        \/ RemoveLine(l)

-----------------------------------------------------------------------------
(* The server *)

RoundDivision(numerator, denominator, mode) ==
    LET quotient == numerator \div denominator
        twice    == 2 * (numerator % denominator)
        up       == \/ twice > denominator
                    \/ twice = denominator /\ mode = "HALF_UP"
                    \/ twice = denominator /\ mode = "HALF_EVEN" /\ quotient % 2 = 1
    IN  IF mode # "DOWN" /\ up THEN quotient + 1 ELSE quotient

\* total is dealt out in the proportions numerator[x] / denominator: everyone
\* gets the whole part, and what is left goes to the largest remainders, the
\* smaller x first.
ApportionWhole(total, numerator, denominator) ==
    [x \in DOMAIN numerator |-> numerator[x] \div denominator]

Apportion(total, numerator, denominator) ==
    LET whole     == [x \in DOMAIN numerator |-> numerator[x] \div denominator]
        remainder == [x \in DOMAIN numerator |-> numerator[x] % denominator]
        left      == total - TotalOf(whole, DOMAIN whole)
        Ahead(x)  == {y \in DOMAIN numerator :
                        \/ remainder[y] > remainder[x]
                        \/ remainder[y] = remainder[x] /\ y < x}
    IN  [x \in DOMAIN numerator |->
            IF Cardinality(Ahead(x)) < left THEN whole[x] + 1 ELSE whole[x]]

TotalRate(p) == TotalOf(p.rate, DOMAIN p.rate)

\* calculateTax: the tax of an amount and its components.
CalculateTax(amount, treatment, p) ==
    LET exact     == [c \in DOMAIN p.rate |-> amount * p.rate[c]]
        inclusive == RoundDivision(amount * TotalRate(p), Scale + TotalRate(p), p.rounding)
        component == IF p.priceMode = "EXCLUSIVE"
                     THEN [c \in DOMAIN p.rate |-> RoundDivision(exact[c], Scale, p.rounding)]
                     ELSE Apportion(inclusive, exact, Scale + TotalRate(p))
    IN  IF treatment # "STANDARD"
        THEN [tax |-> 0, component |-> [c \in DOMAIN p.rate |-> 0]]
        ELSE [tax |-> IF p.priceMode = "EXCLUSIVE" THEN TotalOf(component, DOMAIN component)
                                                   ELSE inclusive,
              component |-> component]

\* allocate: a total over lines in proportion to their amounts.
Allocate(total, S) ==
    LET sum == TotalOf([l \in S |-> line[l].amount], S)
    IN  IF sum = 0 THEN [l \in S |-> 0]
        ELSE Apportion(total, [l \in S |-> total * line[l].amount], sum)

Priced(amount, tax, p) ==
    [net   |-> IF p.priceMode = "INCLUSIVE" THEN amount - tax ELSE amount,
     tax   |-> tax,
     gross |-> IF p.priceMode = "INCLUSIVE" THEN amount ELSE amount + tax]

Group(t) == {l \in Present : line[l].treatment = t}
Input(S) == TotalOf([l \in S |-> line[l].amount], S)

\* calculateOrder: net, tax, gross and the tax components of each line.
CalculateOrder ==
    IF taxRules.scope = "LINE"
    THEN [l \in Present |->
            LET result == CalculateTax(line[l].amount, line[l].treatment, taxRules)
            IN  [price |-> Priced(line[l].amount, result.tax, taxRules),
                 component |-> result.component]]
    ELSE LET aggregate == [t \in Treatments |-> CalculateTax(Input(Group(t)), t, taxRules)]
             tax       == [t \in Treatments |-> Allocate(aggregate[t].tax, Group(t))]
             part      == [t \in Treatments |->
                             [c \in DOMAIN taxRules.rate |->
                                Allocate(aggregate[t].component[c], Group(t))]]
         IN  [l \in Present |->
                LET t == line[l].treatment
                IN  [price |-> Priced(line[l].amount, tax[t][l], taxRules),
                     component |-> [c \in DOMAIN taxRules.rate |-> part[t][c][l]]]]

Totals(price) ==
    [net   |-> TotalOf([l \in Present |-> price[l].net], Present),
     tax   |-> TotalOf([l \in Present |-> price[l].tax], Present),
     gross |-> TotalOf([l \in Present |-> price[l].gross], Present)]

-----------------------------------------------------------------------------
(* The till *)

Rounded(numerator, denominator, mode) ==
    LET quotient   == numerator \div denominator
        remainder  == numerator % denominator
    IN  IF mode = "DOWN" \/ remainder = 0 THEN quotient
        ELSE IF 2 * remainder > denominator \/ (2 * remainder = denominator /\ mode = "HALF_UP")
             THEN quotient + 1
        ELSE IF 2 * remainder = denominator /\ quotient % 2 # 0 THEN quotient + 1
        ELSE quotient

TillTaxByComponent(amount, treatment, p) ==
    LET below == IF p.priceMode = "EXCLUSIVE" THEN Scale ELSE Scale + TotalRate(p)
        tax   == [c \in DOMAIN p.rate |-> Rounded(amount * p.rate[c], below, p.rounding)]
    IN  IF treatment # "STANDARD" THEN 0 ELSE TotalOf(tax, DOMAIN tax)

TillTax(amount, treatment, p) ==
    LET tax == [c \in DOMAIN p.rate |-> Rounded(amount * p.rate[c], Scale, p.rounding)]
    IN  IF treatment # "STANDARD" THEN 0
        ELSE IF p.priceMode = "EXCLUSIVE" THEN TotalOf(tax, DOMAIN tax)
        ELSE Rounded(amount * TotalRate(p), Scale + TotalRate(p), p.rounding)

\* calculateOrderTotals: the price of each line as the till shows it.
CalculateOrderTotals ==
    LET tax == IF taxRules.scope = "LINE"
               THEN [l \in Present |-> TillTax(line[l].amount, line[l].treatment, taxRules)]
               ELSE LET dealt == [t \in Treatments |->
                                    Allocate(TillTax(Input(Group(t)), t, taxRules), Group(t))]
                    IN  [l \in Present |-> dealt[line[l].treatment][l]]
    IN  [l \in Present |-> Priced(line[l].amount, tax[l], taxRules)]

-----------------------------------------------------------------------------
\* A till that is offline shows and collects (CashierRuntime.totals) exactly the
\* totals the server will compute for the order: the two implementations agree
\* under every profile, or paying offline would leave a balance.
TillAgreesWithServer ==
    Totals(CalculateOrderTotals) = Totals([l \in Present |-> CalculateOrder[l].price])

\* However the tax is rounded and dealt out to lines and components
\* (calculateOrder, calculateTax), nothing gets lost: the components of an order
\* add up to its tax and its prices to its total; what is taxed together is off
\* the exact tax by less than one unit for each rounding; no line has a negative
\* net or a tax without an amount; and no line's tax is off its exact share by a
\* unit or more.
TaxReconciles ==
    LET order == CalculateOrder
        sum   == Totals([l \in Present |-> order[l].price])
        TaxOf(S) == TotalOf([l \in S |-> order[l].price.tax], S)
        below == IF taxRules.priceMode = "EXCLUSIVE" THEN Scale ELSE Scale + TotalRate(taxRules)
        roundings == IF taxRules.priceMode = "EXCLUSIVE" THEN Cardinality(DOMAIN taxRules.rate) ELSE 1
        Near(m, n, d) == m < n + d /\ n < m + d
        together == IF taxRules.scope = "LINE" THEN {{l} : l \in Group("STANDARD")}
                                              ELSE {Group("STANDARD")}
    IN  /\ sum.gross = sum.net + sum.tax
        /\ taxRules.priceMode = "INCLUSIVE" => sum.gross = Input(Present)
        /\ taxRules.priceMode = "EXCLUSIVE" => sum.net = Input(Present)
        /\ sum.tax = TotalOf([c \in DOMAIN taxRules.rate |->
                               TotalOf([l \in Present |-> order[l].component[c]], Present)],
                             DOMAIN taxRules.rate)
        /\ \A S \in together :
              Near(TaxOf(S) * below, Input(S) * TotalRate(taxRules), roundings * below)
        /\ \A S \in together : \A l \in S :
              /\ \/ Input(S) = 0
                 \/ Near(order[l].price.tax * Input(S), TaxOf(S) * line[l].amount, Input(S))
              /\ line[l].amount = 0 => order[l].price.tax = 0
        /\ \A l \in Present : line[l].treatment # "STANDARD" => order[l].price.tax = 0
        /\ \A l \in Present : order[l].price.net >= 0
        /\ \A l \in Present, c \in DOMAIN taxRules.rate :
              taxRules.rate[c] = 0 => order[l].component[c] = 0
=============================================================================
