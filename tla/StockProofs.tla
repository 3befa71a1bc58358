---------------------------- MODULE StockProofs ----------------------------
(***************************************************************************)
(* Proofs about the stock room: whatever sales, manual commands, counts,    *)
(* purchases and batches do to the same shelves in turn, the ledger stays   *)
(* what the documents say it is.                                            *)
(***************************************************************************)
EXTENDS StockRoom, SumLemmas

Holders == Documents \cup {Manual}

LedgerOK ==
    /\ ledger \in [Holders -> [Places -> Int]]
    /\ authorised \in [Places -> BOOLEAN]

(* Entries that name places and whole quantities.                           *)
AreEntries(entries) == \A e \in entries : e.place \in Places /\ e.delta \in Int

-----------------------------------------------------------------------------
(* What a document adds to a place.                                         *)

(* Finitely many documents and the manual desk hold entries.                *)
LEMMA HoldersFinite == IsFiniteSet(Holders)
  BY LedgerAssumption, FS_AddElement DEF Holders

(* Entries of nothing move nothing.                                         *)
LEMMA DeltaNone ==
    ASSUME NEW entries, NEW p, \A e \in entries : e.place # p
    PROVE  DeltaAt(entries, p) = 0
<1>1. {e \in entries : e.place = p} = {}
  OBVIOUS
<1>2. DOMAIN [e \in {e \in entries : e.place = p} |-> e.delta] = {}
  BY <1>1
<1>. QED BY <1>2, SumOver, SumEmpty DEF DeltaAt

(* The only entry of a place moves it by its delta.                         *)
LEMMA DeltaOne ==
    ASSUME NEW entries, AreEntries(entries), UniqueKeys(entries), NEW e \in entries
    PROVE  DeltaAt(entries, e.place) = e.delta
<1>. DEFINE f == [x \in {x \in entries : x.place = e.place} |-> x.delta]
<1>1. {x \in entries : x.place = e.place} = {e}
  BY DEF UniqueKeys
<1>2. f[e] = e.delta /\ DOMAIN f = {e}
  BY <1>1
<1>3. e.delta \in Int
  BY DEF AreEntries
<1>4. DeltaAt(entries, e.place) = SumFunctionOnSet(f, {e})
  <2>1. DeltaAt(entries, e.place) = SumFunction(f)
    BY DEF DeltaAt
  <2>. HIDE DEF f
  <2>. QED BY <1>2, <2>1, SumOver
<1>. HIDE DEF f
<1>. QED BY <1>2, <1>3, <1>4, SumSingle

(* Entries move a place by a whole number.                                  *)
LEMMA DeltaType ==
    ASSUME NEW entries, AreEntries(entries), UniqueKeys(entries), NEW p
    PROVE  DeltaAt(entries, p) \in Int
<1>1. CASE \A e \in entries : e.place # p
  BY <1>1, DeltaNone
<1>2. CASE \E e \in entries : e.place = p
  BY <1>2, DeltaOne DEF AreEntries
<1>. QED BY <1>1, <1>2

-----------------------------------------------------------------------------
(* The balance of a place, and how it moves.                                *)

Column(L, p) == [d \in Holders |-> L[d][p]]

LEMMA ColumnSum ==
    ASSUME NEW L \in [Holders -> [Places -> Int]], NEW p \in Places
    PROVE  /\ SumFunction([d \in DOMAIN L |-> L[d][p]]) = SumFunctionOnSet(Column(L, p), Holders)
           /\ \A d \in Holders : Column(L, p)[d] = L[d][p] /\ L[d][p] \in Int
           /\ SumFunctionOnSet(Column(L, p), Holders) \in Int
<1>1. DOMAIN L = Holders /\ DOMAIN Column(L, p) = Holders
  BY DEF Column
<1>2. SumFunction([d \in DOMAIN L |-> L[d][p]]) = SumFunction(Column(L, p))
  BY <1>1 DEF Column
<1>3. \A d \in Holders : Column(L, p)[d] = L[d][p] /\ L[d][p] \in Int
  BY DEF Column
<1>4. SumFunction(Column(L, p)) = SumFunctionOnSet(Column(L, p), Holders)
  BY <1>1, SumOver
<1>5. SumFunctionOnSet(Column(L, p), Holders) \in Int
  BY <1>3, HoldersFinite, SumType
<1>. QED BY <1>2, <1>3, <1>4, <1>5

(* A balance is the sum of what its holders have entered.                   *)
LEMMA BalanceIsSum ==
    ASSUME LedgerOK, NEW p \in Places
    PROVE  Balance(p) = SumFunctionOnSet(Column(ledger, p), Holders) /\ Balance(p) \in Int
  BY ColumnSum DEF LedgerOK, Balance

(* An entry moves the balance of its place by its own amount.               *)
LEMMA BalanceMoves ==
    ASSUME LedgerOK, LedgerOK', NEW document \in Holders, NEW p \in Places, NEW delta \in Int,
           ledger'[document][p] = ledger[document][p] + delta,
           \A d \in Holders \ {document} : ledger'[d][p] = ledger[d][p]
    PROVE  Balance(p)' = Balance(p) + delta
<1>. DEFINE f == Column(ledger, p)
            g == Column(ledger', p)
<1>1. Balance(p) = SumFunctionOnSet(f, Holders) /\ Balance(p)' = SumFunctionOnSet(g, Holders)
  BY ColumnSum DEF LedgerOK, Balance
<1>2. \A d \in Holders : f[d] = ledger[d][p] /\ g[d] = ledger'[d][p] /\ f[d] \in Int /\ g[d] \in Int
  BY DEF LedgerOK, Column
<1>3. /\ \A d \in Holders : f[d] \in Int
      /\ g[document] \in Int
      /\ \A d \in Holders \ {document} : g[d] = f[d]
      /\ g[document] - f[document] = delta
  BY <1>2
<1>. HIDE DEF f, g
<1>4. SumFunctionOnSet(g, Holders) = SumFunctionOnSet(f, Holders) + (g[document] - f[document])
  BY <1>3, HoldersFinite, SumUpdate
<1>. QED BY <1>1, <1>3, <1>4

(* Record adds entries to one holder, and to the balances.                  *)
LEMMA RecordMoves ==
    ASSUME LedgerOK, NEW document \in Holders, NEW entries, AreEntries(entries),
           NEW override \in BOOLEAN, Record(document, entries, override)
    PROVE  /\ LedgerOK'
           /\ \A p \in Places : Balance(p)' = Balance(p) + DeltaAt(entries, p)
           /\ \A p \in Places : ledger'[document][p] = ledger[document][p] + DeltaAt(entries, p)
           /\ \A d \in Holders \ {document} : ledger'[d] = ledger[d]
<1>1. \A p \in Places : DeltaAt(entries, p) \in Int
  BY DeltaType DEF Record
<1>2. /\ ledger' = [ledger EXCEPT ![document] = [p \in Places |-> @[p] + DeltaAt(entries, p)]]
      /\ authorised' \in [Places -> BOOLEAN]
  BY DEF Record
<1>3. /\ \A p \in Places : ledger'[document][p] = ledger[document][p] + DeltaAt(entries, p)
      /\ \A d \in Holders \ {document} : ledger'[d] = ledger[d]
      /\ ledger' \in [Holders -> [Places -> Int]]
  BY <1>1, <1>2 DEF LedgerOK
<1>4. LedgerOK'
  BY <1>2, <1>3 DEF LedgerOK
<1>5. ASSUME NEW p \in Places PROVE Balance(p)' = Balance(p) + DeltaAt(entries, p)
  BY <1>1, <1>3, <1>4, BalanceMoves
<1>. QED BY <1>3, <1>4, <1>5

(* A document that posts: what it leaves short is allowed.                  *)
LEMMA PostKeepsShortage ==
    ASSUME LedgerOK, NEW document \in Holders, NEW entries, AreEntries(entries),
           NEW override \in BOOLEAN, Post(document, entries, override), ShortageIsAuthorised
    PROVE  ShortageIsAuthorised'
<1>1. Record(document, entries, override) /\ (override <=> ~Covered(entries))
  BY DEF Post
<1>2. UniqueKeys(entries)
  BY <1>1 DEF Record
<1>. SUFFICES ASSUME NEW p \in Places, Balance(p)' < 0 PROVE authorised'[p]
  BY DEF ShortageIsAuthorised
<1>3. Balance(p) + DeltaAt(entries, p) < 0
  BY <1>1, RecordMoves
<1>4. authorised'[p] <=> (authorised[p] \/ (override /\ \E e \in entries : e.place = p))
  <2>1. authorised' = [q \in Places |->
            /\ Balance(q) + DeltaAt(entries, q) < 0
            /\ \/ authorised[q]
               \/ override /\ \E e \in entries : e.place = q]
    BY <1>1 DEF Record
  <2>. QED BY <1>3, <2>1
<1>5. CASE Balance(p) < 0
  BY <1>4, <1>5 DEF ShortageIsAuthorised
<1>6. CASE Balance(p) >= 0
  <2>1. Balance(p) \in Int
    BY BalanceIsSum
  <2>2. PICK e \in entries : e.place = p
    BY <1>3, <1>6, <2>1, DeltaNone
  <2>3. DeltaAt(entries, p) = e.delta /\ e.delta \in Int
    BY <1>2, <2>2, DeltaOne DEF AreEntries
  <2>4. ~Covered(entries)
    BY <1>3, <1>6, <2>1, <2>2, <2>3 DEF Covered
  <2>. QED BY <1>1, <1>4, <2>2, <2>4
<1>. QED BY <1>5, <1>6, BalanceIsSum

-----------------------------------------------------------------------------
(* What a line takes.                                                       *)

(* The newest of some versions is one of them.                              *)
LEMMA NewestIsOne ==
    ASSUME NEW S \in SUBSET Versions, S # {}
    PROVE  Newest(S) \in S
<1>. DEFINE Last(v, T) == \A w \in T : w.from < v.from \/ (w.from = v.from /\ w.version <= v.version)
            G == {T \in SUBSET S : T # {} => \E v \in T : Last(v, T)}
<1>1. IsFiniteSet(S) /\ \A v \in S : v.from \in Nat /\ v.version \in Nat
  BY ConsumptionAssumption, FS_Subset
<1>2. ASSUME NEW T \in SUBSET S, \A U \in SUBSET T : U # T => U \in G, T # {}
      PROVE  \E v \in T : Last(v, T)
  <2>. DEFINE o == OneOf(T)
              U == T \ {o}
  <2>1. o \in T
    BY <1>2, OneOfIsIn
  <2>2. U \in G
    <3>1. U \in SUBSET T /\ U # T
      BY <2>1
    <3>. HIDE DEF U, G
    <3>. QED BY <1>2, <3>1
  <2>3. \A v \in T : v.from \in Nat /\ v.version \in Nat
    BY <1>1
  <2>4. CASE U = {}
    <3>1. T = {o}
      BY <2>1, <2>4
    <3>2. o.version <= o.version
      BY <2>1, <2>3
    <3>3. Last(o, T)
      BY <3>1, <3>2
    <3>. QED BY <2>1, <3>3
  <2>5. CASE U # {}
    <3>1. PICK v \in U : Last(v, U)
      BY <2>2, <2>5
    <3>. HIDE DEF o
    <3>2. CASE v.from < o.from \/ (v.from = o.from /\ v.version <= o.version)
      <4>1. Last(o, T)
        BY <2>1, <2>3, <3>1, <3>2
      <4>. QED BY <2>1, <4>1
    <3>3. CASE ~(v.from < o.from \/ (v.from = o.from /\ v.version <= o.version))
      <4>1. Last(v, T)
        BY <2>1, <2>3, <3>1, <3>3
      <4>. QED BY <4>1
    <3>. QED BY <3>2, <3>3
  <2>. QED BY <2>4, <2>5
<1>3. S \in G
  <2>1. \A T \in SUBSET S : (\A U \in SUBSET T : U # T => U \in G) => T \in G
    <3>. SUFFICES ASSUME NEW T \in SUBSET S, \A U \in SUBSET T : U # T => U \in G
                  PROVE  T \in G
      OBVIOUS
    <3>1. T # {} => \E v \in T : Last(v, T)
      BY <1>2
    <3>. QED BY <3>1
  <2>. HIDE DEF G
  <2>. QED BY <1>1, <2>1, SetInduction
<1>4. \E v \in S : Last(v, S)
  BY <1>3
<1>. QED BY <1>4 DEF Newest

(* A line that can be resolved takes whole quantities.                      *)
LEMMA TakesWhole ==
    ASSUME NEW l \in Lines, NEW at, Resolvable(l, at), NEW i \in Items
    PROVE  Takes(l, at)[i] \in Int
<1>. DEFINE recipe == Newest(Recipes(at))
            effect == Newest(Effects(at))
<1>1. recipe \in RecipeVersions
  <2>1. Recipes(at) # {} /\ Recipes(at) \in SUBSET Versions /\ Recipes(at) \subseteq RecipeVersions
    BY DEF Resolvable, Recipes, InForce, Active, Versions
  <2>. QED BY <2>1, NewestIsOne
<1>2. l \in WithModifier => effect \in EffectVersions
  <2>1. /\ l \in WithModifier => Effects(at) # {}
        /\ Effects(at) \in SUBSET Versions /\ Effects(at) \subseteq EffectVersions
    BY DEF Resolvable, Effects, InForce, Active, Versions
  <2>. QED BY <2>1, NewestIsOne
<1>. HIDE DEF recipe, effect
<1>3. recipe.takes[i] \in Nat /\ recipe.yield \in Nat \ {0} /\ Quantity[l] \in Nat
  BY <1>1, ConsumptionAssumption
<1>4. (recipe.takes[i] * Quantity[l]) \div recipe.yield \in Int
  <2>1. recipe.takes[i] * Quantity[l] \in Int
    BY <1>3
  <2>. QED BY <1>3, <2>1
<1>5. l \in WithModifier => effect.adds[i] * Quantity[l] \in Int
  <2>1. l \in WithModifier => effect.adds[i] \in Int
    BY <1>2, ConsumptionAssumption
  <2>. QED BY <1>3, <2>1
<1>6. Takes(l, at)[i] = (recipe.takes[i] * Quantity[l]) \div recipe.yield
                        + (IF l \in WithModifier THEN effect.adds[i] * Quantity[l] ELSE 0)
  BY DEF Takes, recipe, effect
<1>. QED BY <1>4, <1>5, <1>6

(* It draws whole quantities, and some of something.                        *)
LEMMA DrawnWhole ==
    ASSUME NEW l \in Lines, NEW at, Resolvable(l, at)
    PROVE  Drawn(l, at) \in [Places -> Nat] /\ \E p \in Places : Drawn(l, at)[p] > 0
<1>1. \A p \in Places : p[1] \in Locations /\ p[2] \in Items
  BY DEF Places
<1>2. Drawn(l, at) \in [Places -> Nat]
  <2>1. ASSUME NEW p \in Places PROVE Takes(l, at)[p[2]] > 0 => Takes(l, at)[p[2]] \in Nat
    <3>1. Takes(l, at)[p[2]] \in Int
      BY <1>1, TakesWhole
    <3>. QED BY <3>1
  <2>. QED BY <2>1 DEF Drawn
<1>3. PICK i \in Items : Takes(l, at)[i] > 0
  BY DEF Resolvable
<1>4. Route(i, at).location \in Locations
  <2>1. Routes(i, at) # {} /\ Routes(i, at) \subseteq RouteVersions
    BY <1>3 DEF Resolvable, Routes, InForce, Active
  <2>. DEFINE own == {r \in Routes(i, at) : ~r.anyStation}
              S == IF own # {} THEN own ELSE Routes(i, at)
  <2>2. S # {} /\ S \subseteq RouteVersions /\ S \in SUBSET Versions
    BY <2>1 DEF Versions
  <2>3. Route(i, at) = Newest(S)
    BY DEF Route
  <2>. HIDE DEF S
  <2>4. Newest(S) \in RouteVersions
    BY <2>2, NewestIsOne
  <2>. QED BY <2>3, <2>4, ConsumptionAssumption
<1>. DEFINE p == <<Route(i, at).location, i>>
<1>5. p \in Places /\ p[1] = Route(i, at).location /\ p[2] = i
  BY <1>4 DEF Places
<1>. HIDE DEF p
<1>6. Drawn(l, at)[p] = Takes(l, at)[i]
  BY <1>3, <1>5 DEF Drawn
<1>. QED BY <1>2, <1>3, <1>5, <1>6

(* Drawing a line takes its recipe out of the shelves.                      *)
LEMMA DrawAllMoves ==
    ASSUME LedgerOK, NEW ls \in SUBSET Lines, NEW at, NEW override \in BOOLEAN,
           DrawAll(ls, at, override)
    PROVE  /\ LedgerOK'
           /\ \A l \in ls, p \in Places : ledger'[l][p] = ledger[l][p] - Drawn(l, at)[p]
           /\ \A d \in Holders \ ls : ledger'[d] = ledger[d]
           /\ ShortageIsAuthorised => ShortageIsAuthorised'
<1>. DEFINE D(p) == [l \in ls |-> Drawn(l, at)[p]]
            total == [p \in Places |-> SumFunction(D(p))]
            touched == {p \in Places : total[p] > 0}
<1>1. /\ \A l \in ls : Resolvable(l, at)
      /\ override <=> \E p \in touched : Balance(p) < total[p]
      /\ ledger' = [d \in DOMAIN ledger |->
            IF d \in ls THEN [p \in Places |-> ledger[d][p] - Drawn(d, at)[p]] ELSE ledger[d]]
      /\ authorised' = [p \in Places |->
            /\ Balance(p) - total[p] < 0
            /\ authorised[p] \/ (override /\ p \in touched)]
  BY DEF DrawAll
<1>2. ls \subseteq Holders
  BY ConsumptionAssumption DEF Holders
<1>3. \A l \in ls : Drawn(l, at) \in [Places -> Nat]
  BY <1>1, DrawnWhole
<1>4. /\ \A l \in ls, p \in Places : ledger'[l][p] = ledger[l][p] - Drawn(l, at)[p]
      /\ \A d \in Holders \ ls : ledger'[d] = ledger[d]
      /\ ledger' \in [Holders -> [Places -> Int]]
  BY <1>1, <1>2, <1>3 DEF LedgerOK
<1>5. LedgerOK'
  BY <1>1, <1>4 DEF LedgerOK
<1>6. ASSUME NEW p \in Places PROVE Balance(p) = Balance(p)' + total[p] /\ total[p] \in Int
  <2>. DEFINE f == Column(ledger, p)
              h == Column(ledger', p)
              g == [d \in Holders |-> IF d \in ls THEN Drawn(d, at)[p] ELSE 0]
  <2>1. Balance(p) = SumFunctionOnSet(f, Holders) /\ Balance(p)' = SumFunctionOnSet(h, Holders)
    BY <1>5, ColumnSum DEF LedgerOK, Balance
  <2>2. \A d \in Holders : h[d] \in Int /\ g[d] \in Int /\ f[d] = h[d] + g[d]
    <3>1. \A d \in Holders : f[d] = ledger[d][p] /\ h[d] = ledger'[d][p]
      BY DEF Column
    <3>2. \A d \in Holders : ledger[d][p] \in Int /\ ledger'[d][p] \in Int
      BY <1>5 DEF LedgerOK
    <3>3. \A d \in ls : g[d] = Drawn(d, at)[p] /\ Drawn(d, at)[p] \in Nat
      BY <1>2, <1>3
    <3>4. \A d \in Holders \ ls : g[d] = 0
      OBVIOUS
    <3>. HIDE DEF f, g, h
    <3>. QED BY <1>4, <3>1, <3>2, <3>3, <3>4
  <2>3. SumFunctionOnSet(g, Holders) = SumFunctionOnSet(g, ls) /\ SumFunctionOnSet(g, ls) \in Int
    <3>1. (\A d \in ls : g[d] \in Int) /\ (\A d \in Holders \ ls : g[d] = 0)
      BY <1>2, <2>2
    <3>2. IsFiniteSet(ls)
      BY <1>2, HoldersFinite, FS_Subset
    <3>. HIDE DEF g
    <3>. QED BY <1>2, <3>1, <3>2, HoldersFinite, SumExtended, SumType
  <2>4. total[p] = SumFunctionOnSet(g, ls)
    <3>1. total[p] = SumFunctionOnSet(D(p), ls)
      <4>1. total[p] = SumFunction(D(p)) /\ DOMAIN D(p) = ls
        OBVIOUS
      <4>. HIDE DEF D
      <4>. QED BY <4>1, SumOver
    <3>2. \A l \in ls : D(p)[l] = g[l]
      BY <1>2
    <3>3. IsFiniteSet(ls)
      BY <1>2, HoldersFinite, FS_Subset
    <3>. HIDE DEF D, g
    <3>. QED BY <3>1, <3>2, <3>3, SumSame
  <2>. HIDE DEF f, g, h
  <2>5. SumFunctionOnSet(f, Holders) = SumFunctionOnSet(h, Holders) + SumFunctionOnSet(g, Holders)
    BY <2>2, HoldersFinite, SumOfSums
  <2>. QED BY <2>1, <2>3, <2>4, <2>5
<1>7. ASSUME ShortageIsAuthorised, NEW p \in Places, Balance(p)' < 0 PROVE authorised'[p]
  <2>1. Balance(p) \in Int /\ Balance(p)' \in Int /\ Balance(p) = Balance(p)' + total[p] /\ total[p] \in Int
    BY <1>5, <1>6, ColumnSum DEF LedgerOK, Balance
  <2>. HIDE DEF total
  <2>2. authorised[p] \/ (override /\ p \in touched)
    <3>1. CASE Balance(p) < 0
      BY <3>1, <1>7 DEF ShortageIsAuthorised
    <3>2. CASE Balance(p) >= 0
      BY <1>1, <1>7, <2>1, <3>2
    <3>. QED BY <2>1, <3>1, <3>2
  <2>3. Balance(p) - total[p] < 0
    BY <1>7, <2>1
  <2>. HIDE DEF touched
  <2>. QED BY <1>1, <2>2, <2>3
<1>8. ShortageIsAuthorised => ShortageIsAuthorised'
  BY <1>7 DEF ShortageIsAuthorised
<1>. QED BY <1>4, <1>5, <1>8

(* Giving back puts into the shelves what was drawn.                        *)
LEMMA GiveBackMoves ==
    ASSUME LedgerOK, NEW l \in Lines, consumption[l].drawn \in [Places -> Nat], GiveBack(l)
    PROVE  /\ LedgerOK'
           /\ \A p \in Places : ledger'[l][p] = ledger[l][p] + consumption[l].drawn[p]
           /\ \A d \in Holders \ {l} : ledger'[d] = ledger[d]
           /\ ShortageIsAuthorised => ShortageIsAuthorised'
<1>. DEFINE drawn == consumption[l].drawn
<1>1. /\ ledger' = [ledger EXCEPT ![l] = [p \in Places |-> @[p] + drawn[p]]]
      /\ authorised' = [p \in Places |-> authorised[p] /\ Balance(p) + drawn[p] < 0]
      /\ \A p \in Places : drawn[p] \in Nat
  BY DEF GiveBack
<1>. HIDE DEF drawn
<1>2. l \in Holders
  BY ConsumptionAssumption DEF Holders
<1>3. /\ \A p \in Places : ledger'[l][p] = ledger[l][p] + drawn[p]
      /\ \A d \in Holders \ {l} : ledger'[d] = ledger[d]
      /\ ledger' \in [Holders -> [Places -> Int]]
  BY <1>1, <1>2 DEF LedgerOK
<1>4. authorised' \in [Places -> BOOLEAN]
  BY <1>1
<1>5. LedgerOK'
  BY <1>3, <1>4 DEF LedgerOK
<1>6. ASSUME NEW p \in Places PROVE Balance(p)' = Balance(p) + drawn[p]
  BY <1>1, <1>2, <1>3, <1>5, BalanceMoves
<1>7. ASSUME ShortageIsAuthorised, NEW p \in Places, Balance(p)' < 0 PROVE authorised'[p]
  <2>1. Balance(p) + drawn[p] < 0 /\ Balance(p) < 0
    BY <1>1, <1>6, <1>7, BalanceIsSum
  <2>2. authorised[p]
    BY <1>7, <2>1 DEF ShortageIsAuthorised
  <2>. QED BY <1>1, <2>1, <2>2
<1>8. ShortageIsAuthorised => ShortageIsAuthorised'
  BY <1>7 DEF ShortageIsAuthorised
<1>. QED BY <1>3, <1>5, <1>8 DEF drawn

-----------------------------------------------------------------------------
(* The invariant, part by part.                                             *)

CountOK ==
    count \in [Counts -> [status : {"NONE", "DRAFT", "POSTED"}, place : Places, counted : Nat]]

TimesOK ==
    /\ clock \in Nat
    /\ policy \in [DOMAIN Policies -> PolicyStatuses]
    /\ version \in [Versions -> VersionStatuses] /\ cancelled \subseteq Lines
    /\ sentAt \in [Lines -> {Never} \cup 0..clock]
    /\ readyAt \in [Tickets -> {Never} \cup 0..clock]

(* What a line has taken is what its consumption says, and nothing once it  *)
(* is put back.                                                             *)
LineKept(l) ==
    IF consumption[l].status = "POSTED"
    THEN /\ \A p \in Places : ledger[l][p] = -consumption[l].drawn[p]
         /\ \E p \in Places : consumption[l].drawn[p] > 0
    ELSE ledger[l] = Empty

ConsumptionRecords == [status : {"NONE", "POSTED", "REVERSED"}, drawn : [Places -> Nat]]

LinesOK ==
    /\ consumption \in [Lines -> ConsumptionRecords]
    /\ \A l \in Lines : LineKept(l)
    /\ CancelledIsPutBack

(* So has a batch.                                                          *)
BatchKept(b) ==
    /\ UniqueKeys(batch[b].entries)
    /\ IF batch[b].status = "POSTED"
       THEN \A p \in Places : ledger[b][p] = DeltaAt(batch[b].entries, p)
       ELSE ledger[b] = Empty

BatchRecords ==
    [status : {"NONE", "POSTED", "REVERSED"},
     entries : SUBSET [line : Batches, place : Places, delta : Int]]

BatchesOK == batch \in [Batches -> BatchRecords] /\ \A b \in Batches : BatchKept(b)

-----------------------------------------------------------------------------
(* What a step of the sale does to the ledger: nothing, or it posts lines   *)
(* that were never posted, or it puts one back.                             *)

SaleMoves ==
    \/ \E ls \in SUBSET Lines, override \in BOOLEAN : \E at :
          /\ \A l \in ls : consumption[l].status = "NONE"
          /\ DrawAll(ls, at, override) /\ cancelled' = cancelled
    \/ \E l \in Lines :
          /\ consumption[l].status = "POSTED" /\ GiveBack(l)
          /\ cancelled' \subseteq cancelled \cup {l}
    \/ /\ UNCHANGED <<ledger, authorised, consumption>>
       /\ \A l \in cancelled' \ cancelled : consumption[l].status # "POSTED"

(* Every handler of consumption moves the ledger so.                        *)
LEMMA SaleMovesSo == SaleNext => SaleMoves
<1>. SUFFICES ASSUME SaleNext PROVE SaleMoves
  OBVIOUS
<1>1. ASSUME NEW ls \in SUBSET Lines, NEW trigger, NEW at,
             PostAutomatically(ls, trigger, at), cancelled' = cancelled
      PROVE  SaleMoves
  <2>1. CASE Trigger(at) = trigger
    <3>. DEFINE unposted == {l \in ls : consumption[l].status = "NONE"}
    <3>1. DrawAll(unposted, at, FALSE)
      BY <1>1, <2>1 DEF PostAutomatically
    <3>2. unposted \in SUBSET Lines /\ \A l \in unposted : consumption[l].status = "NONE"
      OBVIOUS
    <3>. HIDE DEF unposted
    <3>. QED BY <1>1, <3>1, <3>2 DEF SaleMoves
  <2>2. CASE Trigger(at) # trigger
    BY <1>1, <2>2 DEF PostAutomatically, SaleMoves
  <2>. QED BY <2>1, <2>2
<1>2. CASE \E ls \in (SUBSET Lines) \ {{}} : Send(ls)
  BY <1>1, <1>2 DEF Send
<1>3. CASE \E t \in Tickets : Ready(t)
  <2>1. PICK t \in Tickets : Ready(t)
    BY <1>3
  <2>. DEFINE ls == {l \in Uncancelled(t) : \A u \in Tickets : l \in TicketLines[u] => readyAt'[u] # Never}
  <2>2. ls \in SUBSET Lines
    BY ConsumptionAssumption DEF Uncancelled, Tickets
  <2>3. PostAutomatically(ls, "PREPARED", clock) /\ cancelled' = cancelled
    BY <2>1 DEF Ready
  <2>. QED BY <1>1, <2>2, <2>3
<1>4. CASE \E l \in Lines : CancelSentLine(l)
  <2>1. PICK l \in Lines : CancelSentLine(l)
    BY <1>4
  <2>2. cancelled' = cancelled \cup {l} /\ ReverseAutomatically(l)
    BY <2>1 DEF CancelSentLine
  <2>3. CASE consumption[l].status = "POSTED"
    BY <2>2, <2>3 DEF ReverseAutomatically, SaleMoves
  <2>4. CASE consumption[l].status # "POSTED"
    BY <2>2, <2>4 DEF ReverseAutomatically, SaleMoves
  <2>. QED BY <2>3, <2>4
<1>5. CASE \E l \in Lines, trigger \in Triggers, override \in BOOLEAN : PostByHand(l, trigger, override)
  <2>1. PICK l \in Lines, trigger \in Triggers, override \in BOOLEAN : PostByHand(l, trigger, override)
    BY <1>5
  <2>2. PICK at \in Events(l, trigger) : DrawAll({l}, at, override)
    BY <2>1 DEF PostByHand
  <2>3. consumption[l].status = "NONE" /\ cancelled' = cancelled
    BY <2>1 DEF PostByHand, lineVars
  <2>. DEFINE ls == {l}
  <2>4. ls \in SUBSET Lines /\ \A x \in ls : consumption[x].status = "NONE"
    BY <2>3
  <2>. HIDE DEF ls
  <2>. QED BY <2>2, <2>3, <2>4 DEF SaleMoves, ls
<1>6. CASE \E l \in Lines : ReverseByHand(l)
  BY <1>6 DEF ReverseByHand, SaleMoves, lineVars
<1>7. CASE Complete
  <2>1. PostAutomatically(Lines \ cancelled, "COMPLETED", clock) /\ cancelled' = cancelled
    BY <1>7 DEF Complete
  <2>. QED BY <1>1, <2>1
<1>8. CASE \E p \in DOMAIN Policies : CreatePolicy(p) \/ ConfirmPolicy(p) \/ ActivatePolicy(p)
  BY <1>8 DEF CreatePolicy, ConfirmPolicy, ActivatePolicy, SaleMoves, lineVars
<1>9. CASE (\E v \in Versions : Draft(v) \/ Activate(v)) \/ Tick
  BY <1>9 DEF Draft, Activate, Tick, SaleMoves, lineVars
<1>. QED BY <1>2, <1>3, <1>4, <1>5, <1>6, <1>7, <1>8, <1>9
         DEF SaleNext, CreateRecipe, ActivateRecipe, CreateModifierEffect,
             ActivateModifierEffect, CreateRoute, ActivateRoute, Versions

(* A step of consumption keeps what is known of lines.                      *)
LEMMA SaleKeepsLines ==
    ASSUME LedgerOK, TimesOK, LinesOK, SaleMoves
    PROVE  /\ LedgerOK' /\ LinesOK'
           /\ \A d \in Holders \ Lines : ledger'[d] = ledger[d]
           /\ ShortageIsAuthorised => ShortageIsAuthorised'
<1>1. CASE \E ls \in SUBSET Lines, override \in BOOLEAN : \E at :
             /\ \A l \in ls : consumption[l].status = "NONE"
             /\ DrawAll(ls, at, override) /\ cancelled' = cancelled
  <2>1. PICK ls \in SUBSET Lines, override \in BOOLEAN : \E at :
             /\ \A l \in ls : consumption[l].status = "NONE"
             /\ DrawAll(ls, at, override) /\ cancelled' = cancelled
    BY <1>1
  <2>2. PICK at : /\ \A l \in ls : consumption[l].status = "NONE"
                  /\ DrawAll(ls, at, override) /\ cancelled' = cancelled
    BY <2>1
  <2>3. /\ LedgerOK'
        /\ \A l \in ls, p \in Places : ledger'[l][p] = ledger[l][p] - Drawn(l, at)[p]
        /\ \A d \in Holders \ ls : ledger'[d] = ledger[d]
        /\ ShortageIsAuthorised => ShortageIsAuthorised'
    BY <2>2, DrawAllMoves
  <2>4. /\ \A l \in ls : Resolvable(l, at)
        /\ consumption' = [l \in Lines |->
              IF l \in ls THEN [status |-> "POSTED", drawn |-> Drawn(l, at)] ELSE consumption[l]]
    BY <2>2 DEF DrawAll
  <2>5. \A l \in ls : Drawn(l, at) \in [Places -> Nat] /\ \E p \in Places : Drawn(l, at)[p] > 0
    BY <2>4, DrawnWhole
  <2>6. consumption' \in [Lines -> ConsumptionRecords]
    BY <2>4, <2>5 DEF LinesOK, ConsumptionRecords
  <2>7. ASSUME NEW l \in Lines PROVE LineKept(l)'
    <3>1. CASE l \in ls
      <4>1. consumption'[l].status = "POSTED" /\ consumption'[l].drawn = Drawn(l, at)
        BY <2>4, <3>1
      <4>2. ledger[l] = Empty
        BY <2>2, <3>1 DEF LinesOK, LineKept
      <4>3. \A p \in Places : ledger'[l][p] = -Drawn(l, at)[p]
        BY <2>3, <2>5, <3>1, <4>2 DEF Empty
      <4>. QED BY <2>5, <3>1, <4>1, <4>3 DEF LineKept
    <3>2. CASE l \notin ls
      <4>1. l \in Holders
        BY ConsumptionAssumption DEF Holders
      <4>2. consumption'[l] = consumption[l] /\ ledger'[l] = ledger[l]
        BY <2>3, <2>4, <3>2, <4>1
      <4>. QED BY <4>2 DEF LinesOK, LineKept
    <3>. QED BY <3>1, <3>2
  <2>8. CancelledIsPutBack'
    <3>1. \A l \in ls : l \notin cancelled
      BY <2>4 DEF Resolvable
    <3>2. cancelled \subseteq Lines
      BY DEF TimesOK
    <3>. SUFFICES ASSUME NEW l \in cancelled PROVE consumption'[l].status # "POSTED"
      BY <2>2 DEF CancelledIsPutBack
    <3>. QED BY <2>4, <3>1, <3>2 DEF LinesOK, CancelledIsPutBack
  <2>. QED BY <2>3, <2>6, <2>7, <2>8 DEF LinesOK
<1>2. CASE \E l \in Lines :
             /\ consumption[l].status = "POSTED" /\ GiveBack(l)
             /\ cancelled' \subseteq cancelled \cup {l}
  <2>1. PICK l \in Lines :
             /\ consumption[l].status = "POSTED" /\ GiveBack(l)
             /\ cancelled' \subseteq cancelled \cup {l}
    BY <1>2
  <2>2. consumption[l].drawn \in [Places -> Nat]
    BY DEF LinesOK, ConsumptionRecords
  <2>3. /\ LedgerOK'
        /\ \A p \in Places : ledger'[l][p] = ledger[l][p] + consumption[l].drawn[p]
        /\ \A d \in Holders \ {l} : ledger'[d] = ledger[d]
        /\ ShortageIsAuthorised => ShortageIsAuthorised'
    BY <2>1, <2>2, GiveBackMoves
  <2>4. consumption' = [consumption EXCEPT ![l].status = "REVERSED"]
    BY <2>1 DEF GiveBack
  <2>5. consumption' \in [Lines -> ConsumptionRecords]
    BY <2>4 DEF LinesOK, ConsumptionRecords
  <2>6. ASSUME NEW k \in Lines PROVE LineKept(k)'
    <3>1. CASE k = l
      <4>1. consumption'[l].status = "REVERSED"
        BY <2>4 DEF LinesOK, ConsumptionRecords
      <4>2. \A p \in Places : ledger'[l][p] = 0
        <5>1. \A p \in Places : ledger[l][p] = -consumption[l].drawn[p]
          BY <2>1 DEF LinesOK, LineKept
        <5>. QED BY <2>2, <2>3, <5>1
      <4>3. ledger'[l] \in [Places -> Int]
        BY <2>3, ConsumptionAssumption DEF LedgerOK, Holders
      <4>4. ledger'[l] = Empty
        BY <4>2, <4>3 DEF Empty
      <4>. QED BY <3>1, <4>1, <4>4 DEF LineKept, Empty
    <3>2. CASE k # l
      <4>1. k \in Holders
        BY ConsumptionAssumption DEF Holders
      <4>2. consumption'[k] = consumption[k] /\ ledger'[k] = ledger[k]
        BY <2>3, <2>4, <3>2, <4>1 DEF LinesOK
      <4>. QED BY <4>2 DEF LinesOK, LineKept
    <3>. QED BY <3>1, <3>2
  <2>7. CancelledIsPutBack'
    <3>. SUFFICES ASSUME NEW k \in cancelled' PROVE consumption'[k].status # "POSTED"
      BY DEF CancelledIsPutBack
    <3>1. CASE k = l
      BY <2>4, <3>1 DEF LinesOK, ConsumptionRecords
    <3>2. CASE k # l
      BY <2>1, <2>4, <3>2 DEF LinesOK, CancelledIsPutBack
    <3>. QED BY <3>1, <3>2
  <2>. QED BY <2>3, <2>5, <2>6, <2>7, ConsumptionAssumption DEF LinesOK
<1>3. CASE /\ UNCHANGED <<ledger, authorised, consumption>>
           /\ \A l \in cancelled' \ cancelled : consumption[l].status # "POSTED"
  BY <1>3 DEF LedgerOK, LinesOK, LineKept, CancelledIsPutBack, ShortageIsAuthorised, Balance
<1>. QED BY <1>1, <1>2, <1>3 DEF SaleMoves

(* A step of consumption keeps the times of the entries.                    *)
LEMMA SaleKeepsTimes ==
    ASSUME TimesOK, SaleNext
    PROVE  TimesOK'
<1>1. /\ clock \in Nat /\ clock \in 0..clock
      /\ policy \in [DOMAIN Policies -> PolicyStatuses]
      /\ version \in [Versions -> VersionStatuses] /\ cancelled \subseteq Lines
      /\ sentAt \in [Lines -> {Never} \cup 0..clock]
      /\ readyAt \in [Tickets -> {Never} \cup 0..clock]
  BY DEF TimesOK
<1>2. CASE \E ls \in (SUBSET Lines) \ {{}} : Send(ls)
  <2>1. PICK ls \in (SUBSET Lines) \ {{}} : Send(ls)
    BY <1>2
  <2>2. /\ sentAt' = [l \in Lines |-> IF l \in ls THEN clock ELSE sentAt[l]]
        /\ UNCHANGED <<cancelled, readyAt, clock, policy, version>>
    BY <2>1 DEF Send, configVars
  <2>. QED BY <1>1, <2>2 DEF TimesOK
<1>3. CASE \E t \in Tickets : Ready(t)
  <2>1. PICK t \in Tickets : Ready(t)
    BY <1>3
  <2>2. /\ readyAt' = [readyAt EXCEPT ![t] = clock]
        /\ UNCHANGED <<cancelled, sentAt, clock, policy, version>>
    BY <2>1 DEF Ready, configVars
  <2>. QED BY <1>1, <2>2 DEF TimesOK
<1>4. CASE \E l \in Lines : CancelSentLine(l)
  BY <1>1, <1>4 DEF CancelSentLine, TimesOK, configVars
<1>5. CASE \/ \E l \in Lines, trigger \in Triggers, override \in BOOLEAN : PostByHand(l, trigger, override)
           \/ \E l \in Lines : ReverseByHand(l)
           \/ Complete
  BY <1>1, <1>5 DEF PostByHand, ReverseByHand, Complete, TimesOK, lineVars, configVars
<1>6. CASE \E p \in DOMAIN Policies : CreatePolicy(p) \/ ConfirmPolicy(p) \/ ActivatePolicy(p)
  <2>1. PICK p \in DOMAIN Policies, s \in PolicyStatuses :
            /\ policy' = [policy EXCEPT ![p] = s]
            /\ UNCHANGED <<clock, version, sentAt, cancelled, readyAt>>
    BY <1>6 DEF CreatePolicy, ConfirmPolicy, ActivatePolicy, lineVars, PolicyStatuses
  <2>2. policy' \in [DOMAIN Policies -> PolicyStatuses]
    BY <1>1, <2>1
  <2>. QED BY <1>1, <2>1, <2>2 DEF TimesOK
<1>7. CASE \E v \in Versions : Draft(v) \/ Activate(v)
  <2>1. PICK v \in Versions, s \in VersionStatuses :
            /\ version' = [version EXCEPT ![v] = s]
            /\ UNCHANGED <<clock, policy, sentAt, cancelled, readyAt>>
    BY <1>7 DEF Draft, Activate, lineVars, VersionStatuses
  <2>2. version' \in [Versions -> VersionStatuses]
    BY <1>1, <2>1
  <2>. QED BY <1>1, <2>1, <2>2 DEF TimesOK
<1>8. CASE Tick
  <2>1. clock' = clock + 1 /\ UNCHANGED <<policy, version, sentAt, cancelled, readyAt>>
    BY <1>8 DEF Tick, lineVars
  <2>2. 0..clock \subseteq 0..clock' /\ clock' \in Nat
    BY <1>1, <2>1
  <2>. QED BY <1>1, <2>1, <2>2 DEF TimesOK
<1>. QED BY <1>2, <1>3, <1>4, <1>5, <1>6, <1>7, <1>8
         DEF SaleNext, CreateRecipe, ActivateRecipe, CreateModifierEffect,
             ActivateModifierEffect, CreateRoute, ActivateRoute, Versions

-----------------------------------------------------------------------------
(* The manual commands.                                                     *)

(* Manual commands and counts keep the invariant.                           *)
LEMMA ManualKeeps ==
    ASSUME LedgerOK, CountOK, LedgerNext
    PROVE  /\ LedgerOK' /\ CountOK'
           /\ \A d \in Holders \ {Manual} : ledger'[d] = ledger[d]
           /\ ShortageIsAuthorised => ShortageIsAuthorised'
<1>. Manual \in Holders
  BY DEF Holders
<1>1. ASSUME NEW entries, AreEntries(entries), NEW override \in BOOLEAN,
             Post(Manual, entries, override), count' = count
      PROVE  /\ LedgerOK' /\ CountOK'
             /\ \A d \in Holders \ {Manual} : ledger'[d] = ledger[d]
             /\ ShortageIsAuthorised => ShortageIsAuthorised'
  <2>1. Record(Manual, entries, override)
    BY <1>1 DEF Post
  <2>2. LedgerOK' /\ \A d \in Holders \ {Manual} : ledger'[d] = ledger[d]
    BY <1>1, <2>1, RecordMoves
  <2>3. ShortageIsAuthorised => ShortageIsAuthorised'
    BY <1>1, PostKeepsShortage
  <2>. QED BY <1>1, <2>2, <2>3 DEF CountOK
<1>2. CASE \E place \in Places, override \in BOOLEAN, delta \in (-MaxQuantity..MaxQuantity) \ {0} :
              PostAdjustment(place, delta, override)
  <2>1. PICK place \in Places, override \in BOOLEAN, delta \in (-MaxQuantity..MaxQuantity) \ {0} :
              PostAdjustment(place, delta, override)
    BY <1>2
  <2>. DEFINE entries == {[line |-> Manual, place |-> place, delta |-> delta]}
  <2>2. AreEntries(entries)
    BY LedgerAssumption DEF AreEntries
  <2>3. Post(Manual, entries, override) /\ count' = count
    BY <2>1 DEF PostAdjustment
  <2>. HIDE DEF entries
  <2>. QED BY <1>1, <2>2, <2>3
<1>3. CASE \E item \in Items, from, to \in Locations, quantity \in 1..MaxQuantity, override \in BOOLEAN :
              PostTransfer(item, from, to, quantity, override)
  <2>1. PICK item \in Items, from \in Locations, to \in Locations,
             quantity \in 1..MaxQuantity, override \in BOOLEAN :
              PostTransfer(item, from, to, quantity, override)
    BY <1>3
  <2>. DEFINE entries == {[line |-> Manual, place |-> <<from, item>>, delta |-> -quantity],
                          [line |-> Manual, place |-> <<to, item>>, delta |-> quantity]}
  <2>2. AreEntries(entries)
    BY LedgerAssumption DEF AreEntries, Places
  <2>3. Post(Manual, entries, override) /\ count' = count
    BY <2>1 DEF PostTransfer
  <2>. HIDE DEF entries
  <2>. QED BY <1>1, <2>2, <2>3
<1>4. CASE \E c \in Counts, place \in Places, counted \in 0..MaxQuantity : CreateCount(c, place, counted)
  <2>1. PICK c \in Counts, place \in Places, counted \in 0..MaxQuantity : CreateCount(c, place, counted)
    BY <1>4
  <2>2. counted \in Nat
    BY LedgerAssumption
  <2>3. /\ count' = [count EXCEPT ![c] = [status |-> "DRAFT", place |-> place, counted |-> counted]]
        /\ UNCHANGED <<ledger, authorised>>
    BY <2>1 DEF CreateCount
  <2>4. CountOK'
    BY <2>2, <2>3 DEF CountOK
  <2>. QED BY <2>3, <2>4 DEF LedgerOK, ShortageIsAuthorised, Balance
<1>5. CASE \E c \in Counts : PostCount(c)
  <2>1. PICK c \in Counts : PostCount(c)
    BY <1>5
  <2>. DEFINE place == count[c].place
              delta == count[c].counted - Balance(place)
              entries == IF delta = 0 THEN {}
                         ELSE {[line |-> Manual, place |-> place, delta |-> delta]}
  <2>2. place \in Places /\ count[c].counted \in Nat
    BY DEF CountOK
  <2>3. /\ Record(Manual, entries, FALSE)
        /\ count' = [count EXCEPT ![c].status = "POSTED"]
    BY <2>1 DEF PostCount
  <2>4. Balance(place) \in Int /\ delta \in Int
    BY <2>2, BalanceIsSum
  <2>5. AreEntries(entries)
    BY <2>2, <2>4 DEF AreEntries
  <2>6. CountOK'
    BY <2>3 DEF CountOK
  <2>7. DeltaAt(entries, place) = delta
    <3>1. CASE delta = 0
      <4>1. \A e \in entries : e.place # place
        BY <3>1
      <4>. HIDE DEF entries
      <4>. QED BY <3>1, <4>1, DeltaNone
    <3>2. CASE delta # 0
      <4>. DEFINE e == [line |-> Manual, place |-> place, delta |-> delta]
      <4>1. e \in entries /\ e.place = place /\ e.delta = delta
        BY <3>2
      <4>2. UniqueKeys(entries)
        BY <2>3 DEF Record
      <4>. HIDE DEF e, entries, delta, place
      <4>. QED BY <2>5, <4>1, <4>2, DeltaOne
    <3>. QED BY <3>1, <3>2
  <2>8. \A p \in Places \ {place} : DeltaAt(entries, p) = 0
    <3>. SUFFICES ASSUME NEW p \in Places \ {place} PROVE DeltaAt(entries, p) = 0
      OBVIOUS
    <3>1. \A e \in entries : e.place # p
      OBVIOUS
    <3>. HIDE DEF entries
    <3>. QED BY <3>1, DeltaNone
  <2>9. /\ LedgerOK'
        /\ \A p \in Places : Balance(p)' = Balance(p) + DeltaAt(entries, p)
        /\ \A d \in Holders \ {Manual} : ledger'[d] = ledger[d]
    <3>. HIDE DEF entries
    <3>. QED BY <2>3, <2>5, RecordMoves
  <2>10. ASSUME ShortageIsAuthorised, NEW p \in Places, Balance(p)' < 0 PROVE authorised'[p]
    <3>1. p # place
      <4>1. Balance(place) + delta = count[c].counted /\ count[c].counted >= 0
        BY <2>2, <2>4
      <4>. HIDE DEF place, delta, entries
      <4>. QED BY <2>2, <2>7, <2>9, <2>10, <4>1
    <3>2. Balance(p) < 0 /\ Balance(p) + DeltaAt(entries, p) < 0
      <4>. HIDE DEF entries, place
      <4>. QED BY <2>8, <2>9, <2>10, <3>1, BalanceIsSum
    <3>3. authorised[p]
      BY <2>10, <3>2 DEF ShortageIsAuthorised
    <3>. HIDE DEF entries
    <3>. QED BY <2>3, <3>2, <3>3 DEF Record
  <2>. QED BY <2>6, <2>9, <2>10 DEF ShortageIsAuthorised
<1>. QED BY <1>2, <1>3, <1>4, <1>5 DEF LedgerNext

-----------------------------------------------------------------------------
(* Batches.                                                                 *)

(* The opposite entries move the opposite way.                              *)
LEMMA DeltaNegated ==
    ASSUME NEW entries, AreEntries(entries), UniqueKeys(entries),
           NEW L, entries \subseteq [line : L, place : Places, delta : Int],
           NEW negated, negated = {[e EXCEPT !.delta = -@] : e \in entries},
           UniqueKeys(negated), NEW p
    PROVE  AreEntries(negated) /\ DeltaAt(negated, p) = -DeltaAt(entries, p)
<1>1. \A e \in entries : /\ [e EXCEPT !.delta = -@].place = e.place
                         /\ [e EXCEPT !.delta = -@].delta = -e.delta
                         /\ e.place \in Places /\ e.delta \in Int /\ -e.delta \in Int
  OBVIOUS
<1>2. AreEntries(negated)
  BY <1>1 DEF AreEntries
<1>3. CASE \A e \in entries : e.place # p
  <2>1. \A e \in negated : e.place # p
    BY <1>1, <1>3
  <2>. QED BY <1>2, <1>3, <2>1, DeltaNone
<1>4. CASE \E e \in entries : e.place = p
  <2>1. PICK e \in entries : e.place = p
    BY <1>4
  <2>. DEFINE n == [e EXCEPT !.delta = -@]
  <2>2. n \in negated /\ n.place = p /\ n.delta = -e.delta
    BY <1>1, <2>1
  <2>. HIDE DEF n
  <2>3. DeltaAt(entries, p) = e.delta
    BY <2>1, DeltaOne
  <2>4. DeltaAt(negated, p) = n.delta
    BY <1>2, <2>2, DeltaOne
  <2>. QED BY <1>2, <2>2, <2>3, <2>4
<1>. QED BY <1>3, <1>4

(* Posting and reversing a batch keep the invariant.                        *)
LEMMA ProductionKeeps ==
    ASSUME LedgerOK, BatchesOK, ProductionNext
    PROVE  /\ LedgerOK' /\ BatchesOK'
           /\ \A d \in Holders \ Batches : ledger'[d] = ledger[d]
           /\ ShortageIsAuthorised => ShortageIsAuthorised'
<1>. Batches \subseteq Holders
  BY BatchRecipe DEF Holders
<1>1. ASSUME NEW b \in Batches, NEW entries \in SUBSET [line : Batches, place : Places, delta : Int],
             NEW override \in BOOLEAN, Post(b, entries, override),
             batch' \in [Batches -> BatchRecords],
             \A c \in Batches \ {b} : batch'[c] = batch[c],
             BatchKept(b)'
      PROVE  /\ LedgerOK' /\ BatchesOK'
             /\ \A d \in Holders \ Batches : ledger'[d] = ledger[d]
             /\ ShortageIsAuthorised => ShortageIsAuthorised'
  <2>1. AreEntries(entries)
    BY DEF AreEntries
  <2>2. Record(b, entries, override)
    BY <1>1 DEF Post
  <2>3. LedgerOK' /\ \A d \in Holders \ {b} : ledger'[d] = ledger[d]
    BY <2>1, <2>2, RecordMoves
  <2>4. ShortageIsAuthorised => ShortageIsAuthorised'
    BY <1>1, <2>1, PostKeepsShortage
  <2>5. ASSUME NEW c \in Batches, c # b PROVE BatchKept(c)'
    <3>1. batch'[c] = batch[c] /\ ledger'[c] = ledger[c]
      BY <1>1, <2>3, <2>5
    <3>. QED BY <3>1 DEF BatchesOK, BatchKept, UniqueKeys
  <2>. QED BY <1>1, <2>3, <2>4, <2>5 DEF BatchesOK
<1>2. ASSUME NEW b \in Batches, NEW override \in BOOLEAN, NEW quantity \in 1..MaxQuantity,
             NEW to \in Locations, NEW from \in [DOMAIN Inputs -> Locations],
             PostBatch(b, quantity, to, from, override)
      PROVE  /\ LedgerOK' /\ BatchesOK'
             /\ \A d \in Holders \ Batches : ledger'[d] = ledger[d]
             /\ ShortageIsAuthorised => ShortageIsAuthorised'
  <2>. DEFINE entries == BatchEntries(b, quantity, to, from)
  <2>1. quantity \in Nat
    BY LedgerAssumption
  <2>2. entries \in SUBSET [line : Batches, place : Places, delta : Int]
    <3>1. \A i \in DOMAIN Inputs : -((Inputs[i] * quantity) \div Yield) \in Int
      <4>1. \A i \in DOMAIN Inputs : Inputs[i] * quantity \in Int
        BY <2>1, BatchRecipe
      <4>2. \A i \in DOMAIN Inputs : (Inputs[i] * quantity) \div Yield \in Int
        BY <4>1, BatchRecipe
      <4>. QED BY <4>2
    <3>2. <<to, Output>> \in Places /\ \A i \in DOMAIN Inputs : <<from[i], i>> \in Places
      BY BatchRecipe DEF Places
    <3>. DEFINE d(i) == -((Inputs[i] * quantity) \div Yield)
                pl(i) == <<from[i], i>>
                o == <<to, Output>>
    <3>3. entries = {[line |-> b, place |-> o, delta |-> quantity]}
                    \cup {[line |-> b, place |-> pl(i), delta |-> d(i)] : i \in DOMAIN Inputs}
      BY DEF BatchEntries
    <3>4. (\A i \in DOMAIN Inputs : d(i) \in Int /\ pl(i) \in Places) /\ o \in Places
      BY <3>1, <3>2
    <3>. HIDE DEF d, pl, o, entries
    <3>. QED BY <2>1, <3>3, <3>4
  <2>3. /\ batch[b].status = "NONE" /\ Post(b, entries, override)
        /\ batch' = [batch EXCEPT ![b] = [status |-> "POSTED", entries |-> entries]]
    BY <1>2 DEF PostBatch
  <2>. HIDE DEF entries
  <2>4. batch' \in [Batches -> BatchRecords]
    BY <2>2, <2>3 DEF BatchesOK, BatchRecords
  <2>5. /\ batch'[b].status = "POSTED" /\ batch'[b].entries = entries
        /\ \A c \in Batches \ {b} : batch'[c] = batch[c]
    BY <2>3 DEF BatchesOK
  <2>6. AreEntries(entries) /\ Record(b, entries, override) /\ UniqueKeys(entries)
    BY <2>2, <2>3 DEF AreEntries, Post, Record
  <2>7. \A p \in Places : ledger'[b][p] = DeltaAt(entries, p)
    <3>1. ledger[b] = Empty
      BY <2>3 DEF BatchesOK, BatchKept
    <3>2. \A p \in Places : ledger'[b][p] = ledger[b][p] + DeltaAt(entries, p)
      BY <2>6, RecordMoves
    <3>3. \A p \in Places : DeltaAt(entries, p) \in Int
      BY <2>6, DeltaType
    <3>. QED BY <3>1, <3>2, <3>3 DEF Empty
  <2>8. BatchKept(b)'
    BY <2>5, <2>6, <2>7 DEF BatchKept, UniqueKeys, DeltaAt
  <2>. QED BY <1>1, <2>2, <2>3, <2>4, <2>5, <2>8
<1>3. ASSUME NEW b \in Batches, NEW override \in BOOLEAN, ReverseBatch(b, override)
      PROVE  /\ LedgerOK' /\ BatchesOK'
             /\ \A d \in Holders \ Batches : ledger'[d] = ledger[d]
             /\ ShortageIsAuthorised => ShortageIsAuthorised'
  <2>. DEFINE entries == batch[b].entries
              negated == {[e EXCEPT !.delta = -@] : e \in entries}
  <2>1. entries \in SUBSET [line : Batches, place : Places, delta : Int]
    BY DEF BatchesOK, BatchRecords
  <2>2. /\ batch[b].status = "POSTED" /\ Post(b, negated, override)
        /\ batch' = [batch EXCEPT ![b].status = "REVERSED"]
    BY <1>3 DEF ReverseBatch
  <2>3. UniqueKeys(entries) /\ \A p \in Places : ledger[b][p] = DeltaAt(entries, p)
    BY <2>2 DEF BatchesOK, BatchKept
  <2>4. /\ batch' \in [Batches -> BatchRecords]
        /\ batch'[b].status = "REVERSED" /\ batch'[b].entries = entries
        /\ \A c \in Batches \ {b} : batch'[c] = batch[c]
    BY <2>2 DEF BatchesOK, BatchRecords
  <2>5. negated \in SUBSET [line : Batches, place : Places, delta : Int]
    BY <2>1
  <2>. HIDE DEF entries
  <2>6. Record(b, negated, override) /\ UniqueKeys(negated) /\ AreEntries(entries)
    BY <2>1, <2>2 DEF Post, Record, AreEntries
  <2>7. AreEntries(negated)
    BY <2>5 DEF AreEntries
  <2>8. ASSUME NEW p \in Places PROVE DeltaAt(negated, p) = -DeltaAt(entries, p)
    BY <2>1, <2>3, <2>6, DeltaNegated
  <2>. HIDE DEF negated
  <2>9. LedgerOK' /\ \A p \in Places : ledger'[b][p] = ledger[b][p] + DeltaAt(negated, p)
    BY <2>6, <2>7, RecordMoves
  <2>10. ledger'[b] = Empty
    <3>1. \A p \in Places : DeltaAt(entries, p) \in Int
      BY <2>3, <2>6, DeltaType
    <3>2. \A p \in Places : ledger'[b][p] = 0
      BY <2>3, <2>8, <2>9, <3>1
    <3>3. ledger'[b] \in [Places -> Int]
      BY <2>9 DEF LedgerOK
    <3>. QED BY <3>2, <3>3 DEF Empty
  <2>11. BatchKept(b)'
    BY <2>3, <2>4, <2>10 DEF BatchKept, UniqueKeys, Empty
  <2>. QED BY <1>1, <2>2, <2>4, <2>5, <2>11
<1>. QED BY <1>2, <1>3 DEF ProductionNext

-----------------------------------------------------------------------------
(* Purchases.                                                               *)

Quantities == [PurchaseLines -> Nat]
Papers == Receipts \cup Returns

PurchaseOK ==
    /\ purchase \in {"DRAFT", "SUBMITTED", "PARTIALLY_RECEIVED", "COMPLETED", "CANCELLED"}
    /\ received \in [Receipts -> [quantity : Quantities, location : [PurchaseLines -> Locations]]]
    /\ returned \in [Returns -> [receipt : Receipts, quantity : Quantities]]

(* What the papers of a purchase have put into stock, all places together.  *)
InStock == SumFunction([p \in Places |-> SumFunction([d \in Papers |-> ledger[d][p]])])

(* PurchaseWithinOrder, part by part.                                       *)
WithinOrder == \A l \in PurchaseLines : ReceivedOf(l) <= OrderLines[l].ordered
WithinReceipt == \A r \in Receipts, l \in PurchaseLines : ReturnedOf(r, l) <= received[r].quantity[l]
CompletedWhenAllIsIn ==
    purchase = "COMPLETED" <=> \A l \in PurchaseLines : ReceivedOf(l) = OrderLines[l].ordered

(* There are finitely many receipts and returns.                            *)
LEMMA PapersFinite ==
    /\ IsFiniteSet(Receipts) /\ IsFiniteSet(Returns) /\ IsFiniteSet(Papers)
    /\ IsFiniteSet(PurchaseLines) /\ IsFiniteSet(Places) /\ IsFiniteSet(Receipts \X PurchaseLines)
    /\ Papers \subseteq Holders
<1>1. Receipts \subseteq Documents /\ Returns \subseteq Documents /\ Papers \subseteq Documents
  BY PurchaseAssumption DEF Papers
<1>2. IsFiniteSet(Receipts) /\ IsFiniteSet(Returns) /\ IsFiniteSet(Papers)
  BY <1>1, LedgerAssumption, FS_Subset
<1>3. IsFiniteSet(PurchaseLines) /\ IsFiniteSet(Places)
  BY PurchaseAssumption, LedgerAssumption DEF PurchaseLines
<1>. QED BY <1>1, <1>2, <1>3, FS_Product DEF Holders

(* Base units are whole numbers.                                            *)
LEMMA BaseWhole ==
    ASSUME NEW l \in PurchaseLines, NEW n \in Nat
    PROVE  Base(l, n) \in Int /\ Base(l, 0) = 0
<1>1. OrderLines[l].numerator \in Nat /\ OrderLines[l].denominator \in Nat \ {0}
  BY PurchaseAssumption DEF PurchaseLines
<1>. DEFINE product == n * OrderLines[l].numerator
            denominator == OrderLines[l].denominator
<1>2. product \in Int /\ 0 * OrderLines[l].numerator = 0
  BY <1>1
<1>. HIDE DEF product
<1>3. product \div denominator \in Int /\ 0 \div denominator = 0
  BY <1>1, <1>2
<1>. QED BY <1>2, <1>3 DEF Base, product

(* A paper puts the sum of its lines into stock.                            *)
LEMMA PaperMoves ==
    ASSUME LedgerOK, NEW document \in Papers, NEW lines \in SUBSET PurchaseLines,
           NEW place, NEW delta, \A l \in lines : place[l] \in Places /\ delta[l] \in Int,
           NEW entries,
           entries = {[line |-> l, place |-> place[l], delta |-> delta[l]] : l \in lines},
           NEW override \in BOOLEAN, Record(document, entries, override)
    PROVE  /\ AreEntries(entries)
           /\ InStock' = InStock + SumFunctionOnSet(delta, lines)
<1>1. AreEntries(entries) /\ UniqueKeys(entries)
  BY DEF AreEntries, Record
<1>2. document \in Holders /\ IsFiniteSet(lines)
  BY PapersFinite, FS_Subset
<1>3. /\ LedgerOK'
      /\ \A p \in Places : ledger'[document][p] = ledger[document][p] + DeltaAt(entries, p)
      /\ \A d \in Holders \ {document} : ledger'[d] = ledger[d]
  BY <1>1, <1>2, RecordMoves
<1>. DEFINE g == [p \in Places |-> DeltaAt(entries, p)]
<1>4. \A p \in Places : g[p] \in Int
  BY <1>1, DeltaType
<1>5. \A l \in lines : g[place[l]] = delta[l]
  <2>. SUFFICES ASSUME NEW l \in lines PROVE DeltaAt(entries, place[l]) = delta[l]
    OBVIOUS
  <2>. DEFINE e == [line |-> l, place |-> place[l], delta |-> delta[l]]
  <2>1. e \in entries /\ e.place = place[l] /\ e.delta = delta[l]
    OBVIOUS
  <2>. HIDE DEF e
  <2>. QED BY <1>1, <2>1, DeltaOne
<1>6. \A k, l \in lines : place[k] = place[l] => k = l
  <2>. SUFFICES ASSUME NEW k \in lines, NEW l \in lines, place[k] = place[l] PROVE k = l
    OBVIOUS
  <2>. DEFINE e(x) == [line |-> x, place |-> place[x], delta |-> delta[x]]
  <2>1. e(k) \in entries /\ e(l) \in entries /\ e(k).place = e(l).place
    OBVIOUS
  <2>2. e(k) = e(l)
    <3>. HIDE DEF e
    <3>. QED BY <1>1, <2>1 DEF UniqueKeys
  <2>3. e(k).line = k /\ e(l).line = l
    OBVIOUS
  <2>. HIDE DEF e
  <2>. QED BY <2>2, <2>3
<1>7. \A p \in Places : (\A l \in lines : place[l] # p) => g[p] = 0
  <2>. SUFFICES ASSUME NEW p \in Places, \A l \in lines : place[l] # p PROVE DeltaAt(entries, p) = 0
    OBVIOUS
  <2>1. \A e \in entries : e.place # p
    OBVIOUS
  <2>. QED BY <2>1, DeltaNone
<1>. HIDE DEF g
<1>8. SumFunctionOnSet(g, Places) = SumFunctionOnSet(delta, lines)
  BY <1>2, <1>5, <1>6, <1>7, PapersFinite, SumRenamed
<1>. DEFINE In(L, p) == [d \in Papers |-> L[d][p]]
            Rows(L) == [p \in Places |-> SumFunction(In(L, p))]
<1>9. ASSUME NEW p \in Places
      PROVE  /\ SumFunction(In(ledger, p)) \in Int
             /\ SumFunction(In(ledger', p)) = SumFunction(In(ledger, p)) + g[p]
  <2>. DEFINE f == In(ledger, p)
              h == In(ledger', p)
  <2>1. \A d \in Papers : f[d] \in Int /\ h[d] \in Int
    BY <1>3, PapersFinite DEF LedgerOK
  <2>2. h[document] - f[document] = g[p] /\ \A d \in Papers \ {document} : h[d] = f[d]
    <3>1. f[document] = ledger[document][p] /\ h[document] = ledger'[document][p]
      OBVIOUS
    <3>2. g[p] = DeltaAt(entries, p)
      BY DEF g
    <3>3. h[document] = f[document] + g[p] /\ f[document] \in Int /\ g[p] \in Int
      BY <1>3, <1>4, <2>1, <3>1, <3>2
    <3>4. \A d \in Papers \ {document} : h[d] = f[d]
      BY <1>3, PapersFinite
    <3>. HIDE DEF f, h
    <3>. QED BY <3>3, <3>4
  <2>3. DOMAIN f = Papers /\ DOMAIN h = Papers
    OBVIOUS
  <2>. HIDE DEF f, h
  <2>4. SumFunctionOnSet(h, Papers) = SumFunctionOnSet(f, Papers) + (h[document] - f[document])
    BY <2>1, <2>2, PapersFinite, SumUpdate
  <2>5. SumFunctionOnSet(f, Papers) \in Int
    BY <2>1, PapersFinite, SumType
  <2>. QED BY <2>2, <2>3, <2>4, <2>5, SumOver DEF f, h
<1>. HIDE DEF In
<1>10. \A p \in Places : /\ Rows(ledger)[p] \in Int /\ g[p] \in Int
                         /\ Rows(ledger')[p] = Rows(ledger)[p] + g[p]
  BY <1>4, <1>9
<1>11. DOMAIN Rows(ledger) = Places /\ DOMAIN Rows(ledger') = Places
  OBVIOUS
<1>12. InStock = SumFunction(Rows(ledger)) /\ InStock' = SumFunction(Rows(ledger'))
  BY DEF InStock, In
<1>. HIDE DEF Rows
<1>13. SumFunctionOnSet(Rows(ledger'), Places)
          = SumFunctionOnSet(Rows(ledger), Places) + SumFunctionOnSet(g, Places)
  BY <1>10, PapersFinite, SumOfSums
<1>. QED BY <1>1, <1>8, <1>11, <1>12, <1>13, SumOver

(* What is in stock stays there when nothing of it moves.                   *)
LEMMA InStockStays ==
    ASSUME \A d \in Papers : ledger'[d] = ledger[d]
    PROVE  InStock' = InStock
<1>1. \A p \in Places : [d \in Papers |-> ledger'[d][p]] = [d \in Papers |-> ledger[d][p]]
  OBVIOUS
<1>. DEFINE f == [p \in Places |-> SumFunction([d \in Papers |-> ledger[d][p]])]
            g == [p \in Places |-> SumFunction([d \in Papers |-> ledger'[d][p]])]
<1>2. f = g
  BY <1>1
<1>3. InStock = SumFunction(f) /\ InStock' = SumFunction(g)
  BY DEF InStock
<1>. HIDE DEF f, g
<1>. QED BY <1>2, <1>3

(* A receipt adds its own quantity to what was received.                    *)
LEMMA ReceivedMoves ==
    ASSUME PurchaseOK, NEW r \in Receipts, ~Posted(r), NEW quantity \in Quantities, NEW location,
           received' = [received EXCEPT ![r] = [quantity |-> quantity, location |-> location]],
           NEW l \in PurchaseLines
    PROVE  ReceivedOf(l) \in Int /\ ReceivedOf(l)' = ReceivedOf(l) + quantity[l]
<1>. DEFINE f == [q \in Receipts |-> received[q].quantity[l]]
            g == [q \in Receipts |-> received'[q].quantity[l]]
<1>1. \A q \in Receipts : received[q].quantity[l] \in Nat
  BY DEF PurchaseOK, Quantities
<1>2. received[r].quantity[l] = 0
  BY <1>1 DEF Posted
<1>3. received'[r].quantity = quantity /\ \A q \in Receipts \ {r} : received'[q] = received[q]
  BY DEF PurchaseOK
<1>4. quantity[l] \in Nat
  BY DEF Quantities
<1>5. /\ \A q \in Receipts : f[q] \in Int
      /\ g[r] \in Int /\ f[r] = 0 /\ g[r] = quantity[l]
      /\ \A q \in Receipts \ {r} : g[q] = f[q]
      /\ DOMAIN f = Receipts /\ DOMAIN g = Receipts
  BY <1>1, <1>2, <1>3, <1>4
<1>6. ReceivedOf(l) = SumFunction(f) /\ ReceivedOf(l)' = SumFunction(g)
  BY DEF ReceivedOf
<1>. HIDE DEF f, g
<1>7. SumFunctionOnSet(g, Receipts) = SumFunctionOnSet(f, Receipts) + (g[r] - f[r])
  BY <1>5, PapersFinite, SumUpdate
<1>8. SumFunctionOnSet(f, Receipts) \in Int
  BY <1>5, PapersFinite, SumType
<1>. QED BY <1>4, <1>5, <1>6, <1>7, <1>8, SumOver

(* What is returned of a receipt, and how it moves.                         *)
LEMMA ReturnedWhole ==
    ASSUME PurchaseOK, NEW q \in Receipts, NEW l \in PurchaseLines
    PROVE  ReturnedOf(q, l) \in Int /\ ReturnedBase(q, l) \in Int
<1>. DEFINE f == [x \in ReturnsOf(q) |-> returned[x].quantity[l]]
            g == [x \in ReturnsOf(q) |-> Base(l, returned[x].quantity[l])]
<1>1. \A y \in Returns : returned[y].quantity[l] \in Nat
  BY DEF PurchaseOK, Quantities
<1>2. ReturnsOf(q) \subseteq Returns /\ IsFiniteSet(ReturnsOf(q))
  <2>1. ReturnsOf(q) \subseteq Returns
    BY DEF ReturnsOf
  <2>. QED BY <2>1, PapersFinite, FS_Subset
<1>3. /\ \A x \in ReturnsOf(q) : f[x] \in Int /\ g[x] \in Int
      /\ DOMAIN f = ReturnsOf(q) /\ DOMAIN g = ReturnsOf(q)
  BY <1>1, <1>2, BaseWhole
<1>4. ReturnedOf(q, l) = SumFunction(f) /\ ReturnedBase(q, l) = SumFunction(g)
  BY DEF ReturnedOf, ReturnedBase
<1>. HIDE DEF f, g
<1>. QED BY <1>2, <1>3, <1>4, SumType, SumOver

(* A return adds its own quantity to what was returned.                     *)
LEMMA ReturnedMoves ==
    ASSUME PurchaseOK, PurchaseOK', NEW x \in Returns, FreshReturn(x), NEW r \in Receipts,
           NEW quantity \in Quantities,
           returned' = [returned EXCEPT ![x] = [receipt |-> r, quantity |-> quantity]],
           NEW q \in Receipts, NEW l \in PurchaseLines
    PROVE  /\ ReturnedOf(q, l) \in Int /\ ReturnedBase(q, l) \in Int
           /\ ReturnedOf(q, l)' = ReturnedOf(q, l) + (IF q = r THEN quantity[l] ELSE 0)
           /\ ReturnedBase(q, l)' = ReturnedBase(q, l) + (IF q = r THEN Base(l, quantity[l]) ELSE 0)
<1>1. \A y \in Returns : returned[y].quantity[l] \in Nat /\ returned'[y].quantity[l] \in Nat
  BY DEF PurchaseOK, Quantities
<1>2. returned[x].quantity[l] = 0
  BY DEF FreshReturn, Nothing
<1>3. /\ returned'[x].quantity = quantity /\ returned'[x].receipt = r
      /\ \A y \in Returns \ {x} : returned'[y] = returned[y]
  BY DEF PurchaseOK
<1>. DEFINE A == ReturnsOf(q)
            B == ReturnsOf(q)'
            v == [y \in Returns |-> returned[y].quantity[l]]
            w == [y \in Returns |-> returned'[y].quantity[l]]
            v2 == [y \in Returns |-> Base(l, returned[y].quantity[l])]
            w2 == [y \in Returns |-> Base(l, returned'[y].quantity[l])]
<1>4. /\ A \in SUBSET Returns /\ B \in SUBSET Returns
      /\ \A y \in Returns \ {x} : y \in A <=> y \in B
      /\ x \in B <=> q = r
  BY <1>3 DEF ReturnsOf
<1>5. \A y \in Returns : v[y] \in Int /\ w[y] \in Int /\ v2[y] \in Int /\ w2[y] \in Int
  BY <1>1, BaseWhole
<1>6. \A y \in Returns \ {x} : w[y] = v[y] /\ w2[y] = v2[y]
  BY <1>3
<1>7. v[x] = 0 /\ v2[x] = 0 /\ w[x] = quantity[l] /\ w2[x] = Base(l, quantity[l])
  BY <1>2, <1>3, BaseWhole
<1>. DEFINE F == [y \in ReturnsOf(q) |-> returned[y].quantity[l]]
            G == [y \in ReturnsOf(q)' |-> returned'[y].quantity[l]]
            F2 == [y \in ReturnsOf(q) |-> Base(l, returned[y].quantity[l])]
            G2 == [y \in ReturnsOf(q)' |-> Base(l, returned'[y].quantity[l])]
<1>8. /\ DOMAIN F = A /\ DOMAIN G = B /\ DOMAIN F2 = A /\ DOMAIN G2 = B
      /\ \A y \in A : F[y] = v[y] /\ F2[y] = v2[y]
      /\ \A y \in B : G[y] = w[y] /\ G2[y] = w2[y]
  BY <1>4
<1>9. /\ ReturnedOf(q, l) = SumFunction(F) /\ ReturnedOf(q, l)' = SumFunction(G)
      /\ ReturnedBase(q, l) = SumFunction(F2) /\ ReturnedBase(q, l)' = SumFunction(G2)
  BY DEF ReturnedOf, ReturnedBase, Base
<1>. HIDE DEF A, B, v, w, v2, w2, F, G, F2, G2
<1>10. SumFunction(G) = SumFunction(F) + (IF x \in B THEN w[x] ELSE 0)
  <2>1. Enters(x, Returns, A, B, v, w, F, G)
    BY <1>4, <1>5, <1>6, <1>7, <1>8, PapersFinite DEF Enters
  <2>. QED BY <2>1, SumEntered
<1>11. SumFunction(G2) = SumFunction(F2) + (IF x \in B THEN w2[x] ELSE 0)
  <2>1. Enters(x, Returns, A, B, v2, w2, F2, G2)
    BY <1>4, <1>5, <1>6, <1>7, <1>8, PapersFinite DEF Enters
  <2>. QED BY <2>1, SumEntered
<1>12. ReturnedOf(q, l) \in Int /\ ReturnedBase(q, l) \in Int
  BY ReturnedWhole
<1>. QED BY <1>4, <1>7, <1>9, <1>10, <1>11, <1>12

(* The value of what is left follows a paper by the sum of its lines.       *)
Follows(N, M, r, lines, delta) ==
    /\ r \in Receipts /\ lines \in SUBSET PurchaseLines
    /\ \A l \in lines : delta[l] \in Int
    /\ \A rl \in Receipts \X PurchaseLines :
          /\ N[rl] \in Int
          /\ M[rl] = N[rl] + (IF rl[1] = r /\ rl[2] \in lines THEN delta[rl[2]] ELSE 0)

(* What receipts and returns come to follows each of them.                  *)
LEMMA NetMoves ==
    ASSUME NEW N, NEW M, NEW r, NEW lines, NEW delta, Follows(N, M, r, lines, delta)
    PROVE  SumFunctionOnSet(M, Receipts \X PurchaseLines)
               = SumFunctionOnSet(N, Receipts \X PurchaseLines) + SumFunctionOnSet(delta, lines)
<1>. /\ r \in Receipts /\ lines \in SUBSET PurchaseLines
     /\ \A l \in lines : delta[l] \in Int
     /\ \A rl \in Receipts \X PurchaseLines :
          /\ N[rl] \in Int
          /\ M[rl] = N[rl] + (IF rl[1] = r /\ rl[2] \in lines THEN delta[rl[2]] ELSE 0)
  BY DEF Follows
<1>. DEFINE T == Receipts \X PurchaseLines
            g == [rl \in T |-> IF rl[1] = r /\ rl[2] \in lines THEN delta[rl[2]] ELSE 0]
            m == [l \in lines |-> <<r, l>>]
<1>1. \A rl \in T : N[rl] \in Int /\ g[rl] \in Int /\ M[rl] = N[rl] + g[rl]
  <2>. SUFFICES ASSUME NEW rl \in T PROVE N[rl] \in Int /\ g[rl] \in Int /\ M[rl] = N[rl] + g[rl]
    OBVIOUS
  <2>1. g[rl] = IF rl[1] = r /\ rl[2] \in lines THEN delta[rl[2]] ELSE 0
    OBVIOUS
  <2>. HIDE DEF g
  <2>. QED BY <2>1
<1>2. \A l \in lines : m[l] \in T /\ m[l] = <<r, l>>
  OBVIOUS
<1>3. \A k, l \in lines : m[k] = m[l] => k = l
  BY <1>2
<1>4. \A l \in lines : g[m[l]] = delta[l]
  OBVIOUS
<1>5. \A rl \in T : (\A l \in lines : m[l] # rl) => g[rl] = 0
  <2>. SUFFICES ASSUME NEW rl \in T, g[rl] # 0 PROVE \E l \in lines : m[l] = rl
    OBVIOUS
  <2>1. rl[1] = r /\ rl[2] \in lines
    OBVIOUS
  <2>2. rl = <<rl[1], rl[2]>>
    OBVIOUS
  <2>. QED BY <2>1, <2>2, <1>2
<1>6. IsFiniteSet(lines) /\ IsFiniteSet(T)
  BY PapersFinite, FS_Subset
<1>. HIDE DEF T, g, m
<1>7. SumFunctionOnSet(g, T) = SumFunctionOnSet(delta, lines)
  BY <1>2, <1>3, <1>4, <1>5, <1>6, SumRenamed
<1>8. SumFunctionOnSet(M, T) = SumFunctionOnSet(N, T) + SumFunctionOnSet(g, T)
  BY <1>1, <1>6, SumOfSums
<1>. QED BY <1>7, <1>8 DEF T

NetRows == [rl \in Receipts \X PurchaseLines |->
                Base(rl[2], received[rl[1]].quantity[rl[2]]) - ReturnedBase(rl[1], rl[2])]

(* The net of the order is a sum over receipts and lines.                   *)
LEMMA NetIsSum ==
    ASSUME PurchaseOK
    PROVE  /\ NetBase = SumFunctionOnSet(NetRows, Receipts \X PurchaseLines)
           /\ \A rl \in Receipts \X PurchaseLines : NetRows[rl] \in Int
<1>1. DOMAIN NetRows = Receipts \X PurchaseLines /\ NetBase = SumFunction(NetRows)
  BY DEF NetRows, NetBase
<1>2. ASSUME NEW rl \in Receipts \X PurchaseLines PROVE NetRows[rl] \in Int
  <2>1. rl[1] \in Receipts /\ rl[2] \in PurchaseLines
    OBVIOUS
  <2>2. received[rl[1]].quantity[rl[2]] \in Nat
    BY <2>1 DEF PurchaseOK, Quantities
  <2>3. Base(rl[2], received[rl[1]].quantity[rl[2]]) \in Int /\ ReturnedBase(rl[1], rl[2]) \in Int
    BY <2>1, <2>2, BaseWhole, ReturnedWhole
  <2>. QED BY <2>3 DEF NetRows
<1>. QED BY <1>1, <1>2, SumOver

(* What was received is a whole number.                                     *)
LEMMA ReceivedWhole ==
    ASSUME PurchaseOK, NEW l \in PurchaseLines
    PROVE  ReceivedOf(l) \in Int
<1>. DEFINE f == [q \in Receipts |-> received[q].quantity[l]]
<1>1. DOMAIN f = Receipts /\ \A q \in Receipts : f[q] \in Int
  BY DEF PurchaseOK, Quantities
<1>2. ReceivedOf(l) = SumFunction(f)
  BY DEF ReceivedOf
<1>. HIDE DEF f
<1>. QED BY <1>1, <1>2, PapersFinite, SumType, SumOver

PurchaseKept ==
    /\ PurchaseOK /\ WithinOrder /\ WithinReceipt /\ CompletedWhenAllIsIn
    /\ InStock = NetBase

(* Posting and reversing a receipt keep the invariant.                      *)
LEMMA ReceiptKeeps ==
    ASSUME LedgerOK, PurchaseKept, NEW r \in Receipts, NEW quantity \in Deliveries,
           NEW location \in [PurchaseLines -> Locations], PostReceipt(r, quantity, location)
    PROVE  /\ LedgerOK' /\ PurchaseKept'
           /\ \A d \in Holders \ Papers : ledger'[d] = ledger[d]
           /\ ShortageIsAuthorised => ShortageIsAuthorised'
<1>. DEFINE lines == {l \in PurchaseLines : quantity[l] > 0}
            place == [l \in lines |-> <<location[l], OrderLines[l].item>>]
            delta == [l \in lines |-> Base(l, quantity[l])]
            entries == {[line |-> l, place |-> place[l], delta |-> delta[l]] : l \in lines}
<1>1. quantity \in Quantities /\ \A l \in PurchaseLines : quantity[l] \in Nat
  BY LedgerAssumption DEF Deliveries, Quantities
<1>2. \A l \in lines : place[l] \in Places /\ delta[l] \in Int
  <2>1. \A l \in lines : <<location[l], OrderLines[l].item>> \in Places
    BY PurchaseAssumption DEF Places, PurchaseLines
  <2>2. \A l \in lines : Base(l, quantity[l]) \in Int
    BY <1>1, BaseWhole
  <2>. QED BY <2>1, <2>2
<1>3. Post(r, entries, FALSE)
  <2>1. entries = {[line |-> l, place |-> <<location[l], OrderLines[l].item>>,
                    delta |-> Base(l, quantity[l])] : l \in lines}
    OBVIOUS
  <2>. HIDE DEF entries
  <2>. QED BY <2>1 DEF PostReceipt
<1>4. /\ purchase \in {"SUBMITTED", "PARTIALLY_RECEIVED"} /\ ~Posted(r)
      /\ \A l \in lines : ReceivedOf(l) + quantity[l] <= OrderLines[l].ordered
      /\ received' = [received EXCEPT ![r] = [quantity |-> quantity, location |-> location]]
      /\ purchase' = IF \A l \in PurchaseLines : ReceivedOf(l) + quantity[l] >= OrderLines[l].ordered
                     THEN "COMPLETED" ELSE "PARTIALLY_RECEIVED"
      /\ returned' = returned
  BY DEF PostReceipt, FreshReceipt
<1>5. r \in Papers /\ r \in Holders /\ lines \in SUBSET PurchaseLines
  BY PapersFinite DEF Papers
<1>6. Record(r, entries, FALSE)
  BY <1>3 DEF Post
<1>. HIDE DEF entries
<1>7. AreEntries(entries) /\ InStock' = InStock + SumFunctionOnSet(delta, lines)
  <2>. HIDE DEF lines, place, delta
  <2>. QED BY <1>2, <1>5, <1>6, PaperMoves DEF entries
<1>8. LedgerOK' /\ \A d \in Holders \ {r} : ledger'[d] = ledger[d]
  BY <1>5, <1>6, <1>7, RecordMoves
<1>9. ShortageIsAuthorised => ShortageIsAuthorised'
  BY <1>3, <1>5, <1>7, PostKeepsShortage
<1>10. PurchaseOK'
  <2>1. received' \in [Receipts -> [quantity : Quantities, location : [PurchaseLines -> Locations]]]
    BY <1>1, <1>4 DEF PurchaseKept, PurchaseOK
  <2>. QED BY <1>4, <2>1 DEF PurchaseKept, PurchaseOK
<1>11. \A l \in PurchaseLines : /\ ReceivedOf(l) \in Int /\ quantity[l] \in Nat
                                /\ ReceivedOf(l)' = ReceivedOf(l) + quantity[l]
  BY <1>1, <1>4, ReceivedMoves DEF PurchaseKept
<1>12. \A l \in PurchaseLines : OrderLines[l].ordered \in Nat
  BY PurchaseAssumption DEF PurchaseLines
<1>13. WithinOrder'
  <2>. SUFFICES ASSUME NEW l \in PurchaseLines PROVE ReceivedOf(l)' <= OrderLines[l].ordered
    BY DEF WithinOrder
  <2>1. CASE l \in lines
    BY <1>4, <1>11, <2>1
  <2>2. CASE l \notin lines
    <3>1. quantity[l] = 0
      BY <1>1, <2>2
    <3>2. ReceivedOf(l) <= OrderLines[l].ordered
      BY DEF PurchaseKept, WithinOrder
    <3>. HIDE DEF lines
    <3>. QED BY <1>11, <1>12, <3>1, <3>2
  <2>. QED BY <2>1, <2>2
<1>14. CompletedWhenAllIsIn'
  <2>1. \A l \in PurchaseLines :
            ReceivedOf(l) + quantity[l] >= OrderLines[l].ordered <=> ReceivedOf(l)' = OrderLines[l].ordered
    <3>. SUFFICES ASSUME NEW l \in PurchaseLines
                  PROVE  ReceivedOf(l) + quantity[l] >= OrderLines[l].ordered
                            <=> ReceivedOf(l)' = OrderLines[l].ordered
      OBVIOUS
    <3>1. ReceivedOf(l)' <= OrderLines[l].ordered
      BY <1>13 DEF WithinOrder
    <3>. QED BY <1>11, <1>12, <3>1
  <2>2. purchase' = "COMPLETED" <=> \A l \in PurchaseLines : ReceivedOf(l) + quantity[l] >= OrderLines[l].ordered
    BY <1>4
  <2>. QED BY <2>1, <2>2 DEF CompletedWhenAllIsIn
<1>15. received'[r].quantity = quantity /\ \A q \in Receipts \ {r} : received'[q] = received[q]
  BY <1>4 DEF PurchaseKept, PurchaseOK
<1>16. \A l \in PurchaseLines : received[r].quantity[l] = 0
  <2>1. \A l \in PurchaseLines : received[r].quantity[l] \in Nat
    BY DEF PurchaseKept, PurchaseOK, Quantities
  <2>. QED BY <1>4, <2>1 DEF Posted
<1>17. WithinReceipt'
  <2>. SUFFICES ASSUME NEW q \in Receipts, NEW l \in PurchaseLines
                PROVE  ReturnedOf(q, l)' <= received'[q].quantity[l]
    BY DEF WithinReceipt
  <2>1. ReturnedOf(q, l)' = ReturnedOf(q, l)
    BY <1>4 DEF ReturnedOf, ReturnsOf
  <2>2. ReturnedOf(q, l) <= received[q].quantity[l] /\ ReturnedOf(q, l) \in Int
    BY ReturnedWhole DEF PurchaseKept, WithinReceipt
  <2>3. CASE q = r
    BY <1>11, <1>15, <1>16, <2>1, <2>2, <2>3
  <2>4. CASE q # r
    BY <1>15, <2>1, <2>2, <2>4
  <2>. QED BY <2>3, <2>4
<1>18. NetBase' = NetBase + SumFunctionOnSet(delta, lines)
  <2>1. /\ NetBase = SumFunctionOnSet(NetRows, Receipts \X PurchaseLines)
        /\ \A rl \in Receipts \X PurchaseLines : NetRows[rl] \in Int
    BY NetIsSum DEF PurchaseKept
  <2>2. NetBase' = SumFunctionOnSet(NetRows', Receipts \X PurchaseLines)
    <3>1. DOMAIN NetRows' = Receipts \X PurchaseLines
      BY DEF NetRows
    <3>2. NetBase' = SumFunction(NetRows')
      BY DEF NetRows, NetBase
    <3>. QED BY <3>1, <3>2, SumOver
  <2>3. ASSUME NEW rl \in Receipts \X PurchaseLines
        PROVE  NetRows'[rl] = NetRows[rl] + (IF rl[1] = r /\ rl[2] \in lines THEN delta[rl[2]] ELSE 0)
    <3>. DEFINE q == rl[1]
                l == rl[2]
    <3>1. q \in Receipts /\ l \in PurchaseLines
      OBVIOUS
    <3>2. /\ NetRows[rl] = Base(l, received[q].quantity[l]) - ReturnedBase(q, l)
          /\ NetRows'[rl] = Base(l, received'[q].quantity[l]) - ReturnedBase(q, l)
      BY <1>4 DEF NetRows, ReturnedBase, ReturnsOf, Base
    <3>3. ReturnedBase(q, l) \in Int
      BY <3>1, ReturnedWhole DEF PurchaseKept
    <3>4. CASE q # r
      <4>1. NetRows'[rl] = NetRows[rl] /\ NetRows[rl] \in Int
        BY <1>15, <2>1, <3>1, <3>2, <3>4
      <4>. QED BY <3>4, <4>1
    <3>5. CASE q = r
      <4>1. received[q].quantity[l] = 0 /\ received'[q].quantity[l] = quantity[l]
        BY <1>15, <1>16, <3>1, <3>5
      <4>2. Base(l, 0) = 0 /\ Base(l, quantity[l]) \in Int
        BY <1>1, <3>1, BaseWhole
      <4>3. NetRows'[rl] = NetRows[rl] + Base(l, quantity[l])
        <5>. HIDE DEF q, l
        <5>. QED BY <3>2, <3>3, <4>1, <4>2
      <4>4. CASE l \in lines
        BY <3>5, <4>3, <4>4
      <4>5. CASE l \notin lines
        <5>1. quantity[l] = 0
          BY <1>1, <3>1, <4>5
        <5>2. NetRows'[rl] = NetRows[rl]
          BY <2>1, <4>2, <4>3, <5>1
        <5>. QED BY <2>1, <4>5, <5>2
      <4>. QED BY <4>4, <4>5
    <3>. QED BY <3>4, <3>5
  <2>. HIDE DEF lines, delta
  <2>4. Follows(NetRows, NetRows', r, lines, delta)
    BY <1>2, <1>5, <2>1, <2>3 DEF Follows
  <2>5. SumFunctionOnSet(NetRows', Receipts \X PurchaseLines)
            = SumFunctionOnSet(NetRows, Receipts \X PurchaseLines) + SumFunctionOnSet(delta, lines)
    BY <2>4, NetMoves
  <2>. QED BY <2>1, <2>2, <2>5
<1>19. PurchaseKept'
  BY <1>7, <1>10, <1>13, <1>14, <1>17, <1>18 DEF PurchaseKept
<1>. QED BY <1>5, <1>8, <1>9, <1>19

(* Posting and reversing a return keep the invariant.                       *)
LEMMA ReturnKeeps ==
    ASSUME LedgerOK, PurchaseKept, NEW x \in Returns, NEW r \in Receipts,
           NEW quantity \in Deliveries, NEW override \in BOOLEAN,
           PostReturn(x, r, quantity, override)
    PROVE  /\ LedgerOK' /\ PurchaseKept'
           /\ \A d \in Holders \ Papers : ledger'[d] = ledger[d]
           /\ ShortageIsAuthorised => ShortageIsAuthorised'
<1>. DEFINE lines == {l \in PurchaseLines : quantity[l] > 0}
            place == [l \in lines |-> PlaceOf(r, l)]
            delta == [l \in lines |-> -Base(l, quantity[l])]
            entries == {[line |-> l, place |-> place[l], delta |-> delta[l]] : l \in lines}
<1>1. quantity \in Quantities /\ \A l \in PurchaseLines : quantity[l] \in Nat
  BY LedgerAssumption DEF Deliveries, Quantities
<1>2. \A l \in lines : place[l] \in Places /\ delta[l] \in Int
  <2>1. \A l \in lines : PlaceOf(r, l) \in Places
    BY PurchaseAssumption DEF PlaceOf, Places, PurchaseLines, PurchaseKept, PurchaseOK
  <2>2. \A l \in lines : -Base(l, quantity[l]) \in Int
    <3>1. \A l \in lines : Base(l, quantity[l]) \in Int
      BY <1>1, BaseWhole
    <3>. QED BY <3>1
  <2>. QED BY <2>1, <2>2
<1>3. Post(x, entries, override)
  <2>1. entries = {[line |-> l, place |-> PlaceOf(r, l), delta |-> -Base(l, quantity[l])] : l \in lines}
    OBVIOUS
  <2>. HIDE DEF entries
  <2>. QED BY <2>1 DEF PostReturn
<1>4. /\ FreshReturn(x)
      /\ \A l \in lines : ReturnedOf(r, l) + quantity[l] <= received[r].quantity[l]
      /\ returned' = [returned EXCEPT ![x] = [receipt |-> r, quantity |-> quantity]]
      /\ purchase' = purchase /\ received' = received
  BY DEF PostReturn
<1>5. x \in Papers /\ x \in Holders /\ lines \in SUBSET PurchaseLines
  BY PapersFinite DEF Papers
<1>6. Record(x, entries, override)
  BY <1>3 DEF Post
<1>. HIDE DEF entries
<1>7. AreEntries(entries) /\ InStock' = InStock + SumFunctionOnSet(delta, lines)
  <2>. HIDE DEF lines, place, delta
  <2>. QED BY <1>2, <1>5, <1>6, PaperMoves DEF entries
<1>8. LedgerOK' /\ \A d \in Holders \ {x} : ledger'[d] = ledger[d]
  BY <1>5, <1>6, <1>7, RecordMoves
<1>9. ShortageIsAuthorised => ShortageIsAuthorised'
  BY <1>3, <1>5, <1>7, PostKeepsShortage
<1>10. PurchaseOK'
  <2>1. returned' \in [Returns -> [receipt : Receipts, quantity : Quantities]]
    BY <1>1, <1>4 DEF PurchaseKept, PurchaseOK
  <2>. QED BY <1>4, <2>1 DEF PurchaseKept, PurchaseOK
<1>11. \A l \in PurchaseLines : ReceivedOf(l)' = ReceivedOf(l)
  BY <1>4 DEF ReceivedOf
<1>12. WithinOrder' /\ CompletedWhenAllIsIn'
  BY <1>4, <1>11 DEF PurchaseKept, WithinOrder, CompletedWhenAllIsIn
<1>13. \A q \in Receipts, l \in PurchaseLines :
          /\ ReturnedOf(q, l) \in Int /\ ReturnedBase(q, l) \in Int
          /\ ReturnedOf(q, l)' = ReturnedOf(q, l) + (IF q = r THEN quantity[l] ELSE 0)
          /\ ReturnedBase(q, l)' = ReturnedBase(q, l) + (IF q = r THEN Base(l, quantity[l]) ELSE 0)
  BY <1>1, <1>4, <1>10, ReturnedMoves DEF PurchaseKept
<1>14. WithinReceipt'
  <2>. SUFFICES ASSUME NEW q \in Receipts, NEW l \in PurchaseLines
                PROVE  ReturnedOf(q, l)' <= received[q].quantity[l]
    BY <1>4 DEF WithinReceipt
  <2>1. /\ ReturnedOf(q, l)' = ReturnedOf(q, l) + (IF q = r THEN quantity[l] ELSE 0)
        /\ ReturnedOf(q, l) \in Int /\ ReturnedOf(q, l) <= received[q].quantity[l]
    BY <1>13 DEF PurchaseKept, WithinReceipt
  <2>2. received[q].quantity[l] \in Nat /\ quantity[l] \in Nat
    BY <1>1 DEF PurchaseKept, PurchaseOK, Quantities
  <2>3. CASE q = r /\ l \in lines
    BY <1>4, <2>1, <2>2, <2>3
  <2>4. CASE q = r /\ l \notin lines
    <3>1. quantity[l] = 0
      BY <2>2, <2>4
    <3>. QED BY <2>1, <2>2, <3>1
  <2>5. CASE q # r
    BY <2>1, <2>2, <2>5
  <2>. QED BY <2>3, <2>4, <2>5
<1>15. NetBase' = NetBase + SumFunctionOnSet(delta, lines)
  <2>1. /\ NetBase = SumFunctionOnSet(NetRows, Receipts \X PurchaseLines)
        /\ \A rl \in Receipts \X PurchaseLines : NetRows[rl] \in Int
    BY NetIsSum DEF PurchaseKept
  <2>2. NetBase' = SumFunctionOnSet(NetRows', Receipts \X PurchaseLines)
    <3>1. DOMAIN NetRows' = Receipts \X PurchaseLines
      BY DEF NetRows
    <3>2. NetBase' = SumFunction(NetRows')
      BY DEF NetRows, NetBase
    <3>. QED BY <3>1, <3>2, SumOver
  <2>3. ASSUME NEW rl \in Receipts \X PurchaseLines
        PROVE  NetRows'[rl] = NetRows[rl] + (IF rl[1] = r /\ rl[2] \in lines THEN delta[rl[2]] ELSE 0)
    <3>. DEFINE q == rl[1]
                l == rl[2]
                base == Base(l, received[q].quantity[l])
                extra == Base(l, quantity[l])
    <3>1. q \in Receipts /\ l \in PurchaseLines
      OBVIOUS
    <3>2. /\ NetRows[rl] = base - ReturnedBase(q, l)
          /\ NetRows'[rl] = base - ReturnedBase(q, l)'
      BY <1>4 DEF NetRows, Base
    <3>3. base \in Int /\ extra \in Int
      <4>1. received[q].quantity[l] \in Nat
        BY <3>1 DEF PurchaseKept, PurchaseOK, Quantities
      <4>. HIDE DEF q, l
      <4>. QED BY <1>1, <3>1, <4>1, BaseWhole
    <3>4. /\ ReturnedBase(q, l) \in Int
          /\ ReturnedBase(q, l)' = ReturnedBase(q, l) + (IF q = r THEN extra ELSE 0)
      BY <1>13, <3>1
    <3>5. l \notin lines => extra = 0
      <4>1. l \notin lines => quantity[l] = 0
        BY <1>1, <3>1
      <4>. HIDE DEF lines, l
      <4>. QED BY <3>1, <4>1, BaseWhole
    <3>6. l \in lines => delta[l] = -extra
      OBVIOUS
    <3>7. (IF rl[1] = r /\ rl[2] \in lines THEN delta[rl[2]] ELSE 0)
              = IF q = r /\ l \in lines THEN -extra ELSE 0
      BY <3>6
    <3>. HIDE DEF q, l, base, extra, lines, delta
    <3>8. NetRows'[rl] = NetRows[rl] + (IF q = r /\ l \in lines THEN -extra ELSE 0)
      BY <3>2, <3>3, <3>4, <3>5
    <3>. QED BY <3>7, <3>8
  <2>. HIDE DEF lines, delta
  <2>4. Follows(NetRows, NetRows', r, lines, delta)
    BY <1>2, <1>5, <2>1, <2>3 DEF Follows
  <2>5. SumFunctionOnSet(NetRows', Receipts \X PurchaseLines)
            = SumFunctionOnSet(NetRows, Receipts \X PurchaseLines) + SumFunctionOnSet(delta, lines)
    BY <2>4, NetMoves
  <2>. QED BY <2>1, <2>2, <2>5
<1>16. PurchaseKept'
  BY <1>7, <1>10, <1>12, <1>14, <1>15 DEF PurchaseKept
<1>. QED BY <1>5, <1>8, <1>9, <1>16

(* Every step of purchasing keeps the invariant.                            *)
LEMMA PurchaseKeeps ==
    ASSUME LedgerOK, PurchaseKept, PurchaseNext
    PROVE  /\ LedgerOK' /\ PurchaseKept'
           /\ \A d \in Holders \ Papers : ledger'[d] = ledger[d]
           /\ ShortageIsAuthorised => ShortageIsAuthorised'
<1>1. CASE Submit \/ CancelPurchase
  <2>1. /\ UNCHANGED <<received, returned, ledger, authorised>>
        /\ purchase # "COMPLETED" /\ purchase' \in {"SUBMITTED", "CANCELLED"}
    BY <1>1 DEF Submit, CancelPurchase, ledgerVars
  <2>2. InStock' = InStock
    BY <2>1, InStockStays
  <2>3. PurchaseOK' /\ WithinOrder' /\ WithinReceipt' /\ CompletedWhenAllIsIn' /\ NetBase' = NetBase
    BY <2>1 DEF PurchaseKept, PurchaseOK, WithinOrder, WithinReceipt, CompletedWhenAllIsIn, NetBase,
                ReceivedOf, ReturnedOf, ReturnedBase, ReturnsOf, Base
  <2>. QED BY <2>1, <2>2, <2>3 DEF LedgerOK, PurchaseKept, ShortageIsAuthorised, Balance
<1>2. CASE \E r \in Receipts, quantity \in Deliveries, location \in [PurchaseLines -> Locations] :
                PostReceipt(r, quantity, location)
  BY <1>2, ReceiptKeeps
<1>3. CASE \E r \in Receipts, quantity \in Deliveries, x \in Returns, override \in BOOLEAN :
                PostReturn(x, r, quantity, override)
  BY <1>3, ReturnKeeps
<1>. QED BY <1>1, <1>2, <1>3 DEF PurchaseNext

-----------------------------------------------------------------------------
(* The whole stock room.                                                    *)

StockInv ==
    /\ LedgerOK /\ CountOK /\ TimesOK /\ LinesOK /\ BatchesOK
    /\ PurchaseKept /\ ShortageIsAuthorised

(* It holds of purchasing at first.                                         *)
LEMMA InitPurchase ==
    ASSUME LedgerOK, \A d \in Papers : ledger[d] = Empty, PurchaseInit
    PROVE  PurchaseKept
<1>1. /\ purchase = "DRAFT"
      /\ \A r \in Receipts : received[r].quantity = Nothing
      /\ \A x \in Returns : returned[x].quantity = Nothing
  BY DEF PurchaseInit
<1>2. PurchaseOK
  <2>1. Receipts # {} /\ PurchaseLines # {}
    BY PurchaseAssumption DEF PurchaseLines
  <2>2. Locations # {}
    BY LedgerAssumption DEF Places
  <2>3. Nothing \in Quantities
    BY DEF Nothing, Quantities
  <2>4. (CHOOSE r \in Receipts : TRUE) \in Receipts /\ (CHOOSE k \in Locations : TRUE) \in Locations
    BY <2>1, <2>2
  <2>. QED BY <1>1, <2>3, <2>4 DEF PurchaseInit, PurchaseOK
<1>3. ASSUME NEW l \in PurchaseLines PROVE ReceivedOf(l) = 0
  <2>. DEFINE f == [r \in Receipts |-> received[r].quantity[l]]
  <2>1. DOMAIN f = Receipts /\ \A r \in Receipts : f[r] = 0
    BY <1>1 DEF Nothing
  <2>2. ReceivedOf(l) = SumFunction(f)
    BY DEF ReceivedOf
  <2>. HIDE DEF f
  <2>. QED BY <2>1, <2>2, PapersFinite, SumZero, SumOver
<1>4. ASSUME NEW r \in Receipts, NEW l \in PurchaseLines
      PROVE  ReturnedOf(r, l) = 0 /\ ReturnedBase(r, l) = 0
  <2>. DEFINE f == [x \in ReturnsOf(r) |-> returned[x].quantity[l]]
              g == [x \in ReturnsOf(r) |-> Base(l, returned[x].quantity[l])]
  <2>1. ReturnsOf(r) \subseteq Returns
    BY DEF ReturnsOf
  <2>2. Base(l, 0) = 0
    BY BaseWhole
  <2>3. /\ DOMAIN f = ReturnsOf(r) /\ \A x \in ReturnsOf(r) : f[x] = 0
        /\ DOMAIN g = ReturnsOf(r) /\ \A x \in ReturnsOf(r) : g[x] = 0
    BY <1>1, <2>1, <2>2 DEF Nothing
  <2>4. ReturnedOf(r, l) = SumFunction(f) /\ ReturnedBase(r, l) = SumFunction(g)
    BY DEF ReturnedOf, ReturnedBase
  <2>5. IsFiniteSet(ReturnsOf(r))
    BY <2>1, PapersFinite, FS_Subset
  <2>. HIDE DEF f, g
  <2>. QED BY <2>3, <2>4, <2>5, SumZero, SumOver
<1>5. WithinOrder /\ CompletedWhenAllIsIn
  <2>1. \A l \in PurchaseLines : OrderLines[l].ordered \in Nat \ {0}
    BY PurchaseAssumption DEF PurchaseLines
  <2>2. PurchaseLines # {}
    BY PurchaseAssumption DEF PurchaseLines
  <2>. QED BY <1>1, <1>3, <2>1, <2>2 DEF WithinOrder, CompletedWhenAllIsIn
<1>6. WithinReceipt
  BY <1>1, <1>4 DEF WithinReceipt, Nothing
<1>7. NetBase = 0
  <2>1. \A rl \in Receipts \X PurchaseLines : NetRows[rl] = 0
    <3>. SUFFICES ASSUME NEW rl \in Receipts \X PurchaseLines PROVE NetRows[rl] = 0
      OBVIOUS
    <3>1. rl[1] \in Receipts /\ rl[2] \in PurchaseLines
      OBVIOUS
    <3>2. NetRows[rl] = Base(rl[2], received[rl[1]].quantity[rl[2]]) - ReturnedBase(rl[1], rl[2])
      BY DEF NetRows
    <3>3. received[rl[1]].quantity[rl[2]] = 0 /\ ReturnedBase(rl[1], rl[2]) = 0 /\ Base(rl[2], 0) = 0
      BY <1>1, <1>4, <3>1, BaseWhole DEF Nothing
    <3>. QED BY <3>2, <3>3
  <2>. QED BY <1>2, <2>1, NetIsSum, PapersFinite, SumZero
<1>8. InStock = 0
  <2>. DEFINE f(p) == [d \in Papers |-> ledger[d][p]]
              g == [p \in Places |-> SumFunction(f(p))]
  <2>1. ASSUME NEW p \in Places PROVE g[p] = 0
    <3>1. DOMAIN f(p) = Papers /\ \A d \in Papers : f(p)[d] = 0
      BY DEF Empty
    <3>2. g[p] = SumFunction(f(p))
      OBVIOUS
    <3>. HIDE DEF f, g
    <3>. QED BY <3>1, <3>2, PapersFinite, SumZero, SumOver
  <2>2. DOMAIN g = Places /\ InStock = SumFunction(g)
    BY DEF InStock
  <2>. HIDE DEF g
  <2>. QED BY <2>1, <2>2, PapersFinite, SumZero, SumOver
<1>. QED BY <1>2, <1>5, <1>6, <1>7, <1>8 DEF PurchaseKept

(* The invariant holds at first.                                            *)
LEMMA InitStock == Init => StockInv
<1>. SUFFICES ASSUME Init PROVE StockInv
  OBVIOUS
<1>1. ledger = [d \in Holders |-> IF d = Manual THEN Opening ELSE Empty]
  BY DEF Init, LedgerInit, Holders
<1>2. LedgerOK
  <2>1. Opening \in [Places -> Int] /\ Empty \in [Places -> Int]
    BY LedgerAssumption DEF Empty
  <2>. QED BY <1>1, <2>1 DEF Init, LedgerInit, LedgerOK
<1>3. CountOK
  <2>1. NoCount \in [status : {"NONE", "DRAFT", "POSTED"}, place : Places, counted : Nat]
    BY LedgerAssumption DEF NoCount
  <2>. QED BY <2>1 DEF Init, LedgerInit, CountOK
<1>4. TimesOK
  <2>1. clock = 0 /\ policy \in [DOMAIN Policies -> PolicyStatuses] /\ version \in [Versions -> VersionStatuses]
    BY ConsumptionAssumption DEF Init, SaleInit
  <2>. QED BY <2>1 DEF Init, SaleInit, TimesOK
<1>5. \A d \in Documents : ledger[d] = Empty
  BY <1>1, LedgerAssumption DEF Holders
<1>6. LinesOK
  <2>1. consumption = [l \in Lines |-> NoConsumption] /\ cancelled = {}
    BY DEF Init, SaleInit
  <2>2. NoConsumption \in ConsumptionRecords /\ NoConsumption.status = "NONE"
    BY DEF NoConsumption, ConsumptionRecords, Empty
  <2>. QED BY <1>5, <2>1, <2>2, ConsumptionAssumption DEF LinesOK, LineKept, CancelledIsPutBack
<1>7. BatchesOK
  <2>1. batch = [b \in Batches |-> NoBatch]
    BY DEF Init, ProductionInit
  <2>2. NoBatch \in BatchRecords /\ NoBatch.status = "NONE" /\ NoBatch.entries = {}
    BY DEF NoBatch, BatchRecords
  <2>. QED BY <1>5, <2>1, <2>2, BatchRecipe DEF BatchesOK, BatchKept, UniqueKeys
<1>8. PurchaseKept
  <2>1. \A d \in Papers : ledger[d] = Empty
    BY <1>5, PurchaseAssumption DEF Papers
  <2>. QED BY <1>2, <2>1, InitPurchase DEF Init
<1>9. ShortageIsAuthorised
  <2>. SUFFICES ASSUME NEW p \in Places PROVE Balance(p) >= 0
    <3>1. \A p \in Places : Balance(p) >= 0 => ~(Balance(p) < 0)
      BY <1>2, BalanceIsSum
    <3>. QED BY <3>1 DEF ShortageIsAuthorised
  <2>. DEFINE f == Column(ledger, p)
              S == {Manual}
  <2>1. f[Manual] \in Nat /\ \A d \in Holders \ S : f[d] = 0
    BY <1>1, LedgerAssumption DEF Column, Holders, Empty
  <2>2. S \subseteq Holders
    BY DEF Holders
  <2>. HIDE DEF f
  <2>3. SumFunctionOnSet(f, Holders) = SumFunctionOnSet(f, S)
    <3>1. \A d \in S : f[d] \in Int
      BY <2>1
    <3>. HIDE DEF S
    <3>. QED BY <2>1, <2>2, <3>1, HoldersFinite, SumExtended
  <2>4. SumFunctionOnSet(f, S) = f[Manual]
    BY <2>1, SumSingle
  <2>. QED BY <1>2, <2>1, <2>3, <2>4, BalanceIsSum DEF f
<1>. QED BY <1>2, <1>3, <1>4, <1>6, <1>7, <1>8, <1>9 DEF StockInv

(* No part touches the documents of another.                                *)
LEMMA OthersStay ==
    ASSUME NEW D \in SUBSET Holders, \A d \in Holders \ D : ledger'[d] = ledger[d]
    PROVE  /\ D \cap Lines = {} /\ UNCHANGED <<consumption, cancelled>> /\ LinesOK => LinesOK'
           /\ D \cap Batches = {} /\ UNCHANGED batch /\ BatchesOK => BatchesOK'
           /\ D \cap Papers = {} /\ UNCHANGED purchaseVars /\ PurchaseKept => PurchaseKept'
<1>1. Lines \subseteq Holders /\ Batches \subseteq Holders /\ Papers \subseteq Holders
  BY ConsumptionAssumption, BatchRecipe, PapersFinite DEF Holders
<1>2. D \cap Lines = {} /\ UNCHANGED <<consumption, cancelled>> /\ LinesOK => LinesOK'
  <2>. SUFFICES ASSUME D \cap Lines = {}, UNCHANGED <<consumption, cancelled>>, LinesOK PROVE LinesOK'
    OBVIOUS
  <2>1. \A l \in Lines : ledger'[l] = ledger[l]
    BY <1>1
  <2>. QED BY <2>1 DEF LinesOK, LineKept, CancelledIsPutBack
<1>3. D \cap Batches = {} /\ UNCHANGED batch /\ BatchesOK => BatchesOK'
  <2>. SUFFICES ASSUME D \cap Batches = {}, UNCHANGED batch, BatchesOK PROVE BatchesOK'
    OBVIOUS
  <2>1. \A b \in Batches : ledger'[b] = ledger[b]
    BY <1>1
  <2>. QED BY <2>1 DEF BatchesOK, BatchKept, UniqueKeys
<1>4. D \cap Papers = {} /\ UNCHANGED purchaseVars /\ PurchaseKept => PurchaseKept'
  <2>. SUFFICES ASSUME D \cap Papers = {}, UNCHANGED purchaseVars, PurchaseKept PROVE PurchaseKept'
    OBVIOUS
  <2>1. \A d \in Papers : ledger'[d] = ledger[d]
    BY <1>1
  <2>2. InStock' = InStock
    BY <2>1, InStockStays
  <2>3. PurchaseOK' /\ WithinOrder' /\ WithinReceipt' /\ CompletedWhenAllIsIn' /\ NetBase' = NetBase
    BY DEF PurchaseKept, PurchaseOK, WithinOrder, WithinReceipt, CompletedWhenAllIsIn, NetBase,
           ReceivedOf, ReturnedOf, ReturnedBase, ReturnsOf, Base, purchaseVars
  <2>. QED BY <2>2, <2>3 DEF PurchaseKept
<1>. QED BY <1>2, <1>3, <1>4

(* Every step keeps it.                                                     *)
LEMMA StockStep == StockInv /\ [Next]_vars => StockInv'
<1>. SUFFICES ASSUME StockInv, [Next]_vars PROVE StockInv'
  OBVIOUS
<1>. LedgerOK /\ CountOK /\ TimesOK /\ LinesOK /\ BatchesOK /\ PurchaseKept /\ ShortageIsAuthorised
  BY DEF StockInv
<1>1. /\ Lines \subseteq Holders /\ Batches \subseteq Holders /\ Papers \subseteq Holders
      /\ {Manual} \subseteq Holders
      /\ {Manual} \cap Lines = {} /\ {Manual} \cap Batches = {} /\ {Manual} \cap Papers = {}
      /\ Lines \cap Batches = {} /\ Lines \cap Papers = {} /\ Batches \cap Papers = {}
  BY LedgerAssumption, ConsumptionAssumption, BatchRecipe, PurchaseAssumption, DocumentsDiffer
     DEF Holders, Papers
<1>2. CASE LedgerNext /\ UNCHANGED <<saleVars, purchaseVars, batch>>
  <2>1. /\ LedgerOK' /\ CountOK' /\ ShortageIsAuthorised'
        /\ \A d \in Holders \ {Manual} : ledger'[d] = ledger[d]
    BY <1>2, ManualKeeps
  <2>2. UNCHANGED <<consumption, cancelled, batch, purchaseVars>> /\ TimesOK'
    BY <1>2 DEF saleVars, lineVars, configVars, TimesOK
  <2>3. LinesOK' /\ BatchesOK' /\ PurchaseKept'
    BY <1>1, <2>1, <2>2, OthersStay
  <2>. QED BY <2>1, <2>2, <2>3 DEF StockInv
<1>3. CASE SaleNext /\ UNCHANGED <<purchaseVars, batch>>
  <2>1. /\ LedgerOK' /\ LinesOK' /\ ShortageIsAuthorised'
        /\ \A d \in Holders \ Lines : ledger'[d] = ledger[d]
    BY <1>3, SaleMovesSo, SaleKeepsLines
  <2>2. TimesOK'
    BY <1>3, SaleKeepsTimes
  <2>3. CountOK'
    BY <1>3 DEF SaleNext, CountOK
  <2>4. BatchesOK' /\ PurchaseKept'
    BY <1>1, <1>3, <2>1, OthersStay
  <2>. QED BY <2>1, <2>2, <2>3, <2>4 DEF StockInv
<1>4. CASE PurchaseNext /\ UNCHANGED <<saleVars, batch>>
  <2>1. /\ LedgerOK' /\ PurchaseKept' /\ ShortageIsAuthorised'
        /\ \A d \in Holders \ Papers : ledger'[d] = ledger[d]
    BY <1>4, PurchaseKeeps
  <2>2. UNCHANGED <<consumption, cancelled, batch>> /\ TimesOK'
    BY <1>4 DEF saleVars, lineVars, configVars, TimesOK
  <2>3. CountOK'
    BY <1>4 DEF PurchaseNext, Submit, CancelPurchase, PostReceipt, PostReturn, ledgerVars, CountOK
  <2>4. LinesOK' /\ BatchesOK'
    BY <1>1, <2>1, <2>2, OthersStay
  <2>. QED BY <2>1, <2>2, <2>3, <2>4 DEF StockInv
<1>5. CASE ProductionNext /\ UNCHANGED <<saleVars, purchaseVars>>
  <2>1. /\ LedgerOK' /\ BatchesOK' /\ ShortageIsAuthorised'
        /\ \A d \in Holders \ Batches : ledger'[d] = ledger[d]
    BY <1>5, ProductionKeeps
  <2>2. UNCHANGED <<consumption, cancelled, purchaseVars>> /\ TimesOK'
    BY <1>5 DEF saleVars, lineVars, configVars, TimesOK
  <2>3. CountOK'
    BY <1>5 DEF ProductionNext, PostBatch, ReverseBatch, CountOK
  <2>4. LinesOK' /\ PurchaseKept'
    BY <1>1, <2>1, <2>2, OthersStay
  <2>. QED BY <2>1, <2>2, <2>3, <2>4 DEF StockInv
<1>6. CASE UNCHANGED vars
  <2>1. UNCHANGED <<ledger, authorised, count, consumption, cancelled, batch, purchaseVars>> /\ TimesOK'
    BY <1>6 DEF vars, ledgerVars, saleVars, lineVars, configVars, TimesOK
  <2>2. LinesOK' /\ BatchesOK' /\ PurchaseKept'
    <3>1. {} \in SUBSET Holders /\ \A d \in Holders \ {} : ledger'[d] = ledger[d]
      BY <2>1
    <3>. QED BY <2>1, <3>1, OthersStay
  <2>. QED BY <2>1, <2>2 DEF StockInv, LedgerOK, CountOK, ShortageIsAuthorised, Balance
<1>. QED BY <1>2, <1>3, <1>4, <1>5, <1>6 DEF Next

(* So it always holds.                                                      *)
LEMMA StockInvariant == Spec => []StockInv
  BY InitStock, StockStep, PTL DEF Spec

-----------------------------------------------------------------------------
(* The state of the stock room is well formed.                              *)
THEOREM StockTypes == Spec => []TypeOK
<1>1. StockInv => TypeOK
  BY DEF StockInv, LedgerOK, CountOK, TimesOK, LinesOK, BatchesOK, PurchaseKept, PurchaseOK,
         ConsumptionRecords, BatchRecords, Holders, TypeOK
<1>. QED BY <1>1, StockInvariant, PTL

(* No shelf is short unless an override allowed it (assertNonNegative of    *)
(* the inventory service, and its callers).                                 *)
THEOREM NoSilentShortage == Spec => []ShortageIsAuthorised
<1>1. StockInv => ShortageIsAuthorised
  BY DEF StockInv
<1>. QED BY <1>1, StockInvariant, PTL

(* A line or a batch that was reversed leaves no trace in any balance.      *)
THEOREM ReversalsAreComplete == Spec => []ReversedIsNeutral
<1>1. StockInv => ReversedIsNeutral
  BY DEF StockInv, LinesOK, LineKept, BatchesOK, BatchKept, ReversedIsNeutral
<1>. QED BY <1>1, StockInvariant, PTL

(* What a cancelled line took has been put back.                            *)
THEOREM CancelledLinesTakeNothing == Spec => []CancelledIsPutBack
<1>1. StockInv => CancelledIsPutBack
  BY DEF StockInv, LinesOK
<1>. QED BY <1>1, StockInvariant, PTL

(* A purchase stays within its order, a return within its delivery, and the *)
(* ledger holds exactly what is left of the deliveries.                     *)
THEOREM PurchasesStayWithinOrder == Spec => []PurchaseWithinOrder
<1>1. StockInv => PurchaseWithinOrder
  BY DEF StockInv, PurchaseKept, WithinOrder, WithinReceipt, CompletedWhenAllIsIn, InStock, Papers,
         PurchaseWithinOrder
<1>. QED BY <1>1, StockInvariant, PTL

-----------------------------------------------------------------------------
(* The abstract promise about a line.                                       *)

(* At first no line has been taken.                                         *)
LEMMA InitPromise == Init => Promise!Init
<1>. SUFFICES ASSUME Init PROVE Promise!Init
  OBVIOUS
<1>1. StockInv
  BY InitStock
<1>2. \A l \in Lines : consumption[l].status = "NONE" /\ ledger[l] = Empty
  <2>1. \A l \in Lines : consumption[l].status = "NONE"
    BY DEF Init, SaleInit, NoConsumption
  <2>. QED BY <1>1, <2>1 DEF StockInv, LinesOK, LineKept
<1>3. \A l \in Lines : [p \in Places |-> -ledger[l][p]] = [p \in Places |-> 0]
  BY <1>2 DEF Empty
<1>. QED BY <1>2, <1>3 DEF Promise!Init, Promise!None

(* A step that moves no line is a stutter of the promise.                   *)
LEMMA PromiseStays ==
    ASSUME UNCHANGED consumption, \A l \in Lines : ledger'[l] = ledger[l]
    PROVE  UNCHANGED <<[l \in Lines |-> consumption[l].status],
                       [l \in Lines |-> [p \in Places |-> -ledger[l][p]]]>>
<1>1. [l \in Lines |-> consumption'[l].status] = [l \in Lines |-> consumption[l].status]
  OBVIOUS
<1>2. \A l \in Lines : [p \in Places |-> -ledger'[l][p]] = [p \in Places |-> -ledger[l][p]]
  OBVIOUS
<1>3. [l \in Lines |-> [p \in Places |-> -ledger'[l][p]]] = [l \in Lines |-> [p \in Places |-> -ledger[l][p]]]
  BY <1>2
<1>. QED BY <1>1, <1>3

(* Every step is one of the promise, or a stutter.                          *)
LEMMA StepPromise == StockInv /\ [Next]_vars =>
    [Promise!Next]_<<[l \in Lines |-> consumption[l].status],
                     [l \in Lines |-> [p \in Places |-> -ledger[l][p]]]>>
<1>. DEFINE stage == [l \in Lines |-> consumption[l].status]
            taken == [l \in Lines |-> [p \in Places |-> -ledger[l][p]]]
<1>. SUFFICES ASSUME StockInv, [Next]_vars PROVE [Promise!Next]_<<stage, taken>>
  OBVIOUS
<1>. LedgerOK /\ CountOK /\ TimesOK /\ LinesOK /\ BatchesOK /\ PurchaseKept
  BY DEF StockInv
<1>. /\ Lines \subseteq Holders /\ Batches \subseteq Holders /\ Papers \subseteq Holders
     /\ Manual \notin Lines /\ Lines \cap Batches = {} /\ Lines \cap Papers = {}
  BY LedgerAssumption, ConsumptionAssumption, BatchRecipe, PurchaseAssumption, DocumentsDiffer
     DEF Holders, Papers
<1>0. StockInv'
  BY StockStep
<1>1. CASE /\ UNCHANGED consumption
           /\ \A l \in Lines : ledger'[l] = ledger[l]
  <2>1. UNCHANGED <<stage, taken>>
    BY <1>1, PromiseStays
  <2>. HIDE DEF stage, taken
  <2>. QED BY <2>1
<1>2. CASE \E ls \in SUBSET Lines, override \in BOOLEAN : \E at :
             /\ \A l \in ls : consumption[l].status = "NONE"
             /\ DrawAll(ls, at, override) /\ cancelled' = cancelled
  <2>1. PICK ls \in SUBSET Lines, override \in BOOLEAN : \E at :
             /\ \A l \in ls : consumption[l].status = "NONE"
             /\ DrawAll(ls, at, override) /\ cancelled' = cancelled
    BY <1>2
  <2>2. PICK at : (\A l \in ls : consumption[l].status = "NONE") /\ DrawAll(ls, at, override)
    BY <2>1
  <2>3. \A d \in Holders \ ls : ledger'[d] = ledger[d]
    BY <2>2, DrawAllMoves
  <2>4. consumption' = [l \in Lines |->
              IF l \in ls THEN [status |-> "POSTED", drawn |-> Drawn(l, at)] ELSE consumption[l]]
    BY <2>2 DEF DrawAll
  <2>5. \A l \in ls : stage[l] = "NONE" /\ stage'[l] = "POSTED"
    BY <2>2, <2>4
  <2>6. \A l \in Lines \ ls : stage'[l] = stage[l] /\ taken'[l] = taken[l]
    BY <2>3, <2>4
  <2>7. ASSUME NEW l \in ls
        PROVE  (\A p \in Places : taken'[l][p] >= 0) /\ \E p \in Places : taken'[l][p] > 0
    <3>1. consumption'[l].status = "POSTED"
      BY <2>4
    <3>2. /\ \A p \in Places : ledger'[l][p] = -consumption'[l].drawn[p]
          /\ \E p \in Places : consumption'[l].drawn[p] > 0
      BY <1>0, <3>1 DEF StockInv, LinesOK, LineKept
    <3>3. \A p \in Places : consumption'[l].drawn[p] \in Nat
      BY <1>0 DEF StockInv, LinesOK, ConsumptionRecords
    <3>4. \A p \in Places : taken'[l][p] = -ledger'[l][p]
      OBVIOUS
    <3>5. \A p \in Places : taken'[l][p] = consumption'[l].drawn[p]
      BY <3>2, <3>3, <3>4
    <3>. HIDE DEF taken
    <3>. QED BY <3>2, <3>3, <3>5
  <2>8. {l \in Lines : stage'[l] # stage[l]} = ls
    BY <2>5, <2>6
  <2>. HIDE DEF stage, taken
  <2>9. LET changed == {l \in Lines : stage'[l] # stage[l]}
        IN /\ \A l \in changed :
                 /\ stage[l] = "NONE" /\ stage'[l] = "POSTED"
                 /\ \A p \in Places : taken'[l][p] >= 0
                 /\ \E p \in Places : taken'[l][p] > 0
           /\ \A l \in Lines \ changed : taken'[l] = taken[l]
    BY <2>5, <2>6, <2>7, <2>8
  <2>10. Promise!TakeAll
    BY <2>9 DEF Promise!TakeAll, stage, taken
  <2>. QED BY <2>10 DEF Promise!Next
<1>3. CASE \E l \in Lines : consumption[l].status = "POSTED" /\ GiveBack(l)
  <2>1. PICK l \in Lines : consumption[l].status = "POSTED" /\ GiveBack(l)
    BY <1>3
  <2>2. consumption' = [consumption EXCEPT ![l].status = "REVERSED"]
    BY <2>1 DEF GiveBack
  <2>3. consumption'[l].status = "REVERSED" /\ \A k \in Lines \ {l} : consumption'[k] = consumption[k]
    BY <2>2 DEF LinesOK, ConsumptionRecords
  <2>4. \A d \in Holders \ {l} : ledger'[d] = ledger[d]
    <3>1. consumption[l].drawn \in [Places -> Nat]
      BY DEF LinesOK, ConsumptionRecords
    <3>. QED BY <2>1, <3>1, GiveBackMoves
  <2>5. ledger'[l] = Empty
    BY <1>0, <2>3 DEF StockInv, LinesOK, LineKept
  <2>6. stage[l] = "POSTED" /\ stage' = [stage EXCEPT ![l] = "REVERSED"]
    BY <2>1, <2>3
  <2>7. taken' = [taken EXCEPT ![l] = [p \in Places |-> 0]]
    <3>1. taken'[l] = [p \in Places |-> 0]
      BY <2>5 DEF Empty
    <3>2. \A k \in Lines \ {l} : taken'[k] = taken[k]
      BY <2>4
    <3>3. DOMAIN taken = Lines /\ taken' = [k \in Lines |-> taken'[k]] /\ taken = [k \in Lines |-> taken[k]]
      OBVIOUS
    <3>. HIDE DEF taken
    <3>. QED BY <3>1, <3>2, <3>3
  <2>8. Promise!PutBack(l)
    BY <2>6, <2>7 DEF Promise!PutBack, Promise!None
  <2>. QED BY <2>8 DEF Promise!Next
<1>4. CASE LedgerNext /\ UNCHANGED <<saleVars, purchaseVars, batch>>
  <2>1. \A d \in Holders \ {Manual} : ledger'[d] = ledger[d]
    BY <1>4, ManualKeeps
  <2>. QED BY <1>1, <1>4, <2>1 DEF saleVars
<1>5. CASE SaleNext /\ UNCHANGED <<purchaseVars, batch>>
  <2>1. SaleMoves
    BY <1>5, SaleMovesSo
  <2>. HIDE DEF stage, taken
  <2>. QED BY <1>1, <1>2, <1>3, <2>1 DEF SaleMoves
<1>6. CASE PurchaseNext /\ UNCHANGED <<saleVars, batch>>
  <2>1. \A d \in Holders \ Papers : ledger'[d] = ledger[d]
    BY <1>6, PurchaseKeeps
  <2>. QED BY <1>1, <1>6, <2>1 DEF saleVars
<1>7. CASE ProductionNext /\ UNCHANGED <<saleVars, purchaseVars>>
  <2>1. \A d \in Holders \ Batches : ledger'[d] = ledger[d]
    BY <1>7, ProductionKeeps
  <2>. QED BY <1>1, <1>7, <2>1 DEF saleVars
<1>8. CASE UNCHANGED vars
  BY <1>1, <1>8 DEF vars, ledgerVars, saleVars
<1>. QED BY <1>4, <1>5, <1>6, <1>7, <1>8 DEF Next

(* The stock keeps its promise about every line (InventoryConsumption       *)
(* Service): its goods leave at most once and come back at most once, all   *)
(* of them.                                                                 *)
THEOREM LinesAreTakenOnce == Spec => ImplementsLineStock
  BY InitPromise, StepPromise, StockInvariant, PTL
     DEF Spec, ImplementsLineStock, Promise!LineStockSpec
=============================================================================
