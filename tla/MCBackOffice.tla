---------------------------- MODULE MCBackOffice ----------------------------
(* Small instances of the parts of the back office for TLC.                 *)
EXTENDS BackOffice, SequencesExt

(* Days of three units and weeks of two days: closing before and after      *)
(* midnight, a window that runs into the next week, windows that overlap.   *)
MCWeekly ==
    {[cutoff |-> 1, windows |-> {[weekday |-> 2, opens |-> 1, lasts |-> 3],
                                 [weekday |-> 1, opens |-> 1, lasts |-> 1]}],
     [cutoff |-> 0, windows |-> {[weekday |-> 1, opens |-> 2, lasts |-> 3]}],
     [cutoff |-> 0, windows |-> {[weekday |-> 2, opens |-> 2, lasts |-> 3],
                                 [weekday |-> 1, opens |-> 1, lasts |-> 1]}]}

MCSpecial ==
    {[kind |-> "CLOSED", windows |-> {}],
     [kind |-> "CUSTOM_HOURS", windows |-> {[opens |-> 0, lasts |-> 1], [opens |-> 1, lasts |-> 3]}],
     [kind |-> "CUSTOM_HOURS", windows |-> {[opens |-> 0, lasts |-> 2], [opens |-> 1, lasts |-> 3]}]}

(* One, two and three components in tenths, one of them nothing.            *)
MCTaxRules ==
    [priceMode: {"INCLUSIVE", "EXCLUSIVE"}, rounding: {"HALF_UP", "HALF_EVEN", "DOWN"},
     scope: {"LINE", "INVOICE"}, rate: {<<3, 2>>, <<5, 0, 1>>, <<1>>}]

(* A recipe that divides evenly and one that does not; rules with safety     *)
(* stock and without, over one shelf and two; ledgers above and below zero   *)
(* left over.                                                                *)
Plain == [id |-> 1, from |-> 0, yields |-> 2,
          takes |-> [i \in {"flour", "egg"} |-> IF i = "flour" THEN 3 ELSE 2]]
Uneven == [id |-> 2, from |-> 1, yields |-> 3, takes |-> [i \in {"flour"} |-> 3]]
MCRecipeBook == {Plain, Uneven}

OnlyFlour(x) == [i \in {"flour"} |-> x]
MCProposals ==
    {[recipe |-> Plain, from |-> 0,
      safety |-> [i \in {"flour", "egg"} |-> IF i = "flour" THEN 1 ELSE 0],
      shelves |-> [i \in {"flour", "egg"} |->
                      IF i = "flour" THEN {"bar", "store"} ELSE {"bar"}]],
     [recipe |-> Uneven, from |-> 1, safety |-> OnlyFlour(0), shelves |-> OnlyFlour({"bar"})],
     [recipe |-> Plain, from |-> 1, safety |-> OnlyFlour(2), shelves |-> OnlyFlour({"store"})]}

MCLedgers ==
    {[x \in {"bar", "store"} \X {"flour", "egg"} |->
        IF x[2] = "egg" THEN IF x[1] = "bar" THEN n[3] ELSE 1
                        ELSE IF x[1] = "bar" THEN n[1] ELSE n[2]] :
        n \in {<<0, 0, 1>>, <<0, 3, 4>>, <<1, 0, 4>>, <<1, 3, 1>>, <<4, 0, 4>>, <<4, 3, 1>>,
               <<4, 3, 4>>}}

(* Names that are used once and never given back are used in one order: any  *)
(* other order is the same behaviour with the names exchanged.               *)
InTurn(names, Used(_)) ==
    \A n \in 2..Len(names) : Used(names[n]) => Used(names[n - 1])

AttemptsInTurn   == SetToSeq(Attempts)
ClicksInTurn     == SetToSeq(Clicks)
ContactsInTurn   == SetToSeq(Contacts)
InquiriesInTurn  == SetToSeq(Inquiries)
HappeningsInTurn == SetToSeq(Happenings)
KeysInTurn       == SetToSeq(Keys)
KeyIsUsed(k)     == \E a \in Attempts : attempt[a] # NoAttempt /\ attempt[a].request.key = k

OneOrder ==
    /\ InTurn(AttemptsInTurn, LAMBDA a : attempt[a] # NoAttempt)
    /\ InTurn(KeysInTurn, KeyIsUsed)
    /\ InTurn(HappeningsInTurn, LAMBDA e : occurred[e] # Unrecorded)
    /\ InTurn(ClicksInTurn, LAMBDA c : clicks[c].at # "NONE")
    /\ InTurn(ContactsInTurn, LAMBDA o : contact[o] # NoContact)
    /\ InTurn(InquiriesInTurn, LAMBDA q : inquiry[q].status # "none")

(* Bounds. A till asks for a bootstrap while at most one command is queued,  *)
(* others change its order likewise, and not both; once it shows something   *)
(* else than the server has, it queues one command at most and no action     *)
(* overlaps a bootstrap. One contact at most has a phone number or names     *)
(* nobody. One target is withdrawn by hand at a time, beside at most one     *)
(* rule, of what is on the menu. Where tax is by the line, two lines are     *)
(* enough. A row is changed at most twice, or created, and a page has three  *)
(* clicks and loads between them.                                            *)
SmallOffice ==
    /\ OneOrder
    /\ refresh # NoRefresh => Len(queue) + MaxForeign - foreign <= 1
    /\ foreign < MaxForeign => Len(queue) <= 1
    /\ apart => Len(queue) <= 1 /\ (action = NoOrder \/ refresh = NoRefresh)
    /\ Cardinality({o \in Kept : contact[o].phone \/ ~contact[o].linked}) <= 1
    /\ LET withdrawn == {t \in Sellables : records[t] # <<>>} IN
       /\ Cardinality(withdrawn) <= (IF onMenu THEN 1 ELSE 0)
       /\ withdrawn # {} =>
             Cardinality({p \in Proposals : rules[p].status # "NONE"}) <= 1
    /\ taxRules.scope = "LINE" => line[3].treatment = "NONE"
    /\ stands <= (IF conduct.kind = "CHANGE" THEN LastRow ELSE 1)
    /\ Cardinality({c \in Clicks : clicks[c].at # "NONE"})
          + Cardinality({l \in LoadSlots : loads[l].at # "NONE"}) <= 3

=============================================================================
