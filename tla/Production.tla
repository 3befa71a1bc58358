----------------------------- MODULE Production -----------------------------
(***************************************************************************)
(* Batches made in the house: a batch recipe turns input items into one     *)
(* output item.  A batch posts its output and its inputs, and may be        *)
(* reversed once.                                                           *)
(***************************************************************************)
EXTENDS StockLedger

CONSTANTS
    Batches,
    Output,         \* the item made
    Inputs,         \* input item -> quantity for one yield of the recipe
    Yield           \* what the recipe makes

ASSUME BatchRecipe ==
    /\ Batches \subseteq Documents /\ Yield \in Nat \ {0}
    /\ Output \in Items /\ DOMAIN Inputs \subseteq Items \ {Output}
    /\ \A i \in DOMAIN Inputs : Inputs[i] \in Nat

VARIABLE batch      \* batch -> status and the entries it was posted with

NoBatch == [status |-> "NONE", entries |-> {}]

(* resolve: the inputs for a quantity of output must come out exact.        *)
Makes(quantity) == \A i \in DOMAIN Inputs : (Inputs[i] * quantity) % Yield = 0

BatchEntries(b, quantity, to, from) ==
    {[line |-> b, place |-> <<to, Output>>, delta |-> quantity]}
    \cup {[line |-> b, place |-> <<from[i], i>>,
           delta |-> -((Inputs[i] * quantity) \div Yield)] : i \in DOMAIN Inputs}

(* post: the inputs must be on hand, the output need not.                   *)
PostBatch(b, quantity, to, from, override) ==
    /\ batch[b].status = "NONE" /\ Makes(quantity) /\ Spend("batches")
    /\ LET entries == BatchEntries(b, quantity, to, from)
       IN /\ batch' = [batch EXCEPT ![b] = [status |-> "POSTED", entries |-> entries]]
          /\ Post(b, entries, override)
    /\ UNCHANGED count

(* reverse: every stored entry the other way round.  Only the output is     *)
(* taken out of stock, so only the output is looked at.                     *)
ReverseBatch(b, override) ==
    /\ batch[b].status = "POSTED" /\ Spend("batches")
    /\ batch' = [batch EXCEPT ![b].status = "REVERSED"]
    /\ Post(b, {[e EXCEPT !.delta = -@] : e \in batch[b].entries}, override)
    /\ UNCHANGED count

ProductionInit == batch = [b \in Batches |-> NoBatch]

ProductionNext ==
    \E b \in Batches, override \in BOOLEAN :
        \/ \E quantity \in 1..MaxQuantity, to \in Locations, from \in [DOMAIN Inputs -> Locations] :
              PostBatch(b, quantity, to, from, override)
        \/ ReverseBatch(b, override)

=============================================================================
