-------------------------------- MODULE Layout --------------------------------
(***************************************************************************)
(* The dining areas of a branch and their tables (apps/api/src/layout:     *)
(* layout.service.ts, layout-policy.ts).  Each operation is a serializable *)
(* transaction that first checks the revision it was asked for; names,     *)
(* capacities and positions are left out.                                  *)
(***************************************************************************)
EXTENDS Naturals, FiniteSets

CONSTANTS
    Areas,
    Tables,
    NoArea      \* a table that has not been created is in no area

VARIABLES
    area,       \* area[a]: "none", "inactive" or "active"
    table       \* table[t]: its state and the area it is in

layoutVars == <<area, table>>

LayoutTypeOK ==
    /\ area \in [Areas -> {"none", "inactive", "active"}]
    /\ table \in [Tables -> [state: {"none", "inactive", "active"}, area: Areas \cup {NoArea}]]

LayoutInit ==
    /\ area = [a \in Areas |-> "none"]
    /\ table = [t \in Tables |-> [state |-> "none", area |-> NoArea]]

-----------------------------------------------------------------------------
ActiveTables(a) == {t \in Tables : table[t] = [state |-> "active", area |-> a]}

CreateArea(a) ==
    /\ area[a] = "none"
    /\ area' = [area EXCEPT ![a] = "inactive"]
    /\ UNCHANGED table

ActivateArea(a) ==
    /\ area[a] = "inactive"
    /\ area' = [area EXCEPT ![a] = "active"]
    /\ UNCHANGED table

DeactivateArea(a) ==
    /\ area[a] = "active"
    /\ ActiveTables(a) = {}
    /\ area' = [area EXCEPT ![a] = "inactive"]
    /\ UNCHANGED table

CreateTable(t, a) ==
    /\ table[t].state = "none" /\ area[a] # "none"
    /\ table' = [table EXCEPT ![t] = [state |-> "inactive", area |-> a]]
    /\ UNCHANGED area

MoveTableAnywhere(t, a) ==
    /\ table[t].state # "none" /\ area[a] # "none"
    /\ table' = [table EXCEPT ![t].area = a]
    /\ UNCHANGED area

\* updateTable with another dining area.
UpdateTable(t, a) ==
    /\ table[t].state # "none" /\ area[a] # "none"
    /\ table[t].state = "active" => area[a] = "active"
    /\ table' = [table EXCEPT ![t].area = a]
    /\ UNCHANGED area

ActivateTable(t) ==
    /\ table[t].state = "inactive"
    /\ area[table[t].area] = "active"
    /\ table' = [table EXCEPT ![t].state = "active"]
    /\ UNCHANGED area

DeactivateTable(t) ==
    /\ table[t].state = "active"
    /\ table' = [table EXCEPT ![t].state = "inactive"]
    /\ UNCHANGED area

LayoutNext ==
    \/ \E a \in Areas : CreateArea(a) \/ ActivateArea(a) \/ DeactivateArea(a)
    \/ \E t \in Tables : ActivateTable(t) \/ DeactivateTable(t)
    \/ \E t \in Tables, a \in Areas : CreateTable(t, a) \/ UpdateTable(t, a)

-----------------------------------------------------------------------------
\* A table guests can be seated at is in an area that is open, also after tables
\* were moved between areas and areas were closed.
ActiveTablesAreInActiveAreas ==
    \A t \in Tables : table[t].state = "active" => area[table[t].area] = "active"
=============================================================================
