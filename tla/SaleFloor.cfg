CONSTANTS
    Users = {u1, u2}
    Devices = {d1}
    Shifts = {1}
    Orders = {1, 2}
    Lines = {1, 2, 3}
    Tickets = {1}
    Payments = {1, 2}
    Refunds = {}
    Movements = {}
    MaxQuantity = 2
    MaxMovement = 1
    None = None
CONSTRAINT BillBound
SPECIFICATION Spec
SYMMETRY Symmetry
\* every bound is reached and the branch closed: the system stops
CHECK_DEADLOCK FALSE
INVARIANTS TypeOK GrossIsCurrent KitchenServes MergedIntoLiving LiveOrdersHaveShift CompletedIsSettled BooksAgree
