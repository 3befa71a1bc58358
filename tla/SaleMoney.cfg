CONSTANTS
    Users = {u1, u2, u3}
    Devices = {d1, d2}
    Shifts = {1, 2}
    Orders = {1, 2}
    Lines = {1}
    Tickets = {1}
    Payments = {1}
    Refunds = {1, 2}
    Movements = {1}
    MaxQuantity = 2
    MaxMovement = 1
    None = None
CONSTRAINT MoneyBound
SPECIFICATION Spec
SYMMETRY Symmetry
\* every bound is reached and the branch closed: the system stops
CHECK_DEADLOCK FALSE
INVARIANTS OneOpenShift ClosedShiftStands
PROPERTY ImplementsSettlement
