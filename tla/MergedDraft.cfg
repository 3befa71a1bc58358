CONSTANTS
    Users = {u1}
    Devices = {d1}
    Shifts = {1}
    Orders = {1, 2}
    Lines = {1, 2}
    Tickets = {1}
    Payments = {}
    Refunds = {}
    Movements = {}
    MaxQuantity = 1
    MaxMovement = 1
    None = None
SPECIFICATION Spec
CHECK_DEADLOCK FALSE
INVARIANT DraftsCanBeSettled
