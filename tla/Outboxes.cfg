CONSTANTS
    t1 = t1
    t2 = t2
    t3 = t3
    cashier1 = cashier1
    cashier2 = cashier2
    till = till
    Runtimes = {t1, t2, t3}
    Outboxes = {cashier1, cashier2}
    Devices = {till}
    Aggregates = {o1, o2}
    StoreOf <- ThreeTabs
    DeviceOf <- SharedTill
    Slots = {q1, q2}
    MaxSequence = 2
    BatchLimit = 2
    MaxFaults = 2
    None = None
SYMMETRY Symmetry
SPECIFICATION Spec
CONSTRAINT Scope
INVARIANTS TypeOK SyncedOnce OvertakesOnlySending DrainedIsAccounted
PROPERTY ImplementsLedger
CHECK_DEADLOCK FALSE
