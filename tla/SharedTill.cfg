CONSTANTS
    t1 = t1
    t2 = t2
    t3 = t3
    cashier1 = cashier1
    cashier2 = cashier2
    till = till
    Runtimes = {t1, t2}
    Outboxes = {cashier1, cashier2}
    Devices = {till}
    Aggregates = {o1}
    StoreOf <- TwoCashiers
    DeviceOf <- SharedTill
    Slots = {q1, q2}
    MaxSequence = 1
    BatchLimit = 2
    MaxFaults = 0
    None = None
SPECIFICATION FairSpec
PROPERTY EveryCommandSettles
CHECK_DEADLOCK FALSE
