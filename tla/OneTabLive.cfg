CONSTANTS
    t1 = t1
    t2 = t2
    t3 = t3
    cashier1 = cashier1
    cashier2 = cashier2
    till = till
    Runtimes = {t1}
    Outboxes = {cashier1}
    Devices = {till}
    Aggregates = {o1}
    StoreOf <- OneTab
    DeviceOf <- OneTill
    Slots = {q1, q2}
    MaxSequence = 2
    BatchLimit = 2
    MaxFaults = 1
    None = None
SPECIFICATION FairSpec
PROPERTY EveryCommandSettles
CHECK_DEADLOCK FALSE
