SPECIFICATION InstancesSpec
CONSTANTS
    buy = buy
    sell = sell
    ana = ana
    beto = beto
    Request = {buy, sell}
    Kind <- AKind
    Account = {ana, beto}
    Owner <- AnOwner
    CallSlot = {1, 2}
    PollSlot = {3, 4}
INVARIANTS RampAppTypeOK TabTellsTheTruth
PROPERTIES TabLearnsTheEnd SimulatesOnce
CHECK_DEADLOCK FALSE
