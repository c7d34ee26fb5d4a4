SPECIFICATION FairRampSpec
CONSTANTS
    buy = buy
    sell = sell
    Request = {buy, sell}
    Kind <- AKind
    Amount <- AnAmount
    MaxAttempts = 2
INVARIANTS RampTypeOK MintOwnsRequest CompletedWasSent
PROPERTIES ImplementsRequests MintCallsReturn
CHECK_DEADLOCK FALSE
