SPECIFICATION OracleSpec
CONSTANTS
    admin = admin
    bot = bot
    Address = {admin, bot}
    NoAdmin = NoAdmin
    OracleAccount = {admin, bot}
    MAX_PRICE_AGE_SECS = 1
    MAX_PRICE_DEVIATION_BPS = 1000
    ONE_UNIT = 3
    MIN_EXCHANGES_FOR_AGGREGATION = 2
    MaxNow = 2
    Elapsed = {1}
    PostedPrice = {0, 9, 10}
    BatchPrices <- SomeBatches
    PostedTimestamp = {0, 1, 2}
INVARIANTS OracleTypeOK PricesComputable NoRoundTripGain
CHECK_DEADLOCK FALSE
