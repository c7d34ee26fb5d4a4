SPECIFICATION UpdaterSpec
CONSTANTS
    admin = admin
    bot = bot
    r1 = r1
    r2 = r2
    Address = {admin, bot}
    NoAdmin = NoAdmin
    OracleAccount = {admin}
    MAX_PRICE_AGE_SECS = 1
    MAX_PRICE_DEVIATION_BPS = 1000
    ONE_UNIT = 1
    MIN_EXCHANGES_FOR_AGGREGATION = 2
    MaxNow = 3
    Elapsed = {1}
    PostedPrice = {}
    BatchPrices = {}
    PostedTimestamp = {}
    Run = {r1, r2}
    Operator = bot
    TIMEOUT_SECONDS = 1
    MAX_ATTEMPTS = 1
    MIN_EXCHANGES = 1
    LowestPrice = 5
    HighestPrice = 15
    Answers <- SomeAnswers
    ClockLead = {0, 1}
SYMMETRY RunSymmetry
INVARIANT AverageSane
PROPERTIES DatesForward PricesArriveInTime
CHECK_DEADLOCK FALSE
