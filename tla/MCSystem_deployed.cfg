SPECIFICATION InstancesSpec
CONSTANTS
    ops = ops
    ana = ana
    token = token
    treasury = treasury
    oracle = oracle
    r1 = r1
    r2 = r2
    r3 = r3
    Address = {ops, ana, token, treasury, oracle}
    TokenContract = token
    TreasuryContract = treasury
    OracleContract = oracle
    NoOwner = NoOwner
    NoAdmin = NoAdmin
    NoOracle = NoOracle
    NoRef = NoRef
    RequestId = {r1, r2, r3}
    MAX_SUPPLY = 6
    MIN_TRANSFER = 1
    Caller = {}
    Party = {ana}
    Amount = {1}
    Expiration = {}
    RoleGrant <- NoGrants
    MAX_SIGNERS = 2
    PROPOSAL_EXPIRATION_LEDGERS = 3
    ONE_DAY_LEDGERS = 2
    DAILY_MINT_LIMIT = 2
    DAILY_BURN_LIMIT = 2
    SINGLE_OP_LIMIT = 2
    MaxProposals = 3
    MaxLedger = 3
    InitialSigners <- AnaAlone
    InitialThreshold = {1}
    Payee = {ana}
    ProposedAmount = {1, 2}
    DepositedUsdt = {1}
    SignerChange = {}
    ThresholdChange = {}
    OracleChange = {token}
    QuotedBobt = {}
    MAX_PRICE_AGE_SECS = 1
    MAX_PRICE_DEVIATION_BPS = 1000
    ONE_UNIT = 1
    MIN_EXCHANGES_FOR_AGGREGATION = 2
    MaxNow = 3
    Elapsed = {1}
    OracleAccount = {ops}
    PostedPrice = {}
    BatchPrices <- TwoPrices
    PostedTimestamp = {0, 1}
SYMMETRY RefSymmetry
INVARIANTS TwiceTheLimitADay TrailMatchesProposals
PROPERTIES DepositPaidAtPrice
CHECK_DEADLOCK FALSE
