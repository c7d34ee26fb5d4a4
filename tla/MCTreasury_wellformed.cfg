SPECIFICATION TreasurySpec
CONSTANTS
    ana = ana
    beto = beto
    caro = caro
    r1 = r1
    Address = {ana, beto, caro}
    TreasuryContract = caro
    NoOracle = NoOracle
    NoRef = NoRef
    RequestId = {}
    MAX_SIGNERS = 3
    PROPOSAL_EXPIRATION_LEDGERS = 1
    ONE_DAY_LEDGERS = 1
    DAILY_MINT_LIMIT = 0
    DAILY_BURN_LIMIT = 0
    SINGLE_OP_LIMIT = 0
    MaxProposals = 3
    MaxLedger = 0
    InitialSigners <- TwoSigners
    InitialThreshold = {0, 1, 2}
    Payee = {}
    ProposedAmount = {}
    DepositedUsdt = {}
    SignerChange = {ana, beto, caro}
    ThresholdChange = {2}
    OracleChange = {}
    QuotedBobt = {}
INVARIANT CouncilWellFormed
CHECK_DEADLOCK FALSE
