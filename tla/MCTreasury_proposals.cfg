SPECIFICATION TreasurySpec
CONSTANTS
    ana = ana
    beto = beto
    caro = caro
    r1 = r1
    Address = {ana, beto, caro}
    TreasuryContract = caro
    NoOracle = NoOracle
    NoRef = NoRef
    RequestId = {r1}
    MAX_SIGNERS = 3
    PROPOSAL_EXPIRATION_LEDGERS = 1
    ONE_DAY_LEDGERS = 2
    DAILY_MINT_LIMIT = 1
    DAILY_BURN_LIMIT = 1
    SINGLE_OP_LIMIT = 1
    MaxProposals = 2
    MaxLedger = 2
    InitialSigners <- AnyList
    InitialThreshold = {0, 1, 2}
    Payee = {beto}
    ProposedAmount <- SignedAmounts
    DepositedUsdt = {0, 1}
    SignerChange = {beto, caro}
    ThresholdChange = {2}
    OracleChange = {beto}
    QuotedBobt = {1}
INVARIANTS TreasuryTypeOK ApprovalsCounted ThresholdPositive LimitsKept
PROPERTIES ImplementsMultisig
CHECK_DEADLOCK FALSE
