SPECIFICATION InstancesSpec
CONSTANTS
    alice = alice
    bob = bob
    ops = ops
    r1 = r1
    r2 = r2
    Address = {alice, bob, ops}
    RequestId = {r1, r2}
    TokenContract = ops
    Caller = {alice, bob, ops}
    Party = {alice, bob, ops}
    NoOwner = NoOwner
    MAX_SUPPLY = 2
    MIN_TRANSFER = 1
    Amount <- SignedAmounts
    Expiration = {0, 1}
    RoleGrant <- AllRoles
    MaxLedger = 2
SYMMETRY HolderSymmetry
INVARIANTS TokenTypeOK SupplyBacked SupplyAudited
PROPERTIES ImplementsLedger FrozenFundsStay PauseStopsFunds AllowanceHonoured
CHECK_DEADLOCK FALSE
