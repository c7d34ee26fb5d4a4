------------------------------ MODULE Treasury ------------------------------
(***************************************************************************)
(* The treasury contract (contracts/treasury): M-of-N proposals that mint,  *)
(* burn, pause, and change the treasury's own signers, threshold and        *)
(* oracle, under rate limits.  One action per entry point that changes      *)
(* state, one per type of proposal for execute.  A call that returns an     *)
(* error or panics, in this contract or in one it calls, is rolled back     *)
(* whole and is no step.  What the token and the oracle answer is left      *)
(* open here, and settled in BOBTSystem.                                    *)
(*                                                                          *)
(* The code never reads the order of the signer list, so the list is the    *)
(* multiset signers: how many entries hold an address.                      *)
(***************************************************************************)
EXTENDS Integers, Accounts, StellarNetwork, Tally

CONSTANTS
    TreasuryContract,   \* the treasury's own address
    NoOracle, NoRef,    \* no oracle configured, the empty reference
    MAX_SIGNERS, PROPOSAL_EXPIRATION_LEDGERS, ONE_DAY_LEDGERS,
    DAILY_MINT_LIMIT, DAILY_BURN_LIMIT, SINGLE_OP_LIMIT,
    MaxProposals,       \* bound: how many proposals are made
    \* What callers pass:
    InitialSigners, InitialThreshold,
    Payee, ProposedAmount, DepositedUsdt, SignerChange, ThresholdChange, OracleChange,
    QuotedBobt          \* what the oracle may answer

ProposalType == {"Mint", "Burn", "AddSigner", "RemoveSigner", "UpdateThreshold",
                 "EmergencyPause", "MintFromUsdt", "SetOracle"}

ASSUME TreasuryAssumption ==
    /\ TreasuryContract \in Address
    /\ NoOracle \notin Address
    /\ {MAX_SIGNERS, PROPOSAL_EXPIRATION_LEDGERS, DAILY_MINT_LIMIT, DAILY_BURN_LIMIT,
        SINGLE_OP_LIMIT, MaxProposals} \subseteq Nat
    /\ ONE_DAY_LEDGERS \in Nat \ {0}
    /\ InitialSigners \subseteq [Address -> Nat]
    /\ InitialThreshold \cup ThresholdChange \subseteq Nat
    /\ Payee \cup SignerChange \cup OracleChange \subseteq Address
    /\ ProposedAmount \cup DepositedUsdt \subseteq Int
    /\ QuotedBobt \subseteq Nat

VARIABLES
    treasury_initialized,
    signers, threshold,
    config_threshold,   \* the copy of the threshold kept in the configuration
    oracle_address,
    proposal_count, proposals,
    approvals,          \* the <<proposal id, signer>> pairs recorded
    daily_minted, daily_burned, last_reset_ledger

council      == <<treasury_initialized, signers, threshold, config_threshold, oracle_address>>
ballot       == <<proposal_count, proposals, approvals>>
limits       == <<daily_minted, daily_burned, last_reset_ledger>>
treasuryVars == <<council, ballot, limits>>

Status == {"Pending", "Executed", "Cancelled"}

\* created_at is expires_at - PROPOSAL_EXPIRATION_LEDGERS and is never read.
Proposal == [proposal_type : ProposalType, proposer : Address, target : Address,
             amount : Nat, usdt_amount : Nat, external_ref : RequestId \cup {NoRef},
             expires_at : Nat, approval_count : Nat, status : Status]

TreasuryInit ==
    /\ treasury_initialized = FALSE
    /\ signers = [a \in Address |-> 0]
    /\ threshold = 1
    /\ config_threshold = 0
    /\ oracle_address = NoOracle
    /\ proposal_count = 0
    /\ proposals = <<>>
    /\ approvals = {}
    /\ daily_minted = 0
    /\ daily_burned = 0
    /\ last_reset_ledger = 0
    /\ sequence = 0
-----------------------------------------------------------------------------
NumSigners == Total(signers)

IsSigner(a) == signers[a] > 0

Signer(caller) == treasury_initialized /\ IsSigner(caller)

HasApproved(id, a) == <<id, a>> \in approvals

Approvers(id) == {a \in Address : HasApproved(id, a)}

InitializeTreasury(list, n) ==
    /\ ~treasury_initialized
    /\ Total(list) \in 1..MAX_SIGNERS
    /\ n \in 1..Total(list)
    /\ treasury_initialized' = TRUE
    /\ signers' = list
    /\ threshold' = n
    /\ config_threshold' = n
    /\ oracle_address' = NoOracle
    /\ daily_minted' = 0
    /\ daily_burned' = 0
    /\ last_reset_ledger' = sequence
    /\ UNCHANGED ballot
-----------------------------------------------------------------------------
\* Every propose_* stores a pending proposal that its proposer has approved.
NewProposal(type, proposer, target, amount, usdt, ref) ==
    LET id == proposal_count + 1
        proposal == [proposal_type |-> type, proposer |-> proposer, target |-> target,
                     amount |-> amount, usdt_amount |-> usdt, external_ref |-> ref,
                     expires_at |-> sequence + PROPOSAL_EXPIRATION_LEDGERS,
                     approval_count |-> 1, status |-> "Pending"] IN
    /\ Signer(proposer)
    /\ id <= MaxProposals
    /\ proposal_count' = id
    /\ proposals' = [i \in 1..id |-> IF i = id THEN proposal ELSE proposals[i]]
    /\ approvals' = approvals \cup {<<id, proposer>>}
    /\ UNCHANGED <<council, limits>>

\* Slip: the amount is not checked.
ProposeAnyMint(proposer, to, amount, ref) == NewProposal("Mint", proposer, to, amount, 0, ref)

ProposeMint(proposer, to, amount, ref) ==
    /\ amount > 0
    /\ NewProposal("Mint", proposer, to, amount, 0, ref)

ProposeBurn(proposer, from, amount, ref) ==
    /\ amount > 0
    /\ NewProposal("Burn", proposer, from, amount, 0, ref)

ProposeAddSigner(proposer, new) ==
    /\ ~IsSigner(new)
    /\ NumSigners < MAX_SIGNERS
    /\ NewProposal("AddSigner", proposer, new, 0, 0, NoRef)

ProposeRemoveSigner(proposer, old) ==
    /\ IsSigner(old)
    /\ NumSigners > 1
    /\ NewProposal("RemoveSigner", proposer, old, 0, 0, NoRef)

\* The new threshold travels in the amount field.
ProposeUpdateThreshold(proposer, n) ==
    /\ n \in 1..NumSigners
    /\ NewProposal("UpdateThreshold", proposer, TreasuryContract, n, 0, NoRef)

ProposeEmergencyPause(proposer) ==
    NewProposal("EmergencyPause", proposer, TreasuryContract, 0, 0, NoRef)

\* The quote is kept for reference only: execution asks the oracle again.
ProposeMintFromUsdt(proposer, to, usdt, ref, bobt) ==
    /\ usdt > 0
    /\ oracle_address # NoOracle
    /\ NewProposal("MintFromUsdt", proposer, to, bobt, usdt, ref)

ProposeSetOracle(proposer, oracle) ==
    NewProposal("SetOracle", proposer, oracle, 0, 0, NoRef)
-----------------------------------------------------------------------------
\* Slip: an earlier approval is not looked up.
ApproveAgain(signer, id) ==
    /\ Signer(signer)
    /\ proposals[id].status = "Pending"
    /\ sequence <= proposals[id].expires_at
    /\ approvals' = approvals \cup {<<id, signer>>}
    /\ proposals' = [proposals EXCEPT ![id].approval_count = @ + 1]
    /\ UNCHANGED <<proposal_count, council, limits>>

ApproveProposal(signer, id) ==
    /\ Signer(signer)
    /\ proposals[id].status = "Pending"
    /\ sequence <= proposals[id].expires_at
    /\ ~HasApproved(id, signer)
    /\ approvals' = approvals \cup {<<id, signer>>}
    /\ proposals' = [proposals EXCEPT ![id].approval_count = @ + 1]
    /\ UNCHANGED <<proposal_count, council, limits>>

\* Slip: an executed proposal can be cancelled.
CancelAny(proposer, id) ==
    /\ treasury_initialized
    /\ proposals[id].proposer = proposer
    /\ proposals' = [proposals EXCEPT ![id].status = "Cancelled"]
    /\ UNCHANGED <<proposal_count, approvals, council, limits>>

\* The proposer may cancel after losing its seat, after expiry, and again.
CancelProposal(proposer, id) ==
    /\ treasury_initialized
    /\ proposals[id].proposer = proposer
    /\ proposals[id].status # "Executed"
    /\ proposals' = [proposals EXCEPT ![id].status = "Cancelled"]
    /\ UNCHANGED <<proposal_count, approvals, council, limits>>
-----------------------------------------------------------------------------
\* Slip: the day is not added.
WindowAlwaysOver == sequence >= last_reset_ledger

WindowOver == sequence >= last_reset_ledger + ONE_DAY_LEDGERS

\* maybe_reset_daily_limits, then the amounts counted in the window it leaves.
CountInWindow(minted, burned) ==
    /\ daily_minted' = minted + IF WindowOver THEN 0 ELSE daily_minted
    /\ daily_burned' = burned + IF WindowOver THEN 0 ELSE daily_burned
    /\ last_reset_ledger' = IF WindowOver THEN sequence ELSE last_reset_ledger

\* Slip: the limit compared with what was minted before.
CheckMintedBefore(amount) ==
    /\ amount <= SINGLE_OP_LIMIT
    /\ CountInWindow(amount, 0)
    /\ daily_minted <= DAILY_MINT_LIMIT

CheckMintRateLimit(amount) ==
    /\ amount <= SINGLE_OP_LIMIT
    /\ CountInWindow(amount, 0)
    /\ daily_minted' <= DAILY_MINT_LIMIT

CheckBurnRateLimit(amount) ==
    /\ amount <= SINGLE_OP_LIMIT
    /\ CountInWindow(0, amount)
    /\ daily_burned' <= DAILY_BURN_LIMIT

\* The queries about limits and capacity store the reset they compute.
ReadLimits ==
    /\ treasury_initialized
    /\ WindowOver
    /\ CountInWindow(0, 0)
    /\ UNCHANGED <<council, ballot>>
-----------------------------------------------------------------------------
\* Slip: the ledger a proposal expires after is not looked at.
ExecutesLate(executor, id, type) ==
    /\ Signer(executor)
    /\ proposals[id].status = "Pending"
    /\ proposals[id].approval_count >= threshold
    /\ proposals[id].proposal_type = type
    /\ proposals' = [proposals EXCEPT ![id].status = "Executed"]
    /\ UNCHANGED <<proposal_count, approvals>>

\* What execute asks of a proposal of any type, and what it records.
Executes(executor, id, type) ==
    /\ Signer(executor)
    /\ proposals[id].status = "Pending"
    /\ sequence <= proposals[id].expires_at
    /\ proposals[id].approval_count >= threshold
    /\ proposals[id].proposal_type = type
    /\ proposals' = [proposals EXCEPT ![id].status = "Executed"]
    /\ UNCHANGED <<proposal_count, approvals>>

ExecuteMint(executor, id) ==
    /\ Executes(executor, id, "Mint")
    /\ CheckMintRateLimit(proposals[id].amount)
    /\ UNCHANGED council

ExecuteBurn(executor, id) ==
    /\ Executes(executor, id, "Burn")
    /\ CheckBurnRateLimit(proposals[id].amount)
    /\ UNCHANGED council

\* The amount is what the oracle answers now, not what the proposal stored.
ExecuteMintFromUsdt(executor, id, bobt) ==
    /\ Executes(executor, id, "MintFromUsdt")
    /\ oracle_address # NoOracle
    /\ CheckMintRateLimit(bobt)
    /\ UNCHANGED council

ExecuteEmergencyPause(executor, id) ==
    /\ Executes(executor, id, "EmergencyPause")
    /\ UNCHANGED <<council, limits>>

\* Whether the target is a signer by now is not asked again.
ExecuteAddSigner(executor, id) ==
    /\ Executes(executor, id, "AddSigner")
    /\ signers' = [signers EXCEPT ![proposals[id].target] = @ + 1]
    /\ UNCHANGED <<treasury_initialized, threshold, config_threshold, oracle_address, limits>>

\* Slip: a removal takes one off the threshold.
RemoveAndLower(executor, id) ==
    /\ Executes(executor, id, "RemoveSigner")
    /\ signers' = [signers EXCEPT ![proposals[id].target] = 0]
    /\ threshold' = threshold - 1
    /\ UNCHANGED <<treasury_initialized, config_threshold, oracle_address, limits>>

\* Every entry of the target goes; only the stored threshold follows.
ExecuteRemoveSigner(executor, id) ==
    /\ Executes(executor, id, "RemoveSigner")
    /\ signers' = [signers EXCEPT ![proposals[id].target] = 0]
    /\ threshold' = IF threshold > Total(signers') THEN Total(signers') ELSE threshold
    /\ UNCHANGED <<treasury_initialized, config_threshold, oracle_address, limits>>

ExecuteUpdateThreshold(executor, id) ==
    /\ Executes(executor, id, "UpdateThreshold")
    /\ threshold' = proposals[id].amount
    /\ config_threshold' = proposals[id].amount
    /\ UNCHANGED <<treasury_initialized, signers, oracle_address, limits>>

ExecuteSetOracle(executor, id) ==
    /\ Executes(executor, id, "SetOracle")
    /\ oracle_address' = proposals[id].target
    /\ UNCHANGED <<treasury_initialized, signers, threshold, config_threshold, limits>>
-----------------------------------------------------------------------------
ProposeOrdinary(proposer) ==
    \/ \E a \in Payee, n \in ProposedAmount, ref \in RequestId :
          ProposeMint(proposer, a, n, ref) \/ ProposeBurn(proposer, a, n, ref)
    \/ \E a \in SignerChange : ProposeAddSigner(proposer, a) \/ ProposeRemoveSigner(proposer, a)
    \/ \E n \in ThresholdChange : ProposeUpdateThreshold(proposer, n)
    \/ ProposeEmergencyPause(proposer)
    \/ \E a \in OracleChange : ProposeSetOracle(proposer, a)

ProposeFromUsdt(proposer) ==
    \E a \in Payee, usdt \in DepositedUsdt, ref \in RequestId, bobt \in QuotedBobt :
        ProposeMintFromUsdt(proposer, a, usdt, ref, bobt)

ExecuteWithin(executor, id) ==
    \/ ExecuteAddSigner(executor, id)
    \/ ExecuteRemoveSigner(executor, id)
    \/ ExecuteUpdateThreshold(executor, id)
    \/ ExecuteSetOracle(executor, id)

\* The steps that call no other contract.
TreasuryAlone ==
    \/ \E list \in InitialSigners, n \in InitialThreshold : InitializeTreasury(list, n)
    \/ ReadLimits
    \/ \E a \in Address :
          \/ ProposeOrdinary(a)
          \/ \E id \in 1..proposal_count :
                \/ ApproveProposal(a, id)
                \/ CancelProposal(a, id)
                \/ ExecuteWithin(a, id)

\* The steps that call the token or the oracle.
TreasuryCalls ==
    \E a \in Address :
        \/ ProposeFromUsdt(a)
        \/ \E id \in 1..proposal_count :
              \/ ExecuteMint(a, id)
              \/ ExecuteBurn(a, id)
              \/ ExecuteEmergencyPause(a, id)
              \/ \E bobt \in QuotedBobt : ExecuteMintFromUsdt(a, id, bobt)

TreasuryNext == \/ (TreasuryAlone \/ TreasuryCalls) /\ UNCHANGED sequence
                \/ CloseLedger /\ UNCHANGED treasuryVars

TreasurySpec == TreasuryInit /\ [][TreasuryNext]_<<treasuryVars, sequence>>
-----------------------------------------------------------------------------
TreasuryTypeOK ==
    /\ treasury_initialized \in BOOLEAN
    /\ signers \in [Address -> Nat]
    /\ threshold \in Nat
    /\ config_threshold \in Nat
    /\ oracle_address \in Address \cup {NoOracle}
    /\ proposal_count \in 0..MaxProposals
    /\ proposals \in [1..proposal_count -> Proposal]
    /\ approvals \subseteq (1..proposal_count) \X Address
    /\ {daily_minted, daily_burned, last_reset_ledger} \subseteq Nat

(* The stored count of a proposal is the number of distinct addresses whose *)
(* approval is on record, its proposer among them, through any mixture of   *)
(* proposing, approving, cancelling, removing and re-adding signers.        *)
ApprovalsCounted ==
    \A id \in 1..proposal_count :
        /\ proposals[id].approval_count = Cardinality(Approvers(id))
        /\ HasApproved(id, proposals[id].proposer)

(* No proposal can pass on fewer approvals than one: the threshold is zero  *)
(* only when there is no signer left to execute anything.                   *)
ThresholdPositive ==
    treasury_initialized => (threshold = 0 <=> NumSigners = 0)

(* The window's counters stay under the limits, and the burn counter counts *)
(* nothing but executed burns: a mint or a query never uses up burn room.   *)
LimitsKept ==
    /\ daily_minted <= DAILY_MINT_LIMIT
    /\ daily_burned <= DAILY_BURN_LIMIT
    /\ daily_burned <= Total([id \in {i \in 1..proposal_count :
                                        /\ proposals[i].proposal_type = "Burn"
                                        /\ proposals[i].status = "Executed"}
                               |-> proposals[id].amount])

Voting == INSTANCE Multisig WITH
    Person  <- Address,
    Motion  <- 1..MaxProposals,
    founded <- treasury_initialized,
    members <- {a \in Address : IsSigner(a)},
    enough  <- {V \in SUBSET Address : Cardinality(V) >= threshold},
    votes   <- [id \in 1..MaxProposals |-> Approvers(id)],
    outcome <- [id \in 1..MaxProposals |->
                  IF id > proposal_count THEN "unopened"
                  ELSE CASE proposals[id].status = "Pending"   -> "open"
                         [] proposals[id].status = "Executed"  -> "decided"
                         [] proposals[id].status = "Cancelled" -> "withdrawn"],
    lapsed  <- {id \in 1..proposal_count : sequence > proposals[id].expires_at}

(* The treasury keeps the promise of a multisig: whatever it executes it    *)
(* executes once, before it expires, on a quorum of distinct approvers who  *)
(* were recorded before it expired, and nothing but an executed proposal    *)
(* changes the signers or the threshold.                                    *)
ImplementsMultisig == Voting!MultisigSpec
-----------------------------------------------------------------------------
(* What propose_* checks about signers and threshold holds after execute    *)
(* too: "Invalid threshold (must be > 0 and <= signers count)", "Signer     *)
(* already exists", "Cannot remove last signer" (errors.rs:72, 76, 80), and *)
(* "Maximum number of signers" (storage.rs:26).                             *)
CouncilWellFormed ==
    treasury_initialized =>
        /\ NumSigners \in 1..MAX_SIGNERS
        /\ threshold \in 1..NumSigners
        /\ \A a \in Address : signers[a] <= 1
=============================================================================
