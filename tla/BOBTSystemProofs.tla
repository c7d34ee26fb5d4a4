-------------------------- MODULE BOBTSystemProofs --------------------------
(***************************************************************************)
(* The three contracts together: the treasury's proposals and the token's   *)
(* records tell one story, deposits are paid at the price of the moment,    *)
(* no day sees more than twice the limit, and each contract keeps beside    *)
(* the others what it promises alone: for any accounts, amounts, prices and *)
(* limits.                                                                  *)
(***************************************************************************)
EXTENDS BOBTSystem, TreasuryProofs, PriceProofs

(* The token's other callers neither make nor drop the treasury's records. *)
LEMMA TokenLeavesRecords ==
    ASSUME TokenCall
    PROVE  TreasuryMints' = TreasuryMints /\ TreasuryBurns' = TreasuryBurns /\ UNCHANGED sequence
<1>1. ASSUME NEW minter, NEW to, NEW n, NEW id, RecordedMint(minter, to, n, id),
             minter # TreasuryContract
      PROVE  /\ TreasuryMints' = TreasuryMints /\ TreasuryBurns' = TreasuryBurns
             /\ UNCHANGED sequence
  <2> PICK q : q = [to |-> to, amount |-> n, ledger |-> sequence, minter |-> minter,
                    external_ref |-> id]
    OBVIOUS
  <2>1. mint_requests' = mint_requests \cup {q} /\ UNCHANGED <<burn_requests, sequence>>
    BY <1>1 DEF RecordedMint
  <2>2. q.minter # TreasuryContract
    BY <1>1
  <2> QED
    BY <2>1, <2>2 DEF TreasuryMints, TreasuryBurns
<1>2. ASSUME NEW operator, NEW from, NEW n, NEW id, AdminBurn(operator, from, n, id),
             operator # TreasuryContract
      PROVE  /\ TreasuryMints' = TreasuryMints /\ TreasuryBurns' = TreasuryBurns
             /\ UNCHANGED sequence
  <2> PICK q : q = [from |-> from, amount |-> n, ledger |-> sequence, operator |-> operator,
                    external_ref |-> id]
    OBVIOUS
  <2>1. burn_requests' = burn_requests \cup {q} /\ UNCHANGED <<mint_requests, sequence>>
    BY <1>2 DEF AdminBurn
  <2>2. q.operator # TreasuryContract
    BY <1>2
  <2> QED
    BY <2>1, <2>2 DEF TreasuryMints, TreasuryBurns
<1>3. ASSUME UNCHANGED requests, UNCHANGED sequence
      PROVE  /\ TreasuryMints' = TreasuryMints /\ TreasuryBurns' = TreasuryBurns
             /\ UNCHANGED sequence
  BY <1>3 DEF TreasuryMints, TreasuryBurns, requests
<1>4. ASSUME NEW c \in Caller, MoveFunds(c)
      PROVE  /\ TreasuryMints' = TreasuryMints /\ TreasuryBurns' = TreasuryBurns
             /\ UNCHANGED sequence
  <2>0. c # TreasuryContract
    BY SystemAssumption
  <2> PICK a \in Party, n \in Amount :
        \/ Transfer(c, a, n)
        \/ \E b \in Party : TransferFrom(c, a, b, n)
        \/ \E x \in Expiration : Approve(c, a, n, x)
        \/ Burn(c, n)
        \/ BurnFrom(c, a, n)
        \/ \E id \in RequestId : AdminMint(c, a, n, id) \/ AdminBurn(c, a, n, id)
    BY <1>4, Zenon DEF MoveFunds
  <2>1. CASE Transfer(c, a, n) \/ Burn(c, n) \/ BurnFrom(c, a, n)
    BY <1>3, <2>1 DEF Transfer, Burn, BurnFrom
  <2>2. ASSUME NEW b \in Party, TransferFrom(c, a, b, n) PROVE UNCHANGED requests /\ UNCHANGED sequence
    BY <2>2 DEF TransferFrom
  <2>3. ASSUME NEW x \in Expiration, Approve(c, a, n, x) PROVE UNCHANGED requests /\ UNCHANGED sequence
    BY <2>3 DEF Approve
  <2>4. ASSUME NEW id \in RequestId, AdminMint(c, a, n, id) \/ AdminBurn(c, a, n, id)
        PROVE  /\ TreasuryMints' = TreasuryMints /\ TreasuryBurns' = TreasuryBurns
               /\ UNCHANGED sequence
    BY <2>0, <2>4, <1>1, <1>2 DEF AdminMint
  <2> QED
    BY <1>3, <2>1, <2>2, <2>3, <2>4
<1>5. ASSUME NEW c \in Caller, Administer(c) PROVE UNCHANGED requests /\ UNCHANGED sequence
  BY <1>5 DEF Administer, Pause, Unpause, Freeze, Unfreeze, DestroyFrozenFunds,
     TransferOwnership, GrantRole, RevokeRole
<1>6. CASE Unsigned
  <2>1. ASSUME NEW a \in Party, Initialize(a) PROVE UNCHANGED requests /\ UNCHANGED sequence
    BY <2>1 DEF Initialize
  <2>2. TokenContract # TreasuryContract
    BY SystemAssumption
  <2> QED
    BY <1>1, <1>3, <1>6, <2>1, <2>2 DEF Unsigned, LegacyMint
<1> QED
  BY <1>3, <1>4, <1>5, <1>6 DEF TokenCall
-----------------------------------------------------------------------------
\* The proposals executed so far.  They never change again.
ExecutedIds == {id \in 1..proposal_count : proposals[id].status = "Executed"}

ExecutedStand == /\ ExecutedIds' = ExecutedIds
                 /\ \A id \in ExecutedIds : proposals'[id] = proposals[id]

\* One more is executed, on the terms it was proposed on.
ExecutedOne(id) ==
    /\ id \in 1..proposal_count /\ id \notin ExecutedIds
    /\ ExecutedIds' = ExecutedIds \cup {id}
    /\ \A i \in ExecutedIds : proposals'[i] = proposals[i]
    /\ proposals'[id] = [proposals[id] EXCEPT !.status = "Executed"]

LEMMA ProposingKeepsExecuted ==
    ASSUME BallotOK, NEW type, NEW p, NEW target, NEW n, NEW usdt, NEW ref,
           NewProposal(type, p, target, n, usdt, ref)
    PROVE  ExecutedStand
<1> PICK new : new = [proposal_type |-> type, proposer |-> p, target |-> target,
                      amount |-> n, usdt_amount |-> usdt, external_ref |-> ref,
                      expires_at |-> sequence + PROPOSAL_EXPIRATION_LEDGERS,
                      approval_count |-> 1, status |-> "Pending"]
  OBVIOUS
<1>1. /\ proposal_count \in Nat /\ proposal_count' = proposal_count + 1
      /\ proposals' = [i \in 1..proposal_count + 1 |-> IF i = proposal_count + 1 THEN new ELSE proposals[i]]
  BY DEF NewProposal, BallotOK
<1>2. /\ \A i \in 1..proposal_count : proposals'[i] = proposals[i]
      /\ proposals'[proposal_count + 1].status = "Pending"
  BY <1>1
<1>3. \A i \in 1..proposal_count + 1 : i \in 1..proposal_count \/ i = proposal_count + 1
  BY <1>1
<1> QED
  BY <1>1, <1>2, <1>3 DEF ExecutedStand, ExecutedIds

\* A step on one proposal that is not executed and stays so.
LEMMA OpenKeepsExecuted ==
    ASSUME BallotOK, NEW id \in 1..proposal_count, NEW new,
           proposals' = [proposals EXCEPT ![id] = new], UNCHANGED proposal_count,
           proposals[id].status # "Executed", new.status # "Executed"
    PROVE  ExecutedStand
<1>1. /\ proposals'[id] = new
      /\ \A i \in 1..proposal_count : i # id => proposals'[i] = proposals[i]
  BY DEF BallotOK
<1> QED
  BY <1>1 DEF ExecutedStand, ExecutedIds

LEMMA VotingKeepsExecuted ==
    ASSUME BallotOK, NEW p \in Address, NEW id \in 1..proposal_count,
           ApproveProposal(p, id) \/ CancelProposal(p, id)
    PROVE  ExecutedStand
<1>1. proposals[id] \in Proposal
  BY DEF BallotOK
<1>2. CASE ApproveProposal(p, id)
  <2> PICK new : new = [proposals[id] EXCEPT !.approval_count = @ + 1]
    OBVIOUS
  <2>1. new.status = proposals[id].status
    BY <1>1 DEF Proposal
  <2>2. proposals' = [proposals EXCEPT ![id] = new] /\ UNCHANGED proposal_count
        /\ proposals[id].status = "Pending"
    BY <1>2 DEF ApproveProposal
  <2> QED
    BY <2>1, <2>2, OpenKeepsExecuted
<1>3. CASE CancelProposal(p, id)
  <2> PICK new : new = [proposals[id] EXCEPT !.status = "Cancelled"]
    OBVIOUS
  <2>1. new.status = "Cancelled"
    BY <1>1 DEF Proposal
  <2>2. proposals' = [proposals EXCEPT ![id] = new] /\ UNCHANGED proposal_count
        /\ proposals[id].status # "Executed"
    BY <1>3 DEF CancelProposal
  <2> QED
    BY <2>1, <2>2, OpenKeepsExecuted
<1> QED
  BY <1>2, <1>3

LEMMA ExecutionAddsOne ==
    ASSUME BallotOK, NEW p, NEW id \in 1..proposal_count, NEW type, Executes(p, id, type)
    PROVE  ExecutedOne(id) /\ proposals[id].proposal_type = type
<1> PICK new : new = [proposals[id] EXCEPT !.status = "Executed"]
  OBVIOUS
<1>1. proposals[id] \in Proposal
  BY DEF BallotOK
<1>2. new.status = "Executed"
  BY <1>1 DEF Proposal
<1>3. /\ proposals' = [proposals EXCEPT ![id] = new] /\ UNCHANGED proposal_count
      /\ proposals[id].status = "Pending" /\ proposals[id].proposal_type = type
  BY DEF Executes
<1>4. /\ proposals'[id] = new
      /\ \A i \in 1..proposal_count : i # id => proposals'[i] = proposals[i]
  BY <1>3 DEF BallotOK
<1>5. ExecutedIds' = ExecutedIds \cup {id} /\ id \notin ExecutedIds
  BY <1>2, <1>3, <1>4 DEF ExecutedIds
<1> QED
  BY <1>3, <1>4, <1>5 DEF ExecutedOne, ExecutedIds
-----------------------------------------------------------------------------
\* What a step does to the treasury's trail, to its executed proposals and to
\* its window: all that the properties of the composition are about.
TrailsStand == TreasuryMints' = TreasuryMints /\ TreasuryBurns' = TreasuryBurns

MintRecord(id, n) == [to |-> proposals[id].target, amount |-> n, ledger |-> sequence,
                      minter |-> TreasuryContract, external_ref |-> proposals[id].external_ref]

BurnRecord(id, n) == [from |-> proposals[id].target, amount |-> n, ledger |-> sequence,
                      operator |-> TreasuryContract, external_ref |-> proposals[id].external_ref]

PaidMint(id, n) ==
    /\ ExecutedOne(id)
    /\ proposals[id].proposal_type \in {"Mint", "MintFromUsdt"}
    /\ proposals[id].proposal_type = "Mint" => proposals[id].amount = n
    /\ proposals[id].proposal_type = "MintFromUsdt" =>
          PriceValid /\ n = UsdtToBobt(proposals[id].usdt_amount)
    /\ treasury_initialized'
    /\ CheckMintRateLimit(n)
    /\ \A r \in TreasuryMints : r.external_ref # proposals[id].external_ref
    /\ TreasuryMints' = TreasuryMints \cup {MintRecord(id, n)}
    /\ TreasuryBurns' = TreasuryBurns
    /\ UNCHANGED sequence

PaidBurn(id, n) ==
    /\ ExecutedOne(id)
    /\ proposals[id].proposal_type = "Burn"
    /\ proposals[id].amount = n
    /\ treasury_initialized'
    /\ CheckBurnRateLimit(n)
    /\ \A r \in TreasuryBurns : r.external_ref # proposals[id].external_ref
    /\ TreasuryBurns' = TreasuryBurns \cup {BurnRecord(id, n)}
    /\ TreasuryMints' = TreasuryMints
    /\ UNCHANGED sequence

\* A step that pays nothing.
BallotMoves == \/ ExecutedStand
               \/ \E id : ExecutedOne(id) /\ proposals[id].proposal_type \notin Paying

WindowMoves ==
    \/ /\ UNCHANGED limits
       /\ treasury_initialized' = treasury_initialized
       /\ sequence' \in {sequence, sequence + 1}
    \/ /\ CountInWindow(0, 0)
       /\ treasury_initialized' = treasury_initialized
       /\ UNCHANGED sequence
    \/ /\ ~treasury_initialized
       /\ last_reset_ledger' = sequence /\ daily_minted' = 0 /\ daily_burned' = 0
       /\ UNCHANGED sequence

PaysNothing == TrailsStand /\ BallotMoves /\ WindowMoves

StepKind == \/ PaysNothing
            \/ \E id \in 1..proposal_count, n \in Nat : PaidMint(id, n) \/ PaidBurn(id, n)

LEMMA PendingOnlyOpens ==
    ASSUME BallotOK, NEW id \in 1..proposal_count, NEW type, NEW p,
           Executes(p, id, type), type \notin Paying
    PROVE  BallotMoves
  BY ExecutionAddsOne DEF BallotMoves

(* The treasury's steps without the other contracts pay nothing. *)
LEMMA AloneKind ==
    ASSUME BallotOK, TreasuryAlone, UNCHANGED tokenVars
    PROVE  PaysNothing
<1>1. TrailsStand /\ UNCHANGED sequence
  BY DEF tokenVars, requests, TrailsStand, TreasuryMints, TreasuryBurns
<1>2. ASSUME ExecutedStand, UNCHANGED limits, treasury_initialized' = treasury_initialized
      PROVE  PaysNothing
  BY <1>1, <1>2, Zenon DEF PaysNothing, BallotMoves, WindowMoves
<1>3. ASSUME UNCHANGED ballot PROVE ExecutedStand
  BY <1>3 DEF ballot, ExecutedStand, ExecutedIds
<1>4. ASSUME NEW list \in InitialSigners, NEW n \in InitialThreshold,
             InitializeTreasury(list, n)
      PROVE  PaysNothing
  <2>1. UNCHANGED ballot /\ ~treasury_initialized
    BY <1>4, Zenon DEF InitializeTreasury
  <2>2. last_reset_ledger' = sequence /\ daily_minted' = 0 /\ daily_burned' = 0
    BY <1>4, Zenon DEF InitializeTreasury
  <2> QED
    BY <1>1, <1>3, <2>1, <2>2, Zenon DEF PaysNothing, BallotMoves, WindowMoves
<1>5. CASE ReadLimits
  <2>1. UNCHANGED council /\ UNCHANGED ballot /\ CountInWindow(0, 0)
    BY <1>5, Zenon DEF ReadLimits
  <2>2. treasury_initialized' = treasury_initialized
    BY <2>1, Zenon DEF council
  <2> QED
    BY <1>1, <1>3, <2>1, <2>2, Zenon DEF PaysNothing, BallotMoves, WindowMoves
<1>6. ASSUME NEW a \in Address, ProposeOrdinary(a) PROVE PaysNothing
  <2>1. PICK type, target, n, usdt, ref : NewProposal(type, a, target, n, usdt, ref)
    BY <1>6, Zenon DEF ProposeOrdinary, ProposeMint, ProposeBurn, ProposeAddSigner,
       ProposeRemoveSigner, ProposeUpdateThreshold, ProposeEmergencyPause, ProposeSetOracle
  <2>2. ExecutedStand
    BY <2>1, ProposingKeepsExecuted
  <2>3. UNCHANGED council /\ UNCHANGED limits
    BY <2>1, Zenon DEF NewProposal
  <2>4. treasury_initialized' = treasury_initialized
    BY <2>3, Zenon DEF council
  <2> QED
    BY <1>2, <2>2, <2>3, <2>4
<1>7. ASSUME NEW a \in Address, NEW id \in 1..proposal_count,
             ApproveProposal(a, id) \/ CancelProposal(a, id)
      PROVE  PaysNothing
  <2>1. UNCHANGED council /\ UNCHANGED limits
    BY <1>7, Zenon DEF ApproveProposal, CancelProposal
  <2>2. treasury_initialized' = treasury_initialized
    BY <2>1, Zenon DEF council
  <2> QED
    BY <1>2, <1>7, <2>1, <2>2, VotingKeepsExecuted
<1>8. ASSUME NEW a \in Address, NEW id \in 1..proposal_count, ExecuteWithin(a, id)
      PROVE  PaysNothing
  <2>1. PICK type : Executes(a, id, type) /\ type \notin Paying
    <3>1. \A type \in {"AddSigner", "RemoveSigner", "UpdateThreshold", "SetOracle"} : type \notin Paying
      BY DEF Paying
    <3>2. \E type \in {"AddSigner", "RemoveSigner", "UpdateThreshold", "SetOracle"} :
             Executes(a, id, type)
      BY <1>8, Zenon DEF ExecuteWithin, ExecuteAddSigner, ExecuteRemoveSigner,
         ExecuteUpdateThreshold, ExecuteSetOracle
    <3> QED
      BY <3>1, <3>2
  <2>2. UNCHANGED limits /\ treasury_initialized' = treasury_initialized
    BY <1>8, Zenon DEF ExecuteWithin, ExecuteAddSigner, ExecuteRemoveSigner,
         ExecuteUpdateThreshold, ExecuteSetOracle
  <2>3. BallotMoves
    BY <2>1, PendingOnlyOpens
  <2> QED
    BY <1>1, <2>2, <2>3, Zenon DEF PaysNothing, WindowMoves
<1> QED
  BY <1>4, <1>5, <1>6, <1>7, <1>8 DEF TreasuryAlone

(* A mint by the treasury puts one record on the trail, under a reference  *)
(* the trail did not have.                                                 *)
LEMMA MintRecorded ==
    ASSUME NEW id, NEW n,
           AdminMint(TreasuryContract, proposals[id].target, n, proposals[id].external_ref)
    PROVE  /\ \A r \in TreasuryMints : r.external_ref # proposals[id].external_ref
           /\ TreasuryMints' = TreasuryMints \cup {MintRecord(id, n)}
           /\ TreasuryBurns' = TreasuryBurns
           /\ UNCHANGED sequence
<1> PICK q : q = MintRecord(id, n)
  OBVIOUS
<1>1. mint_requests' = mint_requests \cup {q} /\ UNCHANGED <<burn_requests, sequence>>
  BY DEF AdminMint, RecordedMint, MintRecord
<1>2. q.minter = TreasuryContract
  BY DEF MintRecord
<1>3. \A r \in mint_requests : r.external_ref # proposals[id].external_ref
  BY DEF AdminMint, RecordedMint, MintRequestExists
<1> QED
  BY <1>1, <1>2, <1>3 DEF TreasuryMints, TreasuryBurns

LEMMA BurnRecorded ==
    ASSUME NEW id, NEW n,
           AdminBurn(TreasuryContract, proposals[id].target, n, proposals[id].external_ref)
    PROVE  /\ \A r \in TreasuryBurns : r.external_ref # proposals[id].external_ref
           /\ TreasuryBurns' = TreasuryBurns \cup {BurnRecord(id, n)}
           /\ TreasuryMints' = TreasuryMints
           /\ UNCHANGED sequence
<1> PICK q : q = BurnRecord(id, n)
  OBVIOUS
<1>1. burn_requests' = burn_requests \cup {q} /\ UNCHANGED <<mint_requests, sequence>>
  BY DEF AdminBurn, BurnRecord
<1>2. q.operator = TreasuryContract
  BY DEF BurnRecord
<1>3. \A r \in burn_requests : r.external_ref # proposals[id].external_ref
  BY DEF AdminBurn, BurnRequestExists
<1> QED
  BY <1>1, <1>2, <1>3 DEF TreasuryMints, TreasuryBurns
-----------------------------------------------------------------------------
(* What the oracle answers is a number of units. *)
LEMMA AnswerNatural ==
    ASSUME OracleInv, NEW usdt \in Nat PROVE UsdtToBobt(usdt) \in Nat
<1> PICK b : b = aggregated.bid
  OBVIOUS
<1>1. b \in Nat
  BY DEF OracleInv, PricesOK, Aggregate
<1>2. usdt * b \in Nat
  BY <1>1
<1> PICK w : w = usdt * b
  OBVIOUS
<1>3. ONE_UNIT \in Nat /\ ONE_UNIT > 0
  BY PriceConstants
<1>4. w \div ONE_UNIT \in Nat
  BY <1>2, <1>3
<1> QED
  BY <1>4 DEF UsdtToBobt

LEMMA DepositsNatural ==
    ASSUME BallotOK, NEW id \in 1..proposal_count
    PROVE  proposals[id].usdt_amount \in Nat
  BY DEF BallotOK, Proposal

\* What every step of the three keeps.
SystemTypes == TreasuryInv /\ OracleInv

LEMMA TokenStepKind ==
    ASSUME TokenOnly PROVE PaysNothing
<1>1. TrailsStand /\ UNCHANGED sequence
  BY TokenLeavesRecords DEF TokenOnly, TrailsStand
<1>2. UNCHANGED council /\ UNCHANGED ballot /\ UNCHANGED limits
  BY Zenon DEF TokenOnly, treasuryVars
<1>3. ExecutedStand
  BY <1>2 DEF ballot, ExecutedStand, ExecutedIds
<1>4. treasury_initialized' = treasury_initialized
  BY <1>2, Zenon DEF council
<1> QED
  BY <1>1, <1>2, <1>3, <1>4, Zenon DEF PaysNothing, BallotMoves, WindowMoves

(* The treasury's and the oracle's variables as steps of the others leave them. *)
LEMMA OracleKept == ASSUME OracleInv, ElsewhereUnchanged PROVE OracleInv'
  BY OracleStepInv, Zenon DEF ElsewhereUnchanged

LEMMA TreasuryKept == ASSUME TreasuryInv, UNCHANGED treasuryVars, sequence' \in Nat PROVE TreasuryInv'
<1>1. UNCHANGED council /\ UNCHANGED ballot /\ UNCHANGED limits
  BY Zenon DEF treasuryVars
<1> QED
  BY <1>1, BallotKept, CouncilKept, LimitsStay DEF TreasuryInv

(* Approved mints, of either type, and burns pay what the step counts. *)
LEMMA MintPays ==
    ASSUME TreasuryInv, NEW a \in Address, NEW id \in 1..proposal_count, NEW n \in Nat,
           NEW type \in {"Mint", "MintFromUsdt"}, Executes(a, id, type),
           type = "Mint" => proposals[id].amount = n,
           type = "MintFromUsdt" => PriceValid /\ n = UsdtToBobt(proposals[id].usdt_amount),
           CheckMintRateLimit(n), UNCHANGED council,
           AdminMint(TreasuryContract, proposals[id].target, n, proposals[id].external_ref)
    PROVE  TreasuryInv' /\ PaidMint(id, n)
<1> USE DEF TreasuryInv
<1>1. ExecutedOne(id) /\ proposals[id].proposal_type = type
  BY ExecutionAddsOne
<1>2. BallotOK' /\ CouncilOK'
  BY ExecutesKeepsBallot, CouncilKept
<1>3. LimitsOK'
  BY CountKeepsLimits DEF CheckMintRateLimit
<1>4. treasury_initialized'
  <2>1. treasury_initialized
    BY Zenon DEF Executes, Signer
  <2>2. treasury_initialized' = treasury_initialized
    BY Zenon DEF council
  <2> QED
    BY <2>1, <2>2, Zenon
<1>5. /\ \A r \in TreasuryMints : r.external_ref # proposals[id].external_ref
      /\ TreasuryMints' = TreasuryMints \cup {MintRecord(id, n)}
      /\ TreasuryBurns' = TreasuryBurns
      /\ UNCHANGED sequence
  BY MintRecorded, Zenon
<1> QED
  BY <1>1, <1>2, <1>3, <1>4, <1>5, Zenon DEF PaidMint

LEMMA BurnPays ==
    ASSUME TreasuryInv, NEW a \in Address, NEW id \in 1..proposal_count, NEW n \in Nat,
           Executes(a, id, "Burn"), proposals[id].amount = n,
           CheckBurnRateLimit(n), UNCHANGED council,
           AdminBurn(TreasuryContract, proposals[id].target, n, proposals[id].external_ref)
    PROVE  TreasuryInv' /\ PaidBurn(id, n)
<1> USE DEF TreasuryInv
<1>1. ExecutedOne(id) /\ proposals[id].proposal_type = "Burn"
  BY ExecutionAddsOne
<1>2. BallotOK' /\ CouncilOK'
  BY ExecutesKeepsBallot, CouncilKept
<1>3. LimitsOK'
  BY CountKeepsLimits DEF CheckBurnRateLimit
<1>4. treasury_initialized'
  <2>1. treasury_initialized
    BY Zenon DEF Executes, Signer
  <2>2. treasury_initialized' = treasury_initialized
    BY Zenon DEF council
  <2> QED
    BY <2>1, <2>2, Zenon
<1>5. /\ \A r \in TreasuryBurns : r.external_ref # proposals[id].external_ref
      /\ TreasuryBurns' = TreasuryBurns \cup {BurnRecord(id, n)}
      /\ TreasuryMints' = TreasuryMints
      /\ UNCHANGED sequence
  BY BurnRecorded, Zenon
<1> QED
  BY <1>1, <1>2, <1>3, <1>4, <1>5, Zenon DEF PaidBurn

(* The calls between the contracts. *)
LEMMA CallsKind ==
    ASSUME SystemTypes, ContractCalls
    PROVE  SystemTypes' /\ StepKind
<1> USE DEF SystemTypes
<1>1. PICK a \in Address :
        \/ QuoteDeposit(a)
        \/ \E id \in 1..proposal_count :
              PayMint(a, id) \/ PayBurn(a, id) \/ PauseToken(a, id) \/ PayDeposit(a, id)
  BY DEF ContractCalls
<1>2. TreasuryInv /\ BallotOK /\ CouncilOK /\ LimitsOK /\ sequence \in Nat
  BY DEF TreasuryInv
<1>3. ASSUME ElsewhereUnchanged, TreasuryInv', StepKind
      PROVE  SystemTypes' /\ StepKind
  BY <1>3, OracleKept
<1>4. CASE QuoteDeposit(a)
  <2>1. PICK to \in Payee, usdt \in DepositedUsdt, ref \in RequestId :
           ProposeMintFromUsdt(a, to, usdt, ref, UsdtToBobt(usdt))
    BY <1>4 DEF QuoteDeposit
  <2> PICK n : n = UsdtToBobt(usdt)
    OBVIOUS
  <2>2. /\ NewProposal("MintFromUsdt", a, to, n, usdt, ref)
        /\ usdt \in Nat /\ to \in Address /\ "MintFromUsdt" \in ProposalType
    BY <2>1, TreasuryAssumption DEF ProposeMintFromUsdt, ProposalType
  <2>3. n \in Nat
    BY <2>2, AnswerNatural
  <2>4. UNCHANGED council /\ UNCHANGED limits
    BY <2>2, Zenon DEF NewProposal
  <2>5. UNCHANGED tokenVars /\ ElsewhereUnchanged
    BY <1>4, Zenon DEF QuoteDeposit
  <2>6. UNCHANGED sequence /\ TrailsStand
    BY <2>5 DEF tokenVars, requests, TrailsStand, TreasuryMints, TreasuryBurns
  <2>7. TreasuryInv'
    BY <1>2, <2>1, <2>2, <2>3, <2>4, <2>6, ProposeKeepsBallot, CouncilKept, LimitsStay
       DEF TreasuryInv
  <2>8. ExecutedStand
    BY <1>2, <2>2, ProposingKeepsExecuted
  <2>9. treasury_initialized' = treasury_initialized
    BY <2>4, Zenon DEF council
  <2>10. PaysNothing
    BY <2>4, <2>6, <2>8, <2>9, Zenon DEF PaysNothing, BallotMoves, WindowMoves
  <2> QED
    BY <1>3, <2>5, <2>7, <2>10 DEF StepKind
<1>5. ASSUME NEW id \in 1..proposal_count, PayMint(a, id)
      PROVE  SystemTypes' /\ StepKind
  <2> PICK n : n = proposals[id].amount
    OBVIOUS
  <2>1. /\ Executes(a, id, "Mint") /\ CheckMintRateLimit(n) /\ UNCHANGED council
        /\ AdminMint(TreasuryContract, proposals[id].target, n, proposals[id].external_ref)
        /\ ElsewhereUnchanged
    BY <1>5, Zenon DEF PayMint, ExecuteMint
  <2>2. n \in Nat
    BY <1>2, AmountsNatural
  <2>3. TreasuryInv' /\ PaidMint(id, n)
    BY <1>2, <2>1, <2>2, MintPays
  <2> QED
    BY <1>3, <2>1, <2>2, <2>3 DEF StepKind
<1>6. ASSUME NEW id \in 1..proposal_count, PayBurn(a, id)
      PROVE  SystemTypes' /\ StepKind
  <2> PICK n : n = proposals[id].amount
    OBVIOUS
  <2>1. /\ Executes(a, id, "Burn") /\ CheckBurnRateLimit(n) /\ UNCHANGED council
        /\ AdminBurn(TreasuryContract, proposals[id].target, n, proposals[id].external_ref)
        /\ ElsewhereUnchanged
    BY <1>6, Zenon DEF PayBurn, ExecuteBurn
  <2>2. n \in Nat
    BY <1>2, AmountsNatural
  <2>3. TreasuryInv' /\ PaidBurn(id, n)
    BY <1>2, <2>1, <2>2, BurnPays
  <2> QED
    BY <1>3, <2>1, <2>2, <2>3 DEF StepKind
<1>7. ASSUME NEW id \in 1..proposal_count, PayDeposit(a, id)
      PROVE  SystemTypes' /\ StepKind
  <2> PICK n : n = UsdtToBobt(proposals[id].usdt_amount)
    OBVIOUS
  <2>1. /\ Executes(a, id, "MintFromUsdt") /\ CheckMintRateLimit(n) /\ UNCHANGED council
        /\ AdminMint(TreasuryContract, proposals[id].target, n, proposals[id].external_ref)
        /\ ElsewhereUnchanged /\ PriceValid
    BY <1>7, Zenon DEF PayDeposit, OracleAnswers, ExecuteMintFromUsdt
  <2>2. n \in Nat
    BY <1>2, DepositsNatural, AnswerNatural
  <2>3. TreasuryInv' /\ PaidMint(id, n)
    BY <1>2, <2>1, <2>2, MintPays
  <2> QED
    BY <1>3, <2>1, <2>2, <2>3 DEF StepKind
<1>8. ASSUME NEW id \in 1..proposal_count, PauseToken(a, id)
      PROVE  SystemTypes' /\ StepKind
  <2>1. /\ Executes(a, id, "EmergencyPause") /\ UNCHANGED council /\ UNCHANGED limits
        /\ ElsewhereUnchanged
    BY <1>8, Zenon DEF PauseToken, ExecuteEmergencyPause
  <2>2. UNCHANGED requests /\ UNCHANGED sequence
    BY <1>8, Zenon DEF PauseToken, Pause
  <2>3. TrailsStand
    BY <2>2 DEF requests, TrailsStand, TreasuryMints, TreasuryBurns
  <2>4. BallotMoves
    BY <1>2, <2>1, PendingOnlyOpens DEF Paying
  <2>5. treasury_initialized' = treasury_initialized
    BY <2>1, Zenon DEF council
  <2>6. PaysNothing
    BY <2>1, <2>2, <2>3, <2>4, <2>5, Zenon DEF PaysNothing, WindowMoves
  <2>7. TreasuryInv'
    BY <1>2, <2>1, <2>2, ExecutesKeepsBallot, CouncilKept, LimitsStay DEF TreasuryInv
  <2> QED
    BY <1>3, <2>1, <2>6, <2>7 DEF StepKind
<1> QED
  BY <1>1, <1>4, <1>5, <1>6, <1>7, <1>8

LEMMA SystemStep ==
    ASSUME SystemTypes, [SystemNext]_systemVars
    PROVE  SystemTypes' /\ StepKind
<1> USE DEF SystemTypes
<1>0. TreasuryInv /\ BallotOK /\ sequence \in Nat /\ OracleInv
  BY DEF TreasuryInv
<1>1. CASE ContractCalls
  BY <1>1, CallsKind
<1>2. CASE TokenOnly
  <2>1. UNCHANGED treasuryVars /\ ElsewhereUnchanged
    BY <1>2, Zenon DEF TokenOnly
  <2>2. UNCHANGED sequence
    BY <1>2, TokenLeavesRecords DEF TokenOnly
  <2> QED
    BY <1>0, <1>2, <2>1, <2>2, TokenStepKind, OracleKept, TreasuryKept DEF StepKind
<1>3. CASE TreasuryOnly
  <2>1. TreasuryAlone /\ UNCHANGED tokenVars /\ ElsewhereUnchanged
    BY <1>3, Zenon DEF TreasuryOnly
  <2>2. UNCHANGED sequence
    BY <2>1 DEF tokenVars
  <2>3. TreasuryInv'
    BY <1>0, <2>1, <2>2, AloneStep DEF TreasuryInv
  <2> QED
    BY <1>0, <2>1, <2>3, AloneKind, OracleKept DEF StepKind
<1>4. ASSUME UNCHANGED treasuryVars, UNCHANGED requests, sequence' \in {sequence, sequence + 1}
      PROVE  TreasuryInv' /\ StepKind
  <2>1. sequence' \in Nat
    BY <1>0, <1>4
  <2>2. UNCHANGED council /\ UNCHANGED ballot /\ UNCHANGED limits
    BY <1>4, Zenon DEF treasuryVars
  <2>3. treasury_initialized' = treasury_initialized
    BY <2>2, Zenon DEF council
  <2>4. ExecutedStand
    BY <2>2 DEF ballot, ExecutedStand, ExecutedIds
  <2>5. TrailsStand
    BY <1>4 DEF requests, TrailsStand, TreasuryMints, TreasuryBurns
  <2>6. PaysNothing
    BY <1>4, <2>2, <2>3, <2>4, <2>5, Zenon DEF PaysNothing, BallotMoves, WindowMoves
  <2> QED
    BY <1>0, <1>4, <2>1, <2>6, TreasuryKept DEF StepKind
<1>5. CASE OracleOnly
  <2>1. OracleStep /\ UNCHANGED now /\ UNCHANGED tokenVars /\ UNCHANGED treasuryVars
    BY <1>5, Zenon DEF OracleOnly
  <2>2. UNCHANGED requests /\ UNCHANGED sequence
    BY <2>1 DEF tokenVars
  <2>3. OracleInv'
    BY <1>0, <2>1, OracleStepInv, Zenon DEF OracleNext
  <2> QED
    BY <1>4, <2>1, <2>2, <2>3
<1>6. CASE NextLedger
  <2>1. CloseLedger /\ UNCHANGED requests /\ PassTime /\ UNCHANGED treasuryVars
        /\ UNCHANGED oracleVars
    BY <1>6, Zenon DEF NextLedger, TokenCloseLedger
  <2>2. sequence' = sequence + 1
    BY <2>1 DEF CloseLedger
  <2>3. OracleInv'
    BY <1>0, <2>1, OracleStepInv, Zenon DEF OracleNext
  <2> QED
    BY <1>4, <2>1, <2>2, <2>3
<1>7. CASE UNCHANGED systemVars
  <2>1. UNCHANGED treasuryVars /\ UNCHANGED tokenVars /\ ElsewhereUnchanged
    BY <1>7, Zenon DEF systemVars, ElsewhereUnchanged
  <2>2. UNCHANGED requests /\ UNCHANGED sequence
    BY <2>1 DEF tokenVars
  <2> QED
    BY <1>0, <1>4, <2>1, <2>2, OracleKept
<1> QED
  BY <1>1, <1>2, <1>3, <1>5, <1>6, <1>7, Zenon DEF SystemNext

LEMMA SystemStarts == SystemInit => SystemTypes
  BY TreasuryInitInv, OracleInitInv DEF SystemInit, SystemTypes

(* What the treasury and the oracle keep alone they keep together: each step   *)
(* of the three is for each of them a step of its own, or none.             *)
THEOREM SystemInvariant == SystemSpec => []SystemTypes
<1>1. SystemTypes /\ [SystemNext]_systemVars => SystemTypes'
  BY SystemStep
<1> QED
  BY <1>1, SystemStarts, PTL DEF SystemSpec
-----------------------------------------------------------------------------
(* The executed proposals of some types, step by step. *)
LEMMA SettledStand ==
    ASSUME NEW T, ExecutedStand PROVE Settled(T)' = Settled(T)
<1>1. Settled(T) = {id \in ExecutedIds : proposals[id].proposal_type \in T}
  BY DEF Settled, ExecutedIds
<1>2. Settled(T)' = {id \in ExecutedIds' : proposals'[id].proposal_type \in T}
  BY DEF Settled, ExecutedIds
<1> QED
  BY <1>1, <1>2 DEF ExecutedStand

LEMMA SettledOne ==
    ASSUME BallotOK, NEW T, NEW id, ExecutedOne(id)
    PROVE  /\ id \notin Settled(T)
           /\ proposals[id].proposal_type \in T => Settled(T)' = Settled(T) \cup {id}
           /\ proposals[id].proposal_type \notin T => Settled(T)' = Settled(T)
           /\ \A i \in Settled(T) : proposals'[i] = proposals[i]
           /\ proposals'[id] = [proposals[id] EXCEPT !.status = "Executed"]
           /\ proposals'[id].proposal_type = proposals[id].proposal_type
<1>1. Settled(T) = {i \in ExecutedIds : proposals[i].proposal_type \in T}
  BY DEF Settled, ExecutedIds
<1>2. Settled(T)' = {i \in ExecutedIds' : proposals'[i].proposal_type \in T}
  BY DEF Settled, ExecutedIds
<1>3. proposals[id] \in Proposal
  BY DEF ExecutedOne, BallotOK
<1>4. /\ proposals'[id] = [proposals[id] EXCEPT !.status = "Executed"]
      /\ proposals'[id].proposal_type = proposals[id].proposal_type
  BY <1>3 DEF ExecutedOne, Proposal
<1> QED
  BY <1>1, <1>2, <1>4 DEF ExecutedOne

LEMMA NothingSettled ==
    ASSUME BallotOK, BallotMoves, NEW T \in SUBSET Paying
    PROVE  /\ Settled(T)' = Settled(T)
           /\ \A i \in Settled(T) : proposals'[i] = proposals[i]
<1>1. CASE ExecutedStand
  BY <1>1, SettledStand DEF ExecutedStand, Settled, ExecutedIds
<1>2. ASSUME NEW id, ExecutedOne(id), proposals[id].proposal_type \notin Paying
      PROVE  /\ Settled(T)' = Settled(T)
             /\ \A i \in Settled(T) : proposals'[i] = proposals[i]
  BY <1>2, SettledOne
<1> QED
  BY <1>1, <1>2 DEF BallotMoves
-----------------------------------------------------------------------------
(* execute of a MintFromUsdt proposal (treasury lib.rs:726-747) asks the     *)
(* oracle again: what is minted is the worth of the deposit at the price of *)
(* that moment, rounded down, and that price is no older than the oracle's  *)
(* limit.                                                                   *)
THEOREM SystemDepositPaidAtPrice == SystemSpec => DepositPaidAtPrice
<1> DEFINE Paid(id, r) ==
        LET worth == proposals[id].usdt_amount * aggregated.bid IN
        /\ now - aggregated.timestamp \in 0..MAX_PRICE_AGE_SECS
        /\ r.amount * ONE_UNIT <= worth
        /\ worth < (r.amount + 1) * ONE_UNIT
    AllPaid ==
        \A id \in Settled({"MintFromUsdt"})' \ Settled({"MintFromUsdt"}) :
            \E r \in TreasuryMints' \ TreasuryMints : Paid(id, r)
<1>1. SystemTypes /\ [SystemNext]_systemVars => AllPaid
  <2> SUFFICES ASSUME SystemTypes, [SystemNext]_systemVars PROVE AllPaid
    OBVIOUS
  <2>0. BallotOK /\ OracleInv
    BY DEF SystemTypes, TreasuryInv
  <2> DEFINE T == {"MintFromUsdt"}
  <2>1. StepKind
    BY SystemStep
  <2>2. CASE PaysNothing
    <3>1. T \in SUBSET Paying
      BY DEF Paying
    <3> QED
      BY <2>0, <2>2, <3>1, NothingSettled DEF PaysNothing
  <2>3. ASSUME NEW id \in 1..proposal_count, NEW n \in Nat, PaidBurn(id, n) PROVE AllPaid
    BY <2>0, <2>3, SettledOne DEF PaidBurn
  <2>4. ASSUME NEW id \in 1..proposal_count, NEW n \in Nat, PaidMint(id, n) PROVE AllPaid
    <3>1. CASE proposals[id].proposal_type \notin T
      BY <2>0, <2>4, <3>1, SettledOne DEF PaidMint
    <3>2. CASE proposals[id].proposal_type \in T
      <4> PICK r : r = MintRecord(id, n)
        OBVIOUS
      <4> PICK usdt : usdt = proposals[id].usdt_amount
        OBVIOUS
      <4> PICK b : b = aggregated.bid
        OBVIOUS
      <4>1. r \in TreasuryMints' \ TreasuryMints /\ r.amount = n
        BY <2>4 DEF PaidMint, MintRecord
      <4>2. Settled(T)' = Settled(T) \cup {id}
        BY <2>0, <2>4, <3>2, SettledOne DEF PaidMint
      <4>3. /\ PriceValid /\ n = UsdtToBobt(usdt)
        BY <2>4, <3>2 DEF PaidMint
      <4>4. now - aggregated.timestamp \in 0..MAX_PRICE_AGE_SECS
        BY <2>0, <4>3, PriceConstants DEF PriceValid, OracleInv, PricesOK, Aggregate
      <4>5. usdt \in Nat /\ b \in Nat
        BY <2>0, DepositsNatural DEF OracleInv, PricesOK, Aggregate
      <4> PICK worth : worth = usdt * b
        OBVIOUS
      <4>6. worth \in Int
        BY <4>5
      <4>7. n * ONE_UNIT <= worth /\ worth < (n + 1) * ONE_UNIT
        <5>1. n = worth \div ONE_UNIT
          BY <4>3 DEF UsdtToBobt
        <5>2. ONE_UNIT \in Nat /\ ONE_UNIT > 0
          BY PriceConstants
        <5>3. n * ONE_UNIT <= worth
          BY <4>6, <5>1, <5>2, Quotient
        <5>4. worth < (n + 1) * ONE_UNIT
          BY <4>6, <5>1, <5>2
        <5> QED
          BY <5>3, <5>4
      <4>8. Paid(id, r)
        BY <4>1, <4>4, <4>7
      <4> QED
        BY <4>1, <4>2, <4>8
    <3> QED
      BY <3>1, <3>2
  <2> QED
    BY <2>1, <2>2, <2>3, <2>4 DEF StepKind
<1> QED
  BY <1>1, SystemInvariant, PTL DEF SystemSpec, DepositPaidAtPrice
-----------------------------------------------------------------------------
\* S and R correspond one to one under A, a set of pairs.
OneToOne(S, R, A) ==
    /\ IsFiniteSet(R)
    /\ A \in SUBSET (S \X R)
    /\ \A r \in R : \E s \in S : <<s, r>> \in A /\ \A t \in S : <<t, r>> \in A => t = s
    /\ \A s \in S : \E r \in R : <<s, r>> \in A /\ \A q \in R : <<s, q>> \in A => q = r

LEMMA OneToOneGrows ==
    ASSUME NEW S, NEW R, NEW A, OneToOne(S, R, A), NEW x, x \notin S, NEW y, y \notin R,
           NEW B \in SUBSET ((S \cup {x}) \X (R \cup {y})), <<x, y>> \in B,
           \A s \in S, r \in R : <<s, r>> \in B <=> <<s, r>> \in A,
           \A s \in S : <<s, y>> \notin B,
           \A r \in R : <<x, r>> \notin B
    PROVE  OneToOne(S \cup {x}, R \cup {y}, B)
<1>1. IsFiniteSet(R \cup {y})
  BY FS_AddElement DEF OneToOne
<1>2. ASSUME NEW r \in R \cup {y}
      PROVE  \E s \in S \cup {x} : <<s, r>> \in B /\ \A t \in S \cup {x} : <<t, r>> \in B => t = s
  <2>1. CASE r = y
    BY <2>1
  <2>2. CASE r \in R
    <3>1. PICK s \in S : <<s, r>> \in A /\ \A t \in S : <<t, r>> \in A => t = s
      BY <2>2 DEF OneToOne
    <3> QED
      BY <2>2, <3>1
  <2> QED
    BY <2>1, <2>2
<1>3. ASSUME NEW s \in S \cup {x}
      PROVE  \E r \in R \cup {y} : <<s, r>> \in B /\ \A q \in R \cup {y} : <<s, q>> \in B => q = r
  <2>1. CASE s = x
    BY <2>1
  <2>2. CASE s \in S
    <3>1. PICK r \in R : <<s, r>> \in A /\ \A q \in R : <<s, q>> \in A => q = r
      BY <2>2 DEF OneToOne
    <3> QED
      BY <2>2, <3>1
  <2> QED
    BY <2>1, <2>2
<1> QED
  BY <1>1, <1>2, <1>3 DEF OneToOne

LEMMA OneToOneCounts ==
    ASSUME NEW S, NEW R, NEW A, OneToOne(S, R, A)
    PROVE  /\ Cardinality(S) = Cardinality(R)
           /\ \A r \in R : Cardinality({s \in S : <<s, r>> \in A}) = 1
<1>1. Cardinality(S) = Cardinality(R)
  <2> DEFINE f == [r \in R |-> CHOOSE s \in S : <<s, r>> \in A]
  <2>1. \A r \in R : f[r] \in S /\ <<f[r], r>> \in A
    BY DEF OneToOne
  <2>2. \A s \in S : \E r \in R : f[r] = s
    <3> SUFFICES ASSUME NEW s \in S PROVE \E r \in R : f[r] = s
      OBVIOUS
    <3>1. PICK r \in R : <<s, r>> \in A
      BY DEF OneToOne
    <3>2. f[r] = s
      BY <2>1, <3>1 DEF OneToOne
    <3> QED
      BY <3>2
  <2>3. \A q, r \in R : f[q] = f[r] => q = r
    BY <2>1 DEF OneToOne
  <2>4. f \in [R -> S]
    BY <2>1
  <2>5. f \in Bijection(R, S)
    <3> HIDE DEF f
    <3> QED
      BY <2>2, <2>3, <2>4 DEF Bijection, Injection, Surjection, IsInjective
  <2>6. ExistsBijection(R, S)
    BY <2>5 DEF ExistsBijection
  <2> QED
    BY <2>6, FS_Bijection DEF OneToOne
<1>2. ASSUME NEW r \in R PROVE Cardinality({s \in S : <<s, r>> \in A}) = 1
  <2>1. PICK s \in S : <<s, r>> \in A /\ \A t \in S : <<t, r>> \in A => t = s
    BY DEF OneToOne
  <2>2. {t \in S : <<t, r>> \in A} = {s}
    BY <2>1
  <2>3. Cardinality({s}) = 1
    BY FS_Singleton
  <2> QED
    BY <2>2, <2>3
<1> QED
  BY <1>1, <1>2

\* The order a record of the trail stands for.
MintFits(p, r) == /\ p.external_ref = r.external_ref
                  /\ p.target = r.to
                  /\ p.proposal_type = "Mint" => p.amount = r.amount

BurnFits(p, r) == /\ p.external_ref = r.external_ref
                  /\ p.target = r.from
                  /\ p.amount = r.amount

MintOrderIds == Settled({"Mint", "MintFromUsdt"})
BurnOrderIds == Settled({"Burn"})

MintPairs == {a \in MintOrderIds \X TreasuryMints : MintFits(proposals[a[1]], a[2])}
BurnPairs == {a \in BurnOrderIds \X TreasuryBurns : BurnFits(proposals[a[1]], a[2])}

\* The references make the correspondence inductive: they are what a new record
\* must not share with the trail.
TrailMatches == /\ OneToOne(MintOrderIds, TreasuryMints, MintPairs)
                /\ OneToOne(BurnOrderIds, TreasuryBurns, BurnPairs)

LEMMA MintsStand ==
    ASSUME OneToOne(MintOrderIds, TreasuryMints, MintPairs),
           TreasuryMints' = TreasuryMints, MintOrderIds' = MintOrderIds,
           \A i \in MintOrderIds : proposals'[i] = proposals[i]
    PROVE  OneToOne(MintOrderIds, TreasuryMints, MintPairs)'
<1>1. MintPairs' = {a \in MintOrderIds \X TreasuryMints : MintFits(proposals'[a[1]], a[2])}
  BY DEF MintPairs, MintFits
<1>2. MintPairs' = MintPairs
  BY <1>1 DEF MintPairs
<1>3. OneToOne(MintOrderIds', TreasuryMints', MintPairs')
  BY <1>2
<1> QED
  BY <1>3 DEF OneToOne

LEMMA BurnsAlsoStand ==
    ASSUME OneToOne(BurnOrderIds, TreasuryBurns, BurnPairs),
           TreasuryBurns' = TreasuryBurns, BurnOrderIds' = BurnOrderIds,
           \A i \in BurnOrderIds : proposals'[i] = proposals[i]
    PROVE  OneToOne(BurnOrderIds, TreasuryBurns, BurnPairs)'
<1>1. BurnPairs' = {a \in BurnOrderIds \X TreasuryBurns : BurnFits(proposals'[a[1]], a[2])}
  BY DEF BurnPairs, BurnFits
<1>2. BurnPairs' = BurnPairs
  BY <1>1 DEF BurnPairs
<1>3. OneToOne(BurnOrderIds', TreasuryBurns', BurnPairs')
  BY <1>2
<1> QED
  BY <1>3 DEF OneToOne

LEMMA MintMatches ==
    ASSUME BallotOK, OneToOne(MintOrderIds, TreasuryMints, MintPairs),
           NEW id \in 1..proposal_count, NEW n \in Nat, PaidMint(id, n)
    PROVE  OneToOne(MintOrderIds, TreasuryMints, MintPairs)'
<1> PICK q : q = MintRecord(id, n)
  OBVIOUS
<1> PICK p : p = proposals[id]
  OBVIOUS
<1>1. /\ id \notin MintOrderIds /\ MintOrderIds' = MintOrderIds \cup {id}
      /\ \A i \in MintOrderIds : proposals'[i] = proposals[i]
      /\ proposals'[id] = [p EXCEPT !.status = "Executed"]
  BY SettledOne DEF PaidMint, MintOrderIds
<1>2. /\ q.external_ref = p.external_ref /\ q.to = p.target /\ q.amount = n
      /\ TreasuryMints' = TreasuryMints \cup {q}
      /\ \A r \in TreasuryMints : r.external_ref # p.external_ref
      /\ p.proposal_type = "Mint" => p.amount = n
  BY DEF MintRecord, PaidMint
<1>3. p \in Proposal
  BY DEF BallotOK
<1> PICK new : new = proposals'[id]
  OBVIOUS
<1>4. /\ new.external_ref = p.external_ref /\ new.target = p.target
      /\ new.proposal_type = p.proposal_type /\ new.amount = p.amount
  BY <1>1, <1>3 DEF Proposal
<1>5. MintPairs' = {a \in MintOrderIds' \X TreasuryMints' : MintFits(proposals'[a[1]], a[2])}
  BY DEF MintPairs, MintFits
<1>6. q \notin TreasuryMints
  BY <1>2
<1>7. <<id, q>> \in MintPairs'
  BY <1>1, <1>2, <1>4, <1>5 DEF MintFits
<1>8. \A s \in MintOrderIds, r \in TreasuryMints : <<s, r>> \in MintPairs' <=> <<s, r>> \in MintPairs
  BY <1>1, <1>2, <1>5 DEF MintPairs
<1>9. \A s \in MintOrderIds : <<s, q>> \notin MintPairs'
  <2> SUFFICES ASSUME NEW s \in MintOrderIds PROVE <<s, q>> \notin MintPairs'
    OBVIOUS
  <2>1. PICK r \in TreasuryMints : <<s, r>> \in MintPairs
    BY DEF OneToOne
  <2>2. proposals[s].external_ref = r.external_ref
    BY <2>1 DEF MintPairs, MintFits
  <2>3. proposals'[s].external_ref # q.external_ref
    BY <1>1, <1>2, <2>1, <2>2
  <2> QED
    BY <1>5, <2>3 DEF MintFits
<1>10. \A r \in TreasuryMints : <<id, r>> \notin MintPairs'
  BY <1>2, <1>4, <1>5 DEF MintFits
<1>11. MintPairs' \in SUBSET ((MintOrderIds \cup {id}) \X (TreasuryMints \cup {q}))
  BY <1>1, <1>2, <1>5
<1>12. OneToOne(MintOrderIds \cup {id}, TreasuryMints \cup {q}, MintPairs')
  BY <1>1, <1>6, <1>7, <1>8, <1>9, <1>10, <1>11, OneToOneGrows
<1>13. OneToOne(MintOrderIds', TreasuryMints', MintPairs')
  BY <1>1, <1>2, <1>12
<1> QED
  BY <1>13 DEF OneToOne

LEMMA BurnMatches ==
    ASSUME BallotOK, OneToOne(BurnOrderIds, TreasuryBurns, BurnPairs),
           NEW id \in 1..proposal_count, NEW n \in Nat, PaidBurn(id, n)
    PROVE  OneToOne(BurnOrderIds, TreasuryBurns, BurnPairs)'
<1> PICK q : q = BurnRecord(id, n)
  OBVIOUS
<1> PICK p : p = proposals[id]
  OBVIOUS
<1>1. /\ id \notin BurnOrderIds /\ BurnOrderIds' = BurnOrderIds \cup {id}
      /\ \A i \in BurnOrderIds : proposals'[i] = proposals[i]
      /\ proposals'[id] = [p EXCEPT !.status = "Executed"]
  BY SettledOne DEF PaidBurn, BurnOrderIds
<1>2. /\ q.external_ref = p.external_ref /\ q.from = p.target /\ q.amount = n
      /\ TreasuryBurns' = TreasuryBurns \cup {q}
      /\ \A r \in TreasuryBurns : r.external_ref # p.external_ref
      /\ p.amount = n
  BY DEF BurnRecord, PaidBurn
<1>3. p \in Proposal
  BY DEF BallotOK
<1> PICK new : new = proposals'[id]
  OBVIOUS
<1>4. /\ new.external_ref = p.external_ref /\ new.target = p.target
      /\ new.amount = p.amount
  BY <1>1, <1>3 DEF Proposal
<1>5. BurnPairs' = {a \in BurnOrderIds' \X TreasuryBurns' : BurnFits(proposals'[a[1]], a[2])}
  BY DEF BurnPairs, BurnFits
<1>6. q \notin TreasuryBurns
  BY <1>2
<1>7. <<id, q>> \in BurnPairs'
  BY <1>1, <1>2, <1>4, <1>5 DEF BurnFits
<1>8. \A s \in BurnOrderIds, r \in TreasuryBurns : <<s, r>> \in BurnPairs' <=> <<s, r>> \in BurnPairs
  BY <1>1, <1>2, <1>5 DEF BurnPairs
<1>9. \A s \in BurnOrderIds : <<s, q>> \notin BurnPairs'
  <2> SUFFICES ASSUME NEW s \in BurnOrderIds PROVE <<s, q>> \notin BurnPairs'
    OBVIOUS
  <2>1. PICK r \in TreasuryBurns : <<s, r>> \in BurnPairs
    BY DEF OneToOne
  <2>2. proposals[s].external_ref = r.external_ref
    BY <2>1 DEF BurnPairs, BurnFits
  <2>3. proposals'[s].external_ref # q.external_ref
    BY <1>1, <1>2, <2>1, <2>2
  <2> QED
    BY <1>5, <2>3 DEF BurnFits
<1>10. \A r \in TreasuryBurns : <<id, r>> \notin BurnPairs'
  BY <1>2, <1>4, <1>5 DEF BurnFits
<1>11. BurnPairs' \in SUBSET ((BurnOrderIds \cup {id}) \X (TreasuryBurns \cup {q}))
  BY <1>1, <1>2, <1>5
<1>12. OneToOne(BurnOrderIds \cup {id}, TreasuryBurns \cup {q}, BurnPairs')
  BY <1>1, <1>6, <1>7, <1>8, <1>9, <1>10, <1>11, OneToOneGrows
<1>13. OneToOne(BurnOrderIds', TreasuryBurns', BurnPairs')
  BY <1>1, <1>2, <1>12
<1> QED
  BY <1>13 DEF OneToOne

LEMMA TrailStep ==
    ASSUME SystemTypes, TrailMatches, [SystemNext]_systemVars PROVE TrailMatches'
<1> USE DEF TrailMatches
<1>0. BallotOK
  BY DEF SystemTypes, TreasuryInv
<1>1. StepKind
  BY SystemStep
<1>2. CASE PaysNothing
  <2>1. {"Mint", "MintFromUsdt"} \in SUBSET Paying /\ {"Burn"} \in SUBSET Paying
    BY DEF Paying
  <2>2. /\ MintOrderIds' = MintOrderIds /\ BurnOrderIds' = BurnOrderIds
        /\ \A i \in MintOrderIds : proposals'[i] = proposals[i]
        /\ \A i \in BurnOrderIds : proposals'[i] = proposals[i]
    BY <1>0, <1>2, <2>1, NothingSettled DEF PaysNothing, MintOrderIds, BurnOrderIds
  <2>3. TreasuryMints' = TreasuryMints /\ TreasuryBurns' = TreasuryBurns
    BY <1>2, Zenon DEF PaysNothing, TrailsStand
  <2> QED
    BY <2>2, <2>3, MintsStand, BurnsAlsoStand
<1>3. ASSUME NEW id \in 1..proposal_count, NEW n \in Nat, PaidMint(id, n)
      PROVE  TrailMatches'
  <2>1. /\ BurnOrderIds' = BurnOrderIds /\ TreasuryBurns' = TreasuryBurns
        /\ \A i \in BurnOrderIds : proposals'[i] = proposals[i]
    BY <1>0, <1>3, SettledOne DEF PaidMint, BurnOrderIds
  <2> QED
    BY <1>0, <1>3, <2>1, MintMatches, BurnsAlsoStand
<1>4. ASSUME NEW id \in 1..proposal_count, NEW n \in Nat, PaidBurn(id, n)
      PROVE  TrailMatches'
  <2>1. /\ MintOrderIds' = MintOrderIds /\ TreasuryMints' = TreasuryMints
        /\ \A i \in MintOrderIds : proposals'[i] = proposals[i]
    BY <1>0, <1>4, SettledOne DEF PaidBurn, MintOrderIds
  <2> QED
    BY <1>0, <1>4, <2>1, BurnMatches, MintsStand
<1> QED
  BY <1>1, <1>2, <1>3, <1>4 DEF StepKind

LEMMA TrailStarts == SystemInit => TrailMatches
<1> SUFFICES ASSUME SystemInit PROVE TrailMatches
  OBVIOUS
<1>1. /\ mint_requests = {} /\ burn_requests = {} /\ proposal_count = 0
  BY DEF SystemInit, TokenInit, TreasuryInit
<1>2. TreasuryMints = {} /\ TreasuryBurns = {} /\ MintOrderIds = {} /\ BurnOrderIds = {}
  BY <1>1 DEF TreasuryMints, TreasuryBurns, MintOrderIds, BurnOrderIds, Settled
<1>3. IsFiniteSet({})
  BY FS_EmptySet
<1> QED
  BY <1>2, <1>3 DEF TrailMatches, OneToOne, MintPairs, BurnPairs

(* execute (treasury lib.rs:622-771), admin_mint and admin_burn (bobt_token  *)
(* contract.rs:372-429, 520-567): an order is executed in the step that puts *)
(* its record on the trail, under a reference the trail did not have, so    *)
(* records and executed orders correspond one to one for ever.              *)
THEOREM SystemTrailMatches == SystemSpec => []TrailMatchesProposals
<1>1. TrailMatches => TrailMatchesProposals
  <2> SUFFICES ASSUME TrailMatches PROVE TrailMatchesProposals
    OBVIOUS
  <2>1. ASSUME NEW r \in TreasuryMints
        PROVE  MintOrders(r) = {id \in MintOrderIds : <<id, r>> \in MintPairs}
    BY DEF MintOrders, MintOrderIds, MintPairs, MintFits
  <2>2. ASSUME NEW r \in TreasuryBurns
        PROVE  BurnOrders(r) = {id \in BurnOrderIds : <<id, r>> \in BurnPairs}
    BY DEF BurnOrders, BurnOrderIds, BurnPairs, BurnFits
  <2>3. /\ Cardinality(MintOrderIds) = Cardinality(TreasuryMints)
        /\ \A r \in TreasuryMints : Cardinality({id \in MintOrderIds : <<id, r>> \in MintPairs}) = 1
    BY OneToOneCounts DEF TrailMatches
  <2>4. /\ Cardinality(BurnOrderIds) = Cardinality(TreasuryBurns)
        /\ \A r \in TreasuryBurns : Cardinality({id \in BurnOrderIds : <<id, r>> \in BurnPairs}) = 1
    BY OneToOneCounts DEF TrailMatches
  <2>5. \A r \in TreasuryMints : Cardinality(MintOrders(r)) = 1
    BY <2>1, <2>3
  <2>6. \A r \in TreasuryBurns : Cardinality(BurnOrders(r)) = 1
    BY <2>2, <2>4
  <2> QED
    BY <2>3, <2>4, <2>5, <2>6 DEF TrailMatchesProposals, MintOrderIds, BurnOrderIds
<1>2. SystemTypes /\ TrailMatches /\ [SystemNext]_systemVars => TrailMatches'
  BY TrailStep
<1> QED
  BY <1>1, <1>2, TrailStarts, SystemInvariant, PTL DEF SystemSpec
-----------------------------------------------------------------------------
\* The sum of the amounts of some records, and the records of the day from first.
SumOf(X) == Total([r \in X |-> r.amount])

Day(X, first) == {r \in X : r.ledger \in first..first + ONE_DAY_LEDGERS - 1}

\* Records with amounts, finitely many.
Records(X) == IsFiniteSet(X) /\ \A r \in X : r.amount \in Nat /\ r.ledger \in Nat

LEMMA RecordsSubset ==
    ASSUME NEW X, Records(X), NEW Y \in SUBSET X PROVE Records(Y)
  BY FS_Subset DEF Records

LEMMA RecordedUnits ==
    ASSUME NEW X, Records(X)
    PROVE  /\ IsFiniteSet(Units([r \in X |-> r.amount]))
           /\ SumOf(X) \in Nat
<1> DEFINE f == [r \in X |-> r.amount]
<1>1. f \in [X -> Nat] /\ IsFiniteSet(X)
  BY DEF Records
<1> HIDE DEF f
<1>2. Units(f) = UnitsOutside(f, {})
  BY <1>1 DEF Units, UnitsOutside
<1>3. IsFiniteSet(Units(f)) /\ Cardinality(Units(f)) \in Nat
  BY <1>1, <1>2, UnitsOutsideFinite, FS_CardinalityType
<1> QED
  BY <1>3 DEF f, SumOf, Total

(* Fewer records make no larger sum, *)
LEMMA RecordedMonotone ==
    ASSUME NEW X, Records(X), NEW Y \in SUBSET X
    PROVE  SumOf(Y) <= SumOf(X)
<1>1. Units([r \in Y |-> r.amount]) \in SUBSET Units([r \in X |-> r.amount])
  BY DEF Units
<1> QED
  BY <1>1, RecordedUnits, FS_Subset DEF SumOf, Total

(* and those of two sets no more than both together. *)
LEMMA RecordedUnion ==
    ASSUME NEW X, NEW Y, Records(X), Records(Y)
    PROVE  /\ Records(X \cup Y)
           /\ SumOf(X \cup Y) <= SumOf(X) + SumOf(Y)
<1> DEFINE u == Units([r \in X |-> r.amount])
           v == Units([r \in Y |-> r.amount])
<1>1. Records(X \cup Y)
  BY FS_Union DEF Records
<1>2. Units([r \in X \cup Y |-> r.amount]) = u \cup v
  BY DEF Units
<1>3. IsFiniteSet(u) /\ IsFiniteSet(v)
  BY RecordedUnits
<1>4. SumOf(X) = Cardinality(u) /\ SumOf(Y) = Cardinality(v)
      /\ SumOf(X \cup Y) = Cardinality(u \cup v)
  BY <1>2 DEF SumOf, Total
<1> HIDE DEF u, v
<1>5. Cardinality(u \cup v) = Cardinality(u) + Cardinality(v) - Cardinality(u \cap v)
  BY <1>3, FS_Union
<1>6. IsFiniteSet(u \cap v)
  BY <1>3, FS_Subset
<1>7. Cardinality(u) \in Nat /\ Cardinality(v) \in Nat /\ Cardinality(u \cap v) \in Nat
  BY <1>3, <1>6, FS_CardinalityType
<1>8. Cardinality(u \cup v) <= Cardinality(u) + Cardinality(v)
  BY <1>5, <1>7
<1> QED
  BY <1>1, <1>4, <1>8

LEMMA RecordedNone == Records({}) /\ SumOf({}) = 0
<1>1. Records({})
  BY FS_EmptySet DEF Records
<1>2. [r \in {} |-> r.amount] = [r \in {} |-> 0]
  OBVIOUS
<1>3. Total([r \in {} |-> 0]) = 0
  BY TotalZero
<1> QED
  BY <1>1, <1>2, <1>3 DEF SumOf

LEMMA RecordedSingle ==
    ASSUME NEW q, q.amount \in Nat, q.ledger \in Nat
    PROVE  Records({q}) /\ SumOf({q}) = q.amount
<1>1. Records({q})
  BY FS_Singleton DEF Records
<1>2. Units([r \in {q} |-> r.amount]) = {q} \X (1..q.amount)
  BY DEF Units
<1>3. Cardinality({q} \X (1..q.amount)) = q.amount
  BY UnitsAtPoint
<1> QED
  BY <1>1, <1>2, <1>3 DEF SumOf, Total
-----------------------------------------------------------------------------
\* The window of a trail X at ledger s: it opened at ledger w and counts d.
\* The records of the day before it opened stay under the limit too, and no
\* record lies past the window: without these two the bound is not inductive.
Current(X, w)  == {r \in X : r.ledger >= w}
DayBefore(X, w) == {r \in X : r.ledger < w /\ w < r.ledger + ONE_DAY_LEDGERS}

Windowed(X, w, d, s, limit) ==
    /\ Records(X)
    /\ w \in Nat /\ d \in Nat /\ s \in Nat /\ limit \in Nat
    /\ w <= s /\ d <= limit
    /\ \A r \in X : r.ledger <= s /\ r.ledger < w + ONE_DAY_LEDGERS
    /\ SumOf(Current(X, w)) <= d
    /\ SumOf(DayBefore(X, w)) <= limit
    /\ \A first \in Nat : SumOf(Day(X, first)) <= 2 * limit

LEMMA OneDay == ONE_DAY_LEDGERS \in Nat /\ ONE_DAY_LEDGERS >= 1
  BY TreasuryAssumption

(* A trail without records is within any window. *)
LEMMA WindowStarts ==
    ASSUME NEW s \in Nat, NEW w \in Nat, w <= s, NEW d \in Nat, NEW limit \in Nat, d <= limit
    PROVE  Windowed({}, w, d, s, limit)
<1>1. Current({}, w) = {} /\ DayBefore({}, w) = {} /\ \A first \in Nat : Day({}, first) = {}
  BY DEF Current, DayBefore, Day
<1> QED
  BY <1>1, RecordedNone DEF Windowed

(* Time passes. *)
LEMMA WindowWaits ==
    ASSUME NEW X, NEW w, NEW d, NEW s, NEW limit, Windowed(X, w, d, s, limit)
    PROVE  Windowed(X, w, d, s + 1, limit)
<1>1. \A r \in X : r.ledger <= s + 1
  BY DEF Windowed, Records
<1>2. s + 1 \in Nat /\ w <= s + 1
  BY DEF Windowed
<1> QED
  BY <1>1, <1>2 DEF Windowed

(* A day on, a new window opens, and the old one becomes the day before. *)
LEMMA WindowRolls ==
    ASSUME NEW X, NEW w, NEW d, NEW s, NEW limit, Windowed(X, w, d, s, limit),
           s >= w + ONE_DAY_LEDGERS
    PROVE  Windowed(X, s, 0, s, limit)
<1> USE OneDay
<1>1. Records(X) /\ s \in Nat /\ w \in Nat /\ limit \in Nat
  BY DEF Windowed
<1>2. Current(X, s) = {}
  BY <1>1 DEF Current, Windowed, Records
<1>3. DayBefore(X, s) \in SUBSET Current(X, w)
  BY <1>1 DEF Current, DayBefore, Records
<1>4. Records(Current(X, w))
  BY <1>1, RecordsSubset DEF Current
<1>5. Records(DayBefore(X, s))
  BY <1>1, RecordsSubset DEF DayBefore
<1>6. SumOf(DayBefore(X, s)) <= SumOf(Current(X, w))
  BY <1>3, <1>4, RecordedMonotone
<1>7. SumOf(DayBefore(X, s)) \in Nat /\ SumOf(Current(X, w)) \in Nat
  BY <1>4, <1>5, RecordedUnits
<1>8. SumOf(DayBefore(X, s)) <= limit
  BY <1>1, <1>6, <1>7 DEF Windowed
<1>9. \A r \in X : r.ledger <= s /\ r.ledger < s + ONE_DAY_LEDGERS
  BY <1>1 DEF Windowed, Records
<1>10. SumOf(Current(X, s)) <= 0
  BY <1>2, RecordedNone
<1> QED
  BY <1>1, <1>8, <1>9, <1>10 DEF Windowed

(* An amount the window has room for is counted in it. *)
LEMMA WindowCounts ==
    ASSUME NEW X, NEW w, NEW d, NEW s, NEW limit, Windowed(X, w, d, s, limit),
           s < w + ONE_DAY_LEDGERS, NEW q, q.ledger = s, q.amount \in Nat,
           d + q.amount <= limit
    PROVE  Windowed(X \cup {q}, w, d + q.amount, s, limit)
<1> USE OneDay
<1> DEFINE Y == X \cup {q}
           n == q.amount
<1>1. Records(X) /\ s \in Nat /\ w \in Nat /\ d \in Nat /\ limit \in Nat /\ w <= s /\ n \in Nat
  BY DEF Windowed
<1>2. Records({q}) /\ SumOf({q}) = n
  BY <1>1, RecordedSingle
<1>3. Records(Y)
  BY <1>1, <1>2, RecordedUnion
<1>4. SumOf(Current(Y, w)) <= d + n /\ SumOf(Current(Y, w)) \in Nat
  <2>1. Current(Y, w) = Current(X, w) \cup {q}
    BY <1>1 DEF Current
  <2>2. Records(Current(X, w)) /\ Records(Current(Y, w))
    BY <1>1, <1>3, RecordsSubset DEF Current
  <2>3. SumOf(Current(Y, w)) <= SumOf(Current(X, w)) + n
    BY <1>2, <2>1, <2>2, RecordedUnion
  <2>4. SumOf(Current(X, w)) \in Nat /\ SumOf(Current(Y, w)) \in Nat
    BY <2>2, RecordedUnits
  <2>5. SumOf(Current(X, w)) <= d
    BY DEF Windowed
  <2> QED
    BY <1>1, <2>3, <2>4, <2>5
<1>5. DayBefore(Y, w) = DayBefore(X, w)
  BY <1>1 DEF DayBefore
<1>6. \A r \in Y : r.ledger <= s /\ r.ledger < w + ONE_DAY_LEDGERS
  BY <1>1 DEF Windowed
<1>7. SumOf(DayBefore(Y, w)) <= limit /\ d + n <= limit /\ d + n \in Nat
  BY <1>1, <1>5 DEF Windowed
<1>8. ASSUME NEW first \in Nat PROVE SumOf(Day(Y, first)) <= 2 * limit
  <2>1. CASE s \notin first..first + ONE_DAY_LEDGERS - 1
    <3>1. Day(Y, first) = Day(X, first)
      BY <2>1 DEF Day
    <3> QED
      BY <3>1 DEF Windowed
  <2>2. CASE s \in first..first + ONE_DAY_LEDGERS - 1
    <3>1. Day(Y, first) \in SUBSET (DayBefore(Y, w) \cup Current(Y, w))
      BY <1>1, <1>3, <2>2 DEF Day, DayBefore, Current, Records
    <3>2. Records(DayBefore(Y, w)) /\ Records(Current(Y, w)) /\ Records(Day(Y, first))
      BY <1>3, RecordsSubset DEF DayBefore, Current, Day
    <3>3. /\ Records(DayBefore(Y, w) \cup Current(Y, w))
          /\ SumOf(DayBefore(Y, w) \cup Current(Y, w))
               <= SumOf(DayBefore(Y, w)) + SumOf(Current(Y, w))
      BY <3>2, RecordedUnion
    <3>4. SumOf(Day(Y, first)) <= SumOf(DayBefore(Y, w) \cup Current(Y, w))
      BY <3>1, <3>3, RecordedMonotone
    <3>5. /\ SumOf(Day(Y, first)) \in Nat
          /\ SumOf(DayBefore(Y, w) \cup Current(Y, w)) \in Nat
          /\ SumOf(DayBefore(Y, w)) \in Nat
      BY <3>2, <3>3, RecordedUnits
    <3> HIDE DEF Y, n
    <3> QED
      BY <1>1, <1>4, <1>7, <3>3, <3>4, <3>5
  <2> QED
    BY <2>1, <2>2
<1>9. Windowed(Y, w, d + n, s, limit)
  <2> HIDE DEF Y, n
  <2> QED
    BY <1>1, <1>3, <1>4, <1>6, <1>7, <1>8 DEF Windowed
<1> QED
  BY <1>9

(* A step of the treasury's clock and window, without a record or with one. *)
LEMMA WindowReads ==
    ASSUME NEW X, NEW w, NEW d, NEW s, NEW limit, Windowed(X, w, d, s, limit)
    PROVE  Windowed(X, IF s >= w + ONE_DAY_LEDGERS THEN s ELSE w,
                       IF s >= w + ONE_DAY_LEDGERS THEN 0 ELSE d, s, limit)
  BY WindowRolls

LEMMA WindowPays ==
    ASSUME NEW X, NEW w, NEW d, NEW s, NEW limit, Windowed(X, w, d, s, limit),
           NEW q, q.ledger = s, NEW n \in Nat, q.amount = n,
           n + (IF s >= w + ONE_DAY_LEDGERS THEN 0 ELSE d) <= limit
    PROVE  Windowed(X \cup {q}, IF s >= w + ONE_DAY_LEDGERS THEN s ELSE w,
                    n + (IF s >= w + ONE_DAY_LEDGERS THEN 0 ELSE d), s, limit)
<1> PICK v : v = IF s >= w + ONE_DAY_LEDGERS THEN s ELSE w
  OBVIOUS
<1> PICK c : c = IF s >= w + ONE_DAY_LEDGERS THEN 0 ELSE d
  OBVIOUS
<1>1. Windowed(X, v, c, s, limit)
  BY WindowReads
<1>2. /\ s \in Nat /\ w \in Nat /\ d \in Nat /\ c \in Nat
  BY DEF Windowed
<1>3. s < v + ONE_DAY_LEDGERS
  BY <1>2, OneDay
<1>4. c + n <= limit /\ c + n = n + c
  BY <1>2 DEF Windowed
<1>5. Windowed(X \cup {q}, v, c + n, s, limit)
  BY <1>1, <1>3, <1>4, WindowCounts
<1>6. Windowed(X \cup {q}, v, n + c, s, limit)
  BY <1>4, <1>5
<1> QED
  BY <1>6

\* Both trails keep their windows.  Before initialize, which starts a window
\* afresh, they are empty.
Windows ==
    /\ Windowed(TreasuryMints, last_reset_ledger, daily_minted, sequence, DAILY_MINT_LIMIT)
    /\ Windowed(TreasuryBurns, last_reset_ledger, daily_burned, sequence, DAILY_BURN_LIMIT)
    /\ ~treasury_initialized => TreasuryMints = {} /\ TreasuryBurns = {}

WindowsNext ==
    /\ Windowed(TreasuryMints', last_reset_ledger', daily_minted', sequence', DAILY_MINT_LIMIT)
    /\ Windowed(TreasuryBurns', last_reset_ledger', daily_burned', sequence', DAILY_BURN_LIMIT)

(* What CountInWindow computes, without its parts. *)
LEMMA CountedWindow ==
    ASSUME NEW m, NEW b, CountInWindow(m, b)
    PROVE  LET over == sequence >= last_reset_ledger + ONE_DAY_LEDGERS IN
           /\ daily_minted' = m + (IF over THEN 0 ELSE daily_minted)
           /\ daily_burned' = b + (IF over THEN 0 ELSE daily_burned)
           /\ last_reset_ledger' = IF over THEN sequence ELSE last_reset_ledger
  BY DEF CountInWindow, WindowOver

LEMMA NothingKeepsWindows ==
    ASSUME SystemTypes, Windows, PaysNothing PROVE WindowsNext
<1> USE ConstantsOK DEF Windows
<1>0. LimitsOK /\ sequence \in Nat
  BY DEF SystemTypes, TreasuryInv
<1>1. TreasuryMints' = TreasuryMints /\ TreasuryBurns' = TreasuryBurns
  BY Zenon DEF PaysNothing, TrailsStand
<1>2. CASE UNCHANGED limits /\ sequence' \in {sequence, sequence + 1}
  <2>1. UNCHANGED <<daily_minted, daily_burned, last_reset_ledger>>
    BY <1>2, Zenon DEF limits
  <2> QED
    BY <1>1, <1>2, <2>1, WindowWaits DEF WindowsNext
<1>3. CASE CountInWindow(0, 0) /\ UNCHANGED sequence
  <2> PICK v : v = IF sequence >= last_reset_ledger + ONE_DAY_LEDGERS
                   THEN sequence ELSE last_reset_ledger
    OBVIOUS
  <2> PICK m : m = IF sequence >= last_reset_ledger + ONE_DAY_LEDGERS THEN 0 ELSE daily_minted
    OBVIOUS
  <2> PICK b : b = IF sequence >= last_reset_ledger + ONE_DAY_LEDGERS THEN 0 ELSE daily_burned
    OBVIOUS
  <2>1. /\ Windowed(TreasuryMints, v, m, sequence, DAILY_MINT_LIMIT)
        /\ Windowed(TreasuryBurns, v, b, sequence, DAILY_BURN_LIMIT)
    BY WindowReads
  <2>2. m \in Nat /\ b \in Nat
    BY <1>0 DEF LimitsOK
  <2>3. daily_minted' = 0 + m /\ daily_burned' = 0 + b /\ last_reset_ledger' = v
    BY <1>3, CountedWindow
  <2>4. daily_minted' = m /\ daily_burned' = b
    BY <2>2, <2>3
  <2> QED
    BY <1>1, <1>3, <2>1, <2>3, <2>4 DEF WindowsNext
<1>4. CASE /\ ~treasury_initialized /\ UNCHANGED sequence
           /\ last_reset_ledger' = sequence /\ daily_minted' = 0 /\ daily_burned' = 0
  <2>1. TreasuryMints = {} /\ TreasuryBurns = {}
    BY <1>4, Zenon
  <2>2. /\ Windowed({}, sequence, 0, sequence, DAILY_MINT_LIMIT)
        /\ Windowed({}, sequence, 0, sequence, DAILY_BURN_LIMIT)
    BY <1>0, WindowStarts
  <2> QED
    BY <1>1, <1>4, <2>1, <2>2 DEF WindowsNext
<1> QED
  BY <1>2, <1>3, <1>4, Zenon DEF PaysNothing, WindowMoves

LEMMA MintKeepsWindows ==
    ASSUME SystemTypes, Windows, NEW id \in 1..proposal_count, NEW n \in Nat, PaidMint(id, n)
    PROVE  WindowsNext
<1> USE DEF Windows
<1>0. LimitsOK /\ sequence \in Nat
  BY DEF SystemTypes, TreasuryInv
<1> PICK q : q = MintRecord(id, n)
  OBVIOUS
<1>1. /\ TreasuryMints' = TreasuryMints \cup {q} /\ TreasuryBurns' = TreasuryBurns
      /\ UNCHANGED sequence /\ CheckMintRateLimit(n)
  BY Zenon DEF PaidMint
<1>2. q.amount = n /\ q.ledger = sequence
  BY DEF MintRecord
<1> PICK v : v = IF sequence >= last_reset_ledger + ONE_DAY_LEDGERS
                 THEN sequence ELSE last_reset_ledger
  OBVIOUS
<1> PICK m : m = n + (IF sequence >= last_reset_ledger + ONE_DAY_LEDGERS THEN 0 ELSE daily_minted)
  OBVIOUS
<1> PICK b : b = IF sequence >= last_reset_ledger + ONE_DAY_LEDGERS THEN 0 ELSE daily_burned
  OBVIOUS
<1>3. CountInWindow(n, 0) /\ daily_minted' <= DAILY_MINT_LIMIT
  BY <1>1 DEF CheckMintRateLimit
<1>4. daily_minted' = m /\ daily_burned' = 0 + b /\ last_reset_ledger' = v
  BY <1>3, CountedWindow
<1>5. b \in Nat
  BY <1>0 DEF LimitsOK
<1>6. daily_burned' = b
  BY <1>4, <1>5
<1>7. Windowed(TreasuryMints \cup {q}, v, m, sequence, DAILY_MINT_LIMIT)
  BY <1>2, <1>3, <1>4, WindowPays
<1>8. Windowed(TreasuryBurns, v, b, sequence, DAILY_BURN_LIMIT)
  BY WindowReads
<1> QED
  BY <1>1, <1>4, <1>6, <1>7, <1>8 DEF WindowsNext

LEMMA BurnKeepsWindows ==
    ASSUME SystemTypes, Windows, NEW id \in 1..proposal_count, NEW n \in Nat, PaidBurn(id, n)
    PROVE  WindowsNext
<1> USE DEF Windows
<1>0. LimitsOK /\ sequence \in Nat
  BY DEF SystemTypes, TreasuryInv
<1> PICK q : q = BurnRecord(id, n)
  OBVIOUS
<1>1. /\ TreasuryBurns' = TreasuryBurns \cup {q} /\ TreasuryMints' = TreasuryMints
      /\ UNCHANGED sequence /\ CheckBurnRateLimit(n)
  BY Zenon DEF PaidBurn
<1>2. q.amount = n /\ q.ledger = sequence
  BY DEF BurnRecord
<1> PICK v : v = IF sequence >= last_reset_ledger + ONE_DAY_LEDGERS
                 THEN sequence ELSE last_reset_ledger
  OBVIOUS
<1> PICK m : m = IF sequence >= last_reset_ledger + ONE_DAY_LEDGERS THEN 0 ELSE daily_minted
  OBVIOUS
<1> PICK b : b = n + (IF sequence >= last_reset_ledger + ONE_DAY_LEDGERS THEN 0 ELSE daily_burned)
  OBVIOUS
<1>3. CountInWindow(0, n) /\ daily_burned' <= DAILY_BURN_LIMIT
  BY <1>1 DEF CheckBurnRateLimit
<1>4. daily_minted' = 0 + m /\ daily_burned' = b /\ last_reset_ledger' = v
  BY <1>3, CountedWindow
<1>5. m \in Nat
  BY <1>0 DEF LimitsOK
<1>6. daily_minted' = m
  BY <1>4, <1>5
<1>7. Windowed(TreasuryBurns \cup {q}, v, b, sequence, DAILY_BURN_LIMIT)
  BY <1>2, <1>3, <1>4, WindowPays
<1>8. Windowed(TreasuryMints, v, m, sequence, DAILY_MINT_LIMIT)
  BY WindowReads
<1> QED
  BY <1>1, <1>4, <1>6, <1>7, <1>8 DEF WindowsNext

LEMMA WindowsStep ==
    ASSUME SystemTypes, Windows, [SystemNext]_systemVars PROVE Windows'
<1>1. StepKind
  BY SystemStep
<1>2. WindowsNext
  BY <1>1, NothingKeepsWindows, MintKeepsWindows, BurnKeepsWindows DEF StepKind
<1>3. ~treasury_initialized' => TreasuryMints' = {} /\ TreasuryBurns' = {}
  <2>1. CASE PaysNothing
    <3>1. TreasuryMints' = TreasuryMints /\ TreasuryBurns' = TreasuryBurns
      BY <2>1, Zenon DEF PaysNothing, TrailsStand
    <3>2. ~treasury_initialized' => ~treasury_initialized
      BY <2>1, Zenon DEF PaysNothing, WindowMoves
    <3> QED
      BY <3>1, <3>2, Zenon DEF Windows
  <2>2. ASSUME NEW id, NEW n, PaidMint(id, n) \/ PaidBurn(id, n) PROVE treasury_initialized'
    BY <2>2, Zenon DEF PaidMint, PaidBurn
  <2> QED
    BY <1>1, <2>1, <2>2, Zenon DEF StepKind
<1> QED
  BY <1>2, <1>3, Zenon DEF Windows, WindowsNext

LEMMA WindowsStart == SystemInit => Windows
<1> SUFFICES ASSUME SystemInit PROVE Windows
  OBVIOUS
<1>1. /\ mint_requests = {} /\ burn_requests = {} /\ sequence = 0
      /\ daily_minted = 0 /\ daily_burned = 0 /\ last_reset_ledger = 0
  BY DEF SystemInit, TokenInit, TreasuryInit
<1>2. TreasuryMints = {} /\ TreasuryBurns = {}
  BY <1>1 DEF TreasuryMints, TreasuryBurns
<1>3. /\ Windowed({}, 0, 0, 0, DAILY_MINT_LIMIT) /\ Windowed({}, 0, 0, 0, DAILY_BURN_LIMIT)
  BY ConstantsOK, WindowStarts
<1>4. /\ Windowed(TreasuryMints, last_reset_ledger, daily_minted, sequence, DAILY_MINT_LIMIT)
      /\ Windowed(TreasuryBurns, last_reset_ledger, daily_burned, sequence, DAILY_BURN_LIMIT)
  BY <1>1, <1>2, <1>3
<1> QED
  BY <1>2, <1>4, Zenon DEF Windows

(* check_mint_rate_limit, check_burn_rate_limit (treasury lib.rs:54-97) and  *)
(* maybe_reset_daily_limits (storage.rs:302-315): windows open at least a day *)
(* apart, so any day meets at most two of them, and twice the limit bounds  *)
(* what the treasury minted, and what it burned, on that day.               *)
THEOREM SystemTwiceTheLimit == SystemSpec => []TwiceTheLimitADay
<1>1. SystemTypes /\ Windows => TwiceTheLimitADay
  <2> SUFFICES ASSUME SystemTypes, Windows, NEW first \in 0..sequence
               PROVE  /\ Within(TreasuryMints, first) <= 2 * DAILY_MINT_LIMIT
                      /\ Within(TreasuryBurns, first) <= 2 * DAILY_BURN_LIMIT
    BY DEF TwiceTheLimitADay
  <2>1. first \in Nat
    BY DEF SystemTypes, TreasuryInv
  <2>2. /\ Within(TreasuryMints, first) = SumOf(Day(TreasuryMints, first))
        /\ Within(TreasuryBurns, first) = SumOf(Day(TreasuryBurns, first))
    BY DEF Within, SumOf, Day
  <2> QED
    BY <2>1, <2>2 DEF Windows, Windowed
<1>2. SystemTypes /\ Windows /\ [SystemNext]_systemVars => Windows'
  BY WindowsStep
<1> QED
  BY <1>1, <1>2, WindowsStart, SystemInvariant, PTL DEF SystemSpec
-----------------------------------------------------------------------------
(* What each contract promises alone *)

(* What the treasury asks of the token is a call another contract may make: *)
(* it names an account, an amount and a payment.                            *)
LEMMA TokenPart ==
    ASSUME SystemTypes, [SystemNext]_systemVars PROVE TokenStep
<1>0. /\ TreasuryContract \in Address
      /\ BallotOK /\ OracleInv
  BY TreasuryAssumption DEF SystemTypes, TreasuryInv
<1>1. ASSUME UNCHANGED tokenVars PROVE TokenStep
  BY <1>1, Zenon DEF TokenStep
<1>2. ASSUME NEW id \in 1..proposal_count, proposals[id].proposal_type \in Paying
      PROVE  /\ proposals[id].target \in Address /\ proposals[id].amount \in Int
             /\ UsdtToBobt(proposals[id].usdt_amount) \in Int
             /\ proposals[id].external_ref \in RequestId
  <2>1. proposals[id] \in Proposal
    BY <1>0 DEF BallotOK
  <2>2. proposals[id].target \in Address /\ proposals[id].amount \in Int
    BY <2>1 DEF Proposal
  <2>3. UsdtToBobt(proposals[id].usdt_amount) \in Nat
    BY <1>0, DepositsNatural, AnswerNatural
  <2>4. proposals[id].external_ref \in RequestId
    BY <1>0, <1>2 DEF BallotOK, PaymentsNamed
  <2> QED
    BY <2>2, <2>3, <2>4
<1>3. ASSUME NEW a \in Address, NEW id \in 1..proposal_count, NEW n \in Int,
             proposals[id].proposal_type \in Paying,
             \/ AdminMint(TreasuryContract, proposals[id].target, n, proposals[id].external_ref)
             \/ AdminBurn(TreasuryContract, proposals[id].target, n, proposals[id].external_ref)
      PROVE  TokenStep
  BY <1>0, <1>2, <1>3, Zenon DEF TokenStep, FromContract
<1>4. CASE ContractCalls
  <2>1. ASSUME NEW a \in Address, QuoteDeposit(a) PROVE TokenStep
    BY <1>1, <2>1, Zenon DEF QuoteDeposit
  <2>2. ASSUME NEW a \in Address, NEW id \in 1..proposal_count, PayMint(a, id)
        PROVE  TokenStep
    <3>1. /\ proposals[id].proposal_type = "Mint"
          /\ AdminMint(TreasuryContract, proposals[id].target, proposals[id].amount,
                       proposals[id].external_ref)
      BY <2>2, Zenon DEF PayMint, ExecuteMint, Executes
    <3>2. proposals[id].proposal_type \in Paying
      BY <3>1 DEF Paying
    <3> QED
      BY <1>2, <1>3, <3>1, <3>2
  <2>3. ASSUME NEW a \in Address, NEW id \in 1..proposal_count, PayBurn(a, id)
        PROVE  TokenStep
    <3>1. /\ proposals[id].proposal_type = "Burn"
          /\ AdminBurn(TreasuryContract, proposals[id].target, proposals[id].amount,
                       proposals[id].external_ref)
      BY <2>3, Zenon DEF PayBurn, ExecuteBurn, Executes
    <3>2. proposals[id].proposal_type \in Paying
      BY <3>1 DEF Paying
    <3> QED
      BY <1>2, <1>3, <3>1, <3>2
  <2>4. ASSUME NEW a \in Address, NEW id \in 1..proposal_count, PayDeposit(a, id)
        PROVE  TokenStep
    <3>1. /\ proposals[id].proposal_type = "MintFromUsdt"
          /\ AdminMint(TreasuryContract, proposals[id].target,
                       UsdtToBobt(proposals[id].usdt_amount), proposals[id].external_ref)
      BY <2>4, Zenon DEF PayDeposit, ExecuteMintFromUsdt, Executes
    <3>2. proposals[id].proposal_type \in Paying
      BY <3>1 DEF Paying
    <3> QED
      BY <1>2, <1>3, <3>1, <3>2
  <2>5. ASSUME NEW a \in Address, NEW id \in 1..proposal_count, PauseToken(a, id)
        PROVE  TokenStep
    BY <1>0, <2>5, Zenon DEF PauseToken, TokenStep, FromContract
  <2> QED
    BY <1>4, <2>1, <2>2, <2>3, <2>4, <2>5, Zenon DEF ContractCalls
<1>5. CASE TokenOnly \/ NextLedger
  BY <1>5, Zenon DEF TokenOnly, NextLedger, TokenStep, TokenNext
<1>6. CASE TreasuryOnly \/ OracleOnly \/ UNCHANGED systemVars
  BY <1>1, <1>6, Zenon DEF TreasuryOnly, OracleOnly, systemVars
<1> QED
  BY <1>4, <1>5, <1>6, Zenon DEF SystemNext

(* To the treasury, what token and oracle answer is some number or a refusal. *)
LEMMA TreasuryPart ==
    ASSUME SystemTypes, [SystemNext]_systemVars PROVE TreasuryStep
<1>0. BallotOK /\ OracleInv
  BY DEF SystemTypes, TreasuryInv
<1>1. ASSUME UNCHANGED treasuryVars, UNCHANGED sequence PROVE TreasuryStep
  BY <1>1, Zenon DEF TreasuryStep
<1>2. ASSUME AnsweredCalls, UNCHANGED sequence PROVE TreasuryStep
  BY <1>2, Zenon DEF TreasuryStep
<1>3. CASE ContractCalls
  <2>1. ASSUME NEW a \in Address, QuoteDeposit(a) PROVE TreasuryStep
    <3>1. PICK to \in Payee, usdt \in DepositedUsdt, ref \in RequestId :
             ProposeMintFromUsdt(a, to, usdt, ref, UsdtToBobt(usdt))
      BY <2>1, Zenon DEF QuoteDeposit
    <3>2. usdt \in Nat
      BY <3>1, TreasuryAssumption DEF ProposeMintFromUsdt
    <3>3. UsdtToBobt(usdt) \in Nat
      BY <1>0, <3>2, AnswerNatural
    <3>4. AnsweredCalls
      BY <3>1, <3>3, Zenon DEF AnsweredCalls, DepositQuoted
    <3>5. UNCHANGED sequence
      BY <2>1 DEF QuoteDeposit, tokenVars
    <3> QED
      BY <1>2, <3>4, <3>5
  <2>2. ASSUME NEW a \in Address, NEW id \in 1..proposal_count,
               PayMint(a, id) \/ PayBurn(a, id) \/ PauseToken(a, id)
        PROVE  TreasuryStep
    <3>1. AnsweredCalls
      BY <2>2, Zenon DEF PayMint, PayBurn, PauseToken, AnsweredCalls
    <3>2. UNCHANGED sequence
      BY <2>2, Zenon DEF PayMint, PayBurn, PauseToken, AdminMint, RecordedMint, AdminBurn, Pause
    <3> QED
      BY <1>2, <3>1, <3>2
  <2>3. ASSUME NEW a \in Address, NEW id \in 1..proposal_count, PayDeposit(a, id)
        PROVE  TreasuryStep
    <3>1. UsdtToBobt(proposals[id].usdt_amount) \in Nat
      BY <1>0, DepositsNatural, AnswerNatural
    <3>2. AnsweredCalls
      BY <2>3, <3>1, Zenon DEF PayDeposit, AnsweredCalls
    <3>3. UNCHANGED sequence
      BY <2>3, Zenon DEF PayDeposit, AdminMint, RecordedMint
    <3> QED
      BY <1>2, <3>2, <3>3
  <2> QED
    BY <1>3, <2>1, <2>2, <2>3, Zenon DEF ContractCalls
<1>4. CASE TokenOnly
  BY <1>1, <1>4, TokenLeavesRecords, Zenon DEF TokenOnly
<1>5. CASE TreasuryOnly
  <2>1. TreasuryAlone /\ UNCHANGED tokenVars
    BY <1>5, Zenon DEF TreasuryOnly
  <2>2. UNCHANGED sequence
    BY <2>1 DEF tokenVars
  <2> QED
    BY <2>1, <2>2, Zenon DEF TreasuryStep
<1>6. CASE OracleOnly \/ UNCHANGED systemVars
  <2>1. UNCHANGED treasuryVars /\ UNCHANGED tokenVars
    BY <1>6, Zenon DEF OracleOnly, systemVars
  <2>2. UNCHANGED sequence
    BY <2>1 DEF tokenVars
  <2> QED
    BY <1>1, <2>1, <2>2
<1>7. CASE NextLedger
  BY <1>7, Zenon DEF NextLedger, TokenCloseLedger, TreasuryStep
<1> QED
  BY <1>3, <1>4, <1>5, <1>6, <1>7, Zenon DEF SystemNext

LEMMA OraclePart == [SystemNext]_systemVars => [OracleNext]_<<oracleVars, now>>
<1>1. ContractCalls \/ TokenOnly \/ TreasuryOnly => UNCHANGED <<oracleVars, now>>
  BY Zenon DEF ContractCalls, QuoteDeposit, PayMint, PayBurn, PauseToken, PayDeposit,
     TokenOnly, TreasuryOnly, ElsewhereUnchanged
<1>2. OracleOnly \/ NextLedger => OracleNext
  BY Zenon DEF OracleOnly, NextLedger, OracleNext
<1>3. UNCHANGED systemVars => UNCHANGED <<oracleVars, now>>
  BY Zenon DEF systemVars
<1> QED
  BY <1>1, <1>2, <1>3, Zenon DEF SystemNext

\* What the three keep together.
SystemInv == SystemTypes /\ TokenInv /\ AuditInv /\ BurnsCounted

LEMMA SystemInvAlways == SystemSpec => []SystemInv
<1>1. SystemInit => SystemInv
  BY SystemStarts, TokenInvInit, AuditStarts, BurnsStart DEF SystemInit, SystemInv
<1>2. SystemInv /\ [SystemNext]_systemVars => SystemInv'
  <2> SUFFICES ASSUME SystemInv, [SystemNext]_systemVars PROVE SystemInv'
    OBVIOUS
  <2>1. SystemTypes /\ TreasuryInv /\ TokenInv /\ AuditInv /\ BurnsCounted
    BY DEF SystemInv, SystemTypes
  <2>2. SystemTypes'
    BY <2>1, SystemStep
  <2>3. TokenStep /\ TreasuryStep
    BY <2>1, TokenPart, TreasuryPart
  <2>4. TokenInv' /\ AuditInv' /\ BurnsCounted'
    BY <2>1, <2>3, TokenInvStep, AuditStep, BurnsStep
  <2> QED
    BY <2>2, <2>4 DEF SystemInv
<1> QED
  BY <1>1, <1>2, PTL DEF SystemSpec

(* execute and the token's own entry points together (treasury lib.rs:622-   *)
(* 771, bobt_token contract.rs): no step of the deployed system changes a   *)
(* balance and forgets the supply, or passes the cap.                       *)
THEOREM SystemImplementsLedger == SystemSpec => ImplementsLedger
<1>1. SystemInit => LedgerInit
  BY DEF SystemInit, TokenInit, LedgerInit
<1>2. SystemInv /\ [SystemNext]_systemVars => [LedgerNext]_ledgerVars
  BY TokenPart, StepRefines DEF SystemInv
<1> QED
  BY <1>1, <1>2, SystemInvAlways, PTL DEF SystemSpec, ImplementsLedger, LedgerSpec

(* admin_mint, mint and admin_burn (bobt_token contract.rs:372-464, 518-567)  *)
(* called by accounts and by execute: all that circulates was minted on     *)
(* record.                                                                  *)
THEOREM SystemSupplyAudited == SystemSpec => []SupplyAudited
<1>1. SystemInv => SupplyAudited
  BY DEF SystemInv, AuditInv
<1> QED
  BY <1>1, SystemInvAlways, PTL

(* The blacklist checks of the token (bobt_token contract.rs:307-567) hold   *)
(* against the treasury: an approved proposal pays no frozen account, and   *)
(* what a frozen account loses leaves circulation.                          *)
THEOREM SystemFrozenFundsStay == SystemSpec => FrozenFundsStay
<1>1. SystemInv /\ [SystemNext]_systemVars =>
        \A a \in frozen :
          /\ balances'[a] <= balances[a]
          /\ balances'[a] < balances[a] =>
               total_supply - total_supply' = balances[a] - balances'[a]
  BY TokenPart, FrozenStep DEF SystemInv
<1> QED
  BY <1>1, SystemInvAlways, PTL DEF SystemSpec, FrozenFundsStay

(* The pause checks of the token (bobt_token contract.rs:569-603) hold       *)
(* against the treasury: a proposal approved before a pause moves nothing   *)
(* during it.                                                               *)
THEOREM SystemPauseStopsFunds == SystemSpec => PauseStopsFunds
<1>1. SystemInv /\ [SystemNext]_systemVars =>
        (paused => \A a \in Address :
            /\ balances'[a] <= balances[a]
            /\ a \notin frozen => balances'[a] = balances[a])
  BY TokenPart, PausedStep DEF SystemInv
<1> QED
  BY <1>1, SystemInvAlways, PTL DEF SystemSpec, PauseStopsFunds

(* spend_allowance (bobt_token storage.rs:274-304) with the other contracts  *)
(* calling in: an allowance that changes together with balances is alive,   *)
(* pays for just its grantor's debit, and is the only one to change.        *)
THEOREM SystemAllowanceHonoured == SystemSpec => AllowanceHonoured
<1>1. SystemInv /\ [SystemNext]_systemVars => Honoured
  BY TokenPart, HonouredStep DEF SystemInv
<1> QED
  BY <1>1, HonouredAlways, SystemInvAlways, PTL DEF SystemSpec

(* execute (treasury lib.rs:622-771) with the calls it makes: what is paid,  *)
(* burned or paused was decided once, in time and on a quorum, also when    *)
(* the token or the oracle turns an execution down and it is tried again.   *)
THEOREM SystemImplementsMultisig == SystemSpec => ImplementsMultisig
<1>1. SystemInit => Voting!MultisigInit
  BY MultisigStarts DEF SystemInit
<1>2. SystemInv /\ [SystemNext]_systemVars
        => [Voting!MultisigNext]_<<Voting!charter, Voting!motions>>
  BY TreasuryPart, MultisigStep DEF SystemInv, SystemTypes
<1> QED
  BY <1>1, <1>2, SystemInvAlways, PTL
     DEF SystemSpec, ImplementsMultisig, Voting!MultisigSpec

(* The daily limits (treasury lib.rs:53-97) at the amounts the oracle        *)
(* answers, which no proposal fixes.                                        *)
THEOREM SystemLimitsKept == SystemSpec => []LimitsKept
<1>1. SystemInv => LimitsKept
  BY LimitsFollow DEF SystemInv, SystemTypes
<1> QED
  BY <1>1, SystemInvAlways, PTL

(* The other contracts only ask the oracle: with them it behaves as alone.  *)
THEOREM SystemKeepsOracle == SystemSpec => OracleSpec
<1>1. SystemInit => OracleInit
  BY DEF SystemInit
<1> QED
  BY <1>1, OraclePart, PTL DEF SystemSpec, OracleSpec

(* usdt_to_bobt (oracle lib.rs:326-340) as the treasury pays deposits with   *)
(* it: while no crossed batch is posted, a deposit changed to BOBT and back *)
(* at the prices of one moment gains nothing.                               *)
THEOREM SystemNoRoundTripGain ==
    ASSUME BatchesUncrossed PROVE SystemSpec => []NoRoundTripGain
  BY SystemKeepsOracle, OracleNoRoundTripGain
=============================================================================
