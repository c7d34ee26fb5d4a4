--------------------------- MODULE TreasuryProofs ---------------------------
(***************************************************************************)
(* The treasury counts approvals truthfully, never lets a proposal pass on  *)
(* none, keeps its windows under the limits, counts only burns as burned,   *)
(* and is a multisig (it refines Multisig): for any signers, any limits and *)
(* any number of proposals.  The facts about sums are those of the token's. *)
(***************************************************************************)
EXTENDS Treasury, BOBTTokenProofs

\* A proposed threshold is positive, so executing it, however late, leaves the
\* threshold positive: without this ThresholdPositive is not inductive.
ThresholdsProposed ==
    \A id \in 1..proposal_count :
        proposals[id].proposal_type = "UpdateThreshold" => proposals[id].amount >= 1

\* What mints or burns names a payment: without this the token's records could
\* not be shown to have their type when the treasury makes them.
Paying == {"Mint", "Burn", "MintFromUsdt"}

PaymentsNamed ==
    \A id \in 1..proposal_count :
        proposals[id].proposal_type \in Paying => proposals[id].external_ref \in RequestId

BallotOK ==
    /\ proposal_count \in 0..MaxProposals
    /\ proposals \in [1..proposal_count -> Proposal]
    /\ approvals \subseteq (1..proposal_count) \X Address
    /\ ApprovalsCounted
    /\ ThresholdsProposed
    /\ PaymentsNamed

CouncilOK ==
    /\ treasury_initialized \in BOOLEAN
    /\ signers \in [Address -> Nat]
    /\ threshold \in Nat
    /\ config_threshold \in Nat
    /\ oracle_address \in Address \cup {NoOracle}
    /\ ThresholdPositive

\* The steps that call other contracts, whatever number the oracle answers.
DepositQuoted(proposer) ==
    \E a \in Payee, usdt \in DepositedUsdt, ref \in RequestId, bobt \in Nat :
        ProposeMintFromUsdt(proposer, a, usdt, ref, bobt)

AnsweredCalls ==
    \E a \in Address :
        \/ DepositQuoted(a)
        \/ \E id \in 1..proposal_count :
              \/ ExecuteMint(a, id)
              \/ ExecuteBurn(a, id)
              \/ ExecuteEmergencyPause(a, id)
              \/ \E bobt \in Nat : ExecuteMintFromUsdt(a, id, bobt)

\* A step of the treasury, alone or beside other contracts.
TreasuryStep == \/ (TreasuryAlone \/ AnsweredCalls) /\ UNCHANGED sequence
                \/ CloseLedger /\ UNCHANGED treasuryVars
                \/ UNCHANGED <<treasuryVars, sequence>>

LimitsOK ==
    /\ daily_minted \in Nat /\ daily_burned \in Nat /\ last_reset_ledger \in Nat
    /\ daily_minted <= DAILY_MINT_LIMIT
    /\ daily_burned <= DAILY_BURN_LIMIT

TreasuryInv == BallotOK /\ CouncilOK /\ LimitsOK /\ sequence \in Nat

LEMMA ConstantsOK ==
    /\ MAX_SIGNERS \in Nat /\ PROPOSAL_EXPIRATION_LEDGERS \in Nat
    /\ ONE_DAY_LEDGERS \in Nat /\ DAILY_MINT_LIMIT \in Nat
    /\ DAILY_BURN_LIMIT \in Nat /\ SINGLE_OP_LIMIT \in Nat /\ MaxProposals \in Nat
  BY TreasuryAssumption

\* An action that leaves one part of the state alone keeps that part's invariant.
LEMMA BallotKept == ASSUME BallotOK, UNCHANGED ballot PROVE BallotOK'
  BY DEF BallotOK, ballot, ApprovalsCounted, ThresholdsProposed, PaymentsNamed, Approvers, HasApproved

LEMMA CouncilKept == ASSUME CouncilOK, UNCHANGED council PROVE CouncilOK'
<1>1. treasury_initialized' = treasury_initialized
  BY Zenon DEF council
<1>2. UNCHANGED <<signers, threshold, config_threshold, oracle_address>>
  BY DEF council
<1>3. NumSigners' = NumSigners
  BY <1>2 DEF NumSigners
<1> QED
  BY <1>1, <1>2, <1>3, Zenon DEF CouncilOK, ThresholdPositive

LEMMA LimitsStay == ASSUME LimitsOK, UNCHANGED limits PROVE LimitsOK'
  BY DEF LimitsOK, limits
-----------------------------------------------------------------------------
(* The approvals of a proposal are a finite set. *)
LEMMA ApproversFinite ==
    ASSUME NEW id PROVE IsFiniteSet(Approvers(id)) /\ Approvers(id) \subseteq Address
<1>1. Approvers(id) \subseteq Address
  BY DEF Approvers
<1> QED
  BY <1>1, AccountsAssumption, FS_Subset

(* A new proposal starts with one approver and a count of one. *)
LEMMA ProposeKeepsBallot ==
    ASSUME BallotOK, sequence \in Nat, NEW type \in ProposalType, NEW p \in Address,
           NEW target \in Address, NEW n \in Nat, NEW usdt \in Nat,
           NEW ref \in RequestId \cup {NoRef},
           type = "UpdateThreshold" => n >= 1,
           type \in Paying => ref \in RequestId,
           NewProposal(type, p, target, n, usdt, ref)
    PROVE  BallotOK'
<1> PICK k : k = proposal_count + 1
  OBVIOUS
<1> DEFINE new == [proposal_type |-> type, proposer |-> p, target |-> target,
                   amount |-> n, usdt_amount |-> usdt, external_ref |-> ref,
                   expires_at |-> sequence + PROPOSAL_EXPIRATION_LEDGERS,
                   approval_count |-> 1, status |-> "Pending"]
<1> USE ConstantsOK
<1>1. /\ k <= MaxProposals
      /\ proposal_count' = k
      /\ proposals' = [i \in 1..k |-> IF i = k THEN new ELSE proposals[i]]
      /\ approvals' = approvals \cup {<<k, p>>}
  BY DEF NewProposal
<1>2. new \in Proposal
  BY DEF Proposal, Status
<1>3. proposal_count \in Nat /\ proposals \in [1..proposal_count -> Proposal]
  BY DEF BallotOK
<1>4. proposals'[k] = new /\ \A i \in 1..proposal_count : proposals'[i] = proposals[i]
  BY <1>1, <1>3
<1>5. proposals' \in [1..k -> Proposal]
  BY <1>1, <1>2, <1>3
<1>6. Approvers(k)' = {p}
  <2>1. \A a \in Address : <<k, a>> \notin approvals
    BY <1>3 DEF BallotOK
  <2> QED
    BY <1>1, <2>1 DEF Approvers, HasApproved
<1>7. \A i \in 1..proposal_count : Approvers(i)' = Approvers(i)
  BY <1>1, <1>3 DEF Approvers, HasApproved
<1>8. ASSUME NEW i \in 1..k
      PROVE  /\ proposals'[i].approval_count = Cardinality(Approvers(i)')
             /\ <<i, proposals'[i].proposer>> \in approvals'
  <2>1. CASE i = k
    <3>1. Cardinality(Approvers(i)') = 1
      BY <1>6, <2>1, FS_Singleton
    <3>2. new.approval_count = 1 /\ new.proposer = p
      OBVIOUS
    <3> QED
      BY <1>1, <1>4, <2>1, <3>1, <3>2
  <2>2. CASE i # k
    <3>1. i \in 1..proposal_count
      BY <1>3, <2>2
    <3>2. /\ proposals[i].approval_count = Cardinality(Approvers(i))
          /\ <<i, proposals[i].proposer>> \in approvals
      BY <3>1 DEF BallotOK, ApprovalsCounted, HasApproved
    <3>3. Cardinality(Approvers(i)') = Cardinality(Approvers(i))
      BY <1>7, <3>1
    <3>4. proposals'[i] = proposals[i]
      BY <1>4, <3>1
    <3> QED
      BY <1>1, <3>2, <3>3, <3>4
  <2> QED
    BY <2>1, <2>2
<1>9. ThresholdsProposed' /\ PaymentsNamed'
  BY <1>1, <1>3, <1>4 DEF BallotOK, ThresholdsProposed, PaymentsNamed
<1>10. ApprovalsCounted'
  BY <1>1, <1>8 DEF ApprovalsCounted, HasApproved
<1>11. k \in 0..MaxProposals
  BY <1>1, <1>3
<1>12. approvals' \subseteq (1..k) \X Address
  BY <1>1, <1>3 DEF BallotOK
<1> QED
  BY <1>1, <1>5, <1>9, <1>10, <1>11, <1>12 DEF BallotOK

(* An approval raises the count and the set of approvers by the same one. *)
LEMMA ApproveKeepsBallot ==
    ASSUME BallotOK, NEW a \in Address, NEW id \in 1..proposal_count,
           ApproveProposal(a, id)
    PROVE  BallotOK'
<1>1. /\ approvals' = approvals \cup {<<id, a>>} /\ <<id, a>> \notin approvals
      /\ proposals' = [proposals EXCEPT ![id].approval_count = @ + 1]
      /\ proposal_count' = proposal_count
  BY DEF ApproveProposal, HasApproved
<1>2. proposals \in [1..proposal_count -> Proposal] /\ proposal_count \in Nat
  BY ConstantsOK DEF BallotOK
<1>3. /\ proposals'[id] = [proposals[id] EXCEPT !.approval_count = @ + 1]
      /\ \A i \in 1..proposal_count : i # id => proposals'[i] = proposals[i]
  BY <1>1, <1>2
<1>4. proposals[id] \in Proposal
  BY <1>2
<1>5. /\ proposals'[id] \in Proposal
      /\ proposals'[id].approval_count = proposals[id].approval_count + 1
      /\ proposals'[id].proposer = proposals[id].proposer
      /\ proposals'[id].proposal_type = proposals[id].proposal_type
      /\ proposals'[id].amount = proposals[id].amount
      /\ proposals'[id].external_ref = proposals[id].external_ref
  BY <1>3, <1>4 DEF Proposal
<1>6. proposals' \in [1..proposal_count -> Proposal]
  BY <1>1, <1>2, <1>5
<1>7. Approvers(id)' = Approvers(id) \cup {a} /\ a \notin Approvers(id)
  BY <1>1 DEF Approvers, HasApproved
<1>8. \A i \in 1..proposal_count : i # id => Approvers(i)' = Approvers(i)
  BY <1>1 DEF Approvers, HasApproved
<1>9. Cardinality(Approvers(id)') = Cardinality(Approvers(id)) + 1
  BY <1>7, ApproversFinite, FS_AddElement
<1>10. ApprovalsCounted'
  <2> SUFFICES ASSUME NEW i \in 1..proposal_count
               PROVE  /\ proposals'[i].approval_count = Cardinality(Approvers(i)')
                      /\ <<i, proposals'[i].proposer>> \in approvals'
    BY <1>1 DEF ApprovalsCounted, HasApproved
  <2>1. /\ proposals[i].approval_count = Cardinality(Approvers(i))
        /\ <<i, proposals[i].proposer>> \in approvals
    BY DEF BallotOK, ApprovalsCounted, HasApproved
  <2>2. CASE i = id
    BY <1>1, <1>5, <1>9, <2>1, <2>2
  <2>3. CASE i # id
    BY <1>1, <1>3, <1>8, <2>1, <2>3
  <2> QED
    BY <2>2, <2>3
<1>11. ThresholdsProposed' /\ PaymentsNamed'
  BY <1>1, <1>3, <1>5 DEF BallotOK, ThresholdsProposed, PaymentsNamed
<1> QED
  BY <1>1, <1>6, <1>10, <1>11 DEF BallotOK

(* A change of status touches neither counts nor approvals. *)
LEMMA StatusKeepsBallot ==
    ASSUME BallotOK, NEW id \in 1..proposal_count, NEW s \in Status,
           proposals' = [proposals EXCEPT ![id].status = s],
           UNCHANGED <<proposal_count, approvals>>
    PROVE  BallotOK'
<1>1. proposals \in [1..proposal_count -> Proposal]
  BY DEF BallotOK
<1>2. proposals[id] \in Proposal
  BY <1>1
<1>3. /\ proposals'[id] = [proposals[id] EXCEPT !.status = s]
      /\ \A i \in 1..proposal_count : i # id => proposals'[i] = proposals[i]
  BY <1>1
<1>4. proposals'[id] \in Proposal
  BY <1>2, <1>3 DEF Proposal
<1>5. \A i \in 1..proposal_count :
        /\ proposals'[i].approval_count = proposals[i].approval_count
        /\ proposals'[i].proposer = proposals[i].proposer
        /\ proposals'[i].proposal_type = proposals[i].proposal_type
        /\ proposals'[i].amount = proposals[i].amount
        /\ proposals'[i].external_ref = proposals[i].external_ref
  BY <1>2, <1>3 DEF Proposal
<1>6. proposals' \in [1..proposal_count -> Proposal]
  BY <1>1, <1>4
<1>7. \A i : Approvers(i)' = Approvers(i)
  BY DEF Approvers, HasApproved
<1> QED
  BY <1>5, <1>6, <1>7
     DEF BallotOK, ApprovalsCounted, ThresholdsProposed, PaymentsNamed, HasApproved
-----------------------------------------------------------------------------
(* Where a signer acts there is a signer, so the threshold is positive. *)
LEMMA SignerActs ==
    ASSUME CouncilOK, NEW a \in Address, Signer(a)
    PROVE  /\ treasury_initialized = TRUE
           /\ NumSigners \in Nat /\ NumSigners >= 1
           /\ threshold \in Nat /\ threshold >= 1
<1>1. treasury_initialized = TRUE
  BY Zenon DEF CouncilOK, Signer
<1>2. signers \in [Address -> Nat] /\ threshold \in Nat
  BY DEF CouncilOK
<1>3. signers[a] >= 1 /\ signers[a] \in Nat
  BY <1>2 DEF Signer, IsSigner
<1>4. NumSigners \in Nat /\ signers[a] <= NumSigners
  BY <1>2, AccountsAssumption, TotalType, TotalBound DEF NumSigners
<1>5. threshold = 0 <=> NumSigners = 0
  BY <1>1, Zenon DEF CouncilOK, ThresholdPositive
<1> QED
  BY <1>1, <1>2, <1>3, <1>4, <1>5

(* What is left to show of the council once its parts are known. *)
LEMMA CouncilFrom ==
    ASSUME treasury_initialized' \in BOOLEAN,
           signers' \in [Address -> Nat], threshold' \in Nat, config_threshold' \in Nat,
           oracle_address' \in Address \cup {NoOracle},
           threshold' = 0 <=> Total(signers') = 0
    PROVE  CouncilOK'
<1>1. NumSigners' = Total(signers')
  BY DEF NumSigners
<1>2. ThresholdPositive'
  BY <1>1, Zenon DEF ThresholdPositive
<1> QED
  BY <1>2, Zenon DEF CouncilOK

LEMMA InitializeKeepsCouncil ==
    ASSUME NEW list \in InitialSigners, NEW n \in InitialThreshold,
           InitializeTreasury(list, n)
    PROVE  CouncilOK'
<1>1. list \in [Address -> Nat]
  BY TreasuryAssumption
<1>2. Total(list) \in Nat
  BY <1>1, AccountsAssumption, TotalType
<1>3. /\ signers' = list /\ threshold' = n /\ config_threshold' = n
      /\ oracle_address' = NoOracle
      /\ n \in 1..Total(list)
  BY DEF InitializeTreasury
<1>4. treasury_initialized' \in BOOLEAN
  BY Zenon DEF InitializeTreasury
<1>5. n \in Nat /\ n # 0 /\ Total(list) # 0
  <2> HIDE DEF Total
  <2> QED
    BY <1>2, <1>3
<1> QED
  BY <1>1, <1>3, <1>4, <1>5, CouncilFrom

LEMMA AddKeepsCouncil ==
    ASSUME BallotOK, CouncilOK, NEW a \in Address, NEW id \in 1..proposal_count,
           ExecuteAddSigner(a, id)
    PROVE  CouncilOK'
<1> PICK new : new = proposals[id].target
  OBVIOUS
<1>1. Signer(a)
  BY DEF ExecuteAddSigner, Executes
<1>2. new \in Address
  BY DEF BallotOK, Proposal
<1>3. signers \in [Address -> Nat] /\ treasury_initialized \in BOOLEAN
  BY DEF CouncilOK
<1>4. signers' = [signers EXCEPT ![new] = @ + 1]
  BY DEF ExecuteAddSigner
<1>5. UNCHANGED <<threshold, config_threshold, oracle_address>>
  BY DEF ExecuteAddSigner
<1>6. treasury_initialized' = treasury_initialized
  BY Zenon DEF ExecuteAddSigner
<1>7. /\ signers' \in [Address -> Nat] /\ signers'[new] >= 1
      /\ signers'[new] \in Nat
  BY <1>2, <1>3, <1>4
<1>8. Total(signers') \in Nat /\ signers'[new] <= Total(signers')
  BY <1>2, <1>7, AccountsAssumption, TotalType, TotalBound
<1>9. threshold' # 0 /\ Total(signers') # 0
  <2>1. threshold >= 1 /\ threshold \in Nat
    BY <1>1, SignerActs
  <2> QED
    BY <1>5, <1>7, <1>8, <2>1
<1>10. /\ threshold' \in Nat /\ config_threshold' \in Nat
       /\ oracle_address' \in Address \cup {NoOracle}
  BY <1>5 DEF CouncilOK
<1> QED
  BY <1>3, <1>6, <1>7, <1>9, <1>10, CouncilFrom, Zenon

(* The last signer may go: then the threshold goes to zero with it. *)
LEMMA RemoveKeepsCouncil ==
    ASSUME BallotOK, CouncilOK, NEW a \in Address, NEW id \in 1..proposal_count,
           ExecuteRemoveSigner(a, id)
    PROVE  CouncilOK'
<1> PICK old : old = proposals[id].target
  OBVIOUS
<1> PICK left : left = Total(signers')
  OBVIOUS
<1>1. Signer(a)
  BY DEF ExecuteRemoveSigner, Executes
<1>2. signers \in [Address -> Nat] /\ treasury_initialized \in BOOLEAN
  BY DEF CouncilOK
<1>3. signers' = [signers EXCEPT ![old] = 0]
  BY DEF ExecuteRemoveSigner
<1>4. threshold' = IF threshold > left THEN left ELSE threshold
  BY DEF ExecuteRemoveSigner
<1>5. UNCHANGED <<config_threshold, oracle_address>>
  BY DEF ExecuteRemoveSigner
<1>6. treasury_initialized' = treasury_initialized
  BY Zenon DEF ExecuteRemoveSigner
<1>7. signers' \in [Address -> Nat]
  BY <1>2, <1>3
<1>8. left \in Nat
  BY <1>7, AccountsAssumption, TotalType
<1>9. threshold \in Nat /\ threshold >= 1
  BY <1>1, SignerActs
<1>10. threshold' \in Nat /\ (threshold' = 0 <=> left = 0)
  BY <1>4, <1>8, <1>9
<1>11. config_threshold' \in Nat /\ oracle_address' \in Address \cup {NoOracle}
  BY <1>5 DEF CouncilOK
<1> QED
  BY <1>2, <1>6, <1>7, <1>10, <1>11, CouncilFrom, Zenon

LEMMA ThresholdKeepsCouncil ==
    ASSUME BallotOK, CouncilOK, NEW a \in Address, NEW id \in 1..proposal_count,
           ExecuteUpdateThreshold(a, id)
    PROVE  CouncilOK'
<1> PICK n : n = proposals[id].amount
  OBVIOUS
<1>1. Signer(a) /\ proposals[id].proposal_type = "UpdateThreshold"
  BY DEF ExecuteUpdateThreshold, Executes
<1>2. n \in Nat /\ n >= 1
  BY <1>1 DEF BallotOK, ThresholdsProposed, Proposal
<1>3. threshold' = n /\ config_threshold' = n /\ UNCHANGED <<signers, oracle_address>>
  BY DEF ExecuteUpdateThreshold
<1>4. treasury_initialized' = treasury_initialized
  BY Zenon DEF ExecuteUpdateThreshold
<1>5. treasury_initialized \in BOOLEAN
  BY DEF CouncilOK
<1>6. Total(signers') # 0 /\ threshold' # 0
  <2>1. NumSigners \in Nat /\ NumSigners >= 1
    BY <1>1, SignerActs
  <2>2. Total(signers') = NumSigners
    BY <1>3 DEF NumSigners
  <2> QED
    BY <1>2, <1>3, <2>1, <2>2
<1>7. /\ signers' \in [Address -> Nat] /\ threshold' \in Nat /\ config_threshold' \in Nat
      /\ oracle_address' \in Address \cup {NoOracle}
  BY <1>2, <1>3 DEF CouncilOK
<1> QED
  BY <1>4, <1>5, <1>6, <1>7, CouncilFrom, Zenon

LEMMA OracleKeepsCouncil ==
    ASSUME BallotOK, CouncilOK, NEW a \in Address, NEW id \in 1..proposal_count,
           ExecuteSetOracle(a, id)
    PROVE  CouncilOK'
<1>1. UNCHANGED <<signers, threshold, config_threshold>>
  BY DEF ExecuteSetOracle
<1>2. treasury_initialized' = treasury_initialized
  BY Zenon DEF ExecuteSetOracle
<1>3. oracle_address' \in Address
  BY DEF ExecuteSetOracle, BallotOK, Proposal
<1>4. ThresholdPositive'
  <2>1. NumSigners' = NumSigners
    BY <1>1 DEF NumSigners
  <2> QED
    BY <1>1, <1>2, <2>1, Zenon DEF CouncilOK, ThresholdPositive
<1> QED
  BY <1>1, <1>2, <1>3, <1>4, Zenon DEF CouncilOK
-----------------------------------------------------------------------------
(* Counting an amount that the check let through leaves the counters within *)
(* the limits, whether or not the window restarts.                          *)
LEMMA CountKeepsLimits ==
    ASSUME LimitsOK, sequence \in Nat, NEW m \in Nat, NEW b \in Nat,
           CountInWindow(m, b),
           m = 0 \/ daily_minted' <= DAILY_MINT_LIMIT,
           b = 0 \/ daily_burned' <= DAILY_BURN_LIMIT
    PROVE  LimitsOK'
  BY ConstantsOK DEF LimitsOK, CountInWindow, WindowOver
-----------------------------------------------------------------------------
LEMMA TreasuryInitInv == TreasuryInit => TreasuryInv
<1> SUFFICES ASSUME TreasuryInit PROVE TreasuryInv
  OBVIOUS
<1>1. BallotOK
  <2>1. 1..proposal_count = {} /\ proposal_count \in 0..MaxProposals
    BY ConstantsOK DEF TreasuryInit
  <2>2. proposals \in [1..proposal_count -> Proposal]
    BY <2>1 DEF TreasuryInit
  <2> QED
    BY <2>1, <2>2
       DEF TreasuryInit, BallotOK, ApprovalsCounted, ThresholdsProposed, PaymentsNamed
<1>2. CouncilOK
  <2>1. treasury_initialized = FALSE
    BY Zenon DEF TreasuryInit
  <2>2. /\ signers \in [Address -> Nat] /\ threshold \in Nat /\ config_threshold \in Nat
        /\ oracle_address \in Address \cup {NoOracle}
    BY DEF TreasuryInit
  <2> QED
    BY <2>1, <2>2, Zenon DEF CouncilOK, ThresholdPositive
<1>3. LimitsOK
  BY ConstantsOK DEF TreasuryInit, LimitsOK
<1>4. sequence \in Nat
  BY DEF TreasuryInit
<1> QED
  BY <1>1, <1>2, <1>3, <1>4 DEF TreasuryInv

(* Whatever execute does besides, the ballot keeps its invariant. *)
LEMMA ExecutesKeepsBallot ==
    ASSUME BallotOK, NEW a \in Address, NEW id \in 1..proposal_count,
           NEW type, Executes(a, id, type)
    PROVE  BallotOK'
  BY StatusKeepsBallot DEF Executes, Status

LEMMA AmountsNatural ==
    ASSUME BallotOK, NEW id \in 1..proposal_count PROVE proposals[id].amount \in Nat
  BY DEF BallotOK, Proposal

LEMMA OrdinaryProposal ==
    ASSUME BallotOK, sequence \in Nat, CouncilOK, NEW p \in Address, ProposeOrdinary(p)
    PROVE  BallotOK' /\ UNCHANGED <<council, limits>>
<1> USE TreasuryAssumption DEF ProposalType, Paying
<1>1. ASSUME NEW a \in Payee, NEW n \in ProposedAmount, NEW ref \in RequestId,
             ProposeMint(p, a, n, ref)
      PROVE  BallotOK' /\ UNCHANGED <<council, limits>>
  BY <1>1, ProposeKeepsBallot DEF ProposeMint, NewProposal
<1>2. ASSUME NEW a \in Payee, NEW n \in ProposedAmount, NEW ref \in RequestId,
             ProposeBurn(p, a, n, ref)
      PROVE  BallotOK' /\ UNCHANGED <<council, limits>>
  BY <1>2, ProposeKeepsBallot DEF ProposeBurn, NewProposal
<1>3. ASSUME NEW a \in SignerChange, ProposeAddSigner(p, a)
      PROVE  BallotOK' /\ UNCHANGED <<council, limits>>
  BY <1>3, ProposeKeepsBallot DEF ProposeAddSigner, NewProposal
<1>4. ASSUME NEW a \in SignerChange, ProposeRemoveSigner(p, a)
      PROVE  BallotOK' /\ UNCHANGED <<council, limits>>
  BY <1>4, ProposeKeepsBallot DEF ProposeRemoveSigner, NewProposal
<1>5. ASSUME NEW n \in ThresholdChange, ProposeUpdateThreshold(p, n)
      PROVE  BallotOK' /\ UNCHANGED <<council, limits>>
  <2>1. NewProposal("UpdateThreshold", p, TreasuryContract, n, 0, NoRef)
        /\ n \in Nat /\ n >= 1
    <3>1. NumSigners \in Nat
      BY AccountsAssumption, TotalType DEF CouncilOK, NumSigners
    <3> QED
      BY <1>5, <3>1 DEF ProposeUpdateThreshold
  <2> QED
    BY <2>1, ProposeKeepsBallot DEF NewProposal
<1>6. ASSUME ProposeEmergencyPause(p)
      PROVE  BallotOK' /\ UNCHANGED <<council, limits>>
  BY <1>6, ProposeKeepsBallot DEF ProposeEmergencyPause, NewProposal
<1>7. ASSUME NEW a \in OracleChange, ProposeSetOracle(p, a)
      PROVE  BallotOK' /\ UNCHANGED <<council, limits>>
  BY <1>7, ProposeKeepsBallot DEF ProposeSetOracle, NewProposal
<1> QED
  BY <1>1, <1>2, <1>3, <1>4, <1>5, <1>6, <1>7 DEF ProposeOrdinary

LEMMA DepositProposal ==
    ASSUME BallotOK, sequence \in Nat, NEW p \in Address, DepositQuoted(p)
    PROVE  BallotOK' /\ UNCHANGED <<council, limits>>
<1>1. PICK a \in Payee, usdt \in DepositedUsdt, ref \in RequestId, bobt \in Nat :
         ProposeMintFromUsdt(p, a, usdt, ref, bobt)
  BY DEF DepositQuoted
<1>2. /\ NewProposal("MintFromUsdt", p, a, bobt, usdt, ref)
      /\ usdt \in Nat /\ a \in Address /\ "MintFromUsdt" \in ProposalType
  BY <1>1, TreasuryAssumption DEF ProposeMintFromUsdt, ProposalType
<1> QED
  BY <1>2, ProposeKeepsBallot DEF NewProposal

(* Executing within the treasury moves the council; the limits stand. *)
LEMMA WithinStep ==
    ASSUME BallotOK, CouncilOK, LimitsOK, NEW a \in Address, NEW id \in 1..proposal_count,
           ExecuteWithin(a, id)
    PROVE  BallotOK' /\ CouncilOK' /\ LimitsOK'
<1>1. \E type : Executes(a, id, type)
  BY DEF ExecuteWithin, ExecuteAddSigner, ExecuteRemoveSigner, ExecuteUpdateThreshold,
         ExecuteSetOracle
<1>2. UNCHANGED limits
  BY Zenon DEF ExecuteWithin, ExecuteAddSigner, ExecuteRemoveSigner, ExecuteUpdateThreshold,
         ExecuteSetOracle
<1>3. CouncilOK'
  BY AddKeepsCouncil, RemoveKeepsCouncil, ThresholdKeepsCouncil, OracleKeepsCouncil
     DEF ExecuteWithin
<1> QED
  BY <1>1, <1>2, <1>3, ExecutesKeepsBallot, LimitsStay

(* Executing through the token counts the amount; the council stands. *)
LEMMA CallStep ==
    ASSUME TreasuryInv, AnsweredCalls
    PROVE  BallotOK' /\ CouncilOK' /\ LimitsOK'
<1> USE DEF TreasuryInv
<1>1. PICK a \in Address :
        \/ DepositQuoted(a)
        \/ \E id \in 1..proposal_count :
              \/ ExecuteMint(a, id)
              \/ ExecuteBurn(a, id)
              \/ ExecuteEmergencyPause(a, id)
              \/ \E bobt \in Nat : ExecuteMintFromUsdt(a, id, bobt)
  BY DEF AnsweredCalls
<1>2. CASE DepositQuoted(a)
  BY <1>2, DepositProposal, CouncilKept, LimitsStay
<1>3. ASSUME NEW id \in 1..proposal_count, ExecuteMint(a, id)
      PROVE  BallotOK' /\ CouncilOK' /\ LimitsOK'
  <2>1. /\ Executes(a, id, "Mint") /\ CheckMintRateLimit(proposals[id].amount)
        /\ UNCHANGED council
    BY <1>3, Zenon DEF ExecuteMint
  <2>2. LimitsOK'
    BY <2>1, AmountsNatural, CountKeepsLimits DEF CheckMintRateLimit
  <2> QED
    BY <2>1, <2>2, ExecutesKeepsBallot, CouncilKept
<1>4. ASSUME NEW id \in 1..proposal_count, ExecuteBurn(a, id)
      PROVE  BallotOK' /\ CouncilOK' /\ LimitsOK'
  <2>1. /\ Executes(a, id, "Burn") /\ CheckBurnRateLimit(proposals[id].amount)
        /\ UNCHANGED council
    BY <1>4, Zenon DEF ExecuteBurn
  <2>2. LimitsOK'
    BY <2>1, AmountsNatural, CountKeepsLimits DEF CheckBurnRateLimit
  <2> QED
    BY <2>1, <2>2, ExecutesKeepsBallot, CouncilKept
<1>5. ASSUME NEW id \in 1..proposal_count, ExecuteEmergencyPause(a, id)
      PROVE  BallotOK' /\ CouncilOK' /\ LimitsOK'
  <2>1. Executes(a, id, "EmergencyPause") /\ UNCHANGED council /\ UNCHANGED limits
    BY <1>5, Zenon DEF ExecuteEmergencyPause
  <2> QED
    BY <2>1, ExecutesKeepsBallot, CouncilKept, LimitsStay
<1>6. ASSUME NEW id \in 1..proposal_count, NEW bobt \in Nat,
             ExecuteMintFromUsdt(a, id, bobt)
      PROVE  BallotOK' /\ CouncilOK' /\ LimitsOK'
  <2>1. /\ Executes(a, id, "MintFromUsdt") /\ CheckMintRateLimit(bobt)
        /\ UNCHANGED council
    BY <1>6, Zenon DEF ExecuteMintFromUsdt
  <2>2. LimitsOK'
    BY <2>1, CountKeepsLimits DEF CheckMintRateLimit
  <2> QED
    BY <2>1, <2>2, ExecutesKeepsBallot, CouncilKept
<1> QED
  BY <1>1, <1>2, <1>3, <1>4, <1>5, <1>6

LEMMA AloneStep ==
    ASSUME TreasuryInv, TreasuryAlone
    PROVE  BallotOK' /\ CouncilOK' /\ LimitsOK'
<1> USE DEF TreasuryInv
<1>1. ASSUME NEW list \in InitialSigners, NEW n \in InitialThreshold,
             InitializeTreasury(list, n)
      PROVE  BallotOK' /\ CouncilOK' /\ LimitsOK'
  <2>1. UNCHANGED ballot /\ LimitsOK'
    BY <1>1, ConstantsOK DEF InitializeTreasury, LimitsOK
  <2> QED
    BY <1>1, <2>1, BallotKept, InitializeKeepsCouncil
<1>2. CASE ReadLimits
  <2>1. UNCHANGED council /\ UNCHANGED ballot /\ CountInWindow(0, 0)
    BY <1>2, Zenon DEF ReadLimits
  <2>2. LimitsOK'
    BY <2>1, CountKeepsLimits
  <2> QED
    BY <2>1, <2>2, BallotKept, CouncilKept
<1>3. ASSUME NEW a \in Address, ProposeOrdinary(a)
      PROVE  BallotOK' /\ CouncilOK' /\ LimitsOK'
  BY <1>3, OrdinaryProposal, CouncilKept, LimitsStay
<1>4. ASSUME NEW a \in Address, NEW id \in 1..proposal_count, ApproveProposal(a, id)
      PROVE  BallotOK' /\ CouncilOK' /\ LimitsOK'
  <2>1. UNCHANGED council /\ UNCHANGED limits
    BY <1>4, Zenon DEF ApproveProposal
  <2> QED
    BY <1>4, <2>1, ApproveKeepsBallot, CouncilKept, LimitsStay
<1>5. ASSUME NEW a \in Address, NEW id \in 1..proposal_count, CancelProposal(a, id)
      PROVE  BallotOK' /\ CouncilOK' /\ LimitsOK'
  <2>1. UNCHANGED council /\ UNCHANGED limits
    BY <1>5, Zenon DEF CancelProposal
  <2>2. BallotOK'
    BY <1>5, StatusKeepsBallot DEF CancelProposal, Status
  <2> QED
    BY <2>1, <2>2, CouncilKept, LimitsStay
<1>6. ASSUME NEW a \in Address, NEW id \in 1..proposal_count, ExecuteWithin(a, id)
      PROVE  BallotOK' /\ CouncilOK' /\ LimitsOK'
  BY <1>6, WithinStep
<1> QED
  BY <1>1, <1>2, <1>3, <1>4, <1>5, <1>6 DEF TreasuryAlone

LEMMA TreasurySteps == [TreasuryNext]_<<treasuryVars, sequence>> => TreasuryStep
<1>1. QuotedBobt \subseteq Nat
  BY TreasuryAssumption
<1>2. TreasuryCalls => AnsweredCalls
  BY <1>1, Zenon DEF TreasuryCalls, AnsweredCalls, ProposeFromUsdt, DepositQuoted
<1> QED
  BY <1>2, Zenon DEF TreasuryNext, TreasuryStep

LEMMA TreasuryStepInv ==
    TreasuryInv /\ TreasuryStep => TreasuryInv'
<1> SUFFICES ASSUME TreasuryInv, TreasuryStep
             PROVE  TreasuryInv'
  OBVIOUS
<1> USE DEF TreasuryInv
<1>1. CASE TreasuryAlone /\ UNCHANGED sequence
  BY <1>1, AloneStep
<1>2. CASE AnsweredCalls /\ UNCHANGED sequence
  BY <1>2, CallStep
<1>3. CASE CloseLedger /\ UNCHANGED treasuryVars
  <2>1. UNCHANGED council /\ UNCHANGED ballot /\ UNCHANGED limits
    BY <1>3, Zenon DEF treasuryVars
  <2>2. sequence' \in Nat
    BY <1>3 DEF CloseLedger
  <2> QED
    BY <2>1, <2>2, BallotKept, CouncilKept, LimitsStay
<1>4. CASE UNCHANGED <<treasuryVars, sequence>>
  <2>1. UNCHANGED council /\ UNCHANGED ballot /\ UNCHANGED limits /\ UNCHANGED sequence
    BY <1>4, Zenon DEF treasuryVars
  <2> QED
    BY <2>1, BallotKept, CouncilKept, LimitsStay
<1> QED
  BY <1>1, <1>2, <1>3, <1>4, Zenon DEF TreasuryStep

(* The strengthened invariant holds in every reachable state. *)
THEOREM TreasuryInvariant == TreasurySpec => []TreasuryInv
  BY TreasuryInitInv, TreasuryStepInv, TreasurySteps, PTL DEF TreasurySpec

(* Every treasury variable keeps its type, for any constants. *)
THEOREM TreasuryTypeCorrect == TreasurySpec => []TreasuryTypeOK
<1>1. TreasuryInv => TreasuryTypeOK
  BY Zenon DEF TreasuryInv, BallotOK, CouncilOK, LimitsOK, TreasuryTypeOK
<1> QED
  BY <1>1, TreasuryInvariant, PTL

(* approve and propose_* (lib.rs:198-589): the count that execute compares   *)
(* with the threshold is the number of distinct addresses on record, so no  *)
(* address counts twice, whatever signers come and go meanwhile.            *)
THEOREM TreasuryApprovalsCounted == TreasurySpec => []ApprovalsCounted
<1>1. TreasuryInv => ApprovalsCounted
  BY DEF TreasuryInv, BallotOK
<1> QED
  BY <1>1, TreasuryInvariant, PTL

(* initialize, propose_update_threshold and execute (lib.rs:139-191,        *)
(* 374-413, 667-704): while there is a signer to execute anything, a        *)
(* proposal needs at least one approval.                                    *)
THEOREM TreasuryThresholdPositive == TreasurySpec => []ThresholdPositive
<1>1. TreasuryInv => ThresholdPositive
  BY DEF TreasuryInv, CouncilOK
<1> QED
  BY <1>1, TreasuryInvariant, PTL
-----------------------------------------------------------------------------
\* The amounts of the burns executed so far, and the bound LimitsKept takes from them.
BurnIds == {i \in 1..proposal_count : /\ proposals[i].proposal_type = "Burn"
                                      /\ proposals[i].status = "Executed"}

ExecutedBurns == [id \in BurnIds |-> proposals[id].amount]

BurnsCounted == daily_burned <= Total(ExecutedBurns)

LEMMA BurnsType ==
    ASSUME BallotOK
    PROVE  /\ IsFiniteSet(BurnIds) /\ ExecutedBurns \in [BurnIds -> Nat]
           /\ Total(ExecutedBurns) \in Nat
<1>1. proposal_count \in Nat
  BY ConstantsOK DEF BallotOK
<1>2. IsFiniteSet(BurnIds)
  <2>1. IsFiniteSet(1..proposal_count)
    BY <1>1, FS_Interval
  <2> QED
    BY <2>1, FS_Subset DEF BurnIds
<1>3. ExecutedBurns \in [BurnIds -> Nat]
  BY DEF BallotOK, Proposal, ExecutedBurns, BurnIds
<1> QED
  BY <1>2, <1>3, TotalType

(* A step that leaves the burns executed so far alone and counts no burn. *)
LEMMA BurnsStand ==
    ASSUME BallotOK, LimitsOK, BurnsCounted, UNCHANGED ExecutedBurns,
           daily_burned' \in {0, daily_burned}
    PROVE  BurnsCounted'
<1> DEFINE t == Total(ExecutedBurns)
<1>1. t \in Nat /\ t' = t
  BY BurnsType
<1>2. daily_burned <= t
  BY DEF BurnsCounted
<1>3. daily_burned' <= t
  <2> HIDE DEF t
  <2> QED
    BY <1>1, <1>2
<1> QED
  BY <1>1, <1>3 DEF BurnsCounted

LEMMA ProposalKeepsBurns ==
    ASSUME BallotOK, NEW type, NEW p, NEW target, NEW n, NEW usdt, NEW ref,
           NewProposal(type, p, target, n, usdt, ref)
    PROVE  UNCHANGED ExecutedBurns
<1> PICK k : k = proposal_count + 1
  OBVIOUS
<1>1. proposal_count \in Nat
  BY ConstantsOK DEF BallotOK
<1>2. /\ proposal_count' = k
      /\ proposals'[k].status = "Pending"
      /\ \A i \in 1..proposal_count : proposals'[i] = proposals[i]
  BY <1>1 DEF NewProposal
<1>3. BurnIds' = BurnIds
  BY <1>1, <1>2 DEF BurnIds
<1> QED
  BY <1>2, <1>3 DEF ExecutedBurns, BurnIds

(* Only the execution of a burn adds to the burns executed. *)
LEMMA OthersKeepBurns ==
    ASSUME BallotOK, NEW id \in 1..proposal_count, UNCHANGED proposal_count,
           proposals' \in [1..proposal_count -> Proposal],
           \A i \in 1..proposal_count :
               /\ proposals'[i].amount = proposals[i].amount
               /\ proposals'[i].proposal_type = proposals[i].proposal_type
               /\ i # id => proposals'[i].status = proposals[i].status,
           \/ proposals'[id].status = proposals[id].status
           \/ proposals[id].status # "Executed" /\ proposals'[id].status # "Executed"
           \/ proposals[id].proposal_type # "Burn"
    PROVE  UNCHANGED ExecutedBurns
<1>1. BurnIds' = BurnIds
  BY DEF BurnIds
<1> QED
  BY <1>1 DEF ExecutedBurns, BurnIds

LEMMA StatusKeepsBurns ==
    ASSUME BallotOK, NEW id \in 1..proposal_count, NEW s \in Status,
           proposals' = [proposals EXCEPT ![id].status = s],
           UNCHANGED <<proposal_count, approvals>>,
           proposals[id].status # "Executed",
           s # "Executed" \/ proposals[id].proposal_type # "Burn"
    PROVE  UNCHANGED ExecutedBurns
<1>1. proposals \in [1..proposal_count -> Proposal] /\ proposals[id] \in Proposal
  BY DEF BallotOK
<1>2. /\ proposals'[id] = [proposals[id] EXCEPT !.status = s]
      /\ \A i \in 1..proposal_count : i # id => proposals'[i] = proposals[i]
  BY <1>1
<1>3. BallotOK'
  BY StatusKeepsBallot
<1>4. \A i \in 1..proposal_count :
         /\ proposals'[i].amount = proposals[i].amount
         /\ proposals'[i].proposal_type = proposals[i].proposal_type
         /\ i # id => proposals'[i].status = proposals[i].status
  BY <1>1, <1>2 DEF Proposal
<1>5. proposals'[id].status = s
  BY <1>1, <1>2 DEF Proposal
<1> QED
  BY <1>3, <1>4, <1>5, OthersKeepBurns DEF BallotOK

(* An executed burn adds its amount to the burns executed, once. *)
LEMMA BurnAddsAmount ==
    ASSUME BallotOK, LimitsOK, BurnsCounted, NEW a \in Address,
           NEW id \in 1..proposal_count, ExecuteBurn(a, id)
    PROVE  BurnsCounted'
<1> PICK n : n = proposals[id].amount
  OBVIOUS
<1>1. /\ proposals[id].status = "Pending" /\ proposals[id].proposal_type = "Burn"
      /\ proposals' = [proposals EXCEPT ![id].status = "Executed"]
      /\ UNCHANGED <<proposal_count, approvals>>
  BY DEF ExecuteBurn, Executes
<1>2. proposals \in [1..proposal_count -> Proposal] /\ proposals[id] \in Proposal
      /\ n \in Nat
  BY AmountsNatural DEF BallotOK
<1>3. /\ proposals'[id] = [proposals[id] EXCEPT !.status = "Executed"]
      /\ \A i \in 1..proposal_count : i # id => proposals'[i] = proposals[i]
  BY <1>1, <1>2
<1>4. /\ proposals'[id].status = "Executed"
      /\ proposals'[id].proposal_type = "Burn"
      /\ proposals'[id].amount = n
  BY <1>1, <1>2, <1>3 DEF Proposal
<1>5. id \notin BurnIds /\ BurnIds' = BurnIds \cup {id}
  BY <1>1, <1>3, <1>4 DEF BurnIds
<1>6. /\ ExecutedBurns' \in [BurnIds \cup {id} -> Nat] /\ ExecutedBurns'[id] = n
      /\ \A c \in BurnIds : ExecutedBurns'[c] = ExecutedBurns[c]
  <2>1. BallotOK'
    BY <1>1, StatusKeepsBallot DEF Status
  <2>2. ExecutedBurns' \in [BurnIds' -> Nat]
    BY <2>1 DEF BallotOK, Proposal, ExecutedBurns, BurnIds
  <2>3. ExecutedBurns'[id] = n
    BY <1>4, <1>5 DEF ExecutedBurns
  <2>4. \A c \in BurnIds : ExecutedBurns'[c] = ExecutedBurns[c]
    BY <1>3, <1>5 DEF ExecutedBurns, BurnIds
  <2> QED
    BY <1>5, <2>2, <2>3, <2>4
<1>7. Total(ExecutedBurns)' = Total(ExecutedBurns) + n
  <2> PICK g : g = ExecutedBurns'
    OBVIOUS
  <2> PICK S : S = BurnIds
    OBVIOUS
  <2>1. IsFiniteSet(S) /\ ExecutedBurns \in [S -> Nat]
    BY BurnsType
  <2>2. id \notin S /\ g \in [S \cup {id} -> Nat] /\ g[id] = n
        /\ \A c \in S : g[c] = ExecutedBurns[c]
    BY <1>5, <1>6
  <2>3. Total(g) = Total(ExecutedBurns) + g[id]
    BY <2>1, <2>2, TotalGrows
  <2> QED
    BY <2>2, <2>3
<1> DEFINE t == Total(ExecutedBurns)
<1>8. t \in Nat /\ t' = t + n /\ daily_burned <= t
  BY <1>6, <1>7, BurnsType DEF BurnsCounted
<1>9. daily_burned' \in {n, n + daily_burned} /\ daily_burned \in Nat
  BY <1>2 DEF ExecuteBurn, CheckBurnRateLimit, CountInWindow, LimitsOK
<1>10. daily_burned' <= t + n
  <2> HIDE DEF t
  <2> QED
    BY <1>2, <1>8, <1>9
<1> QED
  BY <1>8, <1>10 DEF BurnsCounted

LEMMA BurnsStep ==
    TreasuryInv /\ BurnsCounted /\ TreasuryStep => BurnsCounted'
<1> SUFFICES ASSUME TreasuryInv, BurnsCounted, TreasuryStep
             PROVE  BurnsCounted'
  OBVIOUS
<1> USE DEF TreasuryInv
<1>1. ASSUME NEW a \in Address, NEW id \in 1..proposal_count, ExecuteBurn(a, id)
      PROVE  BurnsCounted'
  BY <1>1, BurnAddsAmount
<1>2. ASSUME UNCHANGED ballot, daily_burned' \in {0, daily_burned}
      PROVE  BurnsCounted'
  BY <1>2, BurnsStand DEF ballot, ExecutedBurns, BurnIds
<1>3. ASSUME NEW type, NEW p, NEW target, NEW n, NEW usdt, NEW ref,
             NewProposal(type, p, target, n, usdt, ref)
      PROVE  BurnsCounted'
  <2>1. daily_burned' = daily_burned
    BY <1>3 DEF NewProposal, limits
  <2> QED
    BY <1>3, <2>1, ProposalKeepsBurns, BurnsStand
<1>4. ASSUME NEW a \in Address, NEW id \in 1..proposal_count, NEW type, type # "Burn",
             Executes(a, id, type), daily_burned' \in {0, daily_burned}
      PROVE  BurnsCounted'
  BY <1>4, StatusKeepsBurns, BurnsStand DEF Executes, Status
<1>5. ASSUME NEW m \in Nat, CountInWindow(m, 0)
      PROVE  daily_burned' \in {0, daily_burned}
  BY <1>5 DEF CountInWindow, LimitsOK
<1>6. ASSUME NEW a \in Address, NEW id \in 1..proposal_count, ApproveProposal(a, id)
      PROVE  BurnsCounted'
  <2>1. proposals \in [1..proposal_count -> Proposal] /\ proposals[id] \in Proposal
    BY DEF BallotOK
  <2>2. BallotOK'
    BY <1>6, ApproveKeepsBallot
  <2>3. /\ proposals'[id] = [proposals[id] EXCEPT !.approval_count = @ + 1]
        /\ \A i \in 1..proposal_count : i # id => proposals'[i] = proposals[i]
        /\ UNCHANGED proposal_count
        /\ UNCHANGED daily_burned
    BY <1>6, <2>1 DEF ApproveProposal, limits
  <2>4. /\ proposals'[id].status = proposals[id].status
        /\ proposals'[id].amount = proposals[id].amount
        /\ proposals'[id].proposal_type = proposals[id].proposal_type
    BY <2>1, <2>3 DEF Proposal
  <2>5. UNCHANGED ExecutedBurns
    BY <2>2, <2>3, <2>4, OthersKeepBurns DEF BallotOK
  <2> QED
    BY <2>3, <2>5, BurnsStand
<1>7. ASSUME NEW a \in Address, NEW id \in 1..proposal_count, CancelProposal(a, id)
      PROVE  BurnsCounted'
  <2>1. UNCHANGED daily_burned
    BY <1>7 DEF CancelProposal, limits
  <2> QED
    BY <1>7, <2>1, StatusKeepsBurns, BurnsStand DEF CancelProposal, Status
<1>8. ASSUME NEW a \in Address, NEW id \in 1..proposal_count, ExecuteWithin(a, id)
      PROVE  BurnsCounted'
  <2>1. UNCHANGED daily_burned
    BY <1>8, Zenon DEF ExecuteWithin, ExecuteAddSigner, ExecuteRemoveSigner,
                ExecuteUpdateThreshold, ExecuteSetOracle, limits
  <2>2. \E type : type # "Burn" /\ Executes(a, id, type)
    BY <1>8 DEF ExecuteWithin, ExecuteAddSigner, ExecuteRemoveSigner,
                ExecuteUpdateThreshold, ExecuteSetOracle
  <2> QED
    BY <1>4, <2>1, <2>2
<1>9. ASSUME NEW a \in Address, NEW id \in 1..proposal_count,
             \/ ExecuteMint(a, id) \/ ExecuteEmergencyPause(a, id)
             \/ \E bobt \in Nat : ExecuteMintFromUsdt(a, id, bobt)
      PROVE  BurnsCounted'
  <2>1. CASE ExecuteMint(a, id)
    BY <1>4, <1>5, <2>1, AmountsNatural DEF ExecuteMint, CheckMintRateLimit
  <2>2. CASE ExecuteEmergencyPause(a, id)
    BY <1>4, <2>2 DEF ExecuteEmergencyPause, limits
  <2>3. ASSUME NEW bobt \in Nat, ExecuteMintFromUsdt(a, id, bobt)
        PROVE  BurnsCounted'
    BY <1>4, <1>5, <2>3 DEF ExecuteMintFromUsdt, CheckMintRateLimit
  <2> QED
    BY <1>9, <2>1, <2>2, <2>3
<1>10. CASE TreasuryAlone /\ UNCHANGED sequence
  <2>1. ASSUME NEW list \in InitialSigners, NEW n \in InitialThreshold,
               InitializeTreasury(list, n)
        PROVE  BurnsCounted'
    BY <1>2, <2>1 DEF InitializeTreasury
  <2>2. CASE ReadLimits
    BY <1>2, <1>5, <2>2 DEF ReadLimits
  <2>3. ASSUME NEW a \in Address, ProposeOrdinary(a)
        PROVE  BurnsCounted'
    BY <1>3, <2>3, Zenon DEF ProposeOrdinary, ProposeMint, ProposeBurn, ProposeAddSigner,
         ProposeRemoveSigner, ProposeUpdateThreshold, ProposeEmergencyPause, ProposeSetOracle
  <2> QED
    BY <1>6, <1>7, <1>8, <1>10, <2>1, <2>2, <2>3 DEF TreasuryAlone
<1>11. CASE AnsweredCalls /\ UNCHANGED sequence
  <2>1. ASSUME NEW a \in Address, DepositQuoted(a)
        PROVE  BurnsCounted'
    BY <1>3, <2>1, Zenon DEF DepositQuoted, ProposeMintFromUsdt
  <2> QED
    BY <1>1, <1>9, <1>11, <2>1 DEF AnsweredCalls
<1>12. CASE UNCHANGED treasuryVars
  <2>1. UNCHANGED ballot /\ UNCHANGED limits
    BY <1>12, Zenon DEF treasuryVars
  <2> QED
    BY <1>2, <2>1 DEF limits
<1> QED
  BY <1>10, <1>11, <1>12, Zenon DEF TreasuryStep

LEMMA BurnsStart == TreasuryInit => BurnsCounted
<1> SUFFICES ASSUME TreasuryInit PROVE BurnsCounted
  OBVIOUS
<1>1. BallotOK
  BY TreasuryInitInv DEF TreasuryInv
<1>2. Total(ExecutedBurns) \in Nat
  BY <1>1, BurnsType
<1> QED
  BY <1>2 DEF BurnsCounted, TreasuryInit

LEMMA LimitsFollow == TreasuryInv /\ BurnsCounted => LimitsKept
  BY DEF TreasuryInv, LimitsOK, BurnsCounted, ExecutedBurns, BurnIds, LimitsKept

(* check_mint_rate_limit and check_burn_rate_limit (lib.rs:53-97): the window's *)
(* counters never pass the limits, and nothing but executed burns counts as *)
(* burned, through any mixture of proposals, queries and window restarts.   *)
THEOREM TreasuryLimitsKept == TreasurySpec => []LimitsKept
  BY BurnsStart, LimitsFollow, BurnsStep, TreasurySteps, TreasuryInvariant, PTL DEF TreasurySpec
-----------------------------------------------------------------------------
\* The multisig's variables as the treasury keeps them.
Members == {a \in Address : IsSigner(a)}

Quorums == {V \in SUBSET Address : Cardinality(V) >= threshold}

Votes == [id \in 1..MaxProposals |-> Approvers(id)]

Result(status) == CASE status = "Pending"   -> "open"
                    [] status = "Executed"  -> "decided"
                    [] status = "Cancelled" -> "withdrawn"

Outcomes == [id \in 1..MaxProposals |->
               IF id > proposal_count THEN "unopened" ELSE Result(proposals[id].status)]

Lapsed == {id \in 1..proposal_count : sequence > proposals[id].expires_at}

LEMMA Results == /\ Result("Pending") = "open"
                 /\ Result("Executed") = "decided"
                 /\ Result("Cancelled") = "withdrawn"
  BY DEF Result

LEMMA MembersAndQuorums ==
    /\ Members \in SUBSET Address /\ Members' \in SUBSET Address
    /\ Quorums \in SUBSET SUBSET Address /\ Quorums' \in SUBSET SUBSET Address
  BY DEF Members, Quorums

LEMMA CharterStands ==
    ASSUME UNCHANGED council
    PROVE  /\ treasury_initialized' = treasury_initialized
           /\ Members' = Members /\ Quorums' = Quorums
<1>1. treasury_initialized' = treasury_initialized
  BY Zenon DEF council
<1>2. signers' = signers /\ threshold' = threshold
  BY DEF council
<1> QED
  BY <1>1, <1>2 DEF Members, Quorums, IsSigner

LEMMA MotionsStand ==
    ASSUME UNCHANGED ballot PROVE Votes' = Votes /\ Outcomes' = Outcomes
  BY DEF ballot, Votes, Outcomes, Approvers, HasApproved

(* A proposal's last ledger is fixed when it is made. *)
LEMMA LapsedStands ==
    ASSUME UNCHANGED <<proposal_count, sequence>>,
           \A i \in 1..proposal_count : proposals'[i].expires_at = proposals[i].expires_at
    PROVE  Lapsed' = Lapsed
  BY DEF Lapsed

(* When a ledger closes, motions lapse and none comes back. *)
LEMMA LedgerLapses ==
    ASSUME BallotOK, sequence \in Nat, sequence' = sequence + 1, UNCHANGED <<council, ballot>>
    PROVE  Voting!Lapse
<1>1. /\ treasury_initialized' = treasury_initialized
      /\ Members' = Members /\ Quorums' = Quorums
  BY CharterStands, Zenon
<1>2. Votes' = Votes /\ Outcomes' = Outcomes
  BY MotionsStand, Zenon
<1>3. UNCHANGED <<proposal_count, proposals>>
  BY DEF ballot
<1>4. Lapsed \subseteq Lapsed'
  <2>1. \A i \in 1..proposal_count : proposals[i].expires_at \in Nat
    BY DEF BallotOK, Proposal
  <2> QED
    BY <1>3, <2>1 DEF Lapsed
<1>5. Lapsed' \subseteq {m \in 1..MaxProposals : Outcomes[m] # "unopened"}
  <2> SUFFICES ASSUME NEW i \in 1..proposal_count
               PROVE  i \in 1..MaxProposals /\ Outcomes[i] # "unopened"
    BY <1>3 DEF Lapsed
  <2>1. i \in 1..MaxProposals /\ ~(i > proposal_count)
    BY ConstantsOK DEF BallotOK
  <2>2. proposals[i].status \in {"Pending", "Executed", "Cancelled"}
    BY DEF BallotOK, Proposal, Status
  <2>3. Result(proposals[i].status) # "unopened"
    BY <2>2, Results
  <2> QED
    BY <2>1, <2>3 DEF Outcomes
<1> QED
  BY <1>1, <1>2, <1>4, <1>5, Zenon
     DEF Voting!Lapse, Voting!charter, Members, Quorums, Votes, Outcomes, Result, Lapsed

(* Two functions that agree everywhere but at one point. *)
LEMMA UpdateAt ==
    ASSUME NEW S, NEW f, NEW g, f = [x \in S |-> f[x]], g = [x \in S |-> g[x]],
           NEW k \in S, \A x \in S \ {k} : g[x] = f[x]
    PROVE  g = [f EXCEPT ![k] = g[k]]
  OBVIOUS

(* A new proposal opens the next motion, with its proposer's vote. *)
LEMMA ProposalOpens ==
    ASSUME BallotOK, NEW type, NEW p \in Address, NEW target, NEW n, NEW usdt, NEW ref,
           NewProposal(type, p, target, n, usdt, ref), sequence \in Nat, UNCHANGED sequence
    PROVE  \E m \in 1..MaxProposals : Voting!Open(p, m)
<1> PICK k : k = proposal_count + 1
  OBVIOUS
<1> USE ConstantsOK
<1>1. proposal_count \in Nat /\ approvals \subseteq (1..proposal_count) \X Address
  BY DEF BallotOK
<1>2. /\ k <= MaxProposals /\ proposal_count' = k
      /\ proposals'[k].status = "Pending"
      /\ proposals'[k].expires_at = sequence + PROPOSAL_EXPIRATION_LEDGERS
      /\ \A i \in 1..proposal_count : proposals'[i] = proposals[i]
      /\ approvals' = approvals \cup {<<k, p>>}
      /\ UNCHANGED council
  BY <1>1, Zenon, SMT DEF NewProposal
<1>3. k \in 1..MaxProposals
  BY <1>1, <1>2
<1>4. p \in Members
  BY DEF NewProposal, Signer, Members
<1>5. Outcomes[k] = "unopened"
  BY <1>1, <1>3 DEF Outcomes
<1>6. Outcomes' = [Outcomes EXCEPT ![k] = "open"]
  <2>1. Outcomes'[k] = "open"
    BY <1>1, <1>2, <1>3, Results DEF Outcomes
  <2>2. \A i \in (1..MaxProposals) \ {k} : Outcomes'[i] = Outcomes[i]
    <3> SUFFICES ASSUME NEW i \in 1..MaxProposals, i # k PROVE Outcomes'[i] = Outcomes[i]
      OBVIOUS
    <3>1. CASE i > proposal_count
      BY <1>1, <1>2, <3>1 DEF Outcomes
    <3>2. CASE i \in 1..proposal_count
      BY <1>1, <1>2, <3>2 DEF Outcomes
    <3> QED
      BY <1>1, <3>1, <3>2
  <2> QED
    BY <1>3, <2>1, <2>2, UpdateAt DEF Outcomes
<1>7. Votes' = [Votes EXCEPT ![k] = {p}]
  <2>1. Approvers(k)' = {p}
    BY <1>1, <1>2 DEF Approvers, HasApproved
  <2>2. \A i \in 1..MaxProposals : i # k => Approvers(i)' = Approvers(i)
    BY <1>2 DEF Approvers, HasApproved
  <2> QED
    BY <1>3, <2>1, <2>2, UpdateAt DEF Votes
<1>8. /\ treasury_initialized' = treasury_initialized
      /\ Members' = Members /\ Quorums' = Quorums
  BY <1>2, CharterStands
<1>9. Lapsed' = Lapsed
  BY <1>1, <1>2 DEF Lapsed
<1>10. Voting!Open(p, k)
  BY <1>4, <1>5, <1>6, <1>7, <1>8, <1>9, Zenon
     DEF Voting!Open, Voting!charter, Members, Quorums, Votes, Outcomes, Result, Lapsed
<1> QED
  BY <1>3, <1>10

LEMMA ApprovalVotes ==
    ASSUME BallotOK, NEW p \in Address, NEW id \in 1..proposal_count,
           ApproveProposal(p, id), sequence \in Nat, UNCHANGED sequence
    PROVE  \E m \in 1..MaxProposals : Voting!Vote(p, m)
<1>1. id \in 1..MaxProposals /\ ~(id > proposal_count)
  BY ConstantsOK DEF BallotOK
<1>2. /\ proposals \in [1..proposal_count -> Proposal] /\ proposals[id] \in Proposal
      /\ proposals' = [proposals EXCEPT ![id].approval_count = @ + 1]
      /\ proposals[id].status = "Pending"
      /\ approvals' = approvals \cup {<<id, p>>}
      /\ <<id, p>> \notin approvals
      /\ UNCHANGED proposal_count
  BY DEF BallotOK, ApproveProposal, HasApproved
<1>3. \A i \in 1..proposal_count : proposals'[i].status = proposals[i].status
  BY <1>2 DEF Proposal
<1>4. UNCHANGED council
  BY Zenon DEF ApproveProposal
<1>5. p \in Members \ Votes[id]
  BY <1>1, <1>2 DEF ApproveProposal, Signer, Members, Votes, Approvers, HasApproved
<1>6. Outcomes[id] = "open"
  BY <1>1, <1>2, Results DEF Outcomes
<1>7. Outcomes' = Outcomes
  <2>1. \A i \in 1..MaxProposals : i > proposal_count \/ i \in 1..proposal_count
    BY ConstantsOK DEF BallotOK
  <2> QED
    BY <1>2, <1>3, <2>1 DEF Outcomes
<1>8. Votes' = [Votes EXCEPT ![id] = @ \cup {p}]
  <2>1. Approvers(id)' = Approvers(id) \cup {p}
    BY <1>2 DEF Approvers, HasApproved
  <2>2. \A i \in 1..MaxProposals : i # id => Approvers(i)' = Approvers(i)
    BY <1>2 DEF Approvers, HasApproved
  <2>3. Votes'[id] = Votes[id] \cup {p}
    BY <1>1, <2>1 DEF Votes
  <2>4. Votes' = [Votes EXCEPT ![id] = Votes'[id]]
    BY <1>1, <2>2, UpdateAt DEF Votes
  <2> QED
    BY <2>3, <2>4
<1>9. /\ treasury_initialized' = treasury_initialized
      /\ Members' = Members /\ Quorums' = Quorums
  BY <1>4, CharterStands
<1>10. Lapsed' = Lapsed /\ id \notin Lapsed
  <2>1. \A i \in 1..proposal_count : proposals'[i].expires_at = proposals[i].expires_at
    BY <1>2 DEF Proposal
  <2>2. sequence <= proposals[id].expires_at /\ proposals[id].expires_at \in Nat
    BY <1>2 DEF ApproveProposal, Proposal
  <2> QED
    BY <1>2, <2>1, <2>2, LapsedStands DEF Lapsed
<1>11. Voting!Vote(p, id)
  BY <1>5, <1>6, <1>7, <1>8, <1>9, <1>10, Zenon
     DEF Voting!Vote, Voting!Alive, Voting!charter, Members, Quorums, Votes, Outcomes, Result,
         Lapsed
<1> QED
  BY <1>1, <1>11

(* A change of status moves one open motion and no vote. *)
LEMMA StatusMoves ==
    ASSUME BallotOK, NEW id \in 1..proposal_count, NEW s \in Status,
           proposals' = [proposals EXCEPT ![id].status = s],
           UNCHANGED <<proposal_count, approvals, sequence>>
    PROVE  /\ id \in 1..MaxProposals
           /\ Outcomes[id] = Result(proposals[id].status)
           /\ Outcomes' = [Outcomes EXCEPT ![id] = Result(s)]
           /\ Votes' = Votes /\ Lapsed' = Lapsed
<1>1. id \in 1..MaxProposals /\ ~(id > proposal_count)
  BY ConstantsOK DEF BallotOK
<1>2. /\ proposals \in [1..proposal_count -> Proposal] /\ proposals[id] \in Proposal
  BY DEF BallotOK
<1>3. /\ proposals'[id].status = s
      /\ \A i \in 1..proposal_count : i # id => proposals'[i] = proposals[i]
  BY <1>2 DEF Proposal
<1>4. Outcomes[id] = Result(proposals[id].status) /\ Outcomes'[id] = Result(s)
  BY <1>1, <1>3 DEF Outcomes
<1>5. \A i \in (1..MaxProposals) \ {id} : Outcomes'[i] = Outcomes[i]
  <2>1. \A i \in 1..MaxProposals : i > proposal_count \/ i \in 1..proposal_count
    BY ConstantsOK DEF BallotOK
  <2> QED
    BY <1>3, <2>1 DEF Outcomes
<1>6. Outcomes' = [Outcomes EXCEPT ![id] = Result(s)]
  <2>1. /\ Outcomes = [i \in 1..MaxProposals |-> Outcomes[i]]
        /\ Outcomes' = [i \in 1..MaxProposals |-> Outcomes'[i]]
    BY DEF Outcomes
  <2>2. Outcomes' = [Outcomes EXCEPT ![id] = Outcomes'[id]]
    BY <1>1, <1>5, <2>1, UpdateAt
  <2> QED
    BY <1>4, <2>2
<1>7. Votes' = Votes
  BY DEF Votes, Approvers, HasApproved
<1>8. Lapsed' = Lapsed
  <2>1. \A i \in 1..proposal_count : proposals'[i].expires_at = proposals[i].expires_at
    BY <1>2 DEF Proposal
  <2> QED
    BY <2>1, LapsedStands
<1> QED
  BY <1>1, <1>4, <1>6, <1>7, <1>8

(* Cancelling withdraws an open motion, by one of its voters; cancelling again *)
(* changes nothing.                                                          *)
LEMMA CancelWithdraws ==
    ASSUME BallotOK, NEW p \in Address, NEW id \in 1..proposal_count,
           CancelProposal(p, id), UNCHANGED sequence
    PROVE  \/ \E m \in 1..MaxProposals : Voting!Withdraw(p, m)
           \/ UNCHANGED <<Voting!charter, Voting!motions>>
<1>1. /\ proposals' = [proposals EXCEPT ![id].status = "Cancelled"]
      /\ UNCHANGED <<proposal_count, approvals>>
      /\ proposals[id].status # "Executed" /\ proposals[id].proposer = p
  BY DEF CancelProposal
<1>2. UNCHANGED council
  BY Zenon DEF CancelProposal
<1>3. /\ treasury_initialized' = treasury_initialized
      /\ Members' = Members /\ Quorums' = Quorums
  BY <1>2, CharterStands
<1>4. /\ id \in 1..MaxProposals
      /\ Outcomes[id] = Result(proposals[id].status)
      /\ Outcomes' = [Outcomes EXCEPT ![id] = "withdrawn"]
      /\ Votes' = Votes /\ Lapsed' = Lapsed
  BY <1>1, StatusMoves, Results DEF Status
<1>5. p \in Votes[id]
  BY <1>1, <1>4 DEF BallotOK, ApprovalsCounted, Votes, Approvers
<1>6. proposals[id].status \in {"Pending", "Cancelled"}
  BY <1>1 DEF BallotOK, Proposal, Status
<1>7. CASE proposals[id].status = "Pending"
  <2>1. Outcomes[id] = "open"
    BY <1>4, <1>7, Results
  <2>2. Voting!Withdraw(p, id)
    BY <1>3, <1>4, <1>5, <2>1, Zenon
       DEF Voting!Withdraw, Voting!charter, Members, Quorums, Votes, Outcomes, Result, Lapsed
  <2> QED
    BY <1>4, <2>2
<1>8. CASE proposals[id].status = "Cancelled"
  <2>1. Outcomes' = Outcomes
    BY <1>4, <1>8, Results DEF Outcomes
  <2> QED
    BY <1>3, <1>4, <2>1, Zenon
       DEF Voting!charter, Voting!motions, Members, Quorums, Votes, Outcomes, Result, Lapsed
<1> QED
  BY <1>6, <1>7, <1>8

(* Executing decides an open motion on the approvals it has. *)
LEMMA ExecutionDecides ==
    ASSUME BallotOK, CouncilOK, NEW p \in Address, NEW id \in 1..proposal_count, NEW type,
           Executes(p, id, type), treasury_initialized' = treasury_initialized,
           sequence \in Nat, UNCHANGED sequence
    PROVE  \E m \in 1..MaxProposals : Voting!Decide(p, m)
<1>1. /\ proposals' = [proposals EXCEPT ![id].status = "Executed"]
      /\ UNCHANGED <<proposal_count, approvals>>
      /\ proposals[id].status = "Pending"
      /\ proposals[id].approval_count >= threshold
  BY DEF Executes
<1>2. /\ id \in 1..MaxProposals
      /\ Outcomes[id] = "open"
      /\ Outcomes' = [Outcomes EXCEPT ![id] = "decided"]
      /\ Votes' = Votes /\ Lapsed' = Lapsed
  BY <1>1, StatusMoves, Results DEF Status
<1>3. p \in Members
  BY DEF Executes, Signer, Members
<1>4. Votes[id] \in Quorums
  BY <1>1, <1>2, ApproversFinite DEF BallotOK, ApprovalsCounted, Votes, Quorums
<1>5. id \notin Lapsed
  BY DEF BallotOK, Proposal, Executes, Lapsed
<1>6. Voting!Decide(p, id)
  BY <1>2, <1>3, <1>4, <1>5, MembersAndQuorums, Zenon
     DEF Voting!Decide, Voting!Alive, Voting!Enough, Members, Quorums, Votes, Outcomes, Result,
         Lapsed
<1> QED
  BY <1>2, <1>6

LEMMA MultisigStarts == TreasuryInit => Voting!MultisigInit
<1> SUFFICES ASSUME TreasuryInit PROVE Voting!MultisigInit
  OBVIOUS
<1>1. treasury_initialized = FALSE
  BY Zenon DEF TreasuryInit
<1>2. Members = {}
  BY DEF TreasuryInit, Members, IsSigner
<1>3. Votes = [m \in 1..MaxProposals |-> {}]
  BY DEF TreasuryInit, Votes, Approvers, HasApproved
<1>4. Outcomes = [m \in 1..MaxProposals |-> "unopened"]
  BY ConstantsOK DEF TreasuryInit, Outcomes
<1>5. Lapsed = {}
  BY DEF TreasuryInit, Lapsed
<1> QED
  BY <1>1, <1>2, <1>3, <1>4, <1>5, MembersAndQuorums, Zenon
     DEF Voting!MultisigInit, Voting!Enough, Members, Quorums, Votes, Outcomes, Result, Lapsed

(* Every step of the treasury is a step of the multisig or changes nothing it  *)
(* sees.                                                                     *)
LEMMA MultisigStep ==
    TreasuryInv /\ TreasuryStep
        => [Voting!MultisigNext]_<<Voting!charter, Voting!motions>>
<1> DEFINE Step == [Voting!MultisigNext]_<<Voting!charter, Voting!motions>>
<1> SUFFICES ASSUME TreasuryInv, TreasuryStep
             PROVE  Step
  OBVIOUS
<1> USE DEF TreasuryInv
<1>0. ASSUME UNCHANGED ballot, UNCHANGED sequence PROVE Lapsed' = Lapsed
  BY <1>0, LapsedStands DEF ballot
<1>1. ASSUME UNCHANGED council, UNCHANGED ballot, UNCHANGED sequence PROVE Step
  BY <1>0, <1>1, CharterStands, MotionsStand, Zenon
     DEF Voting!charter, Voting!motions, Members, Quorums, Votes, Outcomes, Result, Lapsed
<1>2. ASSUME NEW list \in InitialSigners, NEW n \in InitialThreshold,
             InitializeTreasury(list, n), UNCHANGED sequence
      PROVE  Step
  <2>1. ~treasury_initialized /\ treasury_initialized' = TRUE
    BY <1>2, Zenon DEF InitializeTreasury
  <2>2. Votes' = Votes /\ Outcomes' = Outcomes
    BY <1>2, MotionsStand, Zenon DEF InitializeTreasury
  <2>3. Lapsed' = Lapsed
    BY <1>0, <1>2, Zenon DEF InitializeTreasury
  <2>4. Voting!Found
    BY <2>1, <2>2, <2>3, MembersAndQuorums, Zenon
       DEF Voting!Found, Voting!Enough, Voting!motions,
           Members, Quorums, Votes, Outcomes, Result, Lapsed
  <2> QED
    BY <2>4, Zenon DEF Voting!MultisigNext
<1>3. ASSUME NEW p \in Address, NEW m \in 1..MaxProposals,
             Voting!Open(p, m) \/ Voting!Vote(p, m) \/ Voting!Withdraw(p, m)
                \/ Voting!Decide(p, m)
      PROVE  Step
  BY <1>3, Zenon DEF Voting!MultisigNext
<1>4. ASSUME NEW type, NEW p \in Address, NEW target, NEW n, NEW usdt, NEW ref,
             NewProposal(type, p, target, n, usdt, ref), UNCHANGED sequence
      PROVE  Step
  BY <1>3, <1>4, ProposalOpens, Zenon
<1>5. ASSUME NEW p \in Address, NEW id \in 1..proposal_count, NEW type,
             Executes(p, id, type), treasury_initialized' = treasury_initialized,
             UNCHANGED sequence
      PROVE  Step
  BY <1>3, <1>5, ExecutionDecides, Zenon
<1>6. CASE TreasuryAlone /\ UNCHANGED sequence
  <2>1. CASE ReadLimits
    BY <1>1, <1>6, <2>1, Zenon DEF ReadLimits
  <2>2. ASSUME NEW p \in Address, ProposeOrdinary(p)
        PROVE  Step
    BY <1>4, <1>6, <2>2, Zenon DEF ProposeOrdinary, ProposeMint, ProposeBurn, ProposeAddSigner,
         ProposeRemoveSigner, ProposeUpdateThreshold, ProposeEmergencyPause, ProposeSetOracle
  <2>3. ASSUME NEW p \in Address, NEW id \in 1..proposal_count, ApproveProposal(p, id)
        PROVE  Step
    BY <1>3, <1>6, <2>3, ApprovalVotes, Zenon
  <2>4. ASSUME NEW p \in Address, NEW id \in 1..proposal_count, CancelProposal(p, id)
        PROVE  Step
    BY <1>3, <1>6, <2>4, CancelWithdraws, Zenon
  <2>5. ASSUME NEW p \in Address, NEW id \in 1..proposal_count, ExecuteWithin(p, id)
        PROVE  Step
    BY <1>5, <1>6, <2>5, Zenon DEF ExecuteWithin, ExecuteAddSigner, ExecuteRemoveSigner,
         ExecuteUpdateThreshold, ExecuteSetOracle
  <2> QED
    BY <1>2, <1>6, <2>1, <2>2, <2>3, <2>4, <2>5, Zenon DEF TreasuryAlone
<1>7. CASE AnsweredCalls /\ UNCHANGED sequence
  <2>1. ASSUME NEW p \in Address, DepositQuoted(p)
        PROVE  Step
    BY <1>4, <1>7, <2>1, Zenon DEF DepositQuoted, ProposeMintFromUsdt
  <2>2. ASSUME NEW p \in Address, NEW id \in 1..proposal_count,
               \/ ExecuteMint(p, id) \/ ExecuteBurn(p, id) \/ ExecuteEmergencyPause(p, id)
               \/ \E bobt \in Nat : ExecuteMintFromUsdt(p, id, bobt)
        PROVE  Step
    BY <1>5, <1>7, <2>2, Zenon DEF ExecuteMint, ExecuteBurn, ExecuteEmergencyPause,
         ExecuteMintFromUsdt, council
  <2> QED
    BY <1>7, <2>1, <2>2, Zenon DEF AnsweredCalls
<1>8. CASE UNCHANGED <<treasuryVars, sequence>>
  <2>1. UNCHANGED council /\ UNCHANGED ballot /\ UNCHANGED sequence
    BY <1>8, Zenon DEF treasuryVars
  <2> QED
    BY <1>1, <2>1
<1>9. CASE CloseLedger /\ UNCHANGED treasuryVars
  <2>1. UNCHANGED council /\ UNCHANGED ballot /\ sequence' = sequence + 1
    BY <1>9, Zenon DEF treasuryVars, CloseLedger
  <2>2. Voting!Lapse
    BY <2>1, LedgerLapses
  <2> QED
    BY <2>2, Zenon DEF Voting!MultisigNext
<1> QED
  BY <1>6, <1>7, <1>8, <1>9, Zenon DEF TreasuryStep

(* initialize, propose_*, approve, cancel and execute (lib.rs:133-767): the  *)
(* treasury is a multisig.  What it executes it executes once, on a quorum   *)
(* of distinct recorded approvers, nothing is executed or approved after its *)
(* last ledger, and only an execution changes signers or threshold.         *)
THEOREM TreasuryImplementsMultisig == TreasurySpec => ImplementsMultisig
  BY MultisigStarts, MultisigStep, TreasurySteps, TreasuryInvariant, PTL
     DEF TreasurySpec, ImplementsMultisig, Voting!MultisigSpec
=============================================================================
