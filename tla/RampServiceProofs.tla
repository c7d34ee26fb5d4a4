-------------------------- MODULE RampServiceProofs --------------------------
(* Proofs about RampService: types, the ownership of requests by their mints, *)
(* and the refinement of RampRequests, for any number of requests and polls.  *)
EXTENDS RampService, TLAPS

Bookkeeping ==
    \A r \in Request :
        /\ status[r] # "unknown" => r \in issued
        /\ tx[r] # "none" => r \in issued
        /\ mint[r] = "sending" => tx[r] = "none"
        /\ mint[r] = "polling" => tx[r] # "none"

RampInv == RampTypeOK /\ MintOwnsRequest /\ CompletedWasSent /\ Bookkeeping

LEMMA InitRampInv == RampInit => RampInv
  BY RampAssumption
  DEF RampInit, RampInv, RampTypeOK, RampStatus, MintOwnsRequest, CompletedWasSent, Bookkeeping

\* What a customer, the bank and the network do.
LEMMA PayRampInv ==
  ASSUME RampInv, NEW r \in Request, Pay(r) \/ NetworkSettles(r)
  PROVE  RampInv'
<1> USE RampAssumption
    DEF RampInv, RampTypeOK, RampStatus, MintOwnsRequest, CompletedWasSent, Bookkeeping,
        store, handlers, outside, UpdateRequest
<1>1. CASE CreateRequest(r)
  BY <1>1 DEF CreateRequest
<1>2. CASE CancelRequest(r)
  BY <1>2 DEF CancelRequest
<1>3. CASE BankCredits(r)
  BY <1>3 DEF BankCredits
<1>4. CASE SimulateDeposit(r)
  BY <1>4 DEF SimulateDeposit, FileDeposit
<1>5. CASE NetworkSettles(r)
  BY <1>5 DEF NetworkSettles
<1> QED
  BY <1>1, <1>2, <1>3, <1>4, <1>5 DEF Pay

\* What decides that a request is paid, and starts its mint.
LEMMA CheckRampInv ==
  ASSUME RampInv, NEW r \in Request, Check(r) \/ Process(r) \/ FullFlow(r)
  PROVE  RampInv'
<1> USE RampAssumption
    DEF RampInv, RampTypeOK, RampStatus, MintOwnsRequest, CompletedWasSent, Bookkeeping,
        store, handlers, outside, UpdateRequest
<1>1. CASE AdminVerify(r)
  BY <1>1 DEF AdminVerify, Verify
<1>2. CASE AutoVerifySimulated(r)
  BY <1>2 DEF AutoVerifySimulated, Verify
<1>3. CASE AskBank(r)
  BY <1>3 DEF AskBank
<1>4. CASE BankAnswers(r)
  <2>1. Verify(r) \/ UNCHANGED status
    BY <1>4 DEF BankAnswers
  <2> QED
    BY <1>4, <2>1 DEF BankAnswers, Verify
<1>5. CASE Process(r)
  BY <1>5 DEF Process, MarkProcessing
<1>6. CASE FullFlow(r)
  BY <1>6 DEF FullFlow, FileDeposit
<1> QED
  BY <1>1, <1>2, <1>3, <1>4, <1>5, <1>6 DEF Check

LEMMA MintRampInv ==
  ASSUME RampInv, NEW r \in Request, MintStep(r)
  PROVE  RampInv'
<1> USE RampAssumption
    DEF RampInv, RampTypeOK, RampStatus, MintOwnsRequest, CompletedWasSent, Bookkeeping,
        store, handlers, outside, UpdateRequest
<1>1. CASE SendMint(r)
  BY <1>1 DEF SendMint, MintFails, MintReturns
<1>2. CASE PollAgain(r)
  BY <1>2 DEF PollAgain
<1>3. CASE PollAnswered(r)
  BY <1>3 DEF PollAnswered, MintSucceeds, MintFails, MintReturns, MarkCompleted
<1>4. CASE GiveUpPolling(r)
  BY <1>4 DEF GiveUpPolling, MintSucceeds, MintReturns, MarkCompleted
<1> QED
  BY <1>1, <1>2, <1>3, <1>4 DEF MintStep

LEMMA StepRampInv == RampInv /\ [RampNext]_rampVars => RampInv'
<1> SUFFICES ASSUME RampInv, [RampNext]_rampVars PROVE RampInv'
  OBVIOUS
<1> USE RampAssumption
    DEF RampInv, RampTypeOK, RampStatus, MintOwnsRequest, CompletedWasSent, Bookkeeping,
        store, handlers, outside
<1>1. CASE ClearDeposits
  BY <1>1 DEF ClearDeposits
<1>2. CASE Restart
  BY <1>2 DEF Restart
<1>3. CASE UNCHANGED rampVars
  BY <1>3 DEF rampVars
<1> QED
  BY PayRampInv, CheckRampInv, MintRampInv, <1>1, <1>2, <1>3 DEF RampNext-----------------------------------------------------------------------------
LEMMA RampInvariant == RampSpec => []RampInv
<1>1. RampInit => RampInv
  BY InitRampInv
<1>2. RampInv /\ [RampNext]_rampVars => RampInv'
  BY StepRampInv
<1> QED
  BY <1>1, <1>2, PTL DEF RampSpec

(* Statuses are those of the type, and no mint polls more often than it may. *)
THEOREM RampTypeCorrect == RampSpec => []RampTypeOK
<1>1. RampInv => RampTypeOK
  BY DEF RampInv
<1> QED
  BY <1>1, RampInvariant, PTL

(* However many requests, and in whatever order handlers, bank, network and   *)
(* restarts interleave, a mint under way has its request to itself.           *)
THEOREM RampMintOwnsRequest == RampSpec => []MintOwnsRequest
<1>1. RampInv => MintOwnsRequest
  BY DEF RampInv
<1> QED
  BY <1>1, RampInvariant, PTL

(* What is completed has been sent to the chain.                             *)
THEOREM RampCompletedWasSent == RampSpec => []CompletedWasSent
<1>1. RampInv => CompletedWasSent
  BY DEF RampInv
<1> QED
  BY <1>1, RampInvariant, PTL
-----------------------------------------------------------------------------
LEMMA InitRefines == RampInit => Requests!RequestsInit
  BY DEF RampInit, Requests!RequestsInit

\* What leaves requests and their transactions alone, as seen from outside.
LEMMA Stutter ==
  ASSUME UNCHANGED <<status, issued, tx>>
  PROVE  UNCHANGED Requests!requestVars
  BY DEF Requests!requestVars

LEMMA VerifyRefines ==
  ASSUME NEW r \in Request, Verify(r), UNCHANGED <<issued, tx>>
  PROVE  Requests!RequestsNext
<1>1. Requests!Advance(r)
  BY DEF Verify, UpdateRequest, Requests!Advance, Requests!Move
<1> QED
  BY <1>1 DEF Requests!RequestsNext

LEMMA PayRefines ==
  ASSUME RampInv, NEW r \in Request, Pay(r) \/ NetworkSettles(r)
  PROVE  [Requests!RequestsNext]_(Requests!requestVars)
<1> USE DEF store, handlers, outside, UpdateRequest
<1>1. CASE CreateRequest(r)
  <2>1. Requests!Open(r, "pending_payment")
    BY <1>1 DEF CreateRequest, Requests!Open, Requests!Move, RampInv, Bookkeeping
  <2> QED
    BY <2>1 DEF Requests!RequestsNext
<1>2. CASE CancelRequest(r)
  <2>1. Requests!Cancel(r)
    BY <1>2 DEF CancelRequest, Requests!Cancel, Requests!Move
  <2> QED
    BY <2>1 DEF Requests!RequestsNext
<1>3. CASE BankCredits(r)
  BY <1>3, Stutter DEF BankCredits
<1>4. CASE SimulateDeposit(r)
  BY <1>4, Stutter DEF SimulateDeposit
<1>5. CASE NetworkSettles(r)
  <2>1. \A q \in Request : (tx[q] # "none") <=> (tx'[q] # "none")
    BY <1>5 DEF NetworkSettles, RampInv, RampTypeOK
  <2> QED
    BY <1>5, <2>1 DEF NetworkSettles, Requests!requestVars
<1> QED
  BY <1>1, <1>2, <1>3, <1>4, <1>5 DEF Pay

LEMMA CheckRefines ==
  ASSUME RampInv, NEW r \in Request, Check(r) \/ Process(r) \/ FullFlow(r)
  PROVE  [Requests!RequestsNext]_(Requests!requestVars)
<1> USE DEF store, handlers, outside, UpdateRequest
<1>1. CASE AdminVerify(r)
  BY <1>1, VerifyRefines DEF AdminVerify
<1>2. CASE AutoVerifySimulated(r)
  BY <1>2, VerifyRefines DEF AutoVerifySimulated
<1>3. CASE AskBank(r)
  BY <1>3, Stutter DEF AskBank
<1>4. CASE BankAnswers(r)
  <2>1. Verify(r) \/ UNCHANGED status
    BY <1>4 DEF BankAnswers
  <2> QED
    BY <1>4, <2>1, VerifyRefines, Stutter DEF BankAnswers
<1>5. CASE Process(r)
  <2>1. Requests!Advance(r)
    BY <1>5 DEF Process, MarkProcessing, Requests!Advance, Requests!Move
  <2> QED
    BY <2>1 DEF Requests!RequestsNext
<1>6. CASE FullFlow(r)
  <2>1. Requests!Open(r, "processing")
    BY <1>6 DEF FullFlow, Requests!Open, Requests!Move, RampInv, Bookkeeping
  <2> QED
    BY <2>1 DEF Requests!RequestsNext
<1> QED
  BY <1>1, <1>2, <1>3, <1>4, <1>5, <1>6 DEF Check

\* A request is sent off by the first of its mint's steps that reaches the network.
LEMMA MintRefines ==
  ASSUME RampInv, NEW r \in Request, MintStep(r)
  PROVE  [Requests!RequestsNext]_(Requests!requestVars)
<1> USE DEF store, handlers, outside, UpdateRequest
<1>1. CASE SendMint(r)
  <2>1. CASE UNCHANGED tx
    BY <1>1, <2>1, Stutter DEF SendMint, MintFails
  <2>2. CASE tx' = [tx EXCEPT ![r] = "pending"]
    <3>1. status[r] = "processing" /\ tx[r] = "none"
      BY <1>1 DEF SendMint, RampInv, MintOwnsRequest, Bookkeeping
    <3>2. \A q \in Request : tx'[q] # "none" <=> q = r \/ tx[q] # "none"
      BY <2>2 DEF RampInv, RampTypeOK
    <3>3. UNCHANGED <<status, issued>>
      BY <1>1 DEF SendMint, MintFails
    <3>4. Requests!SendOff(r)
      BY <3>1, <3>2, <3>3 DEF Requests!SendOff
    <3> QED
      BY <3>4 DEF Requests!RequestsNext
  <2> QED
    BY <1>1, <2>1, <2>2 DEF SendMint
<1>2. CASE PollAgain(r)
  BY <1>2, Stutter DEF PollAgain
<1>3. ASSUME mint[r] = "polling", MintSucceeds(r), UNCHANGED <<issued, tx>>
      PROVE  Requests!RequestsNext
  <2>1. Requests!Complete(r)
    BY <1>3 DEF MintSucceeds, MarkCompleted, Requests!Complete, Requests!Move,
                RampInv, MintOwnsRequest, Bookkeeping
  <2> QED
    BY <2>1 DEF Requests!RequestsNext
<1>4. CASE PollAnswered(r)
  BY <1>3, <1>4, Stutter DEF PollAnswered, MintFails
<1>5. CASE GiveUpPolling(r)
  BY <1>3, <1>5 DEF GiveUpPolling
<1> QED
  BY <1>1, <1>2, <1>4, <1>5 DEF MintStep

LEMMA StepRefines ==
  RampInv /\ [RampNext]_rampVars => [Requests!RequestsNext]_(Requests!requestVars)
<1> SUFFICES ASSUME RampInv, [RampNext]_rampVars
             PROVE  [Requests!RequestsNext]_(Requests!requestVars)
  OBVIOUS
<1>1. CASE ClearDeposits
  BY <1>1, Stutter DEF ClearDeposits, outside
<1>2. CASE Restart
  <2>1. Requests!Forget
    BY <1>2 DEF Restart, Requests!Forget, outside
  <2> QED
    BY <2>1 DEF Requests!RequestsNext
<1>3. CASE UNCHANGED rampVars
  BY <1>3, Stutter DEF rampVars, store, handlers, outside
<1> QED
  BY PayRefines, CheckRefines, MintRefines, <1>1, <1>2, <1>3 DEF RampNext

(* The service keeps the promise of RampRequests: every step it takes opens,  *)
(* cancels, advances, sends off, completes or forgets a request, or is none   *)
(* of a customer's business.                                                  *)
THEOREM RampImplementsRequests == RampSpec => ImplementsRequests
<1>1. RampInit => Requests!RequestsInit
  BY InitRefines
<1>2. RampInv /\ [RampNext]_rampVars => [Requests!RequestsNext]_(Requests!requestVars)
  BY StepRefines
<1> QED
  BY <1>1, <1>2, RampInvariant, PTL DEF RampSpec, ImplementsRequests, Requests!RequestsSpec
=============================================================================
