---------------------------- MODULE RampService ----------------------------
(***************************************************************************)
(* The on/off-ramp service (services/ramp-service): requests kept in memory *)
(* move from payment to mint.  Node runs one handler at a time up to its    *)
(* next await, so an action is what happens between two awaits; between     *)
(* them other handlers run, the bank and the chain move on, and the process *)
(* may die, taking requests and handlers with it.                           *)
(***************************************************************************)
EXTENDS Naturals

CONSTANTS
    Request,            \* request ids, fresh for ever (nanoid)
    Kind, Amount,       \* what each request asks for
    MaxAttempts         \* polls of a submitted transaction (30 in the code)

ASSUME RampAssumption ==
    /\ Kind \in [Request -> {"on_ramp", "off_ramp"}]
    /\ Amount \in [Request -> Nat]
    /\ MaxAttempts \in Nat \ {0}

\* The other statuses of the type are set in no handler, or set and left within
\* one step of a handler.  "unknown": the store holds no such request.
RampStatus == {"pending_payment", "verified", "processing", "completed", "cancelled",
               "unknown"}

VARIABLES
    status,
    issued,             \* the ids handed out
    deposits,           \* requests whose reference the bank simulator holds
    bank,               \* requests whose transfer the bank has credited
    verifying,          \* auto-verify handlers that await the bank
    mint,               \* where the mintBOBT call of each request is
    attempts,           \* polls it has made
    tx                  \* its transaction, as the network sees it

store    == <<status, issued, deposits>>
handlers == <<verifying, mint, attempts>>
outside  == <<bank, tx>>
rampVars == <<store, handlers, outside>>

RampInit ==
    /\ status = [r \in Request |-> "unknown"]
    /\ issued = {} /\ deposits = {} /\ bank = {} /\ verifying = {}
    /\ mint = [r \in Request |-> "idle"]
    /\ attempts = [r \in Request |-> 0]
    /\ tx = [r \in Request |-> "none"]
-----------------------------------------------------------------------------
OnRamp(r) == Kind[r] = "on_ramp"

UpdateRequest(r, s) == status' = [status EXCEPT ![r] = s]

CreateRequest(r) ==
    /\ r \notin issued
    /\ issued' = issued \cup {r}
    /\ UpdateRequest(r, "pending_payment")
    /\ UNCHANGED <<deposits, handlers, outside>>

\* Slip: whatever is not finished can be cancelled.
CancelUnfinished(r) ==
    /\ status[r] \in {"pending_payment", "verified", "processing"}
    /\ UpdateRequest(r, "cancelled")
    /\ UNCHANGED <<issued, deposits, handlers, outside>>

\* By its owner.  Nothing else ends a request that is not paid: expiresAt is
\* stored and never read.
CancelRequest(r) ==
    /\ status[r] = "pending_payment"
    /\ UpdateRequest(r, "cancelled")
    /\ UNCHANGED <<issued, deposits, handlers, outside>>

\* Slip: what was checked before the await is not checked again.
VerifyUnchecked(r) == UpdateRequest(r, "verified")

\* markPaymentReceived, submitForVerification and verifyRequest run back to
\* back: nobody sees the statuses in between.
Verify(r) ==
    /\ status[r] = "pending_payment"
    /\ UpdateRequest(r, "verified")

AdminVerify(r) ==
    /\ Verify(r)
    /\ UNCHANGED <<issued, deposits, handlers, outside>>

\* The simulator keeps deposits by their reference.  An off-ramp request has
\* none: its deposit is filed under one that nobody looks up.
FileDeposit(r) == deposits' = IF OnRamp(r) THEN deposits \cup {r} ELSE deposits

DepositFound(r) == r \in deposits

SimulateDeposit(r) ==
    /\ status[r] = "pending_payment"
    /\ FileDeposit(r)
    /\ UNCHANGED <<status, issued, handlers, outside>>

ClearDeposits ==
    /\ deposits' = {}
    /\ UNCHANGED <<status, issued, handlers, outside>>

AutoVerifySimulated(r) ==
    /\ DepositFound(r)
    /\ Verify(r)
    /\ UNCHANGED <<issued, deposits, handlers, outside>>

AskBank(r) ==
    /\ status[r] = "pending_payment"
    /\ verifying' = verifying \cup {r}
    /\ UNCHANGED <<store, mint, attempts, outside>>

\* The statement shows what has been credited, or nothing: an account that is not
\* let in or a bank that does not answer is an empty statement.
Movements == {bank, {}}

\* The empty reference of an off-ramp is part of every other reference, so any
\* credit of the same amount answers for it.
Credited(r, movements) ==
    \/ r \in movements
    \/ ~OnRamp(r) /\ \E other \in movements : Amount[other] = Amount[r]

\* The status checked before the await may have changed: it is checked again.
BankAnswers(r) ==
    /\ r \in verifying
    /\ verifying' = verifying \ {r}
    /\ \E movements \in Movements :
           \/ Credited(r, movements) /\ Verify(r)
           \/ ~Credited(r, movements) /\ UNCHANGED status
           \/ status[r] # "pending_payment" /\ UNCHANGED status
    /\ UNCHANGED <<issued, deposits, mint, attempts, outside>>

MarkProcessing(r) ==
    /\ status[r] = "verified"
    /\ UpdateRequest(r, "processing")

MarkCompleted(r) == UpdateRequest(r, "completed")

\* Marking and minting follow the check with no await between.
Process(r) ==
    /\ MarkProcessing(r)
    /\ mint' = [mint EXCEPT ![r] = "sending"]
    /\ UNCHANGED <<issued, deposits, verifying, attempts, outside>>

\* full-flow: create, deposit, verify and mark, all before the mint's first await.
FullFlow(r) ==
    /\ OnRamp(r) /\ r \notin issued
    /\ issued' = issued \cup {r}
    /\ FileDeposit(r)
    /\ UpdateRequest(r, "processing")
    /\ mint' = [mint EXCEPT ![r] = "sending"]
    /\ UNCHANGED <<verifying, attempts, outside>>
-----------------------------------------------------------------------------
MintReturns(r) == mint' = [mint EXCEPT ![r] = "idle"]

\* A reported success completes the request.
MintSucceeds(r) ==
    /\ MintReturns(r)
    /\ MarkCompleted(r)

\* A reported failure leaves it as it is.
MintFails(r) ==
    /\ MintReturns(r)
    /\ UNCHANGED status

\* Account, simulation, signature, submission.  The answer to a submission may
\* be lost after the network has taken it.
SendMint(r) ==
    /\ mint[r] = "sending"
    /\ \/ MintFails(r) /\ UNCHANGED tx
       \/ MintFails(r) /\ tx' = [tx EXCEPT ![r] = "pending"]
       \/ /\ mint' = [mint EXCEPT ![r] = "polling"]
          /\ tx' = [tx EXCEPT ![r] = "pending"]
          /\ UNCHANGED status
    /\ UNCHANGED <<issued, deposits, verifying, attempts, bank>>

\* Slip: a poll that finds nothing is not counted.
PollUncounted(r) ==
    /\ mint[r] = "polling"
    /\ attempts[r] < MaxAttempts
    /\ UNCHANGED rampVars

\* Slip: one poll too many.
PollOnceMore(r) ==
    /\ mint[r] = "polling"
    /\ attempts[r] <= MaxAttempts
    /\ attempts' = [attempts EXCEPT ![r] = @ + 1]
    /\ UNCHANGED <<store, verifying, mint, outside>>

\* The network need not know yet, or answer, or be understood.
PollAgain(r) ==
    /\ mint[r] = "polling"
    /\ attempts[r] < MaxAttempts
    /\ attempts' = [attempts EXCEPT ![r] = @ + 1]
    /\ UNCHANGED <<store, verifying, mint, outside>>

\* Slip: any settled transaction counts as done.
PollAnySettled(r) ==
    /\ mint[r] = "polling"
    /\ attempts[r] < MaxAttempts
    /\ tx[r] \in {"success", "failed"}
    /\ MintSucceeds(r)
    /\ UNCHANGED <<issued, deposits, verifying, attempts, outside>>

PollAnswered(r) ==
    /\ mint[r] = "polling"
    /\ attempts[r] < MaxAttempts
    /\ \/ tx[r] = "success" /\ MintSucceeds(r)
       \/ tx[r] = "failed" /\ MintFails(r)
    /\ UNCHANGED <<issued, deposits, verifying, attempts, outside>>

\* Out of attempts, the mint is reported as done.
GiveUpPolling(r) ==
    /\ mint[r] = "polling"
    /\ attempts[r] = MaxAttempts
    /\ MintSucceeds(r)
    /\ UNCHANGED <<issued, deposits, verifying, attempts, outside>>
-----------------------------------------------------------------------------
BankCredits(r) ==
    /\ r \in issued
    /\ OnRamp(r)
    /\ bank' = bank \cup {r}
    /\ UNCHANGED <<store, handlers, tx>>

\* A pending transaction mints, is refused by the token, or is never included.
NetworkSettles(r) ==
    /\ tx[r] = "pending"
    /\ \E outcome \in {"success", "failed", "dropped"} : tx' = [tx EXCEPT ![r] = outcome]
    /\ UNCHANGED <<store, handlers, bank>>

\* The store is memory.
Restart ==
    /\ status' = [r \in Request |-> "unknown"]
    /\ deposits' = {} /\ verifying' = {}
    /\ mint' = [r \in Request |-> "idle"]
    /\ attempts' = [r \in Request |-> 0]
    /\ UNCHANGED <<issued, outside>>
-----------------------------------------------------------------------------
Pay(r) == CreateRequest(r) \/ CancelRequest(r) \/ BankCredits(r) \/ SimulateDeposit(r)

Check(r) == AdminVerify(r) \/ AutoVerifySimulated(r) \/ AskBank(r) \/ BankAnswers(r)

MintStep(r) == SendMint(r) \/ PollAgain(r) \/ PollAnswered(r) \/ GiveUpPolling(r)

RampNext ==
    \/ \E r \in Request : \/ Pay(r) \/ Check(r) \/ Process(r) \/ FullFlow(r)
                          \/ MintStep(r) \/ NetworkSettles(r)
    \/ ClearDeposits
    \/ Restart

RampSpec == RampInit /\ [][RampNext]_rampVars

\* A handler whose await settles is resumed, and every await settles: HTTP calls
\* answer or fail, timers fire.  Nothing obliges operators, the bank or the chain.
FairRampSpec == RampSpec /\ \A r \in Request : WF_rampVars(MintStep(r))
-----------------------------------------------------------------------------
RampTypeOK ==
    /\ status \in [Request -> RampStatus]
    /\ {issued, deposits, bank, verifying} \subseteq SUBSET Request
    /\ mint \in [Request -> {"idle", "sending", "polling"}]
    /\ attempts \in [Request -> 0..MaxAttempts]
    /\ tx \in [Request -> {"none", "pending", "success", "failed", "dropped"}]

(* While a mint is under way its request is "processing", so that nobody    *)
(* can cancel it, verify it or start a second mint meanwhile; and only a    *)
(* request that got that far ever has a transaction.                        *)
MintOwnsRequest ==
    \A r \in Request :
        /\ mint[r] # "idle" => status[r] = "processing"
        /\ tx[r] # "none" => status[r] \in {"processing", "completed", "unknown"}

(* Each request goes one way, from payment or cancellation to a single      *)
(* mint: nothing that resumes with what it read before an await cancels,    *)
(* verifies or mints a request that has moved on meanwhile.                 *)
Requests == INSTANCE RampRequests WITH sent <- {r \in Request : tx[r] # "none"}

ImplementsRequests == Requests!RequestsSpec

(* No path to "completed" avoids the chain: a transaction of the request    *)
(* was sent, and the network has not been seen to refuse it meanwhile       *)
(* unless the polls ran out first.                                          *)
CompletedWasSent ==
    \A r \in Request : status[r] = "completed" =>
        /\ tx[r] # "none"
        /\ attempts[r] < MaxAttempts => tx[r] = "success"

(* Every mintBOBT call returns, whatever the network does.                  *)
MintCallsReturn == \A r \in Request : mint[r] # "idle" ~> mint[r] = "idle"
=============================================================================
