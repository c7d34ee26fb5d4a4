------------------------------- MODULE RampApp -------------------------------
(***************************************************************************)
(* A browser tab in front of the ramp service (RampRequests, which           *)
(* RampService is shown to implement): the buy/sell card of                 *)
(* the web application (bolivia-ramp.tsx with payment-qr.tsx and            *)
(* off-ramp-status.tsx), its hook and its HTTP client.  The tab shows what  *)
(* the last answer to arrive said; answers take their time, may be lost,    *)
(* and find the tab in a state other than the one they were asked in.       *)
(***************************************************************************)
EXTENDS RampRequests, Naturals

CONSTANTS
    Kind,               \* "on_ramp" or "off_ramp": what each request will be
    Account,
    Owner,              \* the account each request will be made by
    CallSlot,           \* calls in flight at once, but for the polls
    PollSlot            \* status polls in flight at once

ASSUME RampAppAssumption ==
    /\ Kind \in [Request -> {"on_ramp", "off_ramp"}]
    /\ Owner \in [Request -> Account]
    /\ CallSlot \cup PollSlot \subseteq Nat \ {0}
    /\ CallSlot \cap PollSlot = {}

Slot == CallSlot \cup PollSlot

\* No account, no request.
None == "none"
NoSimulation == 0
NoRequest == [id |-> None, status |-> None]

VARIABLES
    publicKey,          \* the account the wallet is connected with
    activeRequest, showPayment,
    isSimulating,       \* of the payment view: the slot of its simulation, if any
    quote,              \* whether the form shows a quote
    isLoading,          \* of the hook: one flag for quotes, creations, cancellations
    calls

view == <<activeRequest, showPayment, isSimulating>>
form == <<quote, isLoading>>
appVars == <<publicKey, view, form, calls>>

NoCall == [op |-> "idle", id |-> None, who |-> None, at |-> "tab", answer |-> NoRequest]

RampAppInit ==
    /\ RequestsInit
    /\ publicKey = None
    /\ activeRequest = NoRequest /\ showPayment = FALSE /\ isSimulating = NoSimulation
    /\ quote = FALSE /\ isLoading = FALSE
    /\ calls = [s \in Slot |-> NoCall]
-----------------------------------------------------------------------------
\* What the tab polls, and takes for under way.
Watched == {"pending_payment", "verified", "processing"}

\* What lets the user leave the payment view.
Terminal == {"completed", "cancelled"}

NewCall(op, id, who) ==
    [op |-> op, id |-> id, who |-> who, at |-> "service", answer |-> NoRequest]

\* A call takes the first slot that is free.
FirstFree(slots, s) ==
    /\ calls[s].op = "idle"
    /\ \A t \in slots : t < s => calls[t].op # "idle"

Send(slots, s, op, id, who) ==
    /\ FirstFree(slots, s)
    /\ calls' = [calls EXCEPT ![s] = NewCall(op, id, who)]

Ask(op, id, who) == \E s \in CallSlot : Send(CallSlot, s, op, id, who)

\* Slip: a simulation is not forgotten.
ShowOn(request, payment) ==
    /\ activeRequest' = request
    /\ showPayment' = payment
    /\ isSimulating' = isSimulating

\* The payment view of a purchase, when taken down, forgets the simulation it
\* has under way: the call goes on, and a view mounted later has its own state.
Show(request, payment) ==
    /\ activeRequest' = request
    /\ showPayment' = payment
    /\ isSimulating' = IF payment /\ request # NoRequest /\ Kind[request.id] = "on_ramp"
                       THEN isSimulating ELSE NoSimulation

\* A wallet that connects, or switches accounts, has its requests loaded; the
\* request on show stays, and so it does when the wallet disconnects.
Connect(a) ==
    /\ publicKey # a
    /\ publicKey' = a
    /\ Ask("list", None, a)
    /\ UNCHANGED <<view, form>>

Disconnect ==
    /\ publicKey # None
    /\ publicKey' = None
    /\ UNCHANGED <<view, form, calls>>

\* Whether or not an earlier poll is still unanswered.
PollRequestStatus ==
    /\ \E s \in PollSlot : Send(PollSlot, s, "get", activeRequest.id, None)
    /\ UNCHANGED <<publicKey, view, form>>

Unpaid == activeRequest.status = "pending_payment"

\* Slip: once it is paid the request is left to itself.
PollUnpaid == Unpaid /\ PollRequestStatus

\* The timer, while the request on record is under way.
Poll == activeRequest.status \in Watched /\ PollRequestStatus

PaymentShown(kind) == showPayment /\ activeRequest # NoRequest /\ Kind[activeRequest.id] = kind

\* The payment view of a purchase and of a sale.  The countdown, which is not
\* modelled, leaves both with the button to cancel; until then the first has
\* buttons to refresh and simulate.
PaymentQR == PaymentShown("on_ramp")
OffRampStatus == PaymentShown("off_ramp")

\* "Has recibido ... BOBT", "... enviados a tu cuenta bancaria".
ToldBought == PaymentQR /\ activeRequest.status = "completed"
ToldSold == OffRampStatus /\ activeRequest.status = "completed"

RefreshStatus == PaymentQR /\ Unpaid /\ PollRequestStatus

\* Mints by itself, for the amount of the request: the request knows nothing of it.
SimulatePayment ==
    /\ PaymentQR /\ Unpaid
    /\ isSimulating = NoSimulation
    /\ publicKey # None
    /\ \E s \in CallSlot : Send(CallSlot, s, "mint", activeRequest.id, publicKey) /\ isSimulating' = s
    /\ UNCHANGED <<publicKey, activeRequest, showPayment, form>>

CancelButton == (PaymentQR \/ OffRampStatus) /\ Unpaid

CancelActive ==
    /\ CancelButton
    /\ publicKey # None
    /\ Ask("cancel", activeRequest.id, publicKey)
    /\ isLoading' = TRUE
    /\ UNCHANGED <<publicKey, view, quote>>

BackToForm ==
    /\ showPayment
    /\ activeRequest.status \in Terminal
    /\ Show(NoRequest, FALSE)
    /\ UNCHANGED <<publicKey, form, calls>>
-----------------------------------------------------------------------------
\* The form, its fields being filled in, and the button of each of its tabs.
FormReady == ~showPayment /\ publicKey # None /\ ~isLoading

BuyButton(r) == FormReady /\ Kind[r] = "on_ramp"
SellButton(r) == FormReady /\ Kind[r] = "off_ramp"

\* Another tab, or another amount.
ClearQuote ==
    /\ ~showPayment /\ quote
    /\ quote' = FALSE
    /\ UNCHANGED <<publicKey, view, isLoading, calls>>

GetQuote ==
    /\ FormReady
    /\ ~quote
    /\ Ask("quote", None, publicKey)
    /\ isLoading' = TRUE
    /\ UNCHANGED <<publicKey, view, quote>>

\* Whatever tab and amount the quote on show was asked for.
Create(r) ==
    /\ BuyButton(r) \/ SellButton(r)
    /\ quote
    /\ Owner[r] = publicKey
    /\ Ask("create", r, publicKey)
    /\ isLoading' = TRUE
    /\ UNCHANGED <<publicKey, view, quote>>
-----------------------------------------------------------------------------
\* The service's side.
Asked(s, op) == calls[s].op = op /\ calls[s].at = "service"

Return(s, reply) == calls' = [calls EXCEPT ![s] = [@ EXCEPT !.at = "tab", !.answer = reply]]

Answer(s, reply) ==
    /\ Return(s, reply)
    /\ UNCHANGED <<publicKey, view, form>>

Snapshot(r, st) == [id |-> r, status |-> st]

AnswerGet(s) ==
    LET r == calls[s].id IN
    /\ Asked(s, "get")
    /\ Answer(s, IF status[r] = "unknown" THEN NoRequest ELSE Snapshot(r, status[r]))
    /\ UNCHANGED requestVars

UserRequests(a) == {r \in Request : Owner[r] = a /\ status[r] # "unknown"}

\* Of the user's requests the tab will look for one under way.
AnswerList(s) ==
    LET underWay == {r \in UserRequests(calls[s].who) : status[r] \in Watched} IN
    /\ Asked(s, "list")
    /\ \/ \E r \in underWay : Answer(s, Snapshot(r, status[r]))
       \/ underWay = {} /\ Answer(s, NoRequest)
    /\ UNCHANGED requestVars

AnswerCreate(s) ==
    LET r == calls[s].id IN
    /\ Asked(s, "create")
    /\ IF r \in issued THEN Answer(s, NoRequest) /\ UNCHANGED requestVars
       ELSE Answer(s, Snapshot(r, "pending_payment")) /\ Open(r, "pending_payment")

AnswerCancel(s) ==
    LET r == calls[s].id IN
    /\ Asked(s, "cancel")
    /\ IF status[r] = "pending_payment" /\ Owner[r] = calls[s].who
       THEN Answer(s, Snapshot(r, "cancelled")) /\ Cancel(r)
       ELSE Answer(s, NoRequest) /\ UNCHANGED requestVars

\* A call that does not arrive, or whose answer does not.  A lost poll changes
\* nothing and is repeated, as if it had been slow.
Lost(s) ==
    /\ s \in CallSlot
    /\ calls[s].op \in {"list", "create", "cancel"}
    /\ calls[s].answer # NoRequest \/ calls[s].at = "service"
    /\ Return(s, NoRequest)
    /\ UNCHANGED <<requestVars, publicKey, view, form>>
-----------------------------------------------------------------------------
\* An answer arrives, and the handler that awaits it goes on.
Answered(s, op) == calls[s].op = op /\ calls[s].at = "tab"

Done(s) == calls' = [calls EXCEPT ![s] = NoCall]

\* It goes on to another call, for the account it was started with.
GoOn(s, op, id) == calls' = [calls EXCEPT ![s] = NewCall(op, id, calls[s].who)]

Positive(s) == calls[s].answer # NoRequest

TakeStatus(s) ==
    /\ Answered(s, "get")
    /\ IF Positive(s) THEN Show(calls[s].answer, showPayment) ELSE UNCHANGED view
    /\ Done(s)
    /\ UNCHANGED <<publicKey, form>>

\* No answer is an empty list.
TakeUserRequests(s) ==
    /\ Answered(s, "list")
    /\ Show(calls[s].answer, Positive(s))
    /\ Done(s)
    /\ UNCHANGED <<publicKey, form>>

\* A quote, unless the amount is out of the limits or there is no price.
OfferQuote == BOOLEAN

\* Without one, the quote on show stays.
AnswerQuote == {quote \/ offered : offered \in OfferQuote}

TakeQuote(s) ==
    /\ calls[s].op = "quote"
    /\ quote' \in AnswerQuote
    /\ isLoading' = FALSE
    /\ Done(s)
    /\ UNCHANGED <<publicKey, view>>

TakeCreated(s) ==
    /\ Answered(s, "create")
    /\ isLoading' = FALSE
    /\ IF Positive(s)
       THEN Show(calls[s].answer, TRUE) /\ quote' = FALSE /\ GoOn(s, "list", None)
       ELSE Done(s) /\ UNCHANGED <<view, quote>>
    /\ UNCHANGED <<publicKey>>

\* Slip: the tab takes its wish for the answer.
TakeCancelledAnyhow(s) ==
    /\ Answered(s, "cancel")
    /\ isLoading' = FALSE
    /\ Show(Snapshot(calls[s].id, "cancelled"), showPayment) /\ GoOn(s, "list", None)
    /\ UNCHANGED <<publicKey, quote>>

TakeCancelled(s) ==
    /\ Answered(s, "cancel")
    /\ isLoading' = FALSE
    /\ IF Positive(s)
       THEN Show(NoRequest, FALSE) /\ GoOn(s, "list", None)
       ELSE Done(s) /\ UNCHANGED view
    /\ UNCHANGED <<publicKey, quote>>

\* Slip: one flag for all views.
TakeSimulatedForAll(s) ==
    /\ calls[s].op = "mint"
    /\ isSimulating' = NoSimulation
    /\ GoOn(s, "get", calls[s].id) \/ Done(s)
    /\ UNCHANGED <<publicKey, activeRequest, showPayment, form>>

\* Minted or not: the view that asked, if it is still mounted, frees its button.
TakeSimulated(s) ==
    /\ calls[s].op = "mint"
    /\ isSimulating' = IF isSimulating = s THEN NoSimulation ELSE isSimulating
    /\ GoOn(s, "get", calls[s].id) \/ Done(s)
    /\ UNCHANGED <<publicKey, activeRequest, showPayment, form>>
-----------------------------------------------------------------------------
User ==
    \/ \E a \in Account : Connect(a)
    \/ Disconnect \/ RefreshStatus \/ SimulatePayment \/ CancelActive \/ BackToForm
    \/ ClearQuote \/ GetQuote
    \/ \E r \in Request : Create(r)

Service(s) == AnswerGet(s) \/ AnswerList(s) \/ AnswerCreate(s) \/ AnswerCancel(s)

Take(s) == TakeStatus(s) \/ TakeUserRequests(s) \/ TakeQuote(s) \/ TakeCreated(s)
             \/ TakeCancelled(s) \/ TakeSimulated(s)

Arrive(s) == Take(s) /\ UNCHANGED requestVars

RampAppNext ==
    \/ (User \/ Poll) /\ UNCHANGED requestVars
    \/ \E s \in Slot : Service(s) \/ Lost(s) \/ Arrive(s)
    \/ RequestsNext /\ UNCHANGED appVars    \* other tabs, operators, the bank, the chain

RampAppSpec == RampAppInit /\ [][RampAppNext]_<<requestVars, appVars>>

\* The timer ticks; each poll is answered, and its answer handed to the tab.
PollFairness ==
    /\ WF_<<requestVars, appVars>>(Poll /\ UNCHANGED requestVars)
    /\ \A s \in PollSlot : WF_<<requestVars, appVars>>(Service(s) \/ Arrive(s))

FairRampAppSpec == RampAppSpec /\ PollFairness
-----------------------------------------------------------------------------
Shown == [id : Request \cup {None}, status : Watched \cup Terminal \cup {None}]

RampAppTypeOK ==
    /\ status \in [Request -> Watched \cup Terminal \cup {"unknown"}]
    /\ issued \subseteq Request /\ sent \subseteq issued
    /\ publicKey \in Account \cup {None}
    /\ activeRequest \in Shown
    /\ {showPayment, isLoading, quote} \subseteq BOOLEAN
    /\ isSimulating \in CallSlot \cup {NoSimulation}
    /\ isSimulating # NoSimulation => PaymentQR /\ calls[isSimulating].op = "mint"
    /\ calls \in [Slot -> [op : {"idle", "list", "get", "quote", "create", "cancel", "mint"},
                           id : Request \cup {None}, who : Account \cup {None},
                           at : {"service", "tab"}, answer : Shown]]

(* A user who is told that his purchase or sale is completed, or that it is *)
(* cancelled, can rely on it, however old the answer is and whatever has    *)
(* happened since, restarts of the service included: a completed one had a  *)
(* transaction sent, a cancelled one never did.                             *)
TabTellsTheTruth ==
    /\ ToldBought \/ ToldSold => activeRequest.id \in sent
    /\ activeRequest.status = "cancelled" => activeRequest.id \notin sent

(* The button of a payment view that simulates stays busy until its own      *)
(* simulation is answered, or the view is taken down: the end of one that   *)
(* an earlier view began does not free it for a second mint.                *)
SimulatesOnce ==
    [][isSimulating # NoSimulation /\ isSimulating' # isSimulating =>
          calls'[isSimulating].op # "mint" \/ ~PaymentQR']_<<requestVars, appVars>>

Showing(r, statuses) ==
    showPayment /\ activeRequest.id = r /\ activeRequest.status \in statuses

(* A tab that shows a request under way finds out how it ended: it does not *)
(* show it as under way for ever once it is completed or cancelled, unless  *)
(* the service has forgotten it.                                            *)
TabLearnsTheEnd ==
    \A r \in Request :
        Showing(r, Watched) /\ status[r] \in Terminal ~>
            ~Showing(r, Watched) \/ status[r] = "unknown"
=============================================================================
