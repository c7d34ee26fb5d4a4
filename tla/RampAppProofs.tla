---------------------------- MODULE RampAppProofs ----------------------------
(* Proofs about RampRequests and RampApp: what a tab tells its user holds, for *)
(* any number of requests, accounts and calls in flight.                      *)
EXTENDS RampApp, TLAPS

Statuses == Watched \cup Terminal

\* What the service knows: a mint is sent for what is processed, and nothing is
\* opened twice.
RequestsInv ==
    /\ status \in [Request -> Statuses \cup {"unknown"}]
    /\ issued \subseteq Request /\ sent \subseteq Request
    /\ \A r \in Request :
        /\ status[r] # "unknown" => r \in issued
        /\ r \in sent => r \in issued
        /\ status[r] = "completed" => r \in sent
        /\ status[r] \in {"pending_payment", "verified", "cancelled"} => r \notin sent

\* Cancelled, and perhaps forgotten since: nothing will ever be sent for it.
Gone(r) == r \in issued /\ status[r] \in {"cancelled", "unknown"} /\ r \notin sent

\* What was said of a request, whenever that was.
StillTrue(said) ==
    /\ said.status = "completed" => said.id \in sent
    /\ said.status = "cancelled" => Gone(said.id)

Said == {NoRequest} \cup [id : Request, status : Statuses]

Op == {"idle", "list", "get", "quote", "create", "cancel", "mint"}

\* Calls that name a request.
Named == {"get", "create", "cancel", "mint"}

Call == {c \in [op : Op, id : Request \cup {None}, who : Account \cup {None},
                at : {"service", "tab"}, answer : Said] :
            c.op \in Named => c.id \in Request}

CallTypes ==
    /\ activeRequest \in Said
    /\ publicKey \in Account \cup {None}
    /\ calls \in [Slot -> Call]

Truth == StillTrue(activeRequest) /\ \A s \in Slot : StillTrue(calls[s].answer)

TabInv == RequestsInv /\ CallTypes /\ Truth
-----------------------------------------------------------------------------
LEMMA InitRequestsInv == RequestsInit => RequestsInv
  BY DEF RequestsInit, RequestsInv

LEMMA RequestsStep ==
  ASSUME RequestsInv, [RequestsNext]_requestVars
  PROVE  RequestsInv' /\ sent \subseteq sent' /\ \A r \in Request : Gone(r) => Gone(r)'
<1> USE DEF RequestsInv, Gone, Statuses, Watched, Terminal
<1>1. ASSUME NEW r \in Request, NEW first \in {"pending_payment", "processing"}, Open(r, first)
      PROVE  RequestsInv' /\ sent \subseteq sent' /\ \A q \in Request : Gone(q) => Gone(q)'
  BY <1>1 DEF Open, Move
<1>2. ASSUME NEW r \in Request, Cancel(r)
      PROVE  RequestsInv' /\ sent \subseteq sent' /\ \A q \in Request : Gone(q) => Gone(q)'
  BY <1>2 DEF Cancel, Move
<1>3. ASSUME NEW r \in Request, Advance(r)
      PROVE  RequestsInv' /\ sent \subseteq sent' /\ \A q \in Request : Gone(q) => Gone(q)'
  BY <1>3 DEF Advance, Move
<1>4. ASSUME NEW r \in Request, SendOff(r)
      PROVE  RequestsInv' /\ sent \subseteq sent' /\ \A q \in Request : Gone(q) => Gone(q)'
  BY <1>4 DEF SendOff
<1>5. ASSUME NEW r \in Request, Complete(r)
      PROVE  RequestsInv' /\ sent \subseteq sent' /\ \A q \in Request : Gone(q) => Gone(q)'
  BY <1>5 DEF Complete, Move
<1>6. CASE Forget
  BY <1>6 DEF Forget
<1>7. CASE UNCHANGED requestVars
  BY <1>7 DEF requestVars
<1> QED
  BY <1>1, <1>2, <1>3, <1>4, <1>5, <1>6, <1>7 DEF RequestsNext

\* What was true of a request stays true.
LEMMA TruthStays ==
  ASSUME RequestsInv, [RequestsNext]_requestVars, NEW said \in Said, StillTrue(said)
  PROVE  StillTrue(said)'
<1>1. said.status \in {"completed", "cancelled"} => said.id \in Request
  BY DEF Said, NoRequest, None
<1>2. sent \subseteq sent' /\ \A r \in Request : Gone(r) => Gone(r)'
  BY RequestsStep
<1> QED
  BY <1>1, <1>2 DEF StillTrue

\* What the service says of a request is true.
LEMMA SnapshotTrue ==
  ASSUME RequestsInv, NEW r \in Request, status[r] # "unknown"
  PROVE  Snapshot(r, status[r]) \in Said /\ StillTrue(Snapshot(r, status[r]))
  BY DEF RequestsInv, Snapshot, Said, StillTrue, Gone

LEMMA NothingTrue == NoRequest \in Said /\ StillTrue(NoRequest) /\ StillTrue(NoRequest)'
  BY DEF NoRequest, None, Said, StillTrue
-----------------------------------------------------------------------------
LEMMA InitTabInv == RampAppInit => TabInv
<1> SUFFICES ASSUME RampAppInit PROVE TabInv
  OBVIOUS
<1>1. RequestsInv
  BY InitRequestsInv DEF RampAppInit
<1>2. CallTypes
  BY DEF RampAppInit, CallTypes, NoCall, Said, Named, Op, Call
<1>3. Truth
  BY NothingTrue DEF RampAppInit, Truth, NoCall
<1> QED
  BY <1>1, <1>2, <1>3 DEF TabInv

\* StillTrue, after the step.
TrueNext(said) ==
    /\ said.status = "completed" => said.id \in sent'
    /\ said.status = "cancelled" =>
          said.id \in issued' /\ status'[said.id] \in {"cancelled", "unknown"} /\ said.id \notin sent'

LEMMA TrueBefore ==
  ASSUME RequestsInv, [RequestsNext]_requestVars
  PROVE  /\ \A said \in Said : StillTrue(said) => TrueNext(said)
         /\ TrueNext(NoRequest)
<1>1. sent \subseteq sent' /\ \A r \in Request : Gone(r) => Gone(r)'
  BY RequestsStep
<1>2. \A said \in Said : said.status \in {"completed", "cancelled"} => said.id \in Request
  BY DEF Said, NoRequest, None
<1> QED
  BY <1>1, <1>2 DEF StillTrue, TrueNext, Gone, NoRequest, None

\* A step keeps the invariant if what it shows, and what it answers, is true.
LEMMA TabStep ==
  ASSUME TabInv, [RequestsNext]_requestVars, CallTypes', TrueNext(activeRequest'),
         \A s \in Slot : TrueNext(calls'[s].answer)
  PROVE  TabInv'
<1>1. RequestsInv'
  BY RequestsStep DEF TabInv
<1>2. Truth'
  BY DEF Truth, StillTrue, TrueNext, Gone
<1> QED
  BY <1>1, <1>2 DEF TabInv

\* A step that says nothing new.
LEMMA QuietStep ==
  ASSUME TabInv, [RequestsNext]_requestVars, CallTypes',
         activeRequest' \in {activeRequest, NoRequest}
            \/ \E s \in Slot : activeRequest' = calls[s].answer,
         \A s \in Slot : calls'[s].answer \in {calls[s].answer, NoRequest}
  PROVE  TabInv'
<1> USE DEF TabInv, CallTypes, Truth, Call
<1>1. TrueNext(activeRequest')
  BY TrueBefore
<1>2. \A s \in Slot : TrueNext(calls'[s].answer)
  BY TrueBefore
<1> QED
  BY <1>1, <1>2, TabStep

LEMMA AskTypes ==
  ASSUME CallTypes, NEW op \in Op, NEW id \in Request \cup {None}, NEW who \in Account \cup {None},
         op \in Named => id \in Request,
         Ask(op, id, who)
  PROVE  /\ calls' \in [Slot -> Call]
         /\ \A s \in Slot : calls'[s].answer \in {calls[s].answer, NoRequest}
<1>1. PICK s \in Slot : calls' = [calls EXCEPT ![s] = NewCall(op, id, who)]
  BY DEF Ask, Send, Slot
<1>2. NewCall(op, id, who) \in Call
  BY NothingTrue DEF Call, NewCall
<1>3. NewCall(op, id, who).answer = NoRequest
  BY DEF NewCall
<1> QED
  BY <1>1, <1>2, <1>3 DEF CallTypes

LEMMA UserStep ==
  ASSUME TabInv, User \/ Poll, UNCHANGED requestVars
  PROVE  TabInv'
<1> USE DEF TabInv, view, form
<1>a. activeRequest # NoRequest => activeRequest.id \in Request
  BY DEF CallTypes, Said
<1>b. activeRequest.status \in Watched => activeRequest # NoRequest
  BY DEF Watched, NoRequest, None
<1> DEFINE Goal == /\ CallTypes'
                   /\ activeRequest' \in {activeRequest, NoRequest}
                   /\ \A s \in Slot : calls'[s].answer \in {calls[s].answer, NoRequest}
<1>1. ASSUME NEW a \in Account, Connect(a)
      PROVE  Goal
  BY <1>1, AskTypes DEF Connect, CallTypes, Op, Named
<1>2. ASSUME Disconnect PROVE Goal
  BY <1>2 DEF Disconnect, CallTypes
<1>3. ASSUME PollRequestStatus /\ activeRequest.status \in Watched PROVE Goal
  <2>1. PICK s \in PollSlot : calls' = [calls EXCEPT ![s] = NewCall("get", activeRequest.id, None)]
    BY <1>3 DEF PollRequestStatus, Send
  <2>2. NewCall("get", activeRequest.id, None) \in Call
    BY <1>3, <1>a, <1>b, NothingTrue DEF Call, Op, NewCall
  <2>3. NewCall("get", activeRequest.id, None).answer = NoRequest
    BY DEF NewCall
  <2>4. /\ calls' \in [Slot -> Call]
        /\ \A t \in Slot : calls'[t].answer \in {calls[t].answer, NoRequest}
    BY <2>1, <2>2, <2>3 DEF CallTypes, Slot
  <2> QED
    BY <1>3, <2>4 DEF PollRequestStatus, CallTypes
<1>4. ASSUME SimulatePayment PROVE Goal
  BY <1>4, <1>a, AskTypes DEF SimulatePayment, Ask, PaymentQR, PaymentShown, CallTypes, Op, Named
<1>5. ASSUME CancelActive PROVE Goal
  BY <1>5, <1>a, AskTypes DEF CancelActive, CancelButton, PaymentQR, OffRampStatus, PaymentShown,
                              CallTypes, Op, Named
<1>6. ASSUME BackToForm PROVE Goal
  BY <1>6, NothingTrue DEF BackToForm, Show, CallTypes
<1>7. ASSUME ClearQuote PROVE Goal
  BY <1>7 DEF ClearQuote, CallTypes
<1>8. ASSUME GetQuote PROVE Goal
  BY <1>8, AskTypes DEF GetQuote, CallTypes, Op, Named
<1>9. ASSUME NEW r \in Request, Create(r)
      PROVE  Goal
  BY <1>9, AskTypes DEF Create, CallTypes, Op, Named
<1>10. User \/ Poll => Goal
  <2> HIDE DEF Goal
  <2>1. RefreshStatus \/ Poll => PollRequestStatus /\ activeRequest.status \in Watched
    BY DEF RefreshStatus, Poll, Unpaid, Watched
  <2> QED
    BY <2>1, <1>1, <1>2, <1>3, <1>4, <1>5, <1>6, <1>7, <1>8, <1>9 DEF User
<1> QED
  BY <1>10, QuietStep

LEMMA ReturnTypes ==
  ASSUME CallTypes, NEW s \in Slot, NEW reply \in Said, Return(s, reply)
  PROVE  /\ calls' \in [Slot -> Call]
         /\ calls'[s].answer = reply
         /\ \A t \in Slot : t # s => calls'[t] = calls[t]
<1> DEFINE back == [calls[s] EXCEPT !.at = "tab", !.answer = reply]
<1>1. calls' = [calls EXCEPT ![s] = back]
  BY DEF Return
<1>2. back \in Call /\ back.answer = reply
  BY DEF CallTypes, Call
<1> HIDE DEF back
<1> QED
  BY <1>1, <1>2 DEF CallTypes

\* What the service answers is true as the step ends.
LEMMA AnswerStep ==
  ASSUME TabInv, [RequestsNext]_requestVars, NEW s \in Slot,
         NEW reply \in Said, TrueNext(reply), Answer(s, reply)
  PROVE  TabInv'
<1> USE DEF TabInv, view, form, Answer
<1>1. CallTypes'
  BY ReturnTypes DEF CallTypes
<1>2. TrueNext(activeRequest')
  BY TrueBefore DEF Truth, CallTypes
<1>3. \A t \in Slot : TrueNext(calls'[t].answer)
  BY ReturnTypes, TrueBefore DEF Truth, CallTypes, Call
<1> QED
  BY <1>1, <1>2, <1>3, TabStep

LEMMA SnapshotNext ==
  ASSUME RequestsInv, UNCHANGED requestVars, NEW r \in Request, status[r] # "unknown"
  PROVE  Snapshot(r, status[r]) \in Said /\ TrueNext(Snapshot(r, status[r]))
  BY SnapshotTrue DEF requestVars, StillTrue, TrueNext, Gone

LEMMA ServiceStep ==
  ASSUME TabInv, NEW s \in Slot, Service(s)
  PROVE  TabInv'
<1> USE DEF TabInv
<1>0. TrueNext(NoRequest) /\ NoRequest \in Said
  BY NothingTrue DEF TrueNext, NoRequest, None
<1>1. calls[s] \in Call
  BY DEF CallTypes
<1>2. CASE AnswerGet(s)
  <2> DEFINE r == calls[s].id
  <2>1. r \in Request
    BY <1>1, <1>2 DEF AnswerGet, Asked, Call, Named
  <2>2. CASE status[r] = "unknown"
    BY <1>0, <1>2, <2>2, AnswerStep DEF AnswerGet
  <2>3. CASE status[r] # "unknown"
    BY <1>2, <2>1, <2>3, SnapshotNext, AnswerStep DEF AnswerGet
  <2> QED
    BY <2>2, <2>3
<1>3. CASE AnswerList(s)
  <2>1. CASE Answer(s, NoRequest)
    BY <1>0, <1>3, <2>1, AnswerStep DEF AnswerList
  <2>2. ASSUME NEW r \in Request, status[r] \in Watched, Answer(s, Snapshot(r, status[r]))
        PROVE  TabInv'
    <3>1. status[r] # "unknown" /\ UNCHANGED requestVars
      BY <1>3, <2>2 DEF AnswerList, Watched
    <3> QED
      BY <2>2, <3>1, SnapshotNext, AnswerStep
  <2> QED
    BY <1>3, <2>1, <2>2 DEF AnswerList, UserRequests
<1>4. CASE AnswerCreate(s)
  <2> DEFINE r == calls[s].id
  <2>1. r \in Request
    BY <1>1, <1>4 DEF AnswerCreate, Asked, Call, Named
  <2>2. CASE r \in issued
    BY <1>0, <1>4, <2>2, AnswerStep DEF AnswerCreate
  <2>3. CASE r \notin issued
    <3>1. Open(r, "pending_payment") /\ Answer(s, Snapshot(r, "pending_payment"))
      BY <1>4, <2>3 DEF AnswerCreate
    <3>2. RequestsNext
      BY <2>1, <3>1 DEF RequestsNext
    <3>3. Snapshot(r, "pending_payment") \in Said /\ TrueNext(Snapshot(r, "pending_payment"))
      BY <2>1 DEF Snapshot, Said, Statuses, Watched, TrueNext
    <3> QED
      BY <3>1, <3>2, <3>3, AnswerStep
  <2> QED
    BY <2>2, <2>3
<1>5. CASE AnswerCancel(s)
  <2> DEFINE r == calls[s].id
             kept == status[r] = "pending_payment" /\ Owner[r] = calls[s].who
  <2>1. r \in Request
    BY <1>1, <1>5 DEF AnswerCancel, Asked, Call, Named
  <2>2. CASE ~kept
    BY <1>0, <1>5, <2>2, AnswerStep DEF AnswerCancel
  <2>3. CASE kept
    <3>1. Cancel(r) /\ Answer(s, Snapshot(r, "cancelled"))
      BY <1>5, <2>3 DEF AnswerCancel
    <3>2. RequestsNext
      BY <2>1, <3>1 DEF RequestsNext
    <3>3. r \in issued /\ r \notin sent
      BY <2>1, <2>3 DEF RequestsInv
    <3>4. status'[r] = "cancelled" /\ issued' = issued /\ sent' = sent
      BY <2>1, <3>1 DEF Cancel, Move, RequestsInv
    <3>5. Snapshot(r, "cancelled") \in Said /\ TrueNext(Snapshot(r, "cancelled"))
      BY <2>1, <3>3, <3>4 DEF Snapshot, Said, Statuses, Terminal, TrueNext
    <3> QED
      BY <3>1, <3>2, <3>5, AnswerStep
  <2> QED
    BY <2>2, <2>3
<1> QED
  BY <1>2, <1>3, <1>4, <1>5 DEF Service

LEMMA LostStep ==
  ASSUME TabInv, NEW s \in Slot, Lost(s)
  PROVE  TabInv'
<1> USE DEF TabInv
<1>1. CallTypes' /\ \A t \in Slot : calls'[t].answer \in {calls[t].answer, NoRequest}
  BY ReturnTypes, NothingTrue DEF Lost, CallTypes, view
<1>2. activeRequest' = activeRequest
  BY DEF Lost, view
<1>3. UNCHANGED requestVars
  BY DEF Lost
<1> QED
  BY <1>1, <1>2, <1>3, QuietStep

\* The call is over, or is followed by another.
LEMMA DoneTypes ==
  ASSUME CallTypes, NEW s \in Slot, Done(s)
  PROVE  /\ calls' \in [Slot -> Call]
         /\ \A t \in Slot : calls'[t].answer \in {calls[t].answer, NoRequest}
<1>1. NoCall \in Call /\ NoCall.answer = NoRequest
  BY NothingTrue DEF NoCall, Call, Op, Named
<1> QED
  BY <1>1 DEF Done, CallTypes

LEMMA GoOnTypes ==
  ASSUME CallTypes, NEW s \in Slot, NEW op \in Op, NEW id \in Request \cup {None},
         op \in Named => id \in Request, GoOn(s, op, id)
  PROVE  /\ calls' \in [Slot -> Call]
         /\ \A t \in Slot : calls'[t].answer \in {calls[t].answer, NoRequest}
<1>1. NewCall(op, id, calls[s].who) \in Call /\ NewCall(op, id, calls[s].who).answer = NoRequest
  BY NothingTrue DEF NewCall, CallTypes, Call
<1> QED
  BY <1>1 DEF GoOn, CallTypes

\* The tab shows what an answer said, or nothing.
LEMMA ArriveStep ==
  ASSUME TabInv, NEW s \in Slot, Arrive(s)
  PROVE  TabInv'
<1> DEFINE Quiet == /\ calls' \in [Slot -> Call]
                    /\ \A t \in Slot : calls'[t].answer \in {calls[t].answer, NoRequest}
           Told == activeRequest' \in {activeRequest, NoRequest, calls[s].answer}
<1> USE DEF TabInv
<1>0. calls[s] \in Call
  BY DEF CallTypes
<1>1. "list" \in Op /\ "list" \notin Named /\ None \in Request \cup {None}
  BY DEF Op, Named
<1>2. Done(s) \/ GoOn(s, "list", None) => Quiet
  BY <1>1, DoneTypes, GoOnTypes
<1>3. ASSUME TakeStatus(s) PROVE Quiet /\ Told /\ UNCHANGED publicKey
  BY <1>2, <1>3 DEF TakeStatus, Show, view
<1>4. ASSUME TakeUserRequests(s) PROVE Quiet /\ Told /\ UNCHANGED publicKey
  BY <1>2, <1>4 DEF TakeUserRequests, Show
<1>5. ASSUME TakeQuote(s) PROVE Quiet /\ Told /\ UNCHANGED publicKey
  BY <1>2, <1>5 DEF TakeQuote, view
<1>6. ASSUME TakeCreated(s) PROVE Quiet /\ Told /\ UNCHANGED publicKey
  BY <1>2, <1>6 DEF TakeCreated, Show, view
<1>7. ASSUME TakeCancelled(s) PROVE Quiet /\ Told /\ UNCHANGED publicKey
  BY <1>2, <1>7 DEF TakeCancelled, Show, view
<1>8. ASSUME TakeSimulated(s) PROVE Quiet /\ Told /\ UNCHANGED publicKey
  <2>1. calls[s].id \in Request /\ "get" \in Op
    BY <1>0, <1>8 DEF TakeSimulated, Call, Named, Op
  <2>2. GoOn(s, "get", calls[s].id) => Quiet
    BY <2>1, GoOnTypes
  <2> QED
    BY <1>2, <1>8, <2>2 DEF TakeSimulated
<1> HIDE DEF Quiet, Told
<1>9. Quiet /\ Told /\ UNCHANGED publicKey
  BY <1>3, <1>4, <1>5, <1>6, <1>7, <1>8 DEF Arrive, Take
<1>10. activeRequest' \in {activeRequest, NoRequest}
         \/ \E t \in Slot : activeRequest' = calls[t].answer
  BY <1>9 DEF Told
<1>11. activeRequest' \in Said
  BY <1>0, <1>9, NothingTrue DEF Told, CallTypes, Call
<1>12. CallTypes'
  BY <1>9, <1>11 DEF Quiet, CallTypes
<1> QED
  BY <1>9, <1>10, <1>12, QuietStep DEF Arrive, Quiet

LEMMA AppStep ==
  ASSUME TabInv, [RampAppNext]_<<requestVars, appVars>>
  PROVE  TabInv'
<1>1. CASE (User \/ Poll) /\ UNCHANGED requestVars
  BY <1>1, UserStep
<1>2. ASSUME NEW s \in Slot, Service(s) \/ Lost(s) \/ Arrive(s)
      PROVE  TabInv'
  BY <1>2, ServiceStep, LostStep, ArriveStep
<1>3. CASE [RequestsNext]_requestVars /\ UNCHANGED appVars
  <2>1. CallTypes' /\ activeRequest' = activeRequest /\ calls' = calls
    BY <1>3 DEF TabInv, CallTypes, appVars, view
  <2> QED
    BY <1>3, <2>1, QuietStep
<1> QED
  BY <1>1, <1>2, <1>3 DEF RampAppNext
-----------------------------------------------------------------------------
\* A simulated payment is under way only where it is shown.
SimulationShown == isSimulating # NoSimulation => PaymentQR /\ calls[isSimulating].op = "mint"

SimulationTypes == isSimulating \in CallSlot \cup {NoSimulation}

ViewTypes ==
    /\ showPayment \in BOOLEAN /\ SimulationTypes
    /\ quote \in BOOLEAN /\ isLoading \in BOOLEAN
    /\ SimulationShown
    /\ DOMAIN calls = Slot

\* A step that leaves the simulation on show its call.
SimulationKept ==
    isSimulating # NoSimulation => calls'[isSimulating].op = "mint"

LEMMA NoSimulationSlot == NoSimulation \notin Slot /\ CallSlot \subseteq Slot
  BY RampAppAssumption DEF NoSimulation, Slot

LEMMA ShowTypes ==
  ASSUME NEW request, NEW payment \in BOOLEAN, SimulationTypes, SimulationKept,
         Show(request, payment)
  PROVE  showPayment' \in BOOLEAN /\ SimulationTypes' /\ SimulationShown'
<1>0. activeRequest' = request /\ showPayment' = payment
  BY DEF Show
<1>1. isSimulating' \in {isSimulating, NoSimulation}
  BY DEF Show
<1>2. ASSUME isSimulating' # NoSimulation
      PROVE  PaymentQR' /\ isSimulating' = isSimulating
  <2>1. payment /\ request # NoRequest /\ Kind[request.id] = "on_ramp"
    BY <1>2, Zenon DEF Show
  <2>2. showPayment' /\ activeRequest' # NoRequest /\ Kind[activeRequest'.id] = "on_ramp"
    BY <1>0, <2>1, Zenon
  <2>3. NoRequest' = NoRequest
    BY DEF NoRequest, None
  <2> QED
    BY <1>1, <1>2, <2>2, <2>3, Zenon DEF PaymentQR, PaymentShown
<1> QED
  BY <1>0, <1>1, <1>2, Zenon DEF SimulationShown, SimulationTypes, SimulationKept, NoSimulation

LEMMA ViewAsIs ==
  ASSUME ViewTypes, SimulationKept, UNCHANGED view
  PROVE  showPayment' \in BOOLEAN /\ SimulationTypes' /\ SimulationShown'
<1>1. showPayment' = showPayment /\ isSimulating' = isSimulating /\ activeRequest' = activeRequest
  BY DEF view
<1> QED
  BY <1>1, Zenon DEF ViewTypes, SimulationTypes, SimulationShown, SimulationKept, PaymentQR,
                     PaymentShown, NoSimulation

\* A call that is made, answered or over, but the simulation on show itself.
LEMMA SimulationStays ==
  ASSUME ViewTypes, NEW s \in Slot, NEW call, calls' = [calls EXCEPT ![s] = call],
         calls[s].op # "mint" \/ call.op = "mint"
  PROVE  SimulationKept /\ DOMAIN calls' = Slot
  BY NoSimulationSlot DEF ViewTypes, SimulationShown, SimulationTypes, SimulationKept

LEMMA AskStays ==
  ASSUME ViewTypes, NEW slots, slots \subseteq Slot, NEW s \in slots, NEW op, NEW id, NEW who,
         Send(slots, s, op, id, who)
  PROVE  SimulationKept /\ DOMAIN calls' = Slot
  BY SimulationStays DEF Send, FirstFree

LEMMA CallsAsIs ==
  ASSUME ViewTypes, UNCHANGED calls
  PROVE  SimulationKept /\ DOMAIN calls' = Slot
  BY DEF ViewTypes, SimulationShown, SimulationKept

LEMMA FormAsIs ==
  ASSUME ViewTypes, UNCHANGED form
  PROVE  quote' \in BOOLEAN /\ isLoading' \in BOOLEAN
  BY DEF ViewTypes, form

\* What a step of the tab does to the simulation on show.
Simulates ==
    isSimulating' # isSimulating /\ isSimulating # NoSimulation =>
        calls'[isSimulating].op # "mint" \/ ~PaymentQR'

LEMMA UserViewTypes ==
  ASSUME ViewTypes, User \/ Poll
  PROVE  ViewTypes' /\ Simulates
<1> USE NoSimulationSlot
<1>0. SimulationTypes /\ quote \in BOOLEAN /\ isLoading \in BOOLEAN
  BY DEF ViewTypes
<1>a. PollSlot \subseteq Slot /\ CallSlot \subseteq Slot
  BY DEF Slot
<1>1. CASE (\E a \in Account : Connect(a)) \/ Disconnect \/ RefreshStatus \/ Poll
  <2>1. UNCHANGED view /\ UNCHANGED form
    BY <1>1 DEF Connect, Disconnect, RefreshStatus, Poll, PollRequestStatus
  <2>2. SimulationKept /\ DOMAIN calls' = Slot
    BY <1>1, <1>a, AskStays, CallsAsIs DEF Connect, Disconnect, RefreshStatus, Poll,
                                          PollRequestStatus, Ask
  <2> QED
    BY <2>1, <2>2, ViewAsIs, FormAsIs DEF ViewTypes, Simulates, view
<1>2. CASE SimulatePayment
  <2>1. PICK s \in CallSlot : Send(CallSlot, s, "mint", activeRequest.id, publicKey) /\ isSimulating' = s
    BY <1>2 DEF SimulatePayment
  <2>2. /\ PaymentQR /\ UNCHANGED form /\ isSimulating = NoSimulation
        /\ showPayment' = showPayment /\ activeRequest' = activeRequest
    BY <1>2 DEF SimulatePayment
  <2>3. PaymentQR' /\ showPayment' \in BOOLEAN
    BY <2>2, Zenon DEF PaymentQR, PaymentShown, ViewTypes
  <2>4. calls'[s].op = "mint" /\ DOMAIN calls' = Slot
    BY <1>a, <2>1 DEF Send, NewCall, ViewTypes
  <2> QED
    BY <2>1, <2>2, <2>3, <2>4, FormAsIs DEF ViewTypes, SimulationShown, SimulationTypes, Simulates
<1>3. CASE CancelActive \/ GetQuote \/ ClearQuote \/ \E r \in Request : Create(r)
  <2>1. UNCHANGED view /\ quote' \in {quote, FALSE} /\ isLoading' \in {isLoading, TRUE}
    BY <1>3 DEF CancelActive, GetQuote, ClearQuote, Create
  <2>2. quote' \in BOOLEAN /\ isLoading' \in BOOLEAN
    BY <1>0, <2>1
  <2>3. SimulationKept /\ DOMAIN calls' = Slot
    BY <1>3, <1>a, AskStays, CallsAsIs DEF CancelActive, GetQuote, ClearQuote, Create, Ask
  <2> QED
    BY <2>1, <2>2, <2>3, ViewAsIs DEF ViewTypes, Simulates, view
<1>4. CASE BackToForm
  <2>1. Show(NoRequest, FALSE) /\ UNCHANGED form /\ UNCHANGED calls
    BY <1>4 DEF BackToForm
  <2>2. ~PaymentQR'
    BY <2>1 DEF Show, PaymentQR, PaymentShown
  <2> QED
    BY <1>0, <2>1, <2>2, CallsAsIs, ShowTypes, FormAsIs DEF ViewTypes, Simulates
<1> QED
  BY <1>1, <1>2, <1>3, <1>4 DEF User

LEMMA ServiceViewTypes ==
  ASSUME ViewTypes, NEW s \in Slot, Service(s) \/ Lost(s)
  PROVE  ViewTypes' /\ Simulates
<1>1. UNCHANGED view /\ UNCHANGED form
  BY DEF Service, AnswerGet, AnswerList, AnswerCreate, AnswerCancel, Answer, Lost
<1>2. PICK reply : Return(s, reply)
  BY DEF Service, AnswerGet, AnswerList, AnswerCreate, AnswerCancel, Answer, Lost
<1>3. calls[s].op # "mint"
  BY DEF Service, AnswerGet, AnswerList, AnswerCreate, AnswerCancel, Asked, Lost
<1>4. SimulationKept /\ DOMAIN calls' = Slot
  BY <1>2, <1>3, SimulationStays DEF Return
<1> QED
  BY <1>1, <1>4, ViewAsIs, FormAsIs DEF ViewTypes, Simulates, view

LEMMA ArriveViewTypes ==
  ASSUME ViewTypes, NEW s \in Slot, Arrive(s)
  PROVE  ViewTypes' /\ Simulates
<1>0. /\ SimulationTypes /\ quote \in BOOLEAN /\ isLoading \in BOOLEAN
      /\ showPayment \in BOOLEAN
  BY DEF ViewTypes
<1>a. ASSUME calls[s].op # "mint", Done(s) \/ \E op, id : GoOn(s, op, id)
      PROVE  SimulationKept /\ DOMAIN calls' = Slot
  BY <1>a, SimulationStays DEF Done, GoOn
<1>b. ASSUME NEW request, NEW payment, Show(request, payment)
      PROVE  Simulates
  <2>1. activeRequest' = request /\ showPayment' = payment
    BY <1>b DEF Show
  <2>2. ASSUME isSimulating' # isSimulating
        PROVE  ~(payment /\ request # NoRequest /\ Kind[request.id] = "on_ramp")
    BY <1>b, <2>2, Zenon DEF Show
  <2> QED
    BY <2>1, <2>2, Zenon DEF Simulates, PaymentQR, PaymentShown, NoRequest, None
<1>1. CASE TakeStatus(s) \/ TakeUserRequests(s)
  <2>1. UNCHANGED form
    BY <1>1 DEF TakeStatus, TakeUserRequests
  <2>2. Positive(s) \in BOOLEAN
    BY DEF Positive
  <2>3. UNCHANGED view \/ Show(calls[s].answer, showPayment) \/ Show(calls[s].answer, Positive(s))
    BY <1>1 DEF TakeStatus, TakeUserRequests
  <2>4. SimulationKept /\ DOMAIN calls' = Slot
    BY <1>1, <1>a DEF TakeStatus, TakeUserRequests, Answered
  <2>5. showPayment' \in BOOLEAN /\ SimulationTypes' /\ SimulationShown'
    BY <1>0, <2>2, <2>3, <2>4, ViewAsIs, ShowTypes
  <2>6. Simulates
    BY <1>b, <2>3 DEF Simulates, view
  <2> QED
    BY <2>1, <2>4, <2>5, <2>6, FormAsIs DEF ViewTypes
<1>2. CASE TakeQuote(s)
  <2>1. UNCHANGED view /\ isLoading' = FALSE /\ quote' \in AnswerQuote
    BY <1>2 DEF TakeQuote
  <2>2. quote' \in BOOLEAN
    BY <2>1 DEF AnswerQuote, OfferQuote
  <2>3. SimulationKept /\ DOMAIN calls' = Slot
    BY <1>2, <1>a DEF TakeQuote
  <2> QED
    BY <2>1, <2>2, <2>3, ViewAsIs DEF ViewTypes, Simulates, view
<1>3. CASE TakeCreated(s) \/ TakeCancelled(s)
  <2>1. isLoading' = FALSE /\ quote' \in {quote, FALSE}
    BY <1>3 DEF TakeCreated, TakeCancelled
  <2>2. UNCHANGED view \/ Show(calls[s].answer, TRUE) \/ Show(NoRequest, FALSE)
    BY <1>3 DEF TakeCreated, TakeCancelled
  <2>3. quote' \in BOOLEAN /\ isLoading' \in BOOLEAN
    BY <1>0, <2>1
  <2>4. SimulationKept /\ DOMAIN calls' = Slot
    BY <1>3, <1>a DEF TakeCreated, TakeCancelled, Answered
  <2>5. showPayment' \in BOOLEAN /\ SimulationTypes' /\ SimulationShown'
    BY <2>2, <2>4, <1>0, ViewAsIs, ShowTypes
  <2>6. Simulates
    BY <1>b, <2>2 DEF Simulates, view
  <2> QED
    BY <2>3, <2>4, <2>5, <2>6 DEF ViewTypes
<1>4. CASE TakeSimulated(s)
  <2>1. /\ isSimulating' = IF isSimulating = s THEN NoSimulation ELSE isSimulating
        /\ showPayment' = showPayment /\ activeRequest' = activeRequest /\ UNCHANGED form
    BY <1>4 DEF TakeSimulated
  <2>2. PICK call : calls' = [calls EXCEPT ![s] = call] /\ call.op # "mint"
    <3>1. NewCall("get", calls[s].id, calls[s].who).op = "get" /\ NoCall.op = "idle"
      BY DEF NewCall, NoCall
    <3> QED
      BY <1>4, <3>1 DEF TakeSimulated, GoOn, Done
  <2>3. DOMAIN calls' = Slot /\ calls'[s] = call /\ \A t \in Slot : t # s => calls'[t] = calls[t]
    BY <2>2 DEF ViewTypes
  <2>4. SimulationTypes'
    BY <1>0, <2>1 DEF SimulationTypes, NoSimulation
  <2>5. PaymentQR => PaymentQR'
    BY <2>1, Zenon DEF PaymentQR, PaymentShown, NoRequest, None
  <2>6. SimulationShown'
    BY <1>0, <2>1, <2>3, <2>5, NoSimulationSlot DEF SimulationShown, SimulationTypes, ViewTypes,
                                                   NoSimulation
  <2>7. Simulates
    BY <2>1, <2>2, <2>3 DEF Simulates
  <2> QED
    BY <1>0, <2>1, <2>3, <2>4, <2>6, <2>7, FormAsIs DEF ViewTypes
<1> QED
  BY <1>1, <1>2, <1>3, <1>4 DEF Arrive, Take

LEMMA ViewStep ==
  ASSUME ViewTypes, [RampAppNext]_<<requestVars, appVars>>
  PROVE  ViewTypes' /\ Simulates
<1>1. CASE (User \/ Poll) /\ UNCHANGED requestVars
  BY <1>1, UserViewTypes
<1>2. ASSUME NEW s \in Slot, Service(s) \/ Lost(s) \/ Arrive(s)
      PROVE  ViewTypes' /\ Simulates
  BY <1>2, ServiceViewTypes, ArriveViewTypes
<1>3. CASE UNCHANGED appVars
  <2>1. UNCHANGED view /\ UNCHANGED form /\ UNCHANGED calls
    BY <1>3 DEF appVars
  <2> QED
    BY <2>1, CallsAsIs, ViewAsIs, FormAsIs DEF ViewTypes, Simulates, view
<1> QED
  BY <1>1, <1>2, <1>3 DEF RampAppNext
-----------------------------------------------------------------------------
(* The strengthened invariant of the tab and of the requests behind it. *)
THEOREM TabInvariant == RampAppSpec => [](TabInv /\ ViewTypes)
<1>1. RampAppInit => ViewTypes
  BY DEF RampAppInit, ViewTypes, SimulationShown, SimulationTypes
<1>2. TabInv /\ ViewTypes /\ [RampAppNext]_<<requestVars, appVars>> => (TabInv /\ ViewTypes)'
  BY AppStep, ViewStep
<1> QED
  BY <1>1, <1>2, InitTabInv, PTL DEF RampAppSpec

(* Types of the card and of its calls, and the simulated mint of             *)
(* payment-qr.tsx: one is under way only while the purchase it pays is on   *)
(* show, for any requests, accounts and number of calls in flight.          *)
THEOREM RampAppTypeCorrect == RampAppSpec => []RampAppTypeOK
<1>1. TabInv /\ ViewTypes => RampAppTypeOK
  <2> SUFFICES ASSUME TabInv, ViewTypes PROVE RampAppTypeOK
    OBVIOUS
  <2>1. Said \subseteq Shown
    BY DEF Said, Shown, NoRequest, None, Statuses
  <2>2. {showPayment, isLoading, quote} \subseteq BOOLEAN
    BY DEF ViewTypes
  <2>3. /\ isSimulating \in CallSlot \cup {NoSimulation}
        /\ isSimulating # NoSimulation => PaymentQR /\ calls[isSimulating].op = "mint"
    BY DEF ViewTypes, SimulationShown, SimulationTypes
  <2>4. /\ status \in [Request -> Watched \cup Terminal \cup {"unknown"}]
        /\ issued \subseteq Request /\ sent \subseteq issued
    BY DEF TabInv, RequestsInv, Statuses
  <2>5. publicKey \in Account \cup {None} /\ activeRequest \in Shown
    BY <2>1 DEF TabInv, CallTypes
  <2>6. calls \in [Slot -> [op : {"idle", "list", "get", "quote", "create", "cancel", "mint"},
                           id : Request \cup {None}, who : Account \cup {None},
                           at : {"service", "tab"}, answer : Shown]]
    BY <2>1 DEF TabInv, CallTypes, Call, Op
  <2> QED
    BY <2>2, <2>3, <2>4, <2>5, <2>6 DEF RampAppTypeOK
<1> QED
  BY <1>1, TabInvariant, PTL

(* A simulated mint of payment-qr.tsx keeps the button of its view busy until  *)
(* it is answered or the view is gone, for any number of calls in flight: no *)
(* end of another simulation frees it.                                       *)
THEOREM ButtonKeptBusy == RampAppSpec => SimulatesOnce
<1>1. ViewTypes /\ [RampAppNext]_<<requestVars, appVars>> =>
        [isSimulating # NoSimulation /\ isSimulating' # isSimulating =>
            calls'[isSimulating].op # "mint" \/ ~PaymentQR']_<<requestVars, appVars>>
  BY ViewStep DEF Simulates
<1> QED
  BY <1>1, TabInvariant, PTL DEF RampAppSpec, SimulatesOnce

(* A tab that says a request is completed or cancelled tells the truth, for *)
(* any requests, accounts and number of calls in flight: what an answer     *)
(* said of an ended request stays true, however long the answer took and    *)
(* whatever the service did, or forgot, meanwhile.                          *)
THEOREM TruthTold == RampAppSpec => []TabTellsTheTruth
<1>1. TabInv => TabTellsTheTruth
  BY DEF TabInv, Truth, StillTrue, Gone, TabTellsTheTruth, ToldBought, ToldSold,
         PaymentQR, OffRampStatus, PaymentShown
<1> QED
  BY <1>1, TabInvariant, PTL
=============================================================================
