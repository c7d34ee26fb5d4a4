---------------------------- MODULE RampRequests ----------------------------
(***************************************************************************)
(* What the ramp service promises of a request, whoever handles it and      *)
(* however often the service restarts: it is paid for or cancelled, never   *)
(* both; a mint is sent for a request being processed and for no other; and *)
(* it is completed only after that.  A restart forgets requests and never   *)
(* brings one back.                                                         *)
(***************************************************************************)
CONSTANT Request

VARIABLES
    status,
    issued,             \* the ids handed out
    sent                \* requests for which a mint was sent to the network

requestVars == <<status, issued, sent>>

RequestsInit ==
    /\ status = [r \in Request |-> "unknown"]
    /\ issued = {} /\ sent = {}

Move(r, from, to) ==
    /\ status[r] = from
    /\ status' = [status EXCEPT ![r] = to]

\* Opened unpaid, or paid and processed on the spot.
Open(r, first) ==
    /\ r \notin issued
    /\ issued' = issued \cup {r}
    /\ Move(r, "unknown", first)
    /\ UNCHANGED sent

Cancel(r) == Move(r, "pending_payment", "cancelled") /\ UNCHANGED <<issued, sent>>

Advance(r) ==
    /\ \/ Move(r, "pending_payment", "verified")
       \/ Move(r, "verified", "processing")
    /\ UNCHANGED <<issued, sent>>

SendOff(r) ==
    /\ status[r] = "processing" /\ r \notin sent
    /\ sent' = sent \cup {r}
    /\ UNCHANGED <<status, issued>>

Complete(r) ==
    /\ r \in sent
    /\ Move(r, "processing", "completed")
    /\ UNCHANGED <<issued, sent>>

Forget ==
    /\ status' = [r \in Request |-> "unknown"]
    /\ UNCHANGED <<issued, sent>>

RequestsNext ==
    \/ \E r \in Request : \/ \E first \in {"pending_payment", "processing"} : Open(r, first)
                          \/ Cancel(r) \/ Advance(r) \/ SendOff(r) \/ Complete(r)
    \/ Forget

RequestsSpec == RequestsInit /\ [][RequestsNext]_requestVars
=============================================================================
