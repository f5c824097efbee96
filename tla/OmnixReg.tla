------------------------------ MODULE OmnixReg -------------------------------
(***************************************************************************)
(* Registration: omnix_register and omnix_unregister on the app thread     *)
(* (omnix_voice.c), baresip's registration events on the re thread         *)
(* (omnix_events.c), the one REGISTER client they drive, and the queue     *)
(* that carries the states to on_reg_state.                                *)
(*                                                                         *)
(* reg_state and unregister_pending are plain fields.  The app thread      *)
(* writes them before it takes the re lock and after it has left it, so    *)
(* its functions are split there; the re thread writes a state and pushes  *)
(* it in two steps, between which the app thread's unlocked code may run.  *)
(***************************************************************************)
EXTENDS Integers, Sequences

CONSTANTS
    QueueCap,     \* notifications the mqueue pipe holds before a push fails
    MaxInFlight   \* bound: REGISTER requests the client has unanswered

ASSUME QueueAssumption  == QueueCap \in Nat \ {0}
ASSUME FlightAssumption == MaxInFlight \in Nat \ {0}

VARIABLES
    regState,     \* g_state.reg_state
    pending,      \* g_state.unregister_pending
    app,          \* where the app thread is in omnix_register / _unregister
    client,       \* the REGISTER client: none, or what it asks for
    inFlight,     \* its requests without a final response
    timer,        \* its refresh timer runs
    toPush,       \* the state the re thread has set and not pushed yet
    mq,           \* the mqueue: registration states in flight to the app
    told,         \* the last state on_reg_state was given
    lossy,        \* history: some push failed
    accepted,     \* history: the present client was answered 200
    onlyOut       \* history: every open request of the client asks for expiry 0

vars == <<regState, pending, app, client, inFlight, timer, toPush, mq, told,
          lossy, accepted, onlyOut>>
clientVars == <<client, inFlight, timer>>
history    == <<accepted, onlyOut>>

States == {"UNREGISTERED", "REGISTERING", "REGISTERED", "FAILED"}

\* The points of the app thread's code between which the re thread may run.
AppPoints == {"idle",
              "registering",   \* reg_state written, not pushed
              "told",          \* pushed; re_thread_enter is next
              "rejected",      \* ua_register failed; reg_state is next
              "failed",        \* FAILED written, not pushed
              "leaving"}       \* unregister_pending set; lock is next

TypeOK ==
    /\ regState \in States /\ pending \in BOOLEAN
    /\ app \in AppPoints
    /\ client \in {"none", "in", "out"}
    /\ inFlight \in 0..MaxInFlight /\ timer \in BOOLEAN
    /\ toPush \in States \cup {"none"}
    /\ mq \in Seq(States) /\ Len(mq) <= QueueCap
    /\ told \in States \cup {"none"}
    /\ lossy \in BOOLEAN /\ accepted \in BOOLEAN
    /\ onlyOut \in BOOLEAN

Init ==
    /\ regState = "UNREGISTERED" /\ pending = FALSE
    /\ app = "idle"
    /\ client = "none" /\ inFlight = 0 /\ timer = FALSE
    /\ toPush = "none"
    /\ mq = <<>> /\ told = "none" /\ lossy = FALSE
    /\ accepted = FALSE /\ onlyOut = FALSE

-----------------------------------------------------------------------------
\* Mutant: the capacity of the pipe is not looked at.
PushOverfull(sts) == mq' = mq \o sts /\ lossy' = lossy

\* omnix_events_push_reg_state for each state of sts in turn: what does not
\* fit in the pipe is dropped and the error ignored.
Push(sts) ==
    LET room == QueueCap - Len(mq)
        fits == IF Len(sts) <= room THEN Len(sts) ELSE room
    IN  /\ mq' = mq \o SubSeq(sts, 1, fits)
        /\ lossy' = (lossy \/ fits < Len(sts))

LockFree == toPush = "none"   \* the re thread is not inside a handler

-----------------------------------------------------------------------------
(* omnix_register.                                                         *)

\* omnix_events_notify_registering, its assignments.
RegisterCall ==
    /\ app = "idle" /\ app' = "registering"
    /\ regState' = "REGISTERING" /\ pending' = FALSE
    /\ UNCHANGED <<clientVars, toPush, mq, told, lossy, history>>

\* ... and its push.
RegisterTell ==
    /\ app = "registering" /\ app' = "told"
    /\ Push(<<"REGISTERING">>)
    /\ UNCHANGED <<regState, pending, clientVars, toPush, told, history>>

\* The states BEVENT_REGISTERING leads to: none if it is REGISTERING already.
OnRegistering == IF regState = "REGISTERING" THEN <<>> ELSE <<"REGISTERING">>

\* Mutant: the handler takes no notice of BEVENT_REGISTERING.
RegisterSendQuiet ==
    /\ app = "told" /\ LockFree
    /\ client' = "in" /\ timer' = FALSE /\ accepted' = FALSE /\ onlyOut' = FALSE
    /\ \/ /\ inFlight' = 1 /\ app' = "idle"
          /\ UNCHANGED <<regState, mq, lossy>>
       \/ /\ inFlight' = 0 /\ app' = "rejected" /\ regState' = "FAILED"
          /\ Push(<<"FAILED">>)
    /\ pending' = FALSE
    /\ UNCHANGED <<toPush, told>>

\* ua_register under the re lock: a new client replaces the old one, whose
\* answers no longer reach the handler.  The request is sent, or refused at
\* once, which is BEVENT_REGISTER_FAIL and an error to the caller.
RegisterSend ==
    /\ app = "told" /\ LockFree
    /\ client' = "in" /\ timer' = FALSE /\ accepted' = FALSE /\ onlyOut' = FALSE
    /\ pending' = FALSE   \* as RegisterCall left it, or cleared again
    /\ \/ /\ inFlight' = 1 /\ app' = "idle"
          /\ regState' = "REGISTERING"
          /\ Push(OnRegistering)
       \/ /\ inFlight' = 0 /\ app' = "rejected"
          /\ regState' = "FAILED"
          /\ Push(OnRegistering \o <<"FAILED">>)
    /\ UNCHANGED <<toPush, told>>

\* omnix_events_notify_reg_state(FAILED) after the lock: assignments, push.
RejectSet ==
    /\ app = "rejected" /\ app' = "failed"
    /\ regState' = "FAILED" /\ pending' = FALSE
    /\ UNCHANGED <<clientVars, toPush, mq, told, lossy, history>>

RejectTell ==
    /\ app = "failed" /\ app' = "idle"
    /\ Push(<<"FAILED">>)
    /\ UNCHANGED <<regState, pending, clientVars, toPush, told, history>>

-----------------------------------------------------------------------------
(* omnix_unregister.                                                       *)

UnregisterCall ==
    /\ app = "idle" /\ app' = "leaving"
    /\ pending' = TRUE
    /\ UNCHANGED <<regState, clientVars, toPush, mq, told, lossy, history>>

\* Mutant: BEVENT_UNREGISTERING only marks the request as pending.
UnregisterSendPending ==
    /\ app = "leaving" /\ app' = "idle" /\ LockFree
    /\ IF client = "none"
       THEN UNCHANGED <<clientVars, regState, pending, mq, lossy>>
       ELSE /\ client' = "out"
            /\ inFlight' \in {inFlight, inFlight + 1} /\ inFlight' <= MaxInFlight
            /\ pending' = TRUE
            /\ Push(<<"UNREGISTERED">>)
            /\ UNCHANGED <<regState, timer>>
    /\ onlyOut' = (client # "none" /\ (inFlight = 0 \/ onlyOut))
    /\ UNCHANGED <<toPush, told, accepted>>

\* ua_unregister under the re lock.  With a client BEVENT_UNREGISTERING sets
\* pending, and omnix_reg_apply(UNREGISTERED) clears it again; the client
\* asks for expiry 0 from now on (a send that fails is not reported).  Its
\* timer is not stopped.
UnregisterSend ==
    /\ app = "leaving" /\ app' = "idle" /\ LockFree
    /\ IF client = "none"
       THEN UNCHANGED <<clientVars, regState, pending, mq, lossy>>
       ELSE /\ client' = "out"
            /\ inFlight' \in {inFlight, inFlight + 1} /\ inFlight' <= MaxInFlight
            /\ regState' = "UNREGISTERED" /\ pending' = FALSE
            /\ Push(<<"UNREGISTERED">>)
            /\ UNCHANGED timer
    /\ onlyOut' = (client # "none" /\ (inFlight = 0 \/ onlyOut))
    /\ UNCHANGED <<toPush, told, accepted>>

-----------------------------------------------------------------------------
(* The re thread: answers, the refresh timer, the queue.                   *)

\* The first half of omnix_reg_apply.
Apply(st) == regState' = st /\ pending' = FALSE /\ toPush' = st

\* BEVENT_REGISTER_OK: UNREGISTERED only while unregister_pending is set.
OnOk == IF pending THEN "UNREGISTERED" ELSE "REGISTERED"

\* A final response: 200.  The timer is armed if there is an
\* expiry to refresh.
AnswerOk ==
    /\ LockFree /\ inFlight > 0
    /\ inFlight' = inFlight - 1 /\ timer' = (client = "in")
    /\ Apply(OnOk) /\ accepted' = TRUE
    /\ UNCHANGED <<app, client, mq, told, lossy, onlyOut>>

\* Mutant: a failure that will be retried is not reported.
AnswerFailQuiet ==
    /\ LockFree /\ inFlight > 0
    /\ inFlight' = inFlight - 1 /\ timer' = (client = "in")
    /\ IF client = "in"
       THEN UNCHANGED <<regState, pending, toPush>>
       ELSE Apply("FAILED")
    /\ UNCHANGED <<app, client, mq, told, lossy, history>>

\* ... a failure, or the timeout of the request.
AnswerFail ==
    /\ LockFree /\ inFlight > 0
    /\ inFlight' = inFlight - 1 /\ timer' = (client = "in")
    /\ Apply("FAILED")
    /\ UNCHANGED <<app, client, mq, told, lossy, history>>

\* The refresh is due: another request, or BEVENT_REGISTER_FAIL and a retry.
Refresh ==
    /\ LockFree /\ timer
    /\ \/ /\ inFlight < MaxInFlight /\ inFlight' = inFlight + 1
          /\ timer' = FALSE
          /\ UNCHANGED <<regState, pending, toPush>>
       \/ Apply("FAILED") /\ UNCHANGED <<inFlight, timer>>
    /\ UNCHANGED <<app, client, mq, told, lossy, history>>

\* Mutant: a state equal to the last one told is not pushed.
ReTellChanges ==
    /\ toPush # "none" /\ toPush' = "none"
    /\ Push(IF toPush = told THEN <<>> ELSE <<toPush>>)
    /\ UNCHANGED <<regState, pending, app, clientVars, told, history>>

\* The second half of omnix_reg_apply.
ReTell ==
    /\ toPush # "none" /\ toPush' = "none"
    /\ Push(<<toPush>>)
    /\ UNCHANGED <<regState, pending, app, clientVars, told, history>>

\* OMNIX_MQ_REG_STATE: on_reg_state gets the oldest state.
Deliver ==
    /\ LockFree /\ mq # <<>>
    /\ told' = Head(mq) /\ mq' = Tail(mq)
    /\ UNCHANGED <<regState, pending, app, clientVars, toPush, lossy, history>>

-----------------------------------------------------------------------------
AppStep == \/ RegisterTell \/ RegisterSend \/ RejectSet \/ RejectTell
           \/ UnregisterSend

Answer == AnswerOk \/ AnswerFail

Next == \/ RegisterCall \/ UnregisterCall \/ AppStep
        \/ Answer \/ Refresh \/ ReTell \/ Deliver

\* A call that was made returns, a request is answered or times out, and
\* the re thread leaves its handlers and polls its queue.
Fairness == /\ SF_vars(AppStep) /\ SF_vars(Answer)
            /\ WF_vars(ReTell) /\ SF_vars(Deliver)

Spec     == Init /\ [][Next]_vars
FairSpec == Spec /\ Fairness

-----------------------------------------------------------------------------
(* Correctness.                                                            *)

\* reg_state is REGISTERED, which is what lets omnix_call_make place a call,
\* only if the client that is there now was answered 200: the success of a
\* client that omnix_register has replaced never counts for the new one
\* (omnix_voice.c:388-410, omnix_events.c:171-191).
RegisteredIsBacked == regState = "REGISTERED" => accepted

\* Once nothing is on its way - no call, request, handler or notification -
\* what on_reg_state was told last is reg_state, unless a push was dropped,
\* although the two threads write and push in any order
\* (omnix_events.c:119-144, 365-394).
ToldAgrees ==
    app = "idle" /\ inFlight = 0 /\ LockFree /\ mq = <<>> /\ ~lossy
        => told = regState \/ (told = "none" /\ regState = "UNREGISTERED")

\* REGISTERING is never left without something that will end it: a request
\* without its final response, or omnix_register still on its way; and the
\* application that was told REGISTERING, unless a push was dropped, has
\* another state on its way to it (omnix_voice.c:388-437,
\* omnix_events.c:85-144).
RegisteringIsAwaited ==
    /\ regState = "REGISTERING" => app \in {"registering", "told"} \/ inFlight > 0
    /\ told = "REGISTERING" /\ ~lossy =>
         \/ mq # <<>> \/ ~LockFree \/ inFlight > 0
         \/ app \notin {"idle", "leaving"}

\* An attempt to register ends: reg_state does not stay REGISTERING
\* (omnix_voice.c:388-410 and the transaction timeout of the SIP stack).
RegisteringSettles == (regState = "REGISTERING") ~> (regState # "REGISTERING")

\* ... and the application hears of it, unless a push was dropped: there is
\* no state it waits in for ever (omnix_events.c:85-113, 244-260).
RegisteringIsResolved ==
    (told = "REGISTERING") ~> (told # "REGISTERING" \/ lossy)

\* Claim of omnix_internal.h:31 and omnix_events.c:179-182: the 200 OK to an
\* unregistration maps to UNREGISTERED, so while every open request asks for
\* expiry 0 reg_state does not become REGISTERED.
UnregisterLasts == onlyOut => regState # "REGISTERED"
=============================================================================
