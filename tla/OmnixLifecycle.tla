---------------------------- MODULE OmnixLifecycle ----------------------------
(***************************************************************************)
(* omnix_init and omnix_shutdown (omnix_voice.c): one application thread,  *)
(* the re thread it creates and joins, the mqueue between them             *)
(* (omnix_events.c), and the poll loop of libre that serves it.            *)
(*                                                                         *)
(* What the loop does between two polls is one action of the re thread,    *)
(* except where the application thread's unlocked writes matter: the test  *)
(* of shutting_down before a push, and the test of polling by the loop.    *)
(***************************************************************************)
EXTENDS Integers, Sequences, FiniteSets

CONSTANTS
    QueueCap,   \* messages the mqueue pipe holds before a push fails
    Patience    \* bound: sleeps before omnix_init gives up (5000 of 1 ms)

\* RE_READY is pushed to an empty pipe and SHUTDOWN may be pushed behind it.
ASSUME QueueAssumption    == QueueCap \in Nat /\ QueueCap >= 2
ASSUME PatienceAssumption == Patience \in Nat

VARIABLES
    pc,           \* where the application thread is
    initialized,  \* g_state.initialized
    shutting,     \* g_state.shutting_down
    stackUp,      \* g_stack_up: libre and baresip are there
    mqUp,         \* g_state.mqueue # NULL
    ready,        \* g_re_ready
    waits,        \* sleeps omnix_init has done for it
    thread,       \* the re thread
    polling,      \* re->polling, the loop's condition
    mq,           \* the messages in the pipe
    lossy,        \* history: some push found the pipe full
    leaked        \* history: payloads left in the pipe when it was closed

vars == <<pc, initialized, shutting, stackUp, mqUp, ready, waits, thread,
          polling, mq, lossy, leaked>>
g_state == <<initialized, shutting>>
loop    == <<thread, polling>>

\* "down" and "up": between two calls of the application.
Rest    == {"down", "up"}
PCs     == Rest \cup {"events", "create", "ask", "wait", "account", "stop",
                      "join", "close"}

\* "check": before the loop's test of polling; "poll": in fd_poll; "emit":
\* in a baresip handler that has found shutting_down unset.
Running == {"check", "poll", "emit"}
Threads == Running \cup {"none", "started", "exited"}

Messages == {"ready", "shutdown", "payload"}

TypeOK ==
    /\ pc \in PCs
    /\ initialized \in BOOLEAN /\ shutting \in BOOLEAN
    /\ stackUp \in BOOLEAN /\ mqUp \in BOOLEAN
    /\ ready \in BOOLEAN /\ waits \in 0..Patience
    /\ thread \in Threads /\ polling \in BOOLEAN
    /\ mq \in Seq(Messages) /\ Len(mq) <= QueueCap
    /\ lossy \in BOOLEAN /\ leaked \in 0..QueueCap

Init ==
    /\ pc = "down"
    /\ initialized = FALSE /\ shutting = FALSE
    /\ stackUp = FALSE /\ mqUp = FALSE
    /\ ready = FALSE /\ waits = 0
    /\ thread = "none" /\ polling = FALSE
    /\ mq = <<>> /\ lossy = FALSE /\ leaked = 0

Full == Len(mq) = QueueCap

\* Mutant: the pipe takes everything.
PushAlways(m) == mq' = Append(mq, m) /\ UNCHANGED lossy

\* mqueue_push: false when the pipe is full.
Push(m) == ~Full /\ mq' = Append(mq, m) /\ UNCHANGED lossy

\* ... of a notification: what does not fit is freed and forgotten.
Notify ==
    \/ Push("payload")
    \/ Full /\ lossy' = TRUE /\ UNCHANGED mq

-----------------------------------------------------------------------------
(* omnix_init.                                                             *)

\* A thread is created only once the queue is there, so a step that fails
\* before leaves nothing to stop.
InitBegin ==
    /\ pc = "down" /\ ~initialized
    /\ ready' = FALSE /\ waits' = 0
    /\ stackUp' = TRUE /\ lossy' = FALSE /\ leaked' = 0
    /\ pc' \in {"events", "close"}   \* libre, baresip and the UA, or an error
    /\ UNCHANGED <<g_state, mqUp, loop, mq>>

EventsInit ==
    /\ pc = "events"
    /\ \/ pc' = "create" /\ mqUp' = TRUE
       \/ pc' = "close"  /\ mqUp' = FALSE
    /\ UNCHANGED <<g_state, stackUp, ready, waits, loop, mq, lossy, leaked>>

CreateThread ==
    /\ pc = "create"
    /\ \/ pc' = "ask"   /\ thread' = "started"
       \/ pc' = "close" /\ thread' = "none"
    /\ UNCHANGED <<g_state, stackUp, mqUp, ready, waits, polling, mq, lossy,
                   leaked>>

AskReady ==
    /\ pc = "ask" /\ pc' = "wait"
    /\ Push("ready")
    /\ UNCHANGED <<g_state, stackUp, mqUp, ready, waits, loop, leaked>>

Sleep ==
    /\ pc = "wait" /\ ~ready /\ waits < Patience /\ waits' = waits + 1
    /\ UNCHANGED <<pc, g_state, stackUp, mqUp, ready, loop, mq, lossy, leaked>>

\* Mutant: the wait ends without a look at g_re_ready.
AwaitUnread ==
    /\ pc = "wait" /\ (ready \/ waits = Patience) /\ pc' = "account"
    /\ UNCHANGED <<g_state, stackUp, mqUp, ready, waits, loop, mq, lossy, leaked>>

\* The wait ends: the loop is live, or OMNIX_ERR_TIMEOUT.
Await ==
    /\ pc = "wait"
    /\ \/ ready /\ pc' = "account"
       \/ ~ready /\ waits = Patience /\ pc' = "stop"
    /\ UNCHANGED <<g_state, stackUp, mqUp, ready, waits, loop, mq, lossy, leaked>>

\* omnix_account_setup under the re lock; an error shuts down.
AccountSetup ==
    /\ pc = "account"
    /\ \/ pc' = "up" /\ initialized' = TRUE /\ UNCHANGED shutting
       \/ pc' = "stop" /\ shutting' = TRUE /\ UNCHANGED initialized
    /\ UNCHANGED <<stackUp, mqUp, ready, waits, loop, mq, lossy, leaked>>

-----------------------------------------------------------------------------
(* The application, and omnix_shutdown.                                    *)

\* An API call that notifies, such as omnix_register.
AppNotify ==
    /\ pc = "up" /\ Notify
    /\ UNCHANGED <<pc, g_state, stackUp, mqUp, ready, waits, loop, leaked>>

\* Mutant: shutting_down is left to the re thread to set.
ShutdownUnmarked ==
    /\ pc = "up" /\ pc' = "stop"
    /\ UNCHANGED <<g_state, stackUp, mqUp, ready, waits, loop, mq, lossy, leaked>>

ShutdownBegin ==
    /\ pc = "up" /\ pc' = "stop"
    /\ shutting' = TRUE
    /\ UNCHANGED <<initialized, stackUp, mqUp, ready, waits, loop, mq, lossy,
                   leaked>>

\* Mutant: no fallback when the request to stop cannot be pushed.
StopNoFallback ==
    /\ pc = "stop" /\ pc' = "join"
    /\ \/ Push("shutdown") /\ UNCHANGED polling
       \/ Full /\ lossy' = TRUE /\ UNCHANGED <<mq, polling>>
    /\ UNCHANGED <<g_state, stackUp, mqUp, ready, waits, thread, leaked>>

\* Mutant: the request is re_cancel from here, whatever the thread does.
StopCancels ==
    /\ pc = "stop" /\ pc' = "join"
    /\ polling' = FALSE /\ UNCHANGED <<mq, lossy>>
    /\ UNCHANGED <<g_state, stackUp, mqUp, ready, waits, thread, leaked>>

\* omnix_re_thread_stop_and_join, the request: over the queue, or re_cancel
\* from here (the nudge after it finds the pipe full or is one message more).
Stop ==
    /\ pc = "stop" /\ pc' = "join"
    /\ \/ Push("shutdown") /\ UNCHANGED polling
       \/ Full /\ lossy' = TRUE /\ polling' = FALSE /\ UNCHANGED mq
    /\ UNCHANGED <<g_state, stackUp, mqUp, ready, waits, thread, leaked>>

\* Mutant: the thread is not waited for.
JoinNot ==
    /\ pc = "join" /\ pc' = "close" /\ UNCHANGED thread
    /\ UNCHANGED <<g_state, stackUp, mqUp, ready, waits, polling, mq, lossy,
                   leaked>>

Join ==
    /\ pc = "join" /\ pc' = "close"
    /\ thread = "exited" /\ thread' = "none"
    /\ UNCHANGED <<g_state, stackUp, mqUp, ready, waits, polling, mq, lossy,
                   leaked>>

\* omnix_events_shutdown, the close of the stack, the reset of g_state: what
\* the pipe still holds is lost to its payloads.
Close ==
    /\ pc = "close" /\ pc' = "down"
    /\ mqUp' = FALSE /\ mq' = <<>>
    /\ leaked' = Cardinality({i \in DOMAIN mq : mq[i] = "payload"})
    /\ stackUp' = FALSE /\ initialized' = FALSE /\ shutting' = FALSE
    /\ ready' = FALSE
    /\ UNCHANGED <<waits, loop, lossy>>

-----------------------------------------------------------------------------
(* The re thread.                                                          *)

\* re_main sets polling and enters its loop, or its set-up fails.
ReMain ==
    /\ thread = "started"
    /\ \/ thread' = "check"  /\ polling' = TRUE
       \/ thread' = "exited" /\ polling' = FALSE
    /\ UNCHANGED <<pc, g_state, stackUp, mqUp, ready, waits, mq, lossy, leaked>>

Loop ==
    /\ thread = "check" /\ thread' = IF polling THEN "poll" ELSE "exited"
    /\ UNCHANGED <<pc, g_state, stackUp, mqUp, ready, waits, polling, mq, lossy,
                   leaked>>

\* omnix_mqueue_handler, one message: the ready flag, ua_stop_all and
\* re_cancel, or a callback of the application.
Handle ==
    /\ thread = "poll" /\ mq # <<>> /\ thread' = "check"
    /\ mq' = Tail(mq)
    /\ ready'    = (ready \/ Head(mq) = "ready")
    /\ shutting' = (shutting \/ Head(mq) = "shutdown")
    /\ polling'  = (polling /\ Head(mq) # "shutdown")
    /\ UNCHANGED <<pc, initialized, stackUp, mqUp, waits, lossy, leaked>>

\* A SIP message or a timer leads baresip to an event: the handler is deaf
\* before initialized and after shutting_down.
Emit ==
    /\ thread = "poll"
    /\ thread' = IF initialized /\ ~shutting THEN "emit" ELSE "check"
    /\ UNCHANGED <<pc, g_state, stackUp, mqUp, ready, waits, polling, mq, lossy,
                   leaked>>

\* ... and pushes what the application is to be told.
EmitPush ==
    /\ thread = "emit" /\ thread' = "check" /\ Notify
    /\ UNCHANGED <<pc, g_state, stackUp, mqUp, ready, waits, polling, leaked>>

-----------------------------------------------------------------------------
AppStep == \/ EventsInit \/ CreateThread \/ AskReady \/ Sleep \/ Await
           \/ AccountSetup \/ Stop \/ Join \/ Close

ReStep == ReMain \/ Loop \/ EmitPush

Next == \/ InitBegin \/ AppNotify \/ ShutdownBegin \/ AppStep
        \/ ReStep \/ Handle \/ Emit

\* Both threads are scheduled, and a pipe that stays readable is read even
\* if SIP traffic keeps the loop busy.
Fairness == WF_vars(AppStep) /\ WF_vars(ReStep) /\ SF_vars(Handle)

Spec     == Init /\ [][Next]_vars
FairSpec == Spec /\ Fairness

-----------------------------------------------------------------------------
(* Correctness.                                                            *)

\* When omnix_init has returned OK the loop that serves the queue is live,
\* and it is the loop of this session: neither a thread that failed nor the
\* flag of an earlier one is taken for it (omnix_voice.c:325-344).
UpIsServed == pc = "up" => initialized /\ mqUp /\ thread \in Running /\ polling

\* The re thread never runs on a closed stack or queue, so no callback comes
\* after omnix_shutdown, or a failed omnix_init, has returned
\* (omnix_voice.c:155-201, 358-386).
NothingOutlivesStack == thread \in Running => stackUp /\ mqUp /\ pc \notin {"down", "close"}

\* If no push found the pipe full, a session leaves at most one payload
\* behind in the queue: that of the handler that read shutting_down before
\* it was set (omnix_events.c:137-143).
AtMostOneLeaks == ~lossy => leaked <= 1

\* The thread that is joined has been asked to stop and will see it: the
\* request is in the queue, or the loop is cancelled and does not sleep in
\* fd_poll.  No thread that has not set polling yet is cancelled only, to set
\* it again in re_main (omnix_voice.c:155-177).
StopReachesLoop ==
    pc = "join" /\ thread # "exited" =>
        \/ \E i \in 1..Len(mq) : mq[i] = "shutdown"
        \/ thread \in Running /\ ~polling /\ (thread = "poll" => mq # <<>>)

\* omnix_init and omnix_shutdown return, whatever fails on the way and
\* however full the queue is (omnix_voice.c:155-177, 333-344).
CallsReturn == (pc \notin Rest) ~> (pc \in Rest)
=============================================================================
