----------------------------- MODULE OmnixCall ------------------------------
(***************************************************************************)
(* The call registry of the C core (cpp/src/omnix_call.c): the table       *)
(* g_calls, the operations of the public API on it, the baresip call       *)
(* events that reach it, the notification queue to on_call_event           *)
(* (omnix_events.c) and the shutdown that tears all of it down             *)
(* (omnix_voice.c).                                                        *)
(*                                                                         *)
(* Every operation of the registry runs under the re lock from its lookup  *)
(* to its last assignment, so each is one action.  omnix_shutdown takes no *)
(* lock: its steps are separate actions, and calls, events and API         *)
(* operations interleave with them.                                        *)
(***************************************************************************)
EXTENDS Integers, Sequences, FiniteSets

CONSTANTS
    Calls,        \* the struct call objects that may ever exist
    Ids,          \* SIP Call-IDs
    MaxCalls,     \* OMNIX_MAX_CALLS: entries of g_calls
    MaxBaresip,   \* baresip's max_calls: incoming calls beyond it get 486
    QueueCap,     \* notifications the mqueue pipe holds before a push fails
    Stun,         \* TRUE: the account gathers candidates before INVITE / ring
    TestHook,     \* TRUE: omnix_test_force_call_connected may be called
    NoCall, NoId, UA

ASSUME SlotAssumption  == MaxCalls \in Nat \ {0}
ASSUME AdmitAssumption == MaxBaresip \in Nat
ASSUME QueueAssumption == QueueCap \in Nat \ {0}
ASSUME FlagAssumption  == Stun \in BOOLEAN /\ TestHook \in BOOLEAN
ASSUME NameAssumption  == NoCall \notin Calls /\ NoId \notin Ids

Slots == 1..MaxCalls
ASSUME HandlerAssumption == UA \notin Slots

VARIABLES
    phase,    \* life of a struct call: unborn, a baresip call state, freed
    idOf,     \* its call_id
    sess,     \* its SIP session: none, gathering, up, answered
    onHold,   \* baresip's on_hold
    hdl,      \* whose event handler it has: the UA's or that of a slot
    slot,     \* g_calls[s].baresip_call
    info,     \* g_calls[s].info.state
    mq,       \* the mqueue: call notifications and the SHUTDOWN command
    stage,    \* progress of omnix_shutdown
    heard,    \* the last state on_call_event was given, per call
    lossy     \* history: some push of this run failed

vars == <<phase, idOf, sess, onHold, hdl, slot, info, mq, stage, heard, lossy>>
callVars == <<phase, idOf, sess, onHold, hdl>>

Stream == INSTANCE CallStream

OpenStates  == Stream!OpenStates
FinalStates == Stream!FinalStates
EventStates == Stream!EventStates

Phases   == {"OUTGOING", "INCOMING", "RINGING", "EARLY", "ESTABLISHED",
             "TERMINATED"}
Stages   == {"up", "flagged", "reset", "posted", "halted", "down"}
Running  == {"up", "flagged", "reset", "posted"}  \* re_main is dispatching
HasUa    == {"up", "flagged", "reset"}            \* g_state.ua is not NULL

NoMsg    == [call |-> NoCall, st |-> "SHUTDOWN"]
Messages == [call : Calls, st : EventStates] \cup {NoMsg}

Alive(c)   == phase[c] \in Phases
LiveCalls  == {c \in Calls : Alive(c)}
HasSess(c) == \/ sess[c] \in {"up", "answered"}
              \/ sess[c] = "gathering" /\ phase[c] = "INCOMING"

TypeOK ==
    /\ phase  \in [Calls -> Phases \cup {"unborn", "freed"}]
    /\ idOf   \in [Calls -> Ids \cup {NoId}]
    /\ sess   \in [Calls -> {"none", "gathering", "up", "answered"}]
    /\ onHold \in [Calls -> BOOLEAN]
    /\ hdl    \in [Calls -> Slots \cup {UA}]
    /\ slot   \in [Slots -> Calls \cup {NoCall}]
    /\ info   \in [Slots -> EventStates \cup {"IDLE"}]
    /\ mq     \in Seq(Messages) /\ Len(mq) <= QueueCap
    /\ stage  \in Stages
    /\ heard  \in [Calls -> EventStates \cup {"SILENT"}]
    /\ lossy  \in BOOLEAN

Init ==
    /\ phase  = [c \in Calls |-> "unborn"]
    /\ idOf   = [c \in Calls |-> NoId]
    /\ sess   = [c \in Calls |-> "none"]
    /\ onHold = [c \in Calls |-> FALSE]
    /\ hdl    = [c \in Calls |-> UA]
    /\ slot   = [s \in Slots |-> NoCall]
    /\ info   = [s \in Slots |-> "IDLE"]
    /\ mq     = <<>>
    /\ stage  = "up"
    /\ heard  = [c \in Calls |-> "SILENT"]
    /\ lossy  = FALSE

-----------------------------------------------------------------------------
(* Helpers of the registry and of the queue.                               *)

\* omnix_find_call_by_id: s is the first used entry that holds the id.
Found(i, s) ==
    /\ slot[s] # NoCall /\ idOf[slot[s]] = i
    /\ \A t \in Slots : t < s => ~(slot[t] # NoCall /\ idOf[slot[t]] = i)

\* Mutant: the duplicate-id check of omnix_alloc_call_slot is left out.
AllocSlotSameId(c, i, s) ==
    \/ slot[s] = c
    \/ /\ \A t \in Slots : slot[t] # c
       /\ slot[s] = NoCall
       /\ \A t \in Slots : t < s => slot[t] # NoCall

\* Mutant: with no free entry the scan ends on the last one and reuses it.
AllocSlotReuse(c, i, s) ==
    \/ slot[s] = c
    \/ /\ \A t \in Slots : slot[t] # c /\ (slot[t] # NoCall => idOf[slot[t]] # i)
       /\ slot[s] = NoCall \/ s = MaxCalls
       /\ \A t \in Slots : t < s => slot[t] # NoCall

\* omnix_alloc_call_slot: the entry call c with id i gets, if any.  A call
\* that is already tracked keeps its entry; an id in use is refused.
AllocSlot(c, i, s) ==
    \/ slot[s] = c
    \/ /\ \A t \in Slots : slot[t] # c /\ (slot[t] # NoCall => idOf[slot[t]] # i)
       /\ slot[s] = NoCall
       /\ \A t \in Slots : t < s => slot[t] # NoCall

NoSlotFor(c, i) == \A s \in Slots : ~AllocSlot(c, i, s)

\* omnix_map_baresip_call_state
MapState(ph, held) ==
    IF held THEN "HELD"
    ELSE CASE ph = "OUTGOING"    -> "OUTGOING"
           [] ph = "INCOMING"    -> "INCOMING"
           [] ph = "RINGING"     -> "RINGING"
           [] ph = "EARLY"       -> "EARLY_MEDIA"
           [] ph = "ESTABLISHED" -> "CONNECTED"
           [] ph = "TERMINATED"  -> "ENDED"
           [] OTHER              -> "IDLE"

\* Mutant: off by one at the capacity of the pipe.
EnqueueOverfull(q, c, st) ==
    IF stage = "up" /\ Len(q) <= QueueCap
    THEN Append(q, [call |-> c, st |-> st])
    ELSE q

\* omnix_events_notify_call_state on queue q: nothing once shutting_down is
\* set, and a push onto a full pipe fails and drops the notification.
Enqueue(q, c, st) ==
    IF stage = "up" /\ Len(q) < QueueCap
    THEN Append(q, [call |-> c, st |-> st])
    ELSE q

Notify(c, st) ==
    /\ mq' = Enqueue(mq, c, st)
    /\ lossy' = (lossy \/ (stage = "up" /\ Len(mq) >= QueueCap))

\* The slot gives its entry to c, whose events now come to that slot.
Track(c, s, st) ==
    /\ slot' = [slot EXCEPT ![s] = c]
    /\ hdl'  = [hdl EXCEPT ![c] = s]
    /\ info' = [info EXCEPT ![s] = st]

\* mem_deref of the call: its session and timers go with it.
Release(c) ==
    /\ phase'  = [phase EXCEPT ![c] = "freed"]
    /\ sess'   = [sess EXCEPT ![c] = "none"]
    /\ onHold' = [onHold EXCEPT ![c] = FALSE]
    /\ UNCHANGED <<idOf, hdl>>

\* Mutant: the pointer of the freed entry is not cleared.
FreeSlotKeepsCall(s) ==
    /\ slot' = slot
    /\ info' = [info EXCEPT ![s] = "IDLE"]

\* omnix_free_call_slot
FreeSlot(s) ==
    /\ slot' = [slot EXCEPT ![s] = NoCall]
    /\ info' = [info EXCEPT ![s] = "IDLE"]

\* Mutant: the entry is cleared without telling the application.
FinalizeUntold(c, st) ==
    /\ Release(c)
    /\ IF hdl[c] \in Slots /\ slot[hdl[c]] = c
       THEN FreeSlot(hdl[c]) /\ UNCHANGED <<mq, lossy>>
       ELSE UNCHANGED <<slot, info, mq, lossy>>

\* CALL_EVENT_CLOSED as its handler sees it.  With the handler of a slot it
\* is omnix_call_finalize_closed: notify and clear the slot if it is still
\* this call's, release the call in any case.  With the UA's: release it.
Finalize(c, st) ==
    /\ Release(c)
    /\ IF hdl[c] \in Slots /\ slot[hdl[c]] = c
       THEN FreeSlot(hdl[c]) /\ Notify(c, st)
       ELSE UNCHANGED <<slot, info, mq, lossy>>

-----------------------------------------------------------------------------
(* Outgoing and incoming calls.                                            *)

\* call_connect: the INVITE goes out, fails at once (offline: the call stays
\* OUTGOING without a session), or waits for the candidates.
ConnectOutcomes == IF Stun THEN {"gathering", "none"} ELSE {"up", "none"}

\* omnix_call_make when the registry takes the call.  Its id is random.
MakeCall(c, i) ==
    /\ stage \in HasUa /\ phase[c] = "unborn"
    /\ \A d \in LiveCalls : idOf[d] # i
    /\ idOf'  = [idOf EXCEPT ![c] = i]
    /\ phase' = [phase EXCEPT ![c] = "OUTGOING"]
    /\ \E out \in ConnectOutcomes : sess' = [sess EXCEPT ![c] = out]
    /\ \E s \in Slots : AllocSlot(c, i, s) /\ Track(c, s, "OUTGOING")
    /\ Notify(c, "OUTGOING")
    /\ UNCHANGED <<onHold, stage, heard>>

\* omnix_call_make when no entry is free: call_hangup ends the session and
\* leaves the call TERMINATED under the UA's handler; CALL_BUSY.
MakeCallRefused(c, i) ==
    /\ stage \in HasUa /\ phase[c] = "unborn"
    /\ \A d \in LiveCalls : idOf[d] # i
    /\ NoSlotFor(c, i)
    /\ idOf'  = [idOf EXCEPT ![c] = i]
    /\ phase' = [phase EXCEPT ![c] = "TERMINATED"]
    /\ \E out \in ConnectOutcomes :
          sess' = [sess EXCEPT ![c] = IF out = "gathering" THEN out ELSE "none"]
    /\ UNCHANGED <<onHold, hdl, slot, info, mq, stage, heard, lossy>>

\* omnix_call_handle_incoming: the call is tracked and announced, or hung up.
HandleIncoming(c, i) ==
    \/ /\ \E s \in Slots : AllocSlot(c, i, s) /\ Track(c, s, "INCOMING")
       /\ phase' = [phase EXCEPT ![c] = "INCOMING"]
       /\ sess'  = [sess EXCEPT ![c] = "up"]
       /\ Notify(c, "INCOMING")
    \/ /\ NoSlotFor(c, i)
       /\ phase' = [phase EXCEPT ![c] = "TERMINATED"]
       /\ sess'  = [sess EXCEPT ![c] = "none"]
       /\ UNCHANGED <<hdl, slot, info, mq, lossy>>

\* An INVITE that baresip admits.  Its Call-ID is the peer's choice: it may
\* be one in use (a forked INVITE, a call to oneself through the proxy).
Arrive(c, i) ==
    /\ stage \in Running /\ phase[c] = "unborn"
    /\ Cardinality(LiveCalls) + 1 <= MaxBaresip
    /\ idOf' = [idOf EXCEPT ![c] = i]
    /\ IF Stun
       THEN /\ phase' = [phase EXCEPT ![c] = "INCOMING"]
            /\ sess'  = [sess EXCEPT ![c] = "gathering"]
            /\ UNCHANGED <<hdl, slot, info, mq, lossy>>
       ELSE HandleIncoming(c, i)
    /\ UNCHANGED <<onHold, stage, heard>>

\* The candidates are gathered: send the INVITE, or announce the call.
MnatDone(c) ==
    /\ stage \in Running /\ sess[c] = "gathering"
    /\ \/ /\ phase[c] = "OUTGOING"
          /\ \E out \in {"up", "none"} : sess' = [sess EXCEPT ![c] = out]
          /\ UNCHANGED <<phase, hdl, slot, info, mq, lossy>>
       \/ phase[c] = "INCOMING" /\ HandleIncoming(c, idOf[c])
       \/ /\ phase[c] = "TERMINATED"
          /\ sess' = [sess EXCEPT ![c] = "none"]
          /\ UNCHANGED <<phase, hdl, slot, info, mq, lossy>>
    /\ UNCHANGED <<idOf, onHold, stage, heard>>

\* Gathering failed, with a SIP-like code or without: CALL_EVENT_CLOSED.
MnatFail(c) ==
    /\ stage \in Running /\ sess[c] = "gathering"
    /\ \E st \in FinalStates : Finalize(c, st)
    /\ UNCHANGED <<stage, heard>>

\* 180 or 183 from the peer: the handler only re-emits the bevent.
Progress(c) ==
    /\ stage \in Running /\ sess[c] = "up"
    /\ phase[c] \in {"OUTGOING", "RINGING", "EARLY"}
    /\ \E ph \in {"RINGING", "EARLY"} : phase' = [phase EXCEPT ![c] = ph]
    /\ UNCHANGED <<idOf, sess, onHold, hdl, slot, info, mq, stage, heard, lossy>>

\* The dialog is confirmed: CALL_EVENT_ESTABLISHED, also only re-emitted.
Establish(c) ==
    /\ stage \in Running
    /\ \/ sess[c] = "up" /\ phase[c] \in {"OUTGOING", "RINGING", "EARLY"}
       \/ sess[c] = "answered" /\ phase[c] = "INCOMING"
    /\ phase' = [phase EXCEPT ![c] = "ESTABLISHED"]
    /\ UNCHANGED <<idOf, sess, onHold, hdl, slot, info, mq, stage, heard, lossy>>

\* BYE, CANCEL, an error response, a timeout, a media error or a Replaces:
\* CALL_EVENT_CLOSED, FAILED if it carries a SIP code and ENDED if not.
Closed(c) ==
    /\ stage \in Running /\ Alive(c) /\ HasSess(c)
    /\ \E st \in FinalStates : Finalize(c, st)
    /\ UNCHANGED <<stage, heard>>

-----------------------------------------------------------------------------
(* The public operations on a call, by its id.  With an id that is not in  *)
(* the registry they return INVALID_STATE and change nothing.              *)

\* Mutant: the entry of an answered call is made CONNECTED without an event.
AnswerConnects(i) ==
    /\ stage \in Running
    /\ \E s \in Slots :
         /\ Found(i, s)
         /\ LET c == slot[s] IN
              /\ sess[c] = "up" /\ phase[c] = "INCOMING"
              /\ sess' = [sess EXCEPT ![c] = "answered"]
              /\ info' = [info EXCEPT ![s] = "CONNECTED"]
    /\ UNCHANGED <<phase, idOf, onHold, hdl, slot, mq, stage, heard, lossy>>

\* omnix_call_answer: 200 OK; the entry is refreshed, the state is not told.
Answer(i) ==
    /\ stage \in Running
    /\ \E s \in Slots :
         /\ Found(i, s)
         /\ LET c == slot[s] IN
              /\ sess[c] = "up" /\ phase[c] = "INCOMING"
              /\ sess' = [sess EXCEPT ![c] = "answered"]
              /\ info' = [info EXCEPT ![s] = MapState(phase[c], onHold[c])]
    /\ UNCHANGED <<phase, idOf, onHold, hdl, slot, mq, stage, heard, lossy>>

\* omnix_call_reject: call_hangup(486) fires no CLOSED, so it is finalized
\* here, with the code of the rejection.
Reject(i) ==
    /\ stage \in Running
    /\ \E s \in Slots : Found(i, s) /\ Finalize(slot[s], "FAILED")
    /\ UNCHANGED <<stage, heard>>

\* omnix_call_hangup: ENDING, then call_hangup and ENDED.
Hangup(i) ==
    /\ stage \in Running
    /\ \E s \in Slots :
         /\ Found(i, s)
         /\ LET c == slot[s]
                ending == Enqueue(mq, c, "ENDING") IN
              /\ Release(c)
              /\ FreeSlot(s)
              /\ mq' = Enqueue(ending, c, "ENDED")
              /\ lossy' = (lossy \/ (stage = "up" /\ Len(ending) >= QueueCap))
    /\ UNCHANGED <<stage, heard>>

\* omnix_call_hold: only from CONNECTED, and HELD only if baresip says so.
Hold(i) ==
    /\ stage \in Running
    /\ \E s \in Slots :
         /\ Found(i, s) /\ info[s] = "CONNECTED"
         /\ HasSess(slot[s])
         /\ onHold' = [onHold EXCEPT ![slot[s]] = TRUE]
         /\ info'   = [info EXCEPT ![s] = "HELD"]
         /\ Notify(slot[s], "HELD")
    /\ UNCHANGED <<phase, idOf, sess, hdl, slot, stage, heard>>

\* omnix_call_resume: only from HELD.
Resume(i) ==
    /\ stage \in Running
    /\ \E s \in Slots :
         /\ Found(i, s) /\ info[s] = "HELD"
         /\ HasSess(slot[s])
         /\ onHold' = [onHold EXCEPT ![slot[s]] = FALSE]
         /\ info'   = [info EXCEPT ![s] = "CONNECTED"]
         /\ Notify(slot[s], "CONNECTED")
    /\ UNCHANGED <<phase, idOf, sess, hdl, slot, stage, heard>>

\* omnix_test_force_call_connected, the only writer of CONNECTED outside
\* omnix_call_resume.
ForceConnected(i) ==
    /\ TestHook /\ stage \in Running
    /\ \E s \in Slots :
         /\ Found(i, s)
         /\ info' = [info EXCEPT ![s] = "CONNECTED"]
    /\ UNCHANGED <<callVars, slot, mq, stage, heard, lossy>>

\* omnix_call_get_state, which takes no lock and has no initialized guard.
GetState(i) ==
    IF \E s \in Slots : Found(i, s)
    THEN info[CHOOSE s \in Slots : Found(i, s)]
    ELSE "IDLE"

-----------------------------------------------------------------------------
(* The re thread's queue handler and omnix_shutdown on the app thread.     *)

\* Mutant: the handler looks the call up again and skips one that is gone.
DeliverIfTracked ==
    /\ stage \in Running /\ mq # <<>> /\ Head(mq) # NoMsg
    /\ heard' = IF \E s \in Slots : slot[s] = Head(mq).call
                THEN [heard EXCEPT ![Head(mq).call] = Head(mq).st]
                ELSE heard
    /\ mq' = Tail(mq)
    /\ UNCHANGED <<callVars, slot, info, stage, lossy>>

\* OMNIX_MQ_CALL_STATE: on_call_event gets the oldest notification.
Deliver ==
    /\ stage \in Running /\ mq # <<>> /\ Head(mq) # NoMsg
    /\ heard' = [heard EXCEPT ![Head(mq).call] = Head(mq).st]
    /\ mq' = Tail(mq)
    /\ UNCHANGED <<callVars, slot, info, stage, lossy>>

\* OMNIX_MQ_SHUTDOWN: ua_stop_all frees the calls without an event and
\* re_cancel ends re_main.
HandleShutdown ==
    /\ stage \in Running /\ mq # <<>> /\ Head(mq) = NoMsg
    /\ mq' = Tail(mq)
    /\ stage' = "halted"
    /\ phase' = [c \in Calls |-> IF Alive(c) THEN "freed" ELSE phase[c]]
    /\ sess'  = [c \in Calls |-> "none"]
    /\ onHold' = [c \in Calls |-> FALSE]
    /\ UNCHANGED <<idOf, hdl, slot, info, heard, lossy>>

\* omnix_shutdown, first step: shutting_down = true.
BeginShutdown ==
    /\ stage = "up" /\ stage' = "flagged"
    /\ UNCHANGED <<callVars, slot, info, mq, heard, lossy>>

\* omnix_call_registry_reset, without the re lock.
ResetRegistry ==
    /\ stage = "flagged" /\ stage' = "reset"
    /\ slot' = [s \in Slots |-> NoCall]
    /\ info' = [s \in Slots |-> "IDLE"]
    /\ UNCHANGED <<callVars, mq, heard, lossy>>

\* Mutant: a failed push of the request has no fallback.
PostShutdownOnce ==
    /\ stage = "reset" /\ stage' = "posted"
    /\ mq' = IF Len(mq) < QueueCap THEN Append(mq, NoMsg) ELSE mq
    /\ UNCHANGED <<callVars, slot, info, heard, lossy>>

\* omnix_account_teardown and the request to stop; if the push fails,
\* re_cancel from this thread ends re_main instead.
PostShutdown ==
    /\ stage = "reset"
    /\ \/ Len(mq) < QueueCap /\ mq' = Append(mq, NoMsg) /\ stage' = "posted"
       \/ Len(mq) >= QueueCap /\ mq' = mq /\ stage' = "halted"
    /\ UNCHANGED <<callVars, slot, info, heard, lossy>>

\* Mutant: the queue outlives omnix_shutdown with what is in it.
FinishKeepsQueue ==
    /\ stage = "halted" /\ stage' = "down"
    /\ mq' = mq
    /\ phase' = [c \in Calls |-> IF Alive(c) THEN "freed" ELSE phase[c]]
    /\ sess'  = [c \in Calls |-> "none"]
    /\ onHold' = [c \in Calls |-> FALSE]
    /\ UNCHANGED <<idOf, hdl, slot, info, heard, lossy>>

\* After thrd_join: the queue is destroyed, ua_close frees what is left.
Finish ==
    /\ stage = "halted" /\ stage' = "down"
    /\ mq' = <<>>
    /\ phase' = [c \in Calls |-> IF Alive(c) THEN "freed" ELSE phase[c]]
    /\ sess'  = [c \in Calls |-> "none"]
    /\ onHold' = [c \in Calls |-> FALSE]
    /\ UNCHANGED <<idOf, hdl, slot, info, heard, lossy>>

\* A new omnix_init: the registry is cleared before the stack starts.
Reinit ==
    /\ stage = "down" /\ stage' = "up"
    /\ slot' = [s \in Slots |-> NoCall]
    /\ info' = [s \in Slots |-> "IDLE"]
    /\ lossy' = FALSE
    /\ UNCHANGED <<callVars, mq, heard>>

-----------------------------------------------------------------------------
CallSetup == \E c \in Calls, i \in Ids :
    MakeCall(c, i) \/ MakeCallRefused(c, i) \/ Arrive(c, i)

CallEvent == \E c \in Calls :
    MnatDone(c) \/ MnatFail(c) \/ Progress(c) \/ Establish(c) \/ Closed(c)

CallApi == \E i \in Ids :
    \/ Answer(i) \/ Reject(i) \/ Hangup(i)
    \/ Hold(i) \/ Resume(i) \/ ForceConnected(i)

QueueHandler == Deliver \/ HandleShutdown

ShutdownStep == ResetRegistry \/ PostShutdown \/ Finish

Next == \/ CallSetup \/ CallEvent \/ CallApi
        \/ QueueHandler
        \/ BeginShutdown \/ ShutdownStep \/ Reinit

\* The re thread keeps polling its queue, and a shutdown that began runs on.
Fairness == WF_vars(QueueHandler) /\ WF_vars(ShutdownStep)

Spec     == Init /\ [][Next]_vars
FairSpec == Spec /\ Fairness

-----------------------------------------------------------------------------
(* Correctness.                                                            *)

Tracked(c) == \E s \in Slots : slot[s] = c

\* What the application was told last of c, counting what is in the queue.
Told(c) ==
    LET about == {k \in 1..Len(mq) : mq[k].call = c}
    IN  IF about = {} THEN heard[c]
        ELSE mq[CHOOSE k \in about : \A j \in about : j <= k].st

\* While re_main runs, an entry of g_calls never points to a call that is
\* freed or hung up, the call's events come to that entry and no other, and
\* no two entries hold one call or one id: the raw pointers of the registry
\* are what every API operation dereferences (omnix_call.c:103-133, 426-446).
RegistryConsistent ==
    stage \in Running =>
        \A s \in Slots : slot[s] # NoCall =>
            /\ Alive(slot[s]) /\ phase[slot[s]] # "TERMINATED"
            /\ hdl[slot[s]] = s
            /\ \A t \in Slots : slot[t] # NoCall /\ idOf[slot[t]] = idOf[slot[s]]
                                  => t = s

\* A call that was announced or placed stays reachable by the application
\* until it ends: no session is alive that no API operation can hang up
\* (omnix_call.c:549-570, 622-660).
LiveCallsAreTracked ==
    stage \in {"up", "flagged"} =>
        \A c \in LiveCalls : \/ phase[c] = "TERMINATED"
                             \/ phase[c] = "INCOMING" /\ sess[c] = "gathering"
                             \/ Tracked(c)

\* The registry is not full for what baresip admits: below its limit there is
\* a free entry, which only an id in use may be denied (OMNIX_MAX_CALLS is at
\* least max_calls; omnix_call.c:557-561).
RoomForIncoming ==
    stage \in {"up", "flagged"} /\ Cardinality(LiveCalls) < MaxBaresip
        => \E s \in Slots : slot[s] = NoCall

\* omnix_call_get_state of a tracked call is what on_call_event was last
\* told of it, unless a notification was dropped (without the test hook).
GetStateAgrees ==
    stage = "up" /\ ~lossy =>
        \A s \in Slots : slot[s] # NoCall => Told(slot[s]) = info[s]

\* A tracked call leaves the registry of a running SDK only with its ENDED
\* or FAILED in the queue, unless that push failed: the application never
\* keeps a call screen for a call that is gone (omnix_call.c:426-446).
EndIsTold ==
    [][\A c \in Calls :
         Tracked(c) /\ ~Tracked(c)' /\ stage = "up" /\ ~lossy' =>
             Told(c)' \in FinalStates]_vars

\* The stream of states the application hears of each call is the one
\* CallStream allows, whatever the calls, the operations, the losses and
\* the shutdown do: nothing precedes the announcement or follows the end.
ImplementsCallStream == Stream!Spec

\* The calls the application heard of and will hear no more of.
Past == {c \in Calls : /\ heard[c] # "SILENT" /\ phase[c] = "freed"
                       /\ \A k \in 1..Len(mq) : mq[k].call # c}

Sessions == INSTANCE CallSessions WITH core <- (stage # "down"), past <- Past

\* The stream ends with the session: nothing is heard after omnix_shutdown
\* returned, and nothing of its calls in the sessions after it, although
\* notifications are queued when it begins (omnix_voice.c:155-205).
ImplementsCallSessions == Sessions!Spec

\* omnix_shutdown returns: its request reaches re_main even through a queue
\* full of notifications, or re_cancel replaces it (omnix_voice.c:155-177).
ShutdownCompletes == (stage = "flagged") ~> (stage = "down")

\* The final state of a call, once queued, is heard by the application,
\* unless re_main is stopped past its queue (omnix_events.c:261-276).
FinalIsHeard ==
    \A c \in Calls :
        (stage = "up" /\ Told(c) \in FinalStates)
            ~> (heard[c] \in FinalStates \/ stage \in {"halted", "down"})

\* Claim of omnix_call.c:643: a call that is refused for want of an entry is
\* hung up, which closes it, which releases it.  It is not released.
RefusedCallReleased ==
    \A c \in Calls : (phase[c] = "TERMINATED") ~> (phase[c] = "freed")

\* Claim of omnix_call.c:1006 ("live SIP sets CONNECTED via events"): the
\* entry of a call that is established is CONNECTED or a later state.
ConnectedIsReported ==
    \A s \in Slots : slot[s] # NoCall /\ phase[slot[s]] = "ESTABLISHED"
        => info[s] \notin {"OUTGOING", "INCOMING"}
=============================================================================
