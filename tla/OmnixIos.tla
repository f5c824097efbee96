------------------------------- MODULE OmnixIos -------------------------------
(***************************************************************************)
(* The iOS side of a session: the facade (OmnixVoice.swift) with its       *)
(* NSLock, the call audio (OmnixAudioSession.swift) and the bridge to the  *)
(* C core (OmnixVoiceBridge.m).                                            *)
(*                                                                         *)
(* The re thread of the core only posts blocks to the main queue.  A block *)
(* with a call's state goes through the bridge's cache and the facade's    *)
(* trackedCalls, starts or ends the call audio and tells the delegate.     *)
(* Operations of the facade hold its lock throughout and run on the main   *)
(* thread or on a worker.  AVAudioSession may refuse.                      *)
(*                                                                         *)
(* @synchronized of the bridge is never held by a thread that waits for    *)
(* anything but the re thread's end, so what is under it is one step.      *)
(* The bridge's cache of calls has two writers: the blocks, and callInfo,  *)
(* which asks the core instead and may so be ahead of the blocks.          *)
(* What the core says of a call is a CallStream, which OmnixCall           *)
(* implements; the calls of a session are silent once it is over.          *)
(***************************************************************************)
EXTENDS Integers, Sequences

CONSTANTS
    Calls,
    Reported,   \* call states the core reports
    Callers,    \* threads that call shutdown and setSpeakerEnabled
    Nothing,    \* no block
    MaxQueued   \* bound of the model: call blocks in the main queue, which
                \* has none itself

VARIABLES
    core,     \* the C core runs, with its re thread
    heard,    \* the last state it told the bridge, per call
    past,     \* the calls of earlier sessions
    queue,    \* call blocks in the main queue
    block,    \* the block the main thread runs
    ringing,  \* ... for the first time: incomingCall comes before callStateChanged
    at,       \* what each thread does next
    lock,     \* who holds the facade's NSLock
    calls,    \* the bridge's _calls, SILENT where it has no entry
    tracked,  \* trackedCalls
    sessionActive,
    avActive, \* AVAudioSession is active
    told,     \* the last state the delegate was told, per call
    strayed   \* history: what may make the call audio disagree with the calls

session == <<core, heard, past>>
audio   == <<sessionActive, avActive>>
vars    == <<session, queue, block, ringing, at, lock, calls, tracked, audio,
             told, strayed>>

Core     == INSTANCE CallStream
Delegate == INSTANCE CallStream WITH heard <- told

States  == Core!EventStates \cup {"SILENT"}
Blocks  == Calls \X Core!EventStates
Threads == {"main", "worker"}

\* isActiveCallState
ActiveStates == Core!OpenStates \cup {"ENDING"}

ASSUME NothingAssumption  == Nothing \notin Blocks
ASSUME ReportedAssumption == Reported \subseteq Core!EventStates
ASSUME CallersAssumption  == Callers \subseteq Threads
ASSUME QueueAssumption    == MaxQueued \in Nat

Starting == {"start", "activate", "mark"}
Places   == {"idle", "cache", "remember", "sync", "tell", "route", "end",
             "deactivate", "unmark", "emit", "halt", "forget", "override",
             "emitSpeaker"} \cup Starting

Go(p, place) == at' = [at EXCEPT ![p] = place]

TypeOK ==
    /\ core \in BOOLEAN /\ heard \in [Calls -> States] /\ past \subseteq Calls
    /\ queue \in Seq(Blocks) /\ Len(queue) <= MaxQueued
    /\ block \in Blocks \cup {Nothing} /\ ringing \in BOOLEAN
    /\ at \in [Threads -> Places]
    /\ lock \in Threads \cup {"none"}
    /\ calls \in [Calls -> States \cup {"IDLE"}] /\ tracked \in [Calls -> States]
    /\ sessionActive \in BOOLEAN /\ avActive \in BOOLEAN
    /\ told \in [Calls -> States] /\ strayed \in BOOLEAN

Init ==
    /\ core = FALSE /\ Core!Init /\ past = {}
    /\ queue = <<>> /\ block = Nothing /\ ringing = FALSE
    /\ at = [p \in Threads |-> "idle"] /\ lock = "none"
    /\ calls = [c \in Calls |-> "SILENT"] /\ tracked = [c \in Calls |-> "SILENT"]
    /\ sessionActive = FALSE /\ avActive = FALSE
    /\ Delegate!Init /\ strayed = FALSE

-----------------------------------------------------------------------------
(* The re thread.                                                          *)

\* omnix_bridge_on_call; dispatch_async takes any number of blocks, MaxQueued
\* bounds the model.
CallEvent(c) ==
    /\ core /\ c \notin past /\ Len(queue) < MaxQueued
    /\ Core!Hear(c) /\ heard'[c] \in Reported
    /\ queue' = Append(queue, <<c, heard'[c]>>)
    /\ UNCHANGED <<core, past, block, ringing, at, lock, calls, tracked, audio,
                   told, strayed>>

-----------------------------------------------------------------------------
(* A block on the main thread: handleCallEvent and what the facade does.   *)

\* Mutant: a queue that does not keep the order.
TakeLatest ==
    /\ at["main"] = "idle" /\ queue # <<>>
    /\ block' = queue[Len(queue)] /\ queue' = SubSeq(queue, 1, Len(queue) - 1)
    /\ Go("main", "cache")
    /\ ringing' = (block'[2] = "INCOMING")
    /\ strayed' = (strayed \/ block'[1] \in past)
    /\ UNCHANGED <<session, lock, calls, tracked, audio, told>>

Take ==
    /\ at["main"] = "idle" /\ queue # <<>>
    /\ block' = Head(queue) /\ queue' = Tail(queue) /\ Go("main", "cache")
    /\ ringing' = (Head(queue)[2] = "INCOMING")
    /\ strayed' = (strayed \/ Head(queue)[1] \in past)
    /\ UNCHANGED <<session, lock, calls, tracked, audio, told>>

\* Under @synchronized.
Cache ==
    /\ at["main"] = "cache" /\ Go("main", "remember")
    /\ calls' = [calls EXCEPT ![block[1]] = block[2]]
    /\ UNCHANGED <<session, queue, block, ringing, lock, tracked, audio, told,
                   strayed>>

\* Mutant: rememberCall and syncCallAudio share one critical section.
RememberHolding ==
    /\ at["main"] = "remember" /\ lock = "none" /\ Go("main", "start")
    /\ lock' = "main"
    /\ tracked' = [tracked EXCEPT ![block[1]] = block[2]]
    /\ UNCHANGED <<session, queue, block, ringing, calls, audio, told, strayed>>

\* rememberCall
Remember ==
    /\ at["main"] = "remember" /\ lock = "none" /\ Go("main", "sync")
    /\ tracked' = [tracked EXCEPT ![block[1]] = block[2]]
    /\ strayed' = (strayed \/ block[1] \in past)
    /\ UNCHANGED <<session, queue, block, ringing, lock, calls, audio, told>>

HasActiveCall == \E c \in Calls : tracked[c] \in ActiveStates

\* Mutant: only the call of the event decides.
SyncLatest ==
    /\ at["main"] = "sync" /\ lock = "none"
    /\ Go("main", IF block[2] \in ActiveStates THEN "start" ELSE "end")
    /\ UNCHANGED <<session, queue, block, ringing, lock, calls, tracked, audio,
                   told, strayed>>

\* syncCallAudio looks at the calls and lets go of the lock.
Sync ==
    /\ at["main"] = "sync" /\ lock = "none"
    /\ Go("main", IF HasActiveCall THEN "start" ELSE "end")
    /\ UNCHANGED <<session, queue, block, ringing, lock, calls, tracked, audio,
                   told, strayed>>

\* applySpeaker ends startCallAudio: done, and the route is emitted, or thrown.
ApplySpeaker == \E place \in {"emit", "tell"} : Go("main", place)

\* OmnixAudioSession.startCallAudio; what is already active is only routed.
StartCallAudio ==
    /\ at["main"] = "start"
    /\ IF sessionActive THEN ApplySpeaker ELSE Go("main", "activate")
    /\ UNCHANGED <<session, queue, block, ringing, lock, calls, tracked, audio,
                   told, strayed>>

\* setCategory, setActive(true): done or thrown.
Activate ==
    /\ at["main"] = "activate"
    /\ \/ avActive' = TRUE /\ Go("main", "mark") /\ UNCHANGED strayed
       \/ Go("main", "tell") /\ strayed' = TRUE /\ UNCHANGED avActive
    /\ UNCHANGED <<session, queue, block, ringing, lock, calls, tracked,
                   sessionActive, told>>

Mark ==
    /\ at["main"] = "mark" /\ ApplySpeaker
    /\ sessionActive' = TRUE
    /\ UNCHANGED <<session, queue, block, ringing, lock, calls, tracked, avActive,
                   told, strayed>>

\* incomingCall, after which the block goes on to callStateChanged; that.
Tell ==
    /\ at["main"] = "tell"
    /\ IF ringing
       THEN Go("main", "remember") /\ UNCHANGED <<told, block>>
       ELSE /\ told' = [told EXCEPT ![block[1]] = block[2]]
            /\ block' = Nothing /\ Go("main", "idle")
    /\ ringing' = FALSE
    /\ UNCHANGED <<session, queue, lock, calls, tracked, audio, strayed>>

\* A notification of AVAudioSession, or the route a worker's operation posted:
\* handleExternalRouteChange takes the facade's lock and lets it go.
RouteChange ==
    /\ at["main"] = "idle" /\ Go("main", "route")
    /\ UNCHANGED <<session, queue, block, ringing, lock, calls, tracked, audio,
                   told, strayed>>

HandleRoute ==
    /\ at["main"] = "route" /\ lock = "none" /\ Go("main", "idle")
    /\ UNCHANGED <<session, queue, block, ringing, lock, calls, tracked, audio,
                   told, strayed>>

-----------------------------------------------------------------------------
(* OmnixAudioSession.endCallAudio, in a block or in shutdown.              *)

\* The holder of the facade's lock is in an operation.
After(p) == IF lock = p THEN "halt" ELSE "tell"

EndCallAudio(p) ==
    /\ at[p] = "end"
    /\ Go(p, IF sessionActive THEN "deactivate" ELSE After(p))
    /\ UNCHANGED <<session, queue, block, ringing, lock, calls, tracked, audio,
                   told, strayed>>

\* setActive(false): done or thrown.
Deactivate(p) ==
    /\ at[p] = "deactivate"
    /\ \/ avActive' = FALSE /\ Go(p, "unmark") /\ UNCHANGED strayed
       \/ Go(p, After(p)) /\ strayed' = TRUE /\ UNCHANGED avActive
    /\ UNCHANGED <<session, queue, block, ringing, lock, calls, tracked,
                   sessionActive, told>>

Unmark(p) ==
    /\ at[p] = "unmark" /\ Go(p, "emit")
    /\ sessionActive' = FALSE
    /\ UNCHANGED <<session, queue, block, ringing, lock, calls, tracked, avActive,
                   told, strayed>>

\* emitCurrentRoute: on the main thread onRouteChanged is called at once and
\* takes the facade's lock; elsewhere it is posted.
CanEmit(p) == p = "main" => lock = "none"

EmitCurrentRoute(p) ==
    /\ at[p] = "emit" /\ CanEmit(p) /\ Go(p, After(p))
    /\ UNCHANGED <<session, queue, block, ringing, lock, calls, tracked, audio,
                   told, strayed>>

-----------------------------------------------------------------------------
(* The operations.                                                         *)

\* The bridge starts the core, or throws.
Initialize ==
    /\ lock = "none" /\ ~core
    /\ core' = TRUE
    /\ UNCHANGED <<heard, past, queue, block, ringing, at, lock, calls, tracked,
                   audio, told, strayed>>

\* omnix_call_get_state, which takes no lock: nothing is found of a call that
\* is over, or is not there yet.  An entry may be ahead of the notifications
\* and, read beside the re thread, show any state for a moment (RINGING and
\* EARLY_MEDIA stand as the other active states).
GetState(c) == {"IDLE"} \cup IF c \in past \/ heard[c] \in Core!FinalStates
                            THEN {} ELSE Reported

\* Mutant: trackedCalls takes the answer as well.
CallInfoTracked(c) ==
    /\ lock = "none" /\ core
    /\ \E st \in GetState(c) :
         /\ calls[c] = "SILENT" => st # "IDLE"
         /\ calls' = [calls EXCEPT ![c] = st]
         /\ tracked' = [tracked EXCEPT ![c] = st]
    /\ UNCHANGED <<session, queue, block, ringing, at, lock, audio, told, strayed>>

\* callInfo, on any thread and in the delegate's methods too: both locks are
\* held from the question to the core to the entry in the cache.  Of a call
\* that neither knows nothing is entered.  Without a session it only reads.
CallInfo(c) ==
    /\ lock = "none" /\ core
    /\ \E st \in GetState(c) : /\ calls[c] = "SILENT" => st # "IDLE"
                               /\ calls' = [calls EXCEPT ![c] = st]
    /\ UNCHANGED <<session, queue, block, ringing, at, lock, tracked, audio, told,
                   strayed>>

Shutdown(p) ==
    /\ at[p] = "idle" /\ lock = "none" /\ lock' = p /\ Go(p, "end")
    /\ UNCHANGED <<session, queue, block, ringing, calls, tracked, audio, told,
                   strayed>>

\* Mutant: the cache outlives the session.
HaltKeepsCalls(p) ==
    /\ at[p] = "halt" /\ Go(p, "forget")
    /\ core' = FALSE
    /\ past' = {c \in Calls : heard[c] # "SILENT"}
    /\ UNCHANGED <<heard, queue, block, ringing, lock, calls, tracked, audio, told,
                   strayed>>

\* OmnixVoiceBridge.shutdown: the core stops and the cache is emptied, unless
\* the bridge is not initialized.
Halt(p) ==
    /\ at[p] = "halt" /\ Go(p, "forget")
    /\ core' = FALSE
    /\ past' = {c \in Calls : heard[c] # "SILENT"}
    /\ calls' = IF core THEN [c \in Calls |-> "SILENT"] ELSE calls
    /\ UNCHANGED <<heard, queue, block, ringing, lock, tracked, audio, told, strayed>>

\* trackedCalls.removeAll and the unlock.  A block may have started the call
\* audio behind endCallAudio, or be about to.
Forget(p) ==
    /\ at[p] = "forget" /\ lock' = "none" /\ Go(p, "idle")
    /\ tracked' = [c \in Calls |-> "SILENT"]
    /\ strayed' = (strayed \/ sessionActive \/ at["main"] \in Starting)
    /\ UNCHANGED <<session, queue, block, ringing, calls, audio, told>>

\* setSpeakerEnabled: applied if a call session is active, else stored.
SetSpeaker(p) ==
    /\ at[p] = "idle" /\ lock = "none" /\ core /\ sessionActive
    /\ lock' = p /\ Go(p, "override")
    /\ UNCHANGED <<session, queue, block, ringing, calls, tracked, audio, told,
                   strayed>>

\* overrideOutputAudioPort: done or thrown.
Override(p) ==
    /\ at[p] = "override"
    /\ \/ Go(p, "emitSpeaker") /\ UNCHANGED lock
       \/ Go(p, "idle") /\ lock' = "none"
    /\ UNCHANGED <<session, queue, block, ringing, calls, tracked, audio, told,
                   strayed>>

EmitSpeaker(p) ==
    /\ at[p] = "emitSpeaker" /\ CanEmit(p) /\ Go(p, "idle") /\ lock' = "none"
    /\ UNCHANGED <<session, queue, block, ringing, calls, tracked, audio, told,
                   strayed>>

-----------------------------------------------------------------------------
InBlock == Cache \/ Remember \/ Sync \/ StartCallAudio \/ Activate \/ Mark \/ Tell
           \/ HandleRoute

InOperation(p) == \/ EndCallAudio(p) \/ Deactivate(p) \/ Unmark(p)
                  \/ EmitCurrentRoute(p) \/ Halt(p) \/ Forget(p)
                  \/ Override(p) \/ EmitSpeaker(p)

Next == \/ \E c \in Calls : CallEvent(c)
        \/ Take \/ RouteChange \/ InBlock \/ Initialize
        \/ \E c \in Calls : CallInfo(c)
        \/ \E p \in Callers : Shutdown(p) \/ SetSpeaker(p)
        \/ \E p \in Threads : InOperation(p)

\* The threads are scheduled, and the facade's lock is fair.
Fairness == /\ SF_vars(InBlock \/ InOperation("main")) /\ WF_vars(Take)
            /\ WF_vars(InOperation("worker"))

Spec     == Init /\ [][Next]_vars
FairSpec == Spec /\ Fairness

-----------------------------------------------------------------------------
(* Correctness.                                                            *)

\* The delegate is told of a call what the core said, in its order, however
\* the session ends (OmnixVoiceBridge.m:449-510).
DelegateHearsAStream == Delegate!Spec

\* The blocks of call states that the main thread runs or will run.
Way == (IF block # Nothing THEN <<block>> ELSE <<>>) \o queue

Relay == INSTANCE CallRelay WITH way <- Way, open <- TRUE, listening <- TRUE

\* Every state the core says is told, once and in its order across all calls,
\* also when the session ends meanwhile (OmnixVoiceBridge.m:449-510).
DelegateIsToldAll == Relay!Spec

\* When the blocks are handled the call audio runs exactly while the core has
\* an active call.  A shutdown beside a block that starts it, a block that is
\* handled after its session, and AVAudioSession's refusal are the exceptions
\* (OmnixVoice.swift:255-275).
AudioFollowsCalls ==
    queue = <<>> /\ (\A p \in Threads : at[p] = "idle") /\ ~strayed =>
        /\ sessionActive <=> \E c \in Calls \ past : heard[c] \in ActiveStates
        /\ avActive <=> sessionActive

\* What callInfo may answer: the core is asked in a session, the cache after it.
Answers(c) == IF core THEN GetState(c) ELSE {calls[c]}

\* The last state of a call that a block brought: the running one's, once it
\* is cached, or what the delegate was told.
LastBrought(c) == IF block # Nothing /\ block[1] = c /\ at["main"] # "cache"
                  THEN block[2] ELSE told[c]

\* The cache is written by the blocks and, ahead of them, by callInfo itself.
\* Yet after the session callInfo answers of a call what the last block brought
\* or nothing, also while blocks of that session still run; and of a call whose
\* end was brought it never answers again that it is active: asked in ENDED it
\* answers IDLE in the session, and ENDED or nothing after it
\* (OmnixVoiceBridge.m:208-218, 374-413, 449-452).
CallInfoAgrees ==
    \A c \in Calls :
        /\ ~core => calls[c] \in {"SILENT", LastBrought(c)}
        /\ LastBrought(c) \in Core!FinalStates => Answers(c) \cap ActiveStates = {}

\* No thread stays in an operation or a block: not the main thread while a
\* worker shuts down, nor the worker that holds the lock
\* (OmnixVoice.swift:61-68, 125-149).
ThreadsReturn == \A p \in Threads : (at[p] # "idle") ~> (at[p] = "idle")

\* Claim of OmnixAudioSession.swift:94-95 (setSpeakerEnabled is applied
\* immediately when a call session is active): it returns.
SpeakerReturns ==
    \A p \in Threads : (at[p] = "override") ~> (at[p] = "idle")
=============================================================================
