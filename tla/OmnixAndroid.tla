----------------------------- MODULE OmnixAndroid -----------------------------
(***************************************************************************)
(* The Android side of a session: the facade (OmnixVoice.kt) with its      *)
(* cache of calls, the JNI bridge (omnix_jni.cpp), the audio router        *)
(* (OmnixAudioRouter.kt) and the dispatcher of the listeners               *)
(* (OmnixEventDispatcher.kt).                                              *)
(*                                                                         *)
(* Three threads: "app" is whichever thread is inside an operation of the  *)
(* facade (its lock makes them exclude each other); "re" is the thread of  *)
(* the C core that calls back, and takes no lock but g_cb_mu for a moment; *)
(* and the main looper runs what was posted to it.  The router has no lock *)
(* at all, so each of its accesses to what app and re share is a step.     *)
(* What the core says of a call is a CallStream, which OmnixCall           *)
(* implements; the calls of a session are silent once it is over.          *)
(***************************************************************************)
EXTENDS Integers, Sequences

CONSTANTS
    Calls,
    RegStates,  \* registration states the core reports
    Reported,   \* call states it reports
    Nothing,    \* no event, no runnable
    MaxPosted   \* bound of the model: runnables in the queue of the main looper,
                \* which has none itself

VARIABLES
    core,        \* the C core runs, with its re thread
    heard,       \* the last state the core told the bridge, per call
    past,        \* the calls of earlier sessions
    callback,    \* g_callback # NULL
    at,          \* what app and re do next
    event,       \* what re is telling: <<call, state>> or <<Nothing, state>>
    initialized,
    regState,    \* registrationState
    calls,       \* the cache, SILENT where it has no entry
    router,      \* audioRouter # null
    active, previousMode, speaker,  \* fields of the latest router
    mode, focus, speakerOn,         \* the audio manager
    looper,      \* what onCallEvent posted to the main looper
    running,     \* the runnable that found a listener and is to tell it
    listening,   \* a listener is registered
    told,        \* the last state a listener was told, per call
    overtook     \* history: one thread undid what the other did to the audio

session == <<core, heard, past>>
facade  == <<initialized, regState, calls>>
fields  == <<active, previousMode, speaker>>
audio   == <<mode, focus, speakerOn>>
events  == <<looper, running, listening, told>>
vars    == <<session, callback, at, event, facade, router, fields, audio,
             events, overtook>>

Core   == INSTANCE CallStream
Listen == INSTANCE CallStream WITH heard <- told

States == Core!EventStates \cup {"SILENT"}
Posts  == Calls \X Core!EventStates
Events == Posts \cup ({Nothing} \X RegStates)

ASSUME NothingAssumption == Nothing \notin Calls \cup Events
ASSUME ReportedAssumption == Reported \subseteq Core!EventStates
ASSUME PostedAssumption  == MaxPosted \in Nat

\* isActiveCallState
ActiveStates == Core!OpenStates \cup {"ENDING"}

Ending   == {"abandon", "restore", "inactive"}
Leaving  == {"drop", "unset", "join", "reset"}
AppPlaces == {"idle", "init", "inited", "check", "on", "end"} \cup Ending \cup Leaving
RePlaces  == {"idle", "entering", "sync", "start", "focus", "active", "speaker",
              "on", "off", "end", "post", "aborted"} \cup Ending

Go(p, place) == at' = [at EXCEPT ![p] = place]

TypeOK ==
    /\ core \in BOOLEAN /\ heard \in [Calls -> States] /\ past \subseteq Calls
    /\ callback \in BOOLEAN
    /\ at \in [{"app", "re"} -> AppPlaces \cup RePlaces]
    /\ at["app"] \in AppPlaces /\ at["re"] \in RePlaces
    /\ event \in Events \cup {Nothing}
    /\ initialized \in BOOLEAN
    /\ regState \in RegStates \cup {"UNINITIALIZED", "UNREGISTERED"}
    /\ calls \in [Calls -> States]
    /\ router \in BOOLEAN
    /\ active \in BOOLEAN /\ previousMode \in {"normal", "comm"} /\ speaker \in BOOLEAN
    /\ mode \in {"normal", "comm"} /\ focus \subseteq {"now", "old"}
    /\ speakerOn \in BOOLEAN
    /\ looper \in Seq(Posts) /\ Len(looper) <= MaxPosted
    /\ running \in Posts \cup {Nothing} /\ listening \in BOOLEAN
    /\ told \in [Calls -> States] /\ overtook \in BOOLEAN

Init ==
    /\ core = FALSE /\ Core!Init /\ past = {}
    /\ callback = FALSE
    /\ at = [p \in {"app", "re"} |-> "idle"] /\ event = Nothing
    /\ initialized = FALSE /\ regState = "UNINITIALIZED"
    /\ calls = [c \in Calls |-> "SILENT"]
    /\ router = FALSE
    /\ active = FALSE /\ previousMode = "normal" /\ speaker = FALSE
    /\ mode = "normal" /\ focus = {} /\ speakerOn = FALSE
    /\ looper = <<>> /\ running = Nothing /\ listening = FALSE
    /\ Listen!Init /\ overtook = FALSE

-----------------------------------------------------------------------------
(* OmnixVoice.initialize and shutdown.                                     *)

\* A new router and the callback come first.  "old" is a focus request of an
\* earlier router that was never abandoned.
Initialize ==
    /\ at["app"] = "idle" /\ ~initialized
    /\ router' = TRUE
    /\ active' = FALSE /\ previousMode' = "normal" /\ speaker' = FALSE
    /\ focus' = IF focus = {} THEN {} ELSE {"old"}
    /\ callback' = TRUE
    /\ Go("app", "init")
    /\ UNCHANGED <<session, event, facade, mode, speakerOn, events, overtook>>

\* nativeInit starts the core, or throws and leaves the rest as it is.
NativeInit ==
    /\ at["app"] = "init"
    /\ \/ core' = TRUE /\ Go("app", "inited")
       \/ core' = FALSE /\ Go("app", "idle")
    /\ UNCHANGED <<heard, past, callback, event, facade, router, fields, audio,
                   events, overtook>>

Initialized ==
    /\ at["app"] = "inited" /\ Go("app", "idle")
    /\ initialized' = TRUE /\ regState' = "UNREGISTERED"
    /\ UNCHANGED <<session, callback, event, calls, router, fields, audio,
                   events, overtook>>

\* shutdown: audioRouter?.endCallAudio() comes first.
Shutdown ==
    /\ at["app"] = "idle" /\ initialized
    /\ Go("app", IF router THEN "end" ELSE "drop")
    /\ UNCHANGED <<session, callback, event, facade, router, fields, audio,
                   events, overtook>>

DropRouter ==
    /\ at["app"] = "drop" /\ Go("app", "unset")
    /\ router' = FALSE
    /\ UNCHANGED <<session, callback, event, facade, fields, audio, events, overtook>>

\* nativeSetCallback(null), under g_cb_mu.
UnsetCallback ==
    /\ at["app"] = "unset" /\ Go("app", "join")
    /\ callback' = FALSE
    /\ UNCHANGED <<session, event, facade, router, fields, audio, events, overtook>>

\* Mutant: it does not wait for the re thread.
NativeShutdownUnjoined ==
    /\ at["app"] = "join" /\ Go("app", "reset")
    /\ core' = FALSE /\ past' = {c \in Calls : heard[c] # "SILENT"}
    /\ UNCHANGED <<heard, callback, event, facade, router, fields, audio, events,
                   overtook>>

\* nativeShutdown returns once the re thread has left its callback.
NativeShutdown ==
    /\ at["app"] = "join" /\ at["re"] = "idle" /\ Go("app", "reset")
    /\ core' = FALSE /\ past' = {c \in Calls : heard[c] # "SILENT"}
    /\ UNCHANGED <<heard, callback, event, facade, router, fields, audio, events,
                   overtook>>

Reset ==
    /\ at["app"] = "reset" /\ Go("app", "idle")
    /\ calls' = [c \in Calls |-> "SILENT"]
    /\ listening' = FALSE
    /\ regState' = "UNINITIALIZED" /\ initialized' = FALSE
    /\ UNCHANGED <<session, callback, event, router, fields, audio, looper,
                   running, told, overtook>>

-----------------------------------------------------------------------------
(* OmnixVoice.setSpeakerEnabled.                                           *)

SetSpeaker(enabled) ==
    /\ at["app"] = "idle" /\ initialized
    /\ IF router THEN speaker' = enabled /\ Go("app", "check")
                 ELSE UNCHANGED <<speaker, at>>
    /\ UNCHANGED <<session, callback, event, facade, router, active, previousMode,
                   audio, events, overtook>>

CheckActive ==
    /\ at["app"] = "check" /\ Go("app", IF active THEN "on" ELSE "idle")
    /\ UNCHANGED <<session, callback, event, facade, router, fields, audio,
                   events, overtook>>

\* ... which re may have ended since it was checked.
SpeakerOfApp ==
    /\ at["app"] = "on" /\ Go("app", "idle")
    /\ speakerOn' = speaker
    /\ overtook' = (overtook \/ ~active \/ at["re"] \in Ending)
    /\ UNCHANGED <<session, callback, event, facade, router, fields, mode, focus,
                   events>>

-----------------------------------------------------------------------------
(* OmnixAudioRouter.endCallAudio, by either thread.                        *)

After(p) == IF p = "app" THEN "drop" ELSE "post"

EndCallAudio(p) ==
    /\ at[p] = "end"
    /\ IF active THEN speakerOn' = FALSE /\ Go(p, "abandon")
                 ELSE UNCHANGED speakerOn /\ Go(p, After(p))
    /\ UNCHANGED <<session, callback, event, facade, router, fields, mode, focus,
                   events, overtook>>

AbandonFocus(p) ==
    /\ at[p] = "abandon" /\ Go(p, "restore")
    /\ focus' = focus \ {"now"}
    /\ UNCHANGED <<session, callback, event, facade, router, fields, mode,
                   speakerOn, events, overtook>>

RestoreMode(p) ==
    /\ at[p] = "restore" /\ Go(p, "inactive")
    /\ mode' = previousMode
    /\ UNCHANGED <<session, callback, event, facade, router, fields, focus,
                   speakerOn, events, overtook>>

EndSession(p) ==
    /\ at[p] = "inactive" /\ Go(p, After(p))
    /\ active' = FALSE
    /\ UNCHANGED <<session, callback, event, facade, router, previousMode, speaker,
                   audio, events, overtook>>

-----------------------------------------------------------------------------
(* OmnixAudioRouter.startCallAudio, by the re thread.                      *)

\* shutdown is past its test whether there is a call session to end.
Overtakes == overtook' = (overtook \/ at["app"] \in Ending \cup Leaving)

\* Mutant: the mode is saved whether or not a session is active.
StartCallAudioAgain ==
    /\ at["re"] = "start"
    /\ previousMode' = mode /\ mode' = "comm"
    /\ Go("re", IF active THEN "speaker" ELSE "focus") /\ Overtakes
    /\ UNCHANGED <<session, callback, event, facade, router, active, speaker,
                   focus, speakerOn, events>>

StartCallAudio ==
    /\ at["re"] = "start"
    /\ IF active
       THEN Go("re", "speaker") /\ UNCHANGED <<previousMode, mode, overtook>>
       ELSE Go("re", "focus") /\ previousMode' = mode /\ mode' = "comm" /\ Overtakes
    /\ UNCHANGED <<session, callback, event, facade, router, active, speaker,
                   focus, speakerOn, events>>

\* requestVoiceCommunicationFocus: granted or not.
RequestFocus ==
    /\ at["re"] = "focus" /\ Go("re", "active") /\ Overtakes
    /\ focus' \in {focus \ {"now"}, focus \cup {"now"}}
    /\ UNCHANGED <<session, callback, event, facade, router, fields, mode,
                   speakerOn, events>>

StartSession ==
    /\ at["re"] = "active" /\ Go("re", "speaker") /\ Overtakes
    /\ active' = TRUE
    /\ UNCHANGED <<session, callback, event, facade, router, previousMode, speaker,
                   audio, events>>

\* applySpeaker reads the preference ...
ReadSpeaker ==
    /\ at["re"] = "speaker" /\ Go("re", IF speaker THEN "on" ELSE "off")
    /\ UNCHANGED <<session, callback, event, facade, router, fields, audio,
                   events, overtook>>

\* ... and applies it.
SpeakerOfRe ==
    /\ at["re"] \in {"on", "off"} /\ Go("re", "post") /\ Overtakes
    /\ speakerOn' = (at["re"] = "on")
    /\ UNCHANGED <<session, callback, event, facade, router, fields, mode, focus,
                   events>>

-----------------------------------------------------------------------------
(* The re thread: omnix_jni_on_call_event, omnix_jni_on_reg_state.         *)

\* The core tells of a call: the bridge copies g_callback under g_cb_mu.
\* Handler.post takes any number of runnables, MaxPosted bounds the model.
CallEvent(c) ==
    /\ core /\ at["re"] = "idle" /\ c \notin past /\ Len(looper) < MaxPosted
    /\ Core!Hear(c) /\ heard'[c] \in Reported
    /\ IF callback THEN event' = <<c, heard'[c]>> /\ Go("re", "entering")
                   ELSE UNCHANGED <<event, at>>
    /\ UNCHANGED <<core, past, callback, facade, router, fields, audio, events,
                   overtook>>

RegEvent ==
    /\ core /\ at["re"] = "idle" /\ callback
    /\ event' \in {Nothing} \X RegStates /\ Go("re", "entering")
    /\ UNCHANGED <<session, callback, facade, router, fields, audio, events, overtook>>

\* Mutant: a callback of the facade takes its lock.
EnterLocked ==
    /\ at["re"] = "entering" /\ at["app"] = "idle"
    /\ IF event[1] \in Calls
       THEN /\ calls' = [calls EXCEPT ![event[1]] = event[2]]
            /\ Go("re", "sync") /\ UNCHANGED <<event, regState>>
       ELSE /\ regState' = event[2]
            /\ Go("re", "idle") /\ event' = Nothing /\ UNCHANGED calls
    /\ UNCHANGED <<session, callback, initialized, router, fields, audio, events,
                   overtook>>

\* Mutant: a registration state goes on to the listeners of the calls.
EnterAny ==
    /\ at["re"] = "entering" /\ Go("re", "sync")
    /\ IF event[1] \in Calls
       THEN calls' = [calls EXCEPT ![event[1]] = event[2]] /\ UNCHANGED regState
       ELSE regState' = event[2] /\ UNCHANGED calls
    /\ UNCHANGED <<session, callback, event, initialized, router, fields, audio,
                   events, overtook>>

\* Mutant: putIfAbsent instead of put.
EnterOnce ==
    /\ at["re"] = "entering"
    /\ IF event[1] \in Calls
       THEN /\ calls' = IF calls[event[1]] # "SILENT" THEN calls
                        ELSE [calls EXCEPT ![event[1]] = event[2]]
            /\ Go("re", "sync") /\ UNCHANGED <<event, regState>>
       ELSE /\ regState' = event[2]
            /\ Go("re", "idle") /\ event' = Nothing /\ UNCHANGED calls
    /\ UNCHANGED <<session, callback, initialized, router, fields, audio, events,
                   overtook>>

\* The facade is called through the copy: onCallEvent fills the cache,
\* onRegistrationStateChanged sets the state.
Enter ==
    /\ at["re"] = "entering"
    /\ IF event[1] \in Calls
       THEN /\ calls' = [calls EXCEPT ![event[1]] = event[2]]
            /\ Go("re", "sync") /\ UNCHANGED <<event, regState>>
       ELSE /\ regState' = event[2]
            /\ Go("re", "idle") /\ event' = Nothing /\ UNCHANGED calls
    /\ UNCHANGED <<session, callback, initialized, router, fields, audio, events,
                   overtook>>

\* A reference that nativeSetCallback deleted meanwhile may abort the VM.
Abort ==
    /\ at["re"] = "entering" /\ ~callback /\ Go("re", "aborted")
    /\ UNCHANGED <<session, callback, event, facade, router, fields, audio, events,
                   overtook>>

HasActiveCall == \E c \in Calls : calls[c] \in ActiveStates

\* Mutant: only the call of the event decides.
SyncLatest ==
    /\ at["re"] = "sync"
    /\ Go("re", IF ~router THEN "post"
                ELSE IF event[2] \in ActiveStates THEN "start" ELSE "end")
    /\ UNCHANGED <<session, callback, event, facade, router, fields, audio, events,
                   overtook>>

\* syncCallAudioSession; the event's own call is in the cache.
Sync ==
    /\ at["re"] = "sync"
    /\ Go("re", IF ~router THEN "post"
                ELSE IF HasActiveCall THEN "start" ELSE "end")
    /\ UNCHANGED <<session, callback, event, facade, router, fields, audio, events,
                   overtook>>

\* Mutant: an end is told at once, past the looper.
DispatchEndInline ==
    /\ at["re"] = "post" /\ Go("re", "idle")
    /\ IF event[2] \in Core!FinalStates
       THEN /\ told' = IF listening THEN [told EXCEPT ![event[1]] = event[2]] ELSE told
            /\ UNCHANGED looper
       ELSE looper' = Append(looper, event) /\ UNCHANGED told
    /\ event' = Nothing
    /\ UNCHANGED <<session, callback, facade, router, fields, audio, running,
                   listening, overtook>>

\* dispatch: a runnable for the main looper.
Dispatch ==
    /\ at["re"] = "post" /\ Go("re", "idle")
    /\ looper' = Append(looper, event) /\ event' = Nothing
    /\ UNCHANGED <<session, callback, facade, router, fields, audio, running,
                   listening, told, overtook>>

-----------------------------------------------------------------------------
(* The main looper and the application's listener.                         *)

\* A runnable iterates over the listeners there are when it starts.
Run ==
    /\ running = Nothing /\ looper # <<>>
    /\ looper' = Tail(looper)
    /\ running' = IF listening THEN Head(looper) ELSE Nothing
    /\ UNCHANGED <<session, callback, at, event, facade, router, fields, audio,
                   listening, told, overtook>>

Tell ==
    /\ running # Nothing /\ running' = Nothing
    /\ told' = [told EXCEPT ![running[1]] = running[2]]
    /\ UNCHANGED <<session, callback, at, event, facade, router, fields, audio,
                   looper, listening, overtook>>

\* addListener, removeListener
Listener ==
    /\ listening' = ~listening
    /\ UNCHANGED <<session, callback, at, event, facade, router, fields, audio,
                   looper, running, told, overtook>>

-----------------------------------------------------------------------------
End(p) == EndCallAudio(p) \/ AbandonFocus(p) \/ RestoreMode(p) \/ EndSession(p)

AppStep == \/ NativeInit \/ Initialized \/ CheckActive \/ SpeakerOfApp
           \/ End("app") \/ DropRouter \/ UnsetCallback \/ NativeShutdown \/ Reset

ReStep == \/ Enter \/ Sync \/ Dispatch \/ End("re")
          \/ StartCallAudio \/ RequestFocus \/ StartSession \/ ReadSpeaker \/ SpeakerOfRe

Looper == Run \/ Tell

Application == Initialize \/ Shutdown \/ (\E on \in BOOLEAN : SetSpeaker(on)) \/ Listener

\* A VM that aborted takes no step.
Next == /\ at["re"] # "aborted"
        /\ \/ Application \/ AppStep \/ ReStep \/ Looper
           \/ (\E c \in Calls : CallEvent(c)) \/ RegEvent \/ Abort

\* app and re are scheduled; the main looper may be where app runs.
Fairness == WF_vars(AppStep) /\ WF_vars(ReStep)

Spec     == Init /\ [][Next]_vars
FairSpec == Spec /\ Fairness

-----------------------------------------------------------------------------
(* Correctness.                                                            *)

Quiet == at["app"] = "idle" /\ at["re"] = "idle"

\* A listener is told of a call what the core said, in its order, however the
\* session ends and listeners come and go (OmnixEventDispatcher.kt:33-50).
ListenersHearAStream == Listen!Spec

\* What the core said of a call and no listener was told yet.
Way == (IF running # Nothing THEN <<running>> ELSE <<>>) \o looper
       \o (IF event \in Posts THEN <<event>> ELSE <<>>)

Relay == INSTANCE CallRelay WITH way <- Way, open <- callback

\* A listener is told what the core says once and in its order across all
\* calls, and all of it but what the core says without a callback or what
\* the looper runs without a listener (OmnixEventDispatcher.kt:33-50).
ListenersAreToldInOrder == Relay!Spec

\* getCallInfo in a listener is never behind what the listener is told
\* (OmnixVoice.kt:80-85).
CacheNotBehind ==
    running # Nothing /\ running[1] \notin past =>
        calls[running[1]] \in {running[2]} \cup Core!After(running[2])

\* In a session the call audio runs exactly while some call is active, in
\* communication mode, whatever the previous session left behind
\* (OmnixVoice.kt:349-356).
AudioFollowsCalls ==
    Quiet /\ initialized =>
        /\ active <=> HasActiveCall
        /\ active => mode = "comm"

\* Without an active call the audio manager is as it was before, unless a
\* callback worked on the router while shutdown gave it up, or ended the call
\* audio under setSpeakerEnabled (OmnixAudioRouter.kt:51-87).
AudioGivenBack ==
    Quiet /\ ~overtook /\ ~(initialized /\ HasActiveCall) =>
        mode = "normal" /\ focus = {} /\ ~speakerOn

\* Nothing of a session is left in the facade after it, although the re
\* thread writes to it without the lock until it is joined, and no callback
\* is called through a deleted reference but in a shutdown
\* (OmnixVoice.kt:163-179).
DownIsUninitialized ==
    /\ at["app"] = "idle" /\ ~initialized =>
         regState = "UNINITIALIZED" /\ ~HasActiveCall /\ at["re"] = "idle"
    /\ at["re"] = "aborted" => at["app"] \in Leaving

\* An operation of the facade returns, shutdown from the main thread too: the
\* re thread it waits for waits for nobody (OmnixVoice.kt:163-179).
OperationsReturn == (at["app"] # "idle") ~> (at["app"] = "idle" \/ at["re"] = "aborted")
=============================================================================
