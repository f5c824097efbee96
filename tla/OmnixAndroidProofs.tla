-------------------------- MODULE OmnixAndroidProofs --------------------------
(***************************************************************************)
(* Proofs about OmnixAndroid for every set of calls, of reported states    *)
(* and every length of the looper's queue.                                 *)
(*                                                                         *)
(* BridgeInv follows initialize and shutdown: who may still call back, and *)
(* what of the session is left.  CacheInv and StreamInv order the copies   *)
(* of a call's state: the listener's, the running runnable's, the queue's, *)
(* the event's, the cache's and the core's, each reached from the one      *)
(* before.  AudioInv ties the router to the cache while a session is up.   *)
(***************************************************************************)
EXTENDS OmnixAndroid, SequenceTheorems, TLAPS

\* b is a or comes after it.
Upto(a, b) == b = a \/ b \in Core!After(a)

BridgeInv ==
    /\ at["re"] = "idle" <=> event = Nothing
    /\ at["re"] \notin {"idle", "entering", "aborted"} => event \in Posts
    /\ event \in Posts => Len(looper) < MaxPosted
    /\ at["re"] # "idle" => core
    /\ ~initialized => at["app"] \in {"idle", "init", "inited"}
    /\ at["app"] \in {"idle", "init"} /\ ~initialized =>
         /\ ~core /\ regState = "UNINITIALIZED"
         /\ \A c \in Calls : calls[c] = "SILENT"
    /\ at["app"] \in {"init", "inited"} => ~initialized
    /\ at["app"] = "init" => callback
    /\ at["app"] = "reset" => ~core
    /\ core /\ ~callback => at["app"] = "join"
    /\ at["re"] = "aborted" => at["app"] = "join"

CacheInv ==
    /\ \A c \in past : heard[c] # "SILENT"
    /\ ~core => \A c \in Calls \ past : heard[c] = "SILENT"
    /\ event \in Posts => heard[event[1]] = event[2]
    /\ event \in Posts => event[1] \notin past
    /\ \A c \in Calls \ past :
         /\ Upto(calls[c], heard[c])
         /\ running # Nothing /\ running[1] = c => Upto(running[2], calls[c])
         /\ \A i \in 1..Len(looper) : looper[i][1] = c => Upto(looper[i][2], calls[c])
    /\ event \in Posts /\ at["re"] # "aborted" =>
         IF at["re"] = "entering" THEN event[2] \in Core!After(calls[event[1]])
                                  ELSE calls[event[1]] = event[2]

\* What is told of c before st.
Before(c, st) ==
    /\ st \in Core!After(told[c])
    /\ running # Nothing /\ running[1] = c => st \in Core!After(running[2])
    /\ \A i \in 1..Len(looper) : looper[i][1] = c => st \in Core!After(looper[i][2])

StreamInv ==
    /\ \A c \in Calls : Upto(told[c], heard[c])
    /\ running # Nothing => /\ Upto(running[2], heard[running[1]])
                            /\ running[2] \in Core!After(told[running[1]])
    /\ \A i \in 1..Len(looper) :
         /\ Upto(looper[i][2], heard[looper[i][1]])
         /\ looper[i][2] \in Core!After(told[looper[i][1]])
         /\ running # Nothing /\ running[1] = looper[i][1]
              => looper[i][2] \in Core!After(running[2])
    /\ \A i, j \in 1..Len(looper) :
         i < j /\ looper[i][1] = looper[j][1]
           => looper[j][2] \in Core!After(looper[i][2])
    /\ event \in Posts => heard[event[1]] = event[2] /\ Before(event[1], event[2])

\* The session is up, and no shutdown has begun.
InSession == at["app"] \in {"inited", "check", "on"} \/ (at["app"] = "idle" /\ initialized)

AudioInv ==
    /\ at["app"] = "init" => ~active /\ router
    /\ at["app"] \in {"check", "on"} => initialized
    /\ InSession =>
         /\ router
         /\ at["re"] \in {"idle", "entering", "post"} => (active <=> HasActiveCall)
         /\ at["re"] \in {"start", "focus", "active", "speaker", "on", "off"} => HasActiveCall
         /\ at["re"] \in {"end"} \cup Ending => ~HasActiveCall
         /\ at["re"] \in {"focus", "active"} => ~active /\ mode = "comm"
         /\ at["re"] \in {"speaker", "on", "off"} \cup Ending => active
         /\ active /\ at["re"] # "inactive" => mode = "comm"

USE DEF session, facade, fields, audio, events

-----------------------------------------------------------------------------
(* Types.                                                                  *)

\* The states of a call, and what comes after one.
LEMMA StateFacts ==
    /\ "SILENT" \notin Core!EventStates
    /\ ActiveStates \subseteq Core!EventStates
    /\ \A a : Core!After(a) \subseteq Core!EventStates
    /\ \A a, b, c : b \in Core!After(a) /\ c \in Core!After(b) => c \in Core!After(a)
    /\ Core!After("SILENT") = Core!EventStates
    /\ Core!EventStates = Listen!EventStates
    /\ \A a : Core!After(a) = Listen!After(a)
BY DEF ActiveStates, Core!EventStates, Core!OpenStates, Core!Announcements,
       Core!MediaStates, Core!FinalStates, Core!After, Listen!EventStates,
       Listen!OpenStates, Listen!Announcements, Listen!MediaStates,
       Listen!FinalStates, Listen!After

\* Both threads are at a place of their own.
Places ==
    /\ at \in [{"app", "re"} -> AppPlaces \cup RePlaces]
    /\ at["app"] \in AppPlaces /\ at["re"] \in RePlaces

\* One thread goes on, the other stays.
LEMMA GoApp ==
    ASSUME TypeOK, NEW place \in AppPlaces, Go("app", place)
    PROVE  Places' /\ at'["app"] = place /\ at'["re"] = at["re"]
BY DEF Go, Places, TypeOK

LEMMA GoRe ==
    ASSUME TypeOK, NEW place \in RePlaces, Go("re", place)
    PROVE  Places' /\ at'["re"] = place /\ at'["app"] = at["app"]
BY DEF Go, Places, TypeOK

\* What the core's next word on a call is.
LEMMA HearFacts ==
    ASSUME TypeOK, NEW c \in Calls, Core!Hear(c)
    PROVE  /\ heard' \in [Calls -> States]
           /\ heard'[c] \in Core!After(heard[c]) /\ heard'[c] \in Core!EventStates
           /\ \A d \in Calls : d # c => heard'[d] = heard[d]
<1>1. PICK st \in Core!After(heard[c]) : heard' = [heard EXCEPT ![c] = st]
  BY DEF Core!Hear
<1>2. st \in Core!EventStates /\ heard \in [Calls -> States]
  BY <1>1, StateFacts DEF TypeOK
<1> QED BY <1>1, <1>2 DEF States

\* An event in the hands of the re thread is a call's or a registration's.
LEMMA EventFacts ==
    ASSUME TypeOK, event # Nothing
    PROVE  /\ event[1] \in Calls => event \in Posts /\ event[2] \in Core!EventStates
           /\ event[1] \notin Calls => event \notin Posts /\ event[2] \in RegStates
           /\ event \in Posts => event[1] \in Calls
BY NothingAssumption DEF TypeOK, Events, Posts

\* Appending a runnable, and taking the first.
LEMMA LooperFacts ==
    ASSUME NEW q \in Seq(Posts)
    PROVE  /\ Len(q) \in Nat
           /\ \A e \in Posts : /\ Append(q, e) \in Seq(Posts)
                               /\ Len(Append(q, e)) = Len(q) + 1
                               /\ Append(q, e)[Len(q) + 1] = e
                               /\ \A i \in 1..Len(q) : Append(q, e)[i] = q[i]
           /\ \A i \in 1..Len(q) : q[i] \in Posts
           /\ q # <<>> => /\ Len(q) \in Nat \ {0} /\ Head(q) = q[1]
                          /\ Head(q) \in Posts
                          /\ Tail(q) \in Seq(Posts) /\ Len(Tail(q)) = Len(q) - 1
                          /\ \A i \in 1..Len(Tail(q)) : Tail(q)[i] = q[i + 1]
OBVIOUS

\* Every step keeps the state typed.
LEMMA TypeStep == TypeOK /\ BridgeInv /\ [Next]_vars => TypeOK'
<1> SUFFICES ASSUME TypeOK, BridgeInv, [Next]_vars PROVE TypeOK'
  OBVIOUS
<1> USE DEF Places
<1>1. CASE Initialize
  <2>1. Places'
    BY <1>1, GoApp DEF Initialize, AppPlaces, RePlaces, Ending, Leaving
  <2> QED BY <1>1, <2>1 DEF TypeOK, Initialize
<1>2. CASE Shutdown
  <2>1. Places'
    BY <1>2, GoApp DEF Shutdown, AppPlaces, RePlaces, Ending, Leaving
  <2> QED BY <1>2, <2>1 DEF TypeOK, Shutdown
<1>3. ASSUME NEW on \in BOOLEAN, SetSpeaker(on) PROVE TypeOK'
  <2>1. Places'
    BY <1>3, GoApp DEF SetSpeaker, TypeOK, AppPlaces, RePlaces, Ending, Leaving
  <2> QED BY <1>3, <2>1 DEF TypeOK, SetSpeaker
<1>4. CASE Listener
  BY <1>4 DEF TypeOK, Listener
<1>5. CASE NativeInit
  <2>1. Places'
    BY <1>5, GoApp DEF NativeInit, AppPlaces, RePlaces, Ending, Leaving
  <2>2. core' \in BOOLEAN
    BY <1>5 DEF TypeOK, NativeInit
  <2> QED BY <1>5, <2>1, <2>2 DEF TypeOK, NativeInit
<1>6. CASE Initialized
  <2>1. Places'
    BY <1>6, GoApp DEF Initialized, AppPlaces, RePlaces, Ending, Leaving
  <2> QED BY <1>6, <2>1 DEF TypeOK, Initialized
<1>7. CASE CheckActive
  <2>1. Places'
    BY <1>7, GoApp DEF CheckActive, AppPlaces, RePlaces, Ending, Leaving
  <2> QED BY <1>7, <2>1 DEF TypeOK, CheckActive
<1>8. CASE SpeakerOfApp
  <2>1. Places'
    BY <1>8, GoApp DEF SpeakerOfApp, AppPlaces, RePlaces, Ending, Leaving
  <2> QED BY <1>8, <2>1 DEF TypeOK, SpeakerOfApp
<1>9. ASSUME NEW p \in {"app", "re"}, End(p) PROVE TypeOK'
  <2>a. PICK place \in {"abandon", "restore", "inactive", After(p)} : Go(p, place)
    BY <1>9 DEF End, EndCallAudio, AbandonFocus, RestoreMode, EndSession
  <2>b. Places'
    <3>1. CASE p = "app"
      BY <2>a, <3>1, GoApp DEF After, AppPlaces, Ending, Leaving
    <3>2. CASE p = "re"
      BY <2>a, <3>2, GoRe DEF After, RePlaces, Ending
    <3> QED BY <3>1, <3>2
  <2>1. CASE EndCallAudio(p)
    <3>1. speakerOn' \in BOOLEAN
      BY <2>1 DEF TypeOK, EndCallAudio
    <3> QED BY <2>b, <2>1, <3>1 DEF TypeOK, EndCallAudio
  <2>2. CASE AbandonFocus(p)
    BY <2>b, <2>2 DEF TypeOK, AbandonFocus
  <2>3. CASE RestoreMode(p)
    BY <2>b, <2>3 DEF TypeOK, RestoreMode
  <2>4. CASE EndSession(p)
    <3>1. active' \in BOOLEAN
      BY <2>4 DEF TypeOK, EndSession
    <3> QED BY <2>b, <2>4, <3>1 DEF TypeOK, EndSession
  <2> QED BY <1>9, <2>1, <2>2, <2>3, <2>4 DEF End
<1>10. CASE DropRouter
  <2>1. Places'
    BY <1>10, GoApp DEF DropRouter, AppPlaces, RePlaces, Ending, Leaving
  <2>2. router' \in BOOLEAN
    BY <1>10 DEF TypeOK, DropRouter
  <2> QED BY <1>10, <2>1, <2>2 DEF TypeOK, DropRouter
<1>11. CASE UnsetCallback
  <2>1. Places'
    BY <1>11, GoApp DEF UnsetCallback, AppPlaces, RePlaces, Ending, Leaving
  <2>2. callback' \in BOOLEAN
    BY <1>11 DEF TypeOK, UnsetCallback
  <2> QED BY <1>11, <2>1, <2>2 DEF TypeOK, UnsetCallback
<1>12. CASE NativeShutdown
  <2>1. Places'
    BY <1>12, GoApp DEF NativeShutdown, AppPlaces, RePlaces, Ending, Leaving
  <2>2. core' \in BOOLEAN
    BY <1>12 DEF TypeOK, NativeShutdown
  <2> QED BY <1>12, <2>1, <2>2 DEF TypeOK, NativeShutdown
<1>13. CASE Reset
  <2>1. Places'
    BY <1>13, GoApp DEF Reset, AppPlaces, RePlaces, Ending, Leaving
  <2> QED BY <1>13, <2>1 DEF TypeOK, Reset, States
<1>14. CASE Enter
  <2>1. event # Nothing
    BY <1>14 DEF Enter, BridgeInv
  <2>2. calls' \in [Calls -> States] /\ regState' \in RegStates \cup {"UNINITIALIZED", "UNREGISTERED"}
    BY <1>14, <2>1, EventFacts DEF Enter, TypeOK, States
  <2>3. Places'
    BY <1>14, GoRe DEF Enter, RePlaces
  <2> QED BY <1>14, <2>2, <2>3 DEF TypeOK, Enter
<1>15. CASE Sync
  <2>1. Places'
    BY <1>15, GoRe DEF Sync, AppPlaces, RePlaces, Ending, Leaving
  <2> QED BY <1>15, <2>1 DEF TypeOK, Sync
<1>16. CASE Dispatch
  <2>1. event \in Posts /\ Len(looper) < MaxPosted
    BY <1>16 DEF Dispatch, BridgeInv
  <2>2. looper' \in Seq(Posts) /\ Len(looper') <= MaxPosted
    BY <1>16, <2>1, LooperFacts, PostedAssumption DEF Dispatch, TypeOK
  <2>3. Places'
    BY <1>16, GoRe DEF Dispatch, RePlaces
  <2> QED BY <1>16, <2>2, <2>3 DEF TypeOK, Dispatch
<1>17. CASE StartCallAudio
  <2>1. Places'
    BY <1>17, GoRe DEF StartCallAudio, AppPlaces, RePlaces, Ending, Leaving
  <2>2. overtook' \in BOOLEAN
    BY <1>17 DEF TypeOK, StartCallAudio, Overtakes
  <2> QED BY <1>17, <2>1, <2>2 DEF TypeOK, StartCallAudio
<1>18. CASE RequestFocus
  <2>1. Places'
    BY <1>18, GoRe DEF RequestFocus, AppPlaces, RePlaces, Ending, Leaving
  <2> QED BY <1>18, <2>1 DEF TypeOK, RequestFocus, Overtakes
<1>19. CASE StartSession
  <2>1. Places'
    BY <1>19, GoRe DEF StartSession, AppPlaces, RePlaces, Ending, Leaving
  <2> QED BY <1>19, <2>1 DEF TypeOK, StartSession, Overtakes
<1>20. CASE ReadSpeaker
  <2>1. Places'
    BY <1>20, GoRe DEF ReadSpeaker, AppPlaces, RePlaces, Ending, Leaving
  <2> QED BY <1>20, <2>1 DEF TypeOK, ReadSpeaker
<1>21. CASE SpeakerOfRe
  <2>1. Places'
    BY <1>21, GoRe DEF SpeakerOfRe, AppPlaces, RePlaces, Ending, Leaving
  <2> QED BY <1>21, <2>1 DEF TypeOK, SpeakerOfRe, Overtakes
<1>22. CASE Run
  <2>1. looper' \in Seq(Posts) /\ Len(looper') <= MaxPosted /\ Head(looper) \in Posts
    BY <1>22, LooperFacts, PostedAssumption DEF Run, TypeOK
  <2> QED BY <1>22, <2>1 DEF TypeOK, Run
<1>23. CASE Tell
  <2>1. running[1] \in Calls /\ running[2] \in States
    BY <1>23 DEF Tell, TypeOK, Posts, States
  <2> QED BY <1>23, <2>1 DEF TypeOK, Tell
<1>24. ASSUME NEW c \in Calls, CallEvent(c) PROVE TypeOK'
  <2>1. heard' \in [Calls -> States] /\ <<c, heard'[c]>> \in Posts
    BY <1>24, HearFacts DEF CallEvent, Posts
  <2>2. event' \in Events \cup {Nothing}
    BY <1>24, <2>1 DEF CallEvent, Events, TypeOK
  <2>3. Places'
    BY <1>24, GoRe DEF CallEvent, TypeOK, RePlaces
  <2> QED BY <1>24, <2>1, <2>2, <2>3 DEF TypeOK, CallEvent
<1>25. CASE RegEvent
  <2>1. Places'
    BY <1>25, GoRe DEF RegEvent, AppPlaces, RePlaces, Ending, Leaving
  <2> QED BY <1>25, <2>1 DEF TypeOK, RegEvent, Events
<1>26. CASE Abort
  <2>1. Places'
    BY <1>26, GoRe DEF Abort, AppPlaces, RePlaces, Ending, Leaving
  <2> QED BY <1>26, <2>1 DEF TypeOK, Abort
<1>27. CASE UNCHANGED vars
  BY <1>27 DEF TypeOK, vars
<1> QED
  BY <1>1, <1>2, <1>3, <1>4, <1>5, <1>6, <1>7, <1>8, <1>9, <1>10, <1>11,
     <1>12, <1>13, <1>14, <1>15, <1>16, <1>17, <1>18, <1>19, <1>20, <1>21,
     <1>22, <1>23, <1>24, <1>25, <1>26, <1>27
  DEF Next, AppStep, ReStep, Looper, Application

-----------------------------------------------------------------------------
(* initialize and shutdown against the callbacks.                          *)

\* Every step keeps the phases of a session in order.
LEMMA BridgeStep == TypeOK /\ BridgeInv /\ [Next]_vars => BridgeInv'
<1> SUFFICES ASSUME TypeOK, BridgeInv, [Next]_vars PROVE BridgeInv'
  OBVIOUS
<1>1. CASE Initialize
  BY <1>1, GoApp DEF BridgeInv, Initialize, AppPlaces, RePlaces, Ending, Leaving
<1>2. CASE Shutdown
  BY <1>2, GoApp DEF BridgeInv, Shutdown, AppPlaces, RePlaces, Ending, Leaving
<1>3. ASSUME NEW on \in BOOLEAN, SetSpeaker(on) PROVE BridgeInv'
  <2>1. CASE router
    BY <1>3, <2>1, GoApp DEF BridgeInv, SetSpeaker, AppPlaces, RePlaces, Ending, Leaving
  <2>2. CASE ~router
    BY <1>3, <2>2 DEF BridgeInv, SetSpeaker
  <2> QED BY <2>1, <2>2
<1>4. CASE Listener
  BY <1>4 DEF BridgeInv, Listener
<1>5. CASE NativeInit
  BY <1>5, GoApp DEF BridgeInv, NativeInit, AppPlaces, RePlaces, Ending, Leaving
<1>6. CASE Initialized
  BY <1>6, GoApp DEF BridgeInv, Initialized, AppPlaces, RePlaces, Ending, Leaving
<1>7. CASE CheckActive
  BY <1>7, GoApp DEF BridgeInv, CheckActive, AppPlaces, RePlaces, Ending, Leaving
<1>8. CASE SpeakerOfApp
  BY <1>8, GoApp DEF BridgeInv, SpeakerOfApp, AppPlaces, RePlaces, Ending, Leaving
<1>9. CASE End("app")
  <2>1. CASE EndCallAudio("app")
    BY <2>1, GoApp DEF BridgeInv, EndCallAudio, After, AppPlaces, RePlaces, Ending, Leaving
  <2>2. CASE AbandonFocus("app")
    BY <2>2, GoApp DEF BridgeInv, AbandonFocus, AppPlaces, RePlaces, Ending, Leaving
  <2>3. CASE RestoreMode("app")
    BY <2>3, GoApp DEF BridgeInv, RestoreMode, AppPlaces, RePlaces, Ending, Leaving
  <2>4. CASE EndSession("app")
    BY <2>4, GoApp DEF BridgeInv, EndSession, After, AppPlaces, RePlaces, Ending, Leaving
  <2> QED BY <1>9, <2>1, <2>2, <2>3, <2>4 DEF End
<1>10. CASE DropRouter
  BY <1>10, GoApp DEF BridgeInv, DropRouter, AppPlaces, RePlaces, Ending, Leaving
<1>11. CASE UnsetCallback
  BY <1>11, GoApp DEF BridgeInv, UnsetCallback, AppPlaces, RePlaces, Ending, Leaving
<1>12. CASE NativeShutdown
  BY <1>12, GoApp DEF BridgeInv, NativeShutdown, AppPlaces, RePlaces, Ending, Leaving
<1>13. CASE Reset
  BY <1>13, GoApp DEF BridgeInv, Reset, AppPlaces, RePlaces, Ending, Leaving
<1>14. CASE Enter
  <2>1. event # Nothing /\ at["re"] = "entering" /\ core /\ ~(at["app"] \in {"idle", "init"} /\ ~initialized)
    BY <1>14 DEF Enter, BridgeInv
  <2>2. CASE event[1] \in Calls
    BY <1>14, <2>1, <2>2, GoRe, EventFacts DEF BridgeInv, Enter, AppPlaces, RePlaces, Ending, Leaving
  <2>3. CASE event[1] \notin Calls
    <3>1. at'["re"] = "idle" /\ at'["app"] = at["app"] /\ event' = Nothing
      BY <1>14, <2>3, GoRe DEF Enter, RePlaces
    <3>2. event' \notin Posts
      BY <3>1, NothingAssumption DEF Events
    <3> QED BY <1>14, <2>1, <2>3, <3>1, <3>2 DEF BridgeInv, Enter
  <2> QED BY <2>2, <2>3
<1>15. CASE Sync
  BY <1>15, GoRe DEF BridgeInv, Sync, AppPlaces, RePlaces, Ending, Leaving
<1>16. CASE Dispatch
  BY <1>16, GoRe, NothingAssumption DEF BridgeInv, Dispatch, Events, AppPlaces, RePlaces, Ending, Leaving
<1>17. CASE StartCallAudio
  BY <1>17, GoRe DEF BridgeInv, StartCallAudio, AppPlaces, RePlaces, Ending, Leaving
<1>18. CASE RequestFocus
  BY <1>18, GoRe DEF BridgeInv, RequestFocus, AppPlaces, RePlaces, Ending, Leaving
<1>19. CASE StartSession
  BY <1>19, GoRe DEF BridgeInv, StartSession, AppPlaces, RePlaces, Ending, Leaving
<1>20. CASE ReadSpeaker
  BY <1>20, GoRe DEF BridgeInv, ReadSpeaker, AppPlaces, RePlaces, Ending, Leaving
<1>21. CASE SpeakerOfRe
  BY <1>21, GoRe DEF BridgeInv, SpeakerOfRe, AppPlaces, RePlaces, Ending, Leaving
<1>22. CASE End("re")
  <2>1. CASE EndCallAudio("re")
    BY <2>1, GoRe DEF BridgeInv, EndCallAudio, After, AppPlaces, RePlaces, Ending, Leaving
  <2>2. CASE AbandonFocus("re")
    BY <2>2, GoRe DEF BridgeInv, AbandonFocus, AppPlaces, RePlaces, Ending, Leaving
  <2>3. CASE RestoreMode("re")
    BY <2>3, GoRe DEF BridgeInv, RestoreMode, AppPlaces, RePlaces, Ending, Leaving
  <2>4. CASE EndSession("re")
    BY <2>4, GoRe DEF BridgeInv, EndSession, After, AppPlaces, RePlaces, Ending, Leaving
  <2> QED BY <1>22, <2>1, <2>2, <2>3, <2>4 DEF End
<1>23. CASE Run
  <2>1. Len(looper') <= Len(looper) /\ Len(looper) \in Nat /\ Len(looper') \in Nat
    BY <1>23, LooperFacts DEF Run, TypeOK
  <2> QED BY <1>23, <2>1, PostedAssumption DEF BridgeInv, Run
<1>24. CASE Tell
  BY <1>24 DEF BridgeInv, Tell
<1>25. ASSUME NEW c \in Calls, CallEvent(c) PROVE BridgeInv'
  <2>1. <<c, heard'[c]>> \in Posts /\ <<c, heard'[c]>> # Nothing
    BY <1>25, HearFacts, NothingAssumption DEF CallEvent, Posts, Events
  <2>2. CASE callback
    BY <1>25, <2>1, <2>2, GoRe DEF BridgeInv, CallEvent, AppPlaces, RePlaces, Ending, Leaving
  <2>3. CASE ~callback
    BY <1>25, <2>3 DEF BridgeInv, CallEvent
  <2> QED BY <2>2, <2>3
<1>26. CASE RegEvent
  <2>1. event' # Nothing /\ event' \notin Posts
    BY <1>26, NothingAssumption DEF RegEvent, Events, Posts
  <2> QED BY <1>26, <2>1, GoRe DEF BridgeInv, RegEvent, AppPlaces, RePlaces, Ending, Leaving
<1>27. CASE Abort
  BY <1>27, GoRe DEF BridgeInv, Abort, AppPlaces, RePlaces, Ending, Leaving
<1>28. CASE UNCHANGED vars
  BY <1>28 DEF BridgeInv, vars
<1> QED
  BY <1>1, <1>2, <1>3, <1>4, <1>5, <1>6, <1>7, <1>8, <1>9, <1>10, <1>11,
     <1>12, <1>13, <1>14, <1>15, <1>16, <1>17, <1>18, <1>19, <1>20, <1>21,
     <1>22, <1>23, <1>24, <1>25, <1>26, <1>27, <1>28
  DEF Next, AppStep, ReStep, Looper, Application

-----------------------------------------------------------------------------
(* The cache.                                                              *)

\* A step that leaves the states of the calls alone.
Elsewhere ==
    /\ UNCHANGED <<core, heard, past, event, calls, running, looper, told>>
    /\ at'["re"] \in {"entering", "aborted"} \/ at["re"] \in {"entering", "aborted"}
         => at'["re"] = at["re"]

\* What the other steps are.
LEMMA OtherSteps ==
    ASSUME TypeOK, BridgeInv, [Next]_vars
    PROVE  \/ Elsewhere \/ NativeInit \/ NativeShutdown \/ Reset \/ Enter \/ Abort
           \/ Dispatch \/ Run \/ Tell \/ \E c \in Calls : CallEvent(c)
           \/ RegEvent
<1> USE DEF Elsewhere, AppPlaces, RePlaces, Ending, Leaving
<1>1. CASE Initialize
  BY <1>1, GoApp DEF Initialize
<1>2. CASE Shutdown
  BY <1>2, GoApp DEF Shutdown
<1>3. CASE Initialized
  BY <1>3, GoApp DEF Initialized
<1>4. CASE CheckActive
  BY <1>4, GoApp DEF CheckActive
<1>5. CASE SpeakerOfApp
  BY <1>5, GoApp DEF SpeakerOfApp
<1>6. CASE DropRouter
  BY <1>6, GoApp DEF DropRouter
<1>7. CASE UnsetCallback
  BY <1>7, GoApp DEF UnsetCallback
<1>8. CASE Sync
  BY <1>8, GoRe DEF Sync
<1>9. CASE StartCallAudio
  BY <1>9, GoRe DEF StartCallAudio
<1>10. CASE RequestFocus
  BY <1>10, GoRe DEF RequestFocus
<1>11. CASE StartSession
  BY <1>11, GoRe DEF StartSession
<1>12. CASE ReadSpeaker
  BY <1>12, GoRe DEF ReadSpeaker
<1>13. CASE SpeakerOfRe
  BY <1>13, GoRe DEF SpeakerOfRe
<1>14. ASSUME NEW on \in BOOLEAN, SetSpeaker(on) PROVE Elsewhere
  <2>1. CASE router
    BY <1>14, <2>1, GoApp DEF SetSpeaker
  <2>2. CASE ~router
    BY <1>14, <2>2 DEF SetSpeaker
  <2> QED BY <2>1, <2>2
<1>15. CASE Listener
  BY <1>15 DEF Listener
<1>16. CASE End("app")
  <2>1. CASE EndCallAudio("app")
    BY <2>1, GoApp DEF EndCallAudio, After
  <2>2. CASE AbandonFocus("app")
    BY <2>2, GoApp DEF AbandonFocus
  <2>3. CASE RestoreMode("app")
    BY <2>3, GoApp DEF RestoreMode
  <2>4. CASE EndSession("app")
    BY <2>4, GoApp DEF EndSession, After
  <2> QED BY <1>16, <2>1, <2>2, <2>3, <2>4 DEF End
<1>17. CASE End("re")
  <2>1. CASE EndCallAudio("re")
    BY <2>1, GoRe DEF EndCallAudio, After
  <2>2. CASE AbandonFocus("re")
    BY <2>2, GoRe DEF AbandonFocus
  <2>3. CASE RestoreMode("re")
    BY <2>3, GoRe DEF RestoreMode
  <2>4. CASE EndSession("re")
    BY <2>4, GoRe DEF EndSession, After
  <2> QED BY <1>17, <2>1, <2>2, <2>3, <2>4 DEF End
<1>18. CASE UNCHANGED vars
  BY <1>18 DEF vars
<1> QED
  BY <1>1, <1>2, <1>3, <1>4, <1>5, <1>6, <1>7, <1>8, <1>9, <1>10, <1>11, <1>12, <1>13, <1>14, <1>15, <1>16, <1>17, <1>18
  DEF Next, AppStep, ReStep, Looper, Application

\* Every step keeps the cache between what is told and what was heard.
LEMMA CacheStep == TypeOK /\ BridgeInv /\ CacheInv /\ [Next]_vars => CacheInv'
<1> SUFFICES ASSUME TypeOK, BridgeInv, CacheInv, [Next]_vars PROVE CacheInv'
  OBVIOUS
<1>1. CASE Elsewhere
  BY <1>1 DEF CacheInv, Elsewhere, Upto
<1>2. CASE NativeInit
  <2>1. at'["re"] = at["re"] /\ at["app"] = "init"
    BY <1>2, GoApp DEF NativeInit, AppPlaces
  <2>2. ~core
    BY <2>1 DEF BridgeInv
  <2> QED BY <1>2, <2>1, <2>2 DEF CacheInv, NativeInit, Upto
<1>3. CASE NativeShutdown
  <2>1. event = Nothing /\ event' = Nothing /\ event' \notin Posts
    BY <1>3, NothingAssumption DEF NativeShutdown, BridgeInv, Events
  <2>2. past' = {c \in Calls : heard[c] # "SILENT"} /\ past \subseteq past'
    BY <1>3 DEF NativeShutdown, CacheInv, TypeOK
  <2> QED BY <1>3, <2>1, <2>2 DEF CacheInv, NativeShutdown, Upto
<1>4. CASE Reset
  <2>1. ~core /\ event = Nothing /\ event \notin Posts /\ event' = event
    BY <1>4, NothingAssumption DEF Reset, BridgeInv, Events
  <2>2. ASSUME NEW c \in Calls \ past
        PROVE  /\ heard[c] = "SILENT" /\ calls[c] = "SILENT"
               /\ ~(running # Nothing /\ running[1] = c)
               /\ \A i \in 1..Len(looper) : looper[i][1] # c
    <3>1. heard[c] = "SILENT" /\ calls[c] = "SILENT"
      BY <2>1, <2>2, StateFacts DEF CacheInv, Upto
    <3>2. ASSUME running # Nothing, running[1] = c PROVE FALSE
      <4>1. running \in Posts
        BY <3>2 DEF TypeOK
      <4> QED BY <2>2, <3>1, <3>2, <4>1, StateFacts DEF CacheInv, Upto, Posts
    <3>3. ASSUME NEW i \in 1..Len(looper), looper[i][1] = c PROVE FALSE
      <4>1. looper[i] \in Posts
        BY LooperFacts DEF TypeOK
      <4> QED BY <2>2, <3>1, <3>3, <4>1, StateFacts DEF CacheInv, Upto, Posts
    <3> QED BY <3>1, <3>2, <3>3
  <2> QED BY <1>4, <2>1, <2>2 DEF CacheInv, Reset, Upto
<1>5. CASE Enter
  <2>1. event # Nothing /\ at["re"] = "entering"
    BY <1>5 DEF Enter, BridgeInv
  <2>2. CASE event[1] \in Calls
    <3>1. /\ event \in Posts /\ event[2] \in Core!After(calls[event[1]])
          /\ heard[event[1]] = event[2] /\ event[1] \notin past
      BY <2>1, <2>2, EventFacts DEF CacheInv
    <3>2. /\ at'["re"] = "sync" /\ UNCHANGED <<core, heard, past, event, running, looper>>
          /\ calls'[event[1]] = event[2]
          /\ \A c \in Calls \ {event[1]} : calls'[c] = calls[c]
      BY <1>5, <2>2, GoRe DEF Enter, RePlaces, TypeOK
    <3> QED BY <3>1, <3>2, StateFacts DEF CacheInv, Upto
  <2>3. CASE event[1] \notin Calls
    <3>1. event' = Nothing /\ event' \notin Posts
      BY <1>5, <2>3, NothingAssumption DEF Enter, Events
    <3> QED BY <1>5, <2>3, <3>1 DEF CacheInv, Enter, Upto
  <2> QED BY <2>2, <2>3
<1>6. CASE Abort
  <2>1. at'["re"] = "aborted"
    BY <1>6, GoRe DEF Abort, RePlaces
  <2> QED BY <1>6, <2>1 DEF CacheInv, Abort, Upto
<1>7. CASE Dispatch
  <2>1. /\ event \in Posts /\ at["re"] = "post" /\ event' \notin Posts
        /\ calls[event[1]] = event[2]
    BY <1>7, NothingAssumption DEF Dispatch, BridgeInv, CacheInv, Events
  <2>2. ASSUME NEW i \in 1..Len(looper'), looper'[i][1] \in Calls \ past
        PROVE  Upto(looper'[i][2], calls[looper'[i][1]])
    <3>1. CASE i = Len(looper) + 1
      BY <1>7, <2>1, <3>1, LooperFacts DEF Dispatch, TypeOK, Upto
    <3>2. CASE i # Len(looper) + 1
      <4>1. i \in 1..Len(looper) /\ looper'[i] = looper[i]
        BY <1>7, <2>1, <3>2, LooperFacts DEF Dispatch, TypeOK
      <4> QED BY <2>2, <4>1 DEF CacheInv
    <3> QED BY <3>1, <3>2
  <2> QED BY <1>7, <2>1, <2>2 DEF CacheInv, Dispatch, Upto
<1>8. CASE Run
  <2>1. /\ looper # <<>> /\ Head(looper) = looper[1] /\ 1 \in 1..Len(looper)
        /\ \A i \in 1..Len(looper') : i + 1 \in 1..Len(looper) /\ looper'[i] = looper[i + 1]
    BY <1>8, LooperFacts DEF Run, TypeOK
  <2> QED BY <1>8, <2>1 DEF CacheInv, Run, Upto
<1>9. CASE Tell
  BY <1>9 DEF CacheInv, Tell, Upto
<1>10. ASSUME NEW c \in Calls, CallEvent(c) PROVE CacheInv'
  <2>1. /\ heard'[c] \in Core!After(heard[c]) /\ heard'[c] \in Core!EventStates
        /\ \A d \in Calls : d # c => heard'[d] = heard[d]
    BY <1>10, HearFacts DEF CallEvent
  <2>2. heard'[c] \in Core!After(calls[c]) /\ c \notin past /\ core
    BY <1>10, <2>1, StateFacts DEF CallEvent, CacheInv, Upto
  <2>3. UNCHANGED <<core, past, calls, running, looper>> /\ at["re"] = "idle"
    BY <1>10 DEF CallEvent
  <2>4. /\ \A d \in past : heard'[d] # "SILENT"
        /\ \A d \in Calls \ past : Upto(calls[d], heard'[d])
    BY <2>1, <2>2 DEF CacheInv, Upto, TypeOK
  <2>5. CASE callback
    <3>1. event' = <<c, heard'[c]>> /\ at'["re"] = "entering"
      BY <1>10, <2>5, GoRe DEF CallEvent, RePlaces
    <3> QED BY <2>2, <2>3, <2>4, <3>1 DEF CacheInv, Upto
  <2>6. CASE ~callback
    <3>1. event' = Nothing /\ event' \notin Posts
      BY <1>10, <2>6, NothingAssumption DEF CallEvent, BridgeInv, Events
    <3> QED BY <2>2, <2>3, <2>4, <3>1 DEF CacheInv, Upto
  <2> QED BY <2>5, <2>6
<1>11. CASE RegEvent
  <2>1. event' \notin Posts
    BY <1>11, NothingAssumption DEF RegEvent, Posts, Events
  <2> QED BY <1>11, <2>1 DEF CacheInv, RegEvent, Upto
<1> QED
  BY <1>1, <1>2, <1>3, <1>4, <1>5, <1>6, <1>7, <1>8, <1>9, <1>10, <1>11, OtherSteps

-----------------------------------------------------------------------------
(* What a listener is told.                                                *)

\* Every step keeps the copies of a call's state in the order of the stream.
LEMMA StreamStep == TypeOK /\ BridgeInv /\ StreamInv /\ [Next]_vars => StreamInv'
<1> SUFFICES ASSUME TypeOK, BridgeInv, StreamInv, [Next]_vars PROVE StreamInv'
  OBVIOUS
<1> DEFINE Silent == UNCHANGED <<heard, event, running, looper, told>>
<1>1. CASE Silent
  BY <1>1 DEF StreamInv, Upto, Before
<1>2. CASE Enter
  <2>1. CASE event[1] \in Calls
    <3>1. Silent
      BY <1>2, <2>1 DEF Enter
    <3> QED BY <1>1, <3>1
  <2>2. CASE event[1] \notin Calls
    <3>1. event' \notin Posts
      BY <1>2, <2>2, NothingAssumption DEF Enter, Events
    <3> QED BY <1>2, <2>2, <3>1 DEF StreamInv, Upto, Before, Enter
  <2> QED BY <2>1, <2>2
<1>3. CASE RegEvent
  <2>1. event' \notin Posts
    BY <1>3, NothingAssumption DEF RegEvent, Posts, Events
  <2> QED BY <1>3, <2>1 DEF StreamInv, RegEvent, Upto, Before
<1>4. CASE Dispatch
  <2>1. event \in Posts /\ event' \notin Posts
    BY <1>4, NothingAssumption DEF Dispatch, BridgeInv, Events
  <2>2. heard[event[1]] = event[2] /\ Before(event[1], event[2])
    BY <2>1 DEF StreamInv
  <2>3. /\ Len(looper) \in Nat /\ Len(looper') = Len(looper) + 1
        /\ looper'[Len(looper) + 1] = event
        /\ \A i \in 1..Len(looper) : looper'[i] = looper[i]
    BY <1>4, <2>1, LooperFacts DEF Dispatch, TypeOK
  <2>4. UNCHANGED <<heard, running, told>>
    BY <1>4 DEF Dispatch
  <2>5. ASSUME NEW i \in 1..Len(looper')
        PROVE  /\ Upto(looper'[i][2], heard[looper'[i][1]])
               /\ looper'[i][2] \in Core!After(told[looper'[i][1]])
               /\ running # Nothing /\ running[1] = looper'[i][1]
                    => looper'[i][2] \in Core!After(running[2])
    BY <2>2, <2>3 DEF StreamInv, Upto, Before
  <2>6. ASSUME NEW i \in 1..Len(looper'), NEW j \in 1..Len(looper'),
               i < j, looper'[i][1] = looper'[j][1]
        PROVE  looper'[j][2] \in Core!After(looper'[i][2])
    <3>1. i \in 1..Len(looper) /\ looper'[i] = looper[i]
      BY <2>3, <2>6
    <3>2. CASE j = Len(looper) + 1
      BY <2>2, <2>3, <2>6, <3>1, <3>2 DEF Before
    <3>3. CASE j # Len(looper) + 1
      BY <2>3, <2>6, <3>1, <3>3 DEF StreamInv
    <3> QED BY <3>2, <3>3
  <2> QED BY <2>1, <2>4, <2>5, <2>6 DEF StreamInv, Upto
<1>5. CASE Run
  <2>1. /\ looper # <<>> /\ Head(looper) = looper[1] /\ 1 \in 1..Len(looper)
        /\ looper[1] \in Posts
        /\ \A i \in 1..Len(looper') : i + 1 \in 1..Len(looper) /\ looper'[i] = looper[i + 1]
    BY <1>5, LooperFacts DEF Run, TypeOK
  <2>2. UNCHANGED <<heard, event, told>> /\ running = Nothing /\ running' \in {Nothing, looper[1]}
    BY <1>5, <2>1 DEF Run
  <2>3. event \in Posts => Before(event[1], event[2])'
    BY <2>1, <2>2 DEF StreamInv, Before
  <2>4. \A i, j \in 1..Len(looper') : i < j => i + 1 < j + 1 /\ 1 < i + 1
    OBVIOUS
  <2>5. running' # Nothing => /\ Upto(running'[2], heard[running'[1]])
                             /\ running'[2] \in Core!After(told[running'[1]])
    BY <2>1, <2>2 DEF StreamInv
  <2>6. ASSUME NEW i \in 1..Len(looper')
        PROVE  /\ Upto(looper'[i][2], heard[looper'[i][1]])
               /\ looper'[i][2] \in Core!After(told[looper'[i][1]])
               /\ running' # Nothing /\ running'[1] = looper'[i][1]
                    => looper'[i][2] \in Core!After(running'[2])
    <3>1. i + 1 \in 1..Len(looper) /\ looper'[i] = looper[i + 1] /\ 1 < i + 1
      BY <2>1
    <3> QED BY <2>1, <2>2, <3>1 DEF StreamInv
  <2>7. ASSUME NEW i \in 1..Len(looper'), NEW j \in 1..Len(looper'),
               i < j, looper'[i][1] = looper'[j][1]
        PROVE  looper'[j][2] \in Core!After(looper'[i][2])
    BY <2>1, <2>7 DEF StreamInv
  <2> QED BY <2>2, <2>3, <2>5, <2>6, <2>7 DEF StreamInv, Upto
<1>6. CASE Tell
  <2>1. /\ running \in Posts /\ running[1] \in Calls /\ running' = Nothing
        /\ running # Nothing
    BY <1>6 DEF Tell, TypeOK, Posts
  <2>2. /\ told'[running[1]] = running[2]
        /\ \A c \in Calls : c # running[1] => told'[c] = told[c]
        /\ UNCHANGED <<heard, event, looper>>
    BY <1>6, <2>1 DEF Tell, TypeOK
  <2>3. \A i \in 1..Len(looper) : looper[i] \in Posts /\ looper[i][1] \in Calls
    BY LooperFacts DEF TypeOK, Posts
  <2>4. event \in Posts => Before(event[1], event[2])'
    BY <2>1, <2>2, <2>3 DEF StreamInv, Before, Posts
  <2> QED BY <2>1, <2>2, <2>3, <2>4 DEF StreamInv, Upto
<1>7. ASSUME NEW c \in Calls, CallEvent(c) PROVE StreamInv'
  <2>1. /\ heard'[c] \in Core!After(heard[c]) /\ heard'[c] \in Core!EventStates
        /\ \A d \in Calls : d # c => heard'[d] = heard[d]
    BY <1>7, HearFacts DEF CallEvent
  <2>2. UNCHANGED <<running, looper, told>>
    BY <1>7 DEF CallEvent
  <2>3. \A a : Upto(a, heard[c]) => heard'[c] \in Core!After(a)
    BY <2>1, StateFacts DEF Upto
  <2>4. ASSUME NEW a, NEW d \in Calls, Upto(a, heard[d]) PROVE Upto(a, heard'[d])
    BY <2>1, <2>3, <2>4 DEF Upto
  <2>5. Before(c, heard'[c])
    BY <2>3 DEF StreamInv, Before
  <2>6. /\ running # Nothing => running[1] \in Calls
        /\ \A i \in 1..Len(looper) : looper[i] \in Posts /\ looper[i][1] \in Calls
    BY LooperFacts DEF TypeOK, Posts
  <2>7. event' \in Posts => event' = <<c, heard'[c]>>
    BY <1>7, NothingAssumption DEF CallEvent, BridgeInv, Events
  <2>8. event' \in Posts => heard'[event'[1]] = event'[2] /\ Before(event[1], event[2])'
    BY <2>2, <2>5, <2>7 DEF Before
  <2> QED BY <2>2, <2>4, <2>6, <2>8 DEF StreamInv
<1> QED
  BY <1>1, <1>2, <1>3, <1>4, <1>5, <1>6, <1>7, OtherSteps
  DEF Elsewhere, NativeInit, NativeShutdown, Reset, Abort

-----------------------------------------------------------------------------
(* The call audio of a session.                                            *)

\* Every step keeps the router with the cache while a session is up.
LEMMA AudioStep == TypeOK /\ BridgeInv /\ AudioInv /\ [Next]_vars => AudioInv'
<1> SUFFICES ASSUME TypeOK, BridgeInv, AudioInv, [Next]_vars PROVE AudioInv'
  OBVIOUS
<1>0. UNCHANGED calls => (HasActiveCall' <=> HasActiveCall)
  BY DEF HasActiveCall
<1> USE <1>0 DEF InSession, AudioInv, AppPlaces, RePlaces, Ending, Leaving
<1>1. CASE Initialize
  BY <1>1, GoApp DEF Initialize
<1>2. CASE Shutdown
  BY <1>2, GoApp DEF Shutdown
<1>3. CASE Initialized
  BY <1>3, GoApp DEF Initialized
<1>4. CASE CheckActive
  BY <1>4, GoApp DEF CheckActive
<1>5. CASE SpeakerOfApp
  BY <1>5, GoApp DEF SpeakerOfApp
<1>6. CASE DropRouter
  BY <1>6, GoApp DEF DropRouter
<1>7. CASE UnsetCallback
  BY <1>7, GoApp DEF UnsetCallback
<1>8. CASE NativeShutdown
  BY <1>8, GoApp DEF NativeShutdown
<1>9. CASE Reset
  BY <1>9, GoApp DEF Reset
<1>10. CASE Sync
  BY <1>10, GoRe DEF Sync
<1>11. CASE StartCallAudio
  BY <1>11, GoRe DEF StartCallAudio
<1>12. CASE RequestFocus
  BY <1>12, GoRe DEF RequestFocus
<1>13. CASE StartSession
  <2>1. at["app"] # "init"
    BY <1>13 DEF StartSession, BridgeInv
  <2> QED BY <1>13, <2>1, GoRe DEF StartSession
<1>14. CASE ReadSpeaker
  BY <1>14, GoRe DEF ReadSpeaker
<1>15. CASE SpeakerOfRe
  BY <1>15, GoRe DEF SpeakerOfRe
<1>16. CASE Dispatch
  BY <1>16, GoRe DEF Dispatch
<1>17. CASE Abort
  BY <1>17, GoRe DEF Abort
<1>18. CASE RegEvent
  BY <1>18, GoRe DEF RegEvent
<1>19. ASSUME NEW on \in BOOLEAN, SetSpeaker(on) PROVE AudioInv'
  <2>1. CASE router
    BY <1>19, <2>1, GoApp DEF SetSpeaker
  <2>2. CASE ~router
    BY <1>19, <2>2 DEF SetSpeaker
  <2> QED BY <2>1, <2>2
<1>20. CASE End("app")
  <2>1. CASE EndCallAudio("app")
    BY <2>1, GoApp DEF EndCallAudio, After
  <2>2. CASE AbandonFocus("app")
    BY <2>2, GoApp DEF AbandonFocus
  <2>3. CASE RestoreMode("app")
    BY <2>3, GoApp DEF RestoreMode
  <2>4. CASE EndSession("app")
    BY <2>4, GoApp DEF EndSession, After
  <2> QED BY <1>20, <2>1, <2>2, <2>3, <2>4 DEF End
<1>21. CASE End("re")
  <2>1. CASE EndCallAudio("re")
    BY <2>1, GoRe DEF EndCallAudio, After
  <2>2. CASE AbandonFocus("re")
    BY <2>2, GoRe DEF AbandonFocus
  <2>3. CASE RestoreMode("re")
    BY <2>3, GoRe DEF RestoreMode
  <2>4. CASE EndSession("re")
    BY <2>4, GoRe DEF EndSession, After
  <2> QED BY <1>21, <2>1, <2>2, <2>3, <2>4 DEF End
<1>22. CASE NativeInit
  <2>1. at["re"] = "idle" /\ ~HasActiveCall /\ ~active /\ router
    BY <1>22, StateFacts DEF NativeInit, BridgeInv, HasActiveCall
  <2> QED BY <1>22, <2>1, GoApp DEF NativeInit, BridgeInv
<1>23. CASE Enter
  <2>1. CASE event[1] \in Calls
    BY <1>23, <2>1, GoRe DEF Enter
  <2>2. CASE event[1] \notin Calls
    BY <1>23, <2>2, GoRe DEF Enter
  <2> QED BY <2>1, <2>2
<1>24. ASSUME NEW c \in Calls, CallEvent(c) PROVE AudioInv'
  <2>1. CASE callback
    BY <1>24, <2>1, GoRe DEF CallEvent
  <2>2. CASE ~callback
    BY <1>24, <2>2 DEF CallEvent
  <2> QED BY <2>1, <2>2
<1>25. CASE Run
  BY <1>25 DEF Run
<1>26. CASE Tell
  BY <1>26 DEF Tell
<1>27. CASE Listener
  BY <1>27 DEF Listener
<1>28. CASE UNCHANGED vars
  BY <1>28 DEF vars
<1> QED
  BY <1>1, <1>2, <1>3, <1>4, <1>5, <1>6, <1>7, <1>8, <1>9, <1>10, <1>11, <1>12,
     <1>13, <1>14, <1>15, <1>16, <1>17, <1>18, <1>19, <1>20, <1>21, <1>22, <1>23, <1>24,
     <1>25, <1>26, <1>27, <1>28
  DEF Next, AppStep, ReStep, Looper, Application

-----------------------------------------------------------------------------
(* The theorems.                                                           *)

AndroidInv == TypeOK /\ BridgeInv /\ CacheInv /\ StreamInv /\ AudioInv

\* The invariant holds at the start ...
LEMMA InitInv == Init => AndroidInv
<1> SUFFICES ASSUME Init PROVE AndroidInv
  OBVIOUS
<1> USE StateFacts DEF Init, Core!Init, Listen!Init, States
<1>1. TypeOK
  <2>1. at["app"] \in AppPlaces /\ at["re"] \in RePlaces
    BY DEF AppPlaces, RePlaces
  <2>2. looper \in Seq(Posts) /\ Len(looper) <= MaxPosted
    BY PostedAssumption
  <2>3. at \in [{"app", "re"} -> AppPlaces \cup RePlaces]
    BY DEF AppPlaces, RePlaces
  <2> QED BY <2>1, <2>2, <2>3 DEF TypeOK
<1>2. event \notin Posts /\ Len(looper) = 0
  BY NothingAssumption DEF Events
<1>3. BridgeInv
  BY <1>2, PostedAssumption DEF BridgeInv
<1>4. CacheInv
  BY <1>2 DEF CacheInv, Upto
<1>5. StreamInv
  BY <1>2 DEF StreamInv, Upto
<1>6. AudioInv
  BY DEF AudioInv, InSession, Ending
<1> QED BY <1>1, <1>3, <1>4, <1>5, <1>6 DEF AndroidInv

\* ... and is kept by every step.
LEMMA Inductive == Spec => []AndroidInv
<1>1. AndroidInv /\ [Next]_vars => AndroidInv'
  BY TypeStep, BridgeStep, CacheStep, StreamStep, AudioStep DEF AndroidInv
<1> QED BY InitInv, <1>1, PTL DEF Spec

\* The state has its types (OmnixVoice.kt, OmnixAudioRouter.kt).
THEOREM TypeCorrect == Spec => []TypeOK
<1>1. AndroidInv => TypeOK
  BY DEF AndroidInv
<1> QED BY <1>1, Inductive, PTL

\* A listener is told a stream of each call, for every number of calls and
\* whatever the looper has not run yet (OmnixEventDispatcher.kt:33-50).
THEOREM StreamImplemented == Spec => ListenersHearAStream
<1>1. Init => Listen!Init
  BY DEF Init
<1>2. AndroidInv /\ [Next]_vars => [Listen!Next]_told
  <2> SUFFICES ASSUME AndroidInv, [Next]_vars PROVE [Listen!Next]_told
    OBVIOUS
  <2>1. CASE Tell
    <3>1. running \in Posts /\ running[1] \in Calls
      BY <2>1 DEF Tell, AndroidInv, TypeOK, Posts
    <3>2. running[2] \in Listen!After(told[running[1]])
      BY <2>1, StateFacts DEF Tell, AndroidInv, StreamInv
    <3>3. Listen!Hear(running[1])
      BY <2>1, <3>2 DEF Tell, Listen!Hear
    <3> QED BY <3>1, <3>3 DEF Listen!Next
  <2>2. CASE UNCHANGED told
    BY <2>2
  <2> QED
    BY <2>1, <2>2, OtherSteps
    DEF AndroidInv, Elsewhere, NativeInit, NativeShutdown, Reset, Enter, Abort,
        Dispatch, Run, CallEvent, RegEvent
<1> QED BY <1>1, <1>2, Inductive, PTL DEF Spec, ListenersHearAStream, Listen!Spec

-----------------------------------------------------------------------------
(* Nothing is lost on the way to a listener but what nobody listens to.    *)

\* Putting a runnable before a queue, taking it off, and appending behind it.
LEMMA JoinFacts ==
    ASSUME NEW S, NEW q \in Seq(S)
    PROVE  /\ <<>> \o q = q
           /\ q # <<>> => <<Head(q)>> \o Tail(q) = q
           /\ \A x \in S : /\ <<x>> \o q # <<>> /\ Head(<<x>> \o q) = x
                           /\ Tail(<<x>> \o q) = q
                           /\ \A p \in Seq(S) : p \o Append(q, x) = Append(p \o q, x)
<1>1. <<>> \o q = q
  BY ConcatEmptySeq
<1>2. ASSUME q # <<>> PROVE <<Head(q)>> \o Tail(q) = q
  <2>1. Head(q) \in S /\ Tail(q) \in Seq(S) /\ Len(Tail(q)) = Len(q) - 1
        /\ (\A i \in 1..Len(Tail(q)) : Tail(q)[i] = q[i + 1])
    BY <1>2, HeadTailProperties
  <2>2. Len(q) \in Nat \ {0} /\ Head(q) = q[1]
    BY <1>2
  <2> DEFINE h == <<Head(q)>>
             t == Tail(q)
  <2>3. h \in Seq(S) /\ Len(h) = 1 /\ h[1] = q[1]
    BY <2>1, <2>2
  <2>a. t \in Seq(S)
    BY <2>1
  <2> HIDE DEF h, t
  <2>4. /\ h \o t \in Seq(S) /\ Len(h \o t) = Len(h) + Len(t)
        /\ \A i \in 1..(Len(h) + Len(t)) : (h \o t)[i] = IF i <= Len(h) THEN h[i] ELSE t[i - Len(h)]
    BY <2>a, <2>3, ConcatProperties
  <2>5. Len(h \o t) = Len(q) /\ \A i \in 1..Len(h \o t) : (h \o t)[i] = q[i]
    BY <2>1, <2>2, <2>3, <2>4 DEF t
  <2>6. h \o t = q
    BY <2>4, <2>5, SeqEqual
  <2> QED BY <2>6 DEF h, t
<1>3. ASSUME NEW x \in S
      PROVE <<x>> \o q # <<>> /\ Head(<<x>> \o q) = x /\ Tail(<<x>> \o q) = q
  <2> DEFINE h == <<x>>
  <2>1. h \in Seq(S) /\ Len(h) = 1 /\ h[1] = x
    OBVIOUS
  <2> HIDE DEF h
  <2>2. /\ h \o q \in Seq(S) /\ Len(h \o q) = Len(h) + Len(q)
        /\ \A i \in 1..(Len(h) + Len(q)) : (h \o q)[i] = IF i <= Len(h) THEN h[i] ELSE q[i - Len(h)]
    BY <2>1, ConcatProperties
  <2> DEFINE w == h \o q
  <2>3. w \in Seq(S) /\ Len(w) = Len(q) + 1 /\ w[1] = x
        /\ \A i \in 1..Len(q) : w[i + 1] = q[i]
    BY <2>1, <2>2
  <2> HIDE DEF w
  <2>4. w # <<>> /\ Head(w) = x
    BY <2>3
  <2>5. Tail(w) \in Seq(S) /\ Len(Tail(w)) = Len(q) /\ \A i \in 1..Len(Tail(w)) : Tail(w)[i] = q[i]
    BY <2>3, <2>4, HeadTailProperties
  <2>6. Tail(w) = q
    BY <2>5, SeqEqual
  <2> QED BY <2>4, <2>6 DEF w, h
<1>4. ASSUME NEW x \in S, NEW p \in Seq(S) PROVE p \o Append(q, x) = Append(p \o q, x)
  <2>1. /\ Append(q, x) = q \o <<x>> /\ p \o q \in Seq(S) /\ Append(p \o q, x) = (p \o q) \o <<x>>
        /\ <<x>> \in Seq(S)
    BY ConcatProperties, AppendIsConcat
  <2> QED BY <2>1, ConcatAssociative
<1> QED BY <1>1, <1>2, <1>3, <1>4


\* A queue that is not empty keeps its first when something is appended.
LEMMA AppendFacts ==
    ASSUME NEW S, NEW q \in Seq(S), q # <<>>, NEW x \in S
    PROVE  /\ Append(q, x) # <<>> /\ Head(Append(q, x)) = Head(q)
           /\ Tail(Append(q, x)) = Append(Tail(q), x)
<1> DEFINE a == Append(q, x)
           t == Tail(q)
           u == Append(t, x)
<1>1. Len(q) \in Nat \ {0} /\ a \in Seq(S) /\ Len(a) = Len(q) + 1 /\ a[Len(q) + 1] = x
      /\ \A i \in 1..Len(q) : a[i] = q[i]
  OBVIOUS
<1>2. t \in Seq(S) /\ Len(t) = Len(q) - 1 /\ \A i \in 1..Len(t) : t[i] = q[i + 1]
  BY HeadTailProperties
<1> HIDE DEF t
<1>3. u \in Seq(S) /\ Len(u) = Len(t) + 1 /\ u[Len(t) + 1] = x
      /\ \A i \in 1..Len(t) : u[i] = t[i]
  BY <1>2
<1> HIDE DEF a, u
<1>4. a # <<>> /\ Head(a) = a[1] /\ Head(q) = q[1]
  BY <1>1
<1>5. Tail(a) \in Seq(S) /\ Len(Tail(a)) = Len(q) /\ \A i \in 1..Len(q) : Tail(a)[i] = a[i + 1]
  BY <1>1, <1>4, HeadTailProperties
<1>6. Len(Tail(a)) = Len(u)
  BY <1>1, <1>2, <1>3, <1>5
<1>7. ASSUME NEW i \in 1..Len(q) PROVE Tail(a)[i] = u[i]
  <2>1. CASE i = Len(q)
    BY <1>1, <1>2, <1>3, <1>5, <2>1
  <2>2. CASE i # Len(q)
    <3>1. i \in 1..Len(t) /\ i + 1 \in 1..Len(q)
      BY <1>1, <1>2, <2>2
    <3> QED BY <1>1, <1>2, <1>3, <1>5, <3>1
  <2> QED BY <2>1, <2>2
<1>8. Tail(a) = u
  BY <1>3, <1>5, <1>6, <1>7, SeqEqual
<1> QED BY <1>1, <1>4, <1>8 DEF a, t, u

\* The runnable that is running, before those the looper has not run.
Posted(r, q) == (IF r # Nothing THEN <<r>> ELSE <<>>) \o q

\* What the re thread has in its hands comes behind them.
Whole(f, e) == IF e \in Posts THEN Append(f, e) ELSE f

LEMMA PostedFacts ==
    ASSUME NEW r \in Posts \cup {Nothing}, NEW q \in Seq(Posts)
    PROVE  /\ Posted(r, q) \in Seq(Posts)
           /\ Posted(Nothing, q) = q
           /\ r # Nothing => /\ Posted(r, q) # <<>> /\ Head(Posted(r, q)) = r
                             /\ Tail(Posted(r, q)) = q
           /\ q # <<>> => Posted(Head(q), Tail(q)) = q
<1> DEFINE p == IF r # Nothing THEN <<r>> ELSE <<>>
<1>1. p \in Seq(Posts)
  OBVIOUS
<1>2. Posted(r, q) = p \o q
  BY DEF Posted
<1> HIDE DEF p
<1>3. Posted(r, q) \in Seq(Posts)
  BY <1>1, <1>2, ConcatProperties
<1>4. Posted(Nothing, q) = q
  BY JoinFacts DEF Posted
<1>5. ASSUME r # Nothing
      PROVE  Posted(r, q) # <<>> /\ Head(Posted(r, q)) = r /\ Tail(Posted(r, q)) = q
  <2>1. Posted(r, q) = <<r>> \o q /\ r \in Posts
    BY <1>5 DEF Posted
  <2> QED BY <2>1, JoinFacts
<1>7. ASSUME q # <<>> PROVE Posted(Head(q), Tail(q)) = q
  <2>1. Head(q) \in Posts
    BY <1>7
  <2>2. Head(q) # Nothing
    BY <2>1, NothingAssumption DEF Events
  <2> QED BY <1>7, <2>2, JoinFacts DEF Posted
<1> QED BY <1>3, <1>4, <1>5, <1>7

LEMMA PostedAppend ==
    ASSUME NEW r \in Posts \cup {Nothing}, NEW q \in Seq(Posts), NEW e \in Posts
    PROVE  Posted(r, Append(q, e)) = Append(Posted(r, q), e)
<1> DEFINE p == IF r # Nothing THEN <<r>> ELSE <<>>
<1>1. p \in Seq(Posts)
  OBVIOUS
<1>2. Posted(r, Append(q, e)) = p \o Append(q, e) /\ Posted(r, q) = p \o q
  BY DEF Posted
<1> HIDE DEF p
<1> QED BY <1>1, <1>2, JoinFacts

\* Way, in these terms.
LEMMA WayShape ==
    ASSUME NEW r \in Posts \cup {Nothing}, NEW q \in Seq(Posts), NEW e
    PROVE  (IF r # Nothing THEN <<r>> ELSE <<>>) \o q
              \o (IF e \in Posts THEN <<e>> ELSE <<>>) = Whole(Posted(r, q), e)
<1> DEFINE f == Posted(r, q)
<1>1. f \in Seq(Posts)
  BY PostedFacts
<1> SUFFICES f \o (IF e \in Posts THEN <<e>> ELSE <<>>) = Whole(f, e)
  BY DEF Posted
<1> HIDE DEF f
<1>2. CASE e \in Posts
  BY <1>1, <1>2, AppendIsConcat DEF Whole
<1>3. CASE e \notin Posts
  BY <1>1, <1>3, ConcatEmptySeq DEF Whole
<1> QED BY <1>2, <1>3

\* What is taken off it first.
LEMMA WayTail ==
    ASSUME NEW r \in Posts, r # Nothing, NEW q \in Seq(Posts), NEW e
    PROVE  /\ Whole(Posted(r, q), e) # <<>>
           /\ Head(Whole(Posted(r, q), e)) = r
           /\ Tail(Whole(Posted(r, q), e)) = Whole(q, e)
<1> DEFINE f == Posted(r, q)
<1>1. f \in Seq(Posts) /\ f # <<>> /\ Head(f) = r /\ Tail(f) = q
  BY PostedFacts
<1> HIDE DEF f
<1>2. /\ Whole(f, e) # <<>> /\ Head(Whole(f, e)) = r
      /\ Tail(Whole(f, e)) = Whole(q, e)
  BY <1>1, AppendFacts DEF Whole
<1> QED BY <1>2 DEF f

LEMMA WholeTail ==
    ASSUME NEW q \in Seq(Posts), q # <<>>, NEW e
    PROVE  Whole(q, e) # <<>> /\ Tail(Whole(q, e)) = Whole(Tail(q), e)
BY AppendFacts DEF Whole

\* A registration's event is on no listener's way.
LEMMA NothingFacts == Nothing \notin Posts /\ \A st : <<Nothing, st>> \notin Posts
BY NothingAssumption DEF Events, Posts

LEMMA RelayInit == Init => Relay!Init
<1> SUFFICES ASSUME Init PROVE Relay!Init
  OBVIOUS
<1>1. <<>> \in Seq(Posts)
  OBVIOUS
<1>2. Way = <<>>
  BY <1>1, NothingFacts, JoinFacts DEF Init, Way
<1>3. told = heard
  BY DEF Init, Core!Init, Listen!Init
<1> QED BY <1>2, <1>3 DEF Init, Relay!Init, Relay!Stream!Init, Core!Init

\* The event in the hands of the re thread is the last on the way, and stays
\* it in the looper; a runnable is the first until it has told its listener.
LEMMA RelayStep ==
    TypeOK /\ TypeOK' /\ BridgeInv /\ [Next]_vars => [Relay!Next]_(Relay!vars)
<1> SUFFICES ASSUME TypeOK, TypeOK', BridgeInv, [Next]_vars
             PROVE  [Relay!Next]_(Relay!vars)
  OBVIOUS
<1>a. /\ looper \in Seq(Posts) /\ running \in Posts \cup {Nothing}
      /\ looper' \in Seq(Posts) /\ running' \in Posts \cup {Nothing}
  BY DEF TypeOK
<1>b. Way = Whole(Posted(running, looper), event)
  BY <1>a, WayShape DEF Way
<1>c. Way' = Whole(Posted(running', looper'), event')
  BY <1>a, WayShape DEF Way
<1>1. ASSUME UNCHANGED <<heard, running, looper, told>>,
             event' = event \/ (event \notin Posts /\ event' \notin Posts)
      PROVE  UNCHANGED Relay!vars
  BY <1>1, <1>b, <1>c DEF Relay!vars, Whole
<1>2. CASE Elsewhere \/ NativeInit \/ NativeShutdown \/ Reset \/ Abort
  BY <1>1, <1>2 DEF Elsewhere, NativeInit, NativeShutdown, Reset, Abort
<1>3. CASE Enter
  <2>1. event # Nothing
    BY <1>3 DEF Enter, BridgeInv
  <2> QED BY <1>1, <1>3, <2>1, EventFacts, NothingFacts DEF Enter
<1>4. CASE RegEvent
  <2>1. event \notin Posts /\ event' \notin Posts
    BY <1>4, NothingFacts DEF RegEvent, BridgeInv
  <2> QED BY <1>1, <1>4, <2>1 DEF RegEvent
<1>5. CASE Dispatch
  <2>1. event \in Posts /\ event' \notin Posts /\ looper' = Append(looper, event)
        /\ UNCHANGED <<heard, told, running>>
    BY <1>5, NothingFacts DEF Dispatch, BridgeInv
  <2>2. Way' = Way
    <3>1. Posted(running, Append(looper, event)) = Append(Posted(running, looper), event)
      BY <1>a, <2>1, PostedAppend
    <3> QED BY <1>b, <1>c, <2>1, <3>1 DEF Whole
  <2> QED BY <2>1, <2>2 DEF Relay!vars
<1>6. CASE Run
  <2>1. /\ running = Nothing /\ looper # <<>> /\ looper' = Tail(looper)
        /\ running' = IF listening THEN Head(looper) ELSE Nothing
        /\ UNCHANGED <<heard, told, event>>
    BY <1>6 DEF Run
  <2>2. Way = Whole(looper, event)
    BY <1>a, <1>b, <2>1, PostedFacts
  <2>3. CASE listening
    <3>1. Posted(running', looper') = looper
      BY <1>a, <2>1, <2>3, PostedFacts
    <3> QED BY <1>c, <2>1, <2>2, <3>1 DEF Relay!vars
  <2>4. CASE ~listening
    <3>1. Posted(running', looper') = Tail(looper)
      BY <1>a, <2>1, <2>4, PostedFacts
    <3>2. Way # <<>> /\ Way' = Tail(Way)
      <4>1. Whole(looper, event) # <<>>
            /\ Tail(Whole(looper, event)) = Whole(Tail(looper), event)
        BY <1>a, <2>1, WholeTail
      <4> QED BY <1>c, <2>1, <2>2, <3>1, <4>1
    <3> QED BY <2>1, <2>4, <3>2 DEF Relay!Next, Relay!Lose
  <2> QED BY <2>3, <2>4
<1>7. CASE Tell
  <2>1. /\ running # Nothing /\ running' = Nothing
        /\ told' = [told EXCEPT ![running[1]] = running[2]]
        /\ UNCHANGED <<heard, looper, event>>
    BY <1>7 DEF Tell
  <2>2. Way # <<>> /\ Head(Way) = running /\ Tail(Way) = Whole(looper, event)
    <3>1. /\ Whole(Posted(running, looper), event) # <<>>
          /\ Head(Whole(Posted(running, looper), event)) = running
          /\ Tail(Whole(Posted(running, looper), event)) = Whole(looper, event)
      BY <1>a, <2>1, WayTail
    <3> QED BY <1>b, <3>1
  <2>3. Posted(running', looper') = looper
    BY <1>a, <2>1, PostedFacts
  <2> QED BY <1>c, <2>1, <2>2, <2>3 DEF Relay!Next, Relay!Tell
<1>8. ASSUME NEW c \in Calls, CallEvent(c) PROVE [Relay!Next]_(Relay!vars)
  <2>1. event = Nothing /\ Core!Hear(c) /\ UNCHANGED <<told, running, looper>>
    BY <1>8 DEF CallEvent, BridgeInv
  <2>2. Way = Posted(running, looper)
    BY <1>b, <2>1, NothingFacts DEF Whole
  <2>3. <<c, heard'[c]>> \in Posts
    BY <2>1, HearFacts DEF Posts
  <2>4. Relay!Stream!Hear(c)
    BY <2>1 DEF Core!Hear, Relay!Stream!Hear, Core!After, Relay!Stream!After,
       Core!EventStates, Core!OpenStates, Core!Announcements, Core!MediaStates,
       Core!FinalStates, Relay!Stream!EventStates, Relay!Stream!OpenStates,
       Relay!Stream!Announcements, Relay!Stream!MediaStates, Relay!Stream!FinalStates
  <2>5. CASE callback
    <3>1. event' = <<c, heard'[c]>>
      BY <1>8, <2>5 DEF CallEvent
    <3>2. Way' = Append(Way, <<c, heard'[c]>>)
      BY <1>c, <2>1, <2>2, <2>3, <3>1 DEF Whole
    <3> QED BY <2>1, <2>4, <3>2 DEF Relay!Next, Relay!Hear
  <2>6. CASE ~callback
    <3>1. event' = event
      BY <1>8, <2>6 DEF CallEvent
    <3>2. Way' = Way
      BY <1>b, <1>c, <2>1, <3>1
    <3> QED BY <2>1, <2>4, <2>6, <3>2 DEF Relay!Next, Relay!Hear
  <2> QED BY <2>5, <2>6
<1> QED BY <1>2, <1>3, <1>4, <1>5, <1>6, <1>7, <1>8, OtherSteps

\* A listener is told what the core says once and in its order across all
\* calls, and all of it but what comes without a callback or runs without a
\* listener (OmnixEventDispatcher.kt:33-50).
THEOREM TellingIsARelay == Spec => ListenersAreToldInOrder
<1>1. AndroidInv => TypeOK /\ BridgeInv
  BY DEF AndroidInv
<1> QED
  BY <1>1, RelayInit, RelayStep, Inductive, PTL
  DEF Spec, ListenersAreToldInOrder, Relay!Spec

\* What getCallInfo returns in a listener is never behind what the listener
\* is told (OmnixVoice.kt:80-85).
THEOREM CacheAlwaysAhead == Spec => []CacheNotBehind
<1>1. AndroidInv => CacheNotBehind
  <2> SUFFICES ASSUME AndroidInv, running # Nothing, running[1] \notin past
               PROVE  calls[running[1]] \in {running[2]} \cup Core!After(running[2])
    BY DEF CacheNotBehind
  <2>1. running[1] \in Calls \ past
    BY DEF AndroidInv, TypeOK, Posts
  <2> QED BY <2>1 DEF AndroidInv, CacheInv, Upto
<1> QED BY <1>1, Inductive, PTL

\* A shutdown leaves nothing of the session in the facade, and a deleted
\* reference is used in a shutdown only (OmnixVoice.kt:163-179,
\* omnix_jni.cpp:104-148).
THEOREM DownAlwaysUninitialized == Spec => []DownIsUninitialized
<1>1. AndroidInv => DownIsUninitialized
  BY StateFacts
  DEF AndroidInv, BridgeInv, DownIsUninitialized, HasActiveCall, Leaving
<1> QED BY <1>1, Inductive, PTL

\* The call audio runs exactly while some call is active, between two
\* shutdowns (OmnixVoice.kt:349-356).
THEOREM AudioAlwaysFollows == Spec => []AudioFollowsCalls
<1>1. AndroidInv => AudioFollowsCalls
  BY DEF AndroidInv, AudioInv, InSession, AudioFollowsCalls, Quiet
<1> QED BY <1>1, Inductive, PTL

-----------------------------------------------------------------------------
(* The call audio is given back.                                           *)

\* Whatever is not as it was before belongs to an active session of the
\* router or to one that is being started, each step of the end undoes its
\* part for good, and a router that is given up or not yet used has none.
GivenInv ==
    ~overtook =>
        /\ previousMode = "normal" /\ "old" \notin focus
        /\ mode = "normal" \/ active \/ at["re"] \in {"focus", "active"}
        /\ focus = {} \/ active \/ at["re"] = "active"
        /\ speakerOn => active
        /\ \A p \in {"app", "re"} :
             /\ at[p] \in Ending => ~speakerOn
             /\ at[p] \in {"restore", "inactive"} => focus = {}
             /\ at[p] = "inactive" => mode = "normal"
        /\ at["app"] = "end" /\ at["re"] \in {"speaker", "on", "off"} => active
        /\ at["app"] \in Leaving \/ (at["app"] = "idle" /\ ~initialized) => ~active

\* What a step of startCallAudio leaves unmarked happened outside the end of
\* a session.
LEMMA OvertakesFacts ==
    ASSUME Overtakes, ~overtook'
    PROVE  ~overtook /\ at["app"] \notin Ending \cup Leaving
BY Zenon DEF Overtakes

\* Every step keeps what belongs to the session with it.
LEMMA GivenStep ==
    TypeOK /\ BridgeInv /\ AudioInv /\ GivenInv /\ [Next]_vars => GivenInv'
<1> SUFFICES ASSUME TypeOK, BridgeInv, AudioInv, GivenInv, [Next]_vars, ~overtook'
             PROVE  GivenInv'
  BY DEF GivenInv
<1> USE DEF GivenInv, AppPlaces, RePlaces, Ending, Leaving
<1>1. CASE Initialize
  <2>1. at["re"] = "idle" /\ ~active /\ ~speakerOn /\ focus = {} /\ mode = "normal"
    BY <1>1 DEF Initialize, BridgeInv
  <2> QED BY <1>1, <2>1, GoApp DEF Initialize
<1>2. CASE NativeInit
  <2>1. ~active
    BY <1>2 DEF NativeInit, AudioInv
  <2> QED BY <1>2, <2>1, GoApp DEF NativeInit
<1>3. CASE Initialized
  BY <1>3, GoApp DEF Initialized
<1>4. CASE Shutdown
  BY <1>4, GoApp DEF Shutdown, AudioInv, InSession
<1>5. CASE DropRouter \/ UnsetCallback
  BY <1>5, GoApp DEF DropRouter, UnsetCallback
<1>6. CASE NativeShutdown
  BY <1>6, GoApp DEF NativeShutdown
<1>7. CASE Reset
  BY <1>7, GoApp DEF Reset
<1>8. ASSUME NEW on \in BOOLEAN, SetSpeaker(on) PROVE GivenInv'
  BY <1>8, GoApp DEF SetSpeaker
<1>9. CASE CheckActive
  BY <1>9, GoApp DEF CheckActive
<1>10. CASE SpeakerOfApp
  <2>1. ~overtook /\ active /\ at["re"] \notin Ending
    BY <1>10, Zenon DEF SpeakerOfApp
  <2>2. initialized /\ at["app"] = "on"
    BY <1>10 DEF SpeakerOfApp, AudioInv
  <2> QED BY <1>10, <2>1, <2>2, GoApp DEF SpeakerOfApp
<1>11. CASE End("app")
  <2>1. CASE EndCallAudio("app")
    BY <2>1, GoApp DEF EndCallAudio, After
  <2>2. CASE AbandonFocus("app")
    <3>1. ~overtook /\ focus' = {}
      BY <2>2 DEF AbandonFocus, TypeOK
    <3> QED BY <2>2, <3>1, GoApp DEF AbandonFocus
  <2>3. CASE RestoreMode("app")
    BY <2>3, GoApp DEF RestoreMode
  <2>4. CASE EndSession("app")
    BY <2>4, GoApp DEF EndSession, After
  <2> QED BY <1>11, <2>1, <2>2, <2>3, <2>4 DEF End
<1>12. CASE End("re")
  <2>1. CASE EndCallAudio("re")
    BY <2>1, GoRe DEF EndCallAudio, After
  <2>2. CASE AbandonFocus("re")
    <3>1. ~overtook /\ focus' = {}
      BY <2>2 DEF AbandonFocus, TypeOK
    <3> QED BY <2>2, <3>1, GoRe DEF AbandonFocus
  <2>3. CASE RestoreMode("re")
    BY <2>3, GoRe DEF RestoreMode
  <2>4. CASE EndSession("re")
    BY <2>4, GoRe DEF EndSession, After
  <2> QED BY <1>12, <2>1, <2>2, <2>3, <2>4 DEF End
<1>13. CASE StartCallAudio
  <2>1. CASE active
    BY <1>13, <2>1, GoRe DEF StartCallAudio
  <2>2. CASE ~active
    BY <1>13, <2>2, GoRe, OvertakesFacts DEF StartCallAudio
  <2> QED BY <2>1, <2>2
<1>14. CASE RequestFocus
  BY <1>14, GoRe, OvertakesFacts DEF RequestFocus, TypeOK
<1>15. CASE StartSession
  <2>1. ~overtook /\ at["app"] \notin Leaving /\ (at["app"] = "idle" => initialized)
    BY <1>15, OvertakesFacts DEF StartSession, BridgeInv
  <2>2. active' /\ at["app"] \notin Ending
    BY <1>15, OvertakesFacts DEF StartSession
  <2> QED BY <1>15, <2>1, <2>2, GoRe DEF StartSession
<1>16. CASE ReadSpeaker
  BY <1>16, GoRe DEF ReadSpeaker
<1>17. CASE SpeakerOfRe
  <2>1. ~overtook /\ at["app"] \notin Ending \cup Leaving
    BY <1>17, OvertakesFacts DEF SpeakerOfRe
  <2>2. active
    BY <1>17, <2>1 DEF SpeakerOfRe, BridgeInv, AudioInv, InSession, TypeOK
  <2> QED BY <1>17, <2>1, <2>2, GoRe DEF SpeakerOfRe
<1>18. CASE Enter
  BY <1>18, GoRe DEF Enter
<1>19. CASE Sync
  BY <1>19, GoRe DEF Sync
<1>20. CASE Dispatch \/ Abort \/ RegEvent
  BY <1>20, GoRe DEF Dispatch, Abort, RegEvent
<1>21. ASSUME NEW c \in Calls, CallEvent(c) PROVE GivenInv'
  BY <1>21, GoRe DEF CallEvent
<1>22. CASE Run \/ Tell \/ Listener \/ UNCHANGED vars
  BY <1>22 DEF Run, Tell, Listener, vars
<1> QED
  BY <1>1, <1>2, <1>3, <1>4, <1>5, <1>6, <1>7, <1>8, <1>9, <1>10, <1>11, <1>12,
     <1>13, <1>14, <1>15, <1>16, <1>17, <1>18, <1>19, <1>20, <1>21, <1>22
  DEF Next, AppStep, ReStep, Looper, Application

\* Unless the two threads met in the router, the audio manager is as it was
\* before whenever no call is active, in a session and after it
\* (OmnixAudioRouter.kt:51-87).
THEOREM AudioAlwaysGivenBack == Spec => []AudioGivenBack
<1>1. Init => GivenInv
  BY DEF Init, GivenInv, Ending
<1>2. AndroidInv /\ GivenInv /\ [Next]_vars => GivenInv'
  BY GivenStep DEF AndroidInv
<1>3. AndroidInv /\ GivenInv => AudioGivenBack
  BY DEF AndroidInv, GivenInv, AudioInv, InSession, AudioGivenBack, Quiet, Ending
<1> QED BY <1>1, <1>2, <1>3, Inductive, PTL DEF Spec
=============================================================================
