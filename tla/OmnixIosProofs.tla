---------------------------- MODULE OmnixIosProofs ----------------------------
(***************************************************************************)
(* Proofs about OmnixIos for every set of calls, of reported states and of *)
(* callers, and every length of the main queue.                            *)
(*                                                                         *)
(* LockInv says which thread is where in its block or its operation.       *)
(* StreamInv orders the copies of a call's state: the delegate's, the      *)
(* running block's, the queue's and the core's.  CacheInv follows the      *)
(* blocks' states into the bridge's cache, which callInfo overwrites with  *)
(* what the core answers and a shutdown on another thread may empty.       *)
(***************************************************************************)
EXTENDS OmnixIos, SequenceTheorems, TLAPS

\* b is a or comes after it.
Upto(a, b) == b = a \/ b \in Core!After(a)

BlockPlaces == {"cache", "remember", "sync", "tell"} \cup Starting
EndPlaces   == {"end", "deactivate", "unmark", "emit"}
OpPlaces    == {"halt", "forget", "override", "emitSpeaker"}

LockInv ==
    /\ \A p \in Threads : /\ at[p] \in OpPlaces => lock = p
                          /\ lock = p => at[p] \in OpPlaces \cup EndPlaces
    /\ at["worker"] \in {"idle"} \cup OpPlaces \cup EndPlaces
    /\ at["worker"] \in EndPlaces => lock = "worker"
    /\ at["main"] \in BlockPlaces => block \in Blocks
    /\ at["main"] \in EndPlaces /\ lock # "main" => block \in Blocks
    /\ at["main"] \in {"idle", "route"} \cup OpPlaces => block = Nothing
    /\ lock = "main" => block = Nothing

StreamInv ==
    /\ \A c \in Calls : Upto(told[c], heard[c])
    /\ block # Nothing => /\ Upto(block[2], heard[block[1]])
                          /\ block[2] \in Core!After(told[block[1]])
    /\ \A i \in 1..Len(queue) :
         /\ Upto(queue[i][2], heard[queue[i][1]])
         /\ queue[i][2] \in Core!After(told[queue[i][1]])
         /\ block # Nothing /\ block[1] = queue[i][1]
              => queue[i][2] \in Core!After(block[2])
    /\ \A i, j \in 1..Len(queue) :
         i < j /\ queue[i][1] = queue[j][1]
           => queue[j][2] \in Core!After(queue[i][2])

CacheInv ==
    /\ \A c \in past : heard[c] # "SILENT"
    /\ \A p \in Threads : at[p] = "forget" =>
         ~core /\ \A c \in Calls : heard[c] # "SILENT" => c \in past
    /\ \A c \in Calls :
         /\ ~core => calls[c] \in {"SILENT", LastBrought(c)}
         /\ LastBrought(c) \in Core!FinalStates => calls[c] \notin ActiveStates

USE DEF session, audio

-----------------------------------------------------------------------------
(* Types.                                                                  *)

\* The states of a call, and what comes after one.
LEMMA StateFacts ==
    /\ "SILENT" \notin Core!EventStates
    /\ \A a : Core!After(a) \subseteq Core!EventStates
    /\ \A a, b, c : b \in Core!After(a) /\ c \in Core!After(b) => c \in Core!After(a)
    /\ \A a : Core!After(a) = Delegate!After(a)
    /\ \A a \in Core!FinalStates : Core!After(a) = {} /\ a \notin ActiveStates
    /\ "SILENT" \notin ActiveStates /\ "IDLE" \notin ActiveStates
BY DEF ActiveStates, Core!EventStates, Core!OpenStates, Core!Announcements,
       Core!MediaStates, Core!FinalStates, Core!After, Delegate!EventStates,
       Delegate!OpenStates, Delegate!Announcements, Delegate!MediaStates,
       Delegate!FinalStates, Delegate!After

\* One thread goes on, the others stay.
LEMMA GoFacts ==
    ASSUME TypeOK, NEW p \in Threads, NEW place \in Places, Go(p, place)
    PROVE  /\ at' \in [Threads -> Places] /\ at'[p] = place
           /\ \A q \in Threads : q # p => at'[q] = at[q]
BY DEF Go, TypeOK

\* What the core's next word on a call is.
LEMMA HearFacts ==
    ASSUME TypeOK, NEW c \in Calls, Core!Hear(c)
    PROVE  /\ heard' \in [Calls -> States]
           /\ heard'[c] \in Core!After(heard[c]) /\ <<c, heard'[c]>> \in Blocks
           /\ \A d \in Calls : d # c => heard'[d] = heard[d]
<1>1. PICK st \in Core!After(heard[c]) : heard' = [heard EXCEPT ![c] = st]
  BY DEF Core!Hear
<1>2. st \in Core!EventStates /\ heard \in [Calls -> States]
  BY <1>1, StateFacts DEF TypeOK
<1> QED BY <1>1, <1>2 DEF States, Blocks

\* Appending a block, and taking the first.
LEMMA QueueFacts ==
    ASSUME NEW q \in Seq(Blocks)
    PROVE  /\ Len(q) \in Nat
           /\ \A b \in Blocks : /\ Append(q, b) \in Seq(Blocks)
                                /\ Len(Append(q, b)) = Len(q) + 1
                                /\ Append(q, b)[Len(q) + 1] = b
                                /\ \A i \in 1..Len(q) : Append(q, b)[i] = q[i]
           /\ \A i \in 1..Len(q) : q[i] \in Blocks
           /\ q # <<>> => /\ Len(q) \in Nat \ {0} /\ Head(q) = q[1]
                          /\ Head(q) \in Blocks
                          /\ Tail(q) \in Seq(Blocks) /\ Len(Tail(q)) = Len(q) - 1
                          /\ \A i \in 1..Len(Tail(q)) : Tail(q)[i] = q[i + 1]
OBVIOUS

\* The running block is of a call.
LEMMA BlockFacts ==
    ASSUME TypeOK, block # Nothing
    PROVE  block \in Blocks /\ block[1] \in Calls /\ block[2] \in Core!EventStates
BY DEF TypeOK, Blocks

\* main is a thread, and so is the worker.
LEMMA ThreadFacts == Threads = {"main", "worker"} /\ "none" \notin Threads
BY DEF Threads

\* Every step keeps the state typed.
LEMMA TypeStep == TypeOK /\ LockInv /\ [Next]_vars => TypeOK'
<1> SUFFICES ASSUME TypeOK, LockInv, [Next]_vars PROVE TypeOK'
  OBVIOUS
<1> DEFINE AtOK == at \in [Threads -> Places]
<1>0. "SILENT" \in States
  BY DEF States
<1> USE ThreadFacts
<1>1. ASSUME NEW c \in Calls, CallEvent(c) PROVE TypeOK'
  <2>1. heard' \in [Calls -> States] /\ <<c, heard'[c]>> \in Blocks
    BY <1>1, HearFacts DEF CallEvent
  <2>2. queue' \in Seq(Blocks) /\ Len(queue') <= MaxQueued
    BY <1>1, <2>1, QueueFacts, QueueAssumption DEF CallEvent, TypeOK
  <2> QED BY <1>1, <2>1, <2>2 DEF CallEvent, TypeOK
<1>2. CASE Take
  <2>1. /\ queue' \in Seq(Blocks) /\ Len(queue') <= MaxQueued /\ block' \in Blocks
    BY <1>2, QueueFacts, QueueAssumption DEF Take, TypeOK
  <2>2. AtOK'
    BY <1>2, GoFacts DEF Take, Places
  <2>3. ringing' \in BOOLEAN /\ strayed' \in BOOLEAN
    BY <1>2 DEF Take, TypeOK
  <2> QED BY <1>2, <2>1, <2>2, <2>3 DEF Take, TypeOK
<1>3. CASE RouteChange
  <2>1. AtOK'
    BY <1>3, GoFacts DEF RouteChange, Places
  <2> QED BY <1>3, <2>1 DEF RouteChange, TypeOK
<1>4. CASE Cache
  <2>1. AtOK'
    BY <1>4, GoFacts DEF Cache, Places
  <2>2. calls' \in [Calls -> States \cup {"IDLE"}]
    BY <1>4, BlockFacts, NothingAssumption DEF Cache, LockInv, BlockPlaces, TypeOK, States
  <2> QED BY <1>4, <2>1, <2>2 DEF Cache, TypeOK
<1>5. CASE Remember
  <2>1. AtOK'
    BY <1>5, GoFacts DEF Remember, Places
  <2>2. tracked' \in [Calls -> States]
    BY <1>5, BlockFacts, NothingAssumption DEF Remember, LockInv, BlockPlaces, TypeOK, States
  <2>3. strayed' \in BOOLEAN
    BY <1>5 DEF Remember, TypeOK
  <2> QED BY <1>5, <2>1, <2>2, <2>3 DEF Remember, TypeOK
<1>6. CASE Sync
  <2>1. AtOK'
    BY <1>6, GoFacts DEF Sync, Places, Starting
  <2> QED BY <1>6, <2>1 DEF Sync, TypeOK
<1>7. CASE StartCallAudio
  <2>1. AtOK'
    BY <1>7, GoFacts DEF StartCallAudio, ApplySpeaker, Places, Starting
  <2> QED BY <1>7, <2>1 DEF StartCallAudio, TypeOK
<1>8. CASE Activate
  <2>1. AtOK'
    BY <1>8, GoFacts DEF Activate, Places, Starting
  <2>2. avActive' \in BOOLEAN /\ strayed' \in BOOLEAN
    BY <1>8 DEF Activate, TypeOK
  <2> QED BY <1>8, <2>1, <2>2 DEF Activate, TypeOK
<1>9. CASE Mark
  <2>1. AtOK'
    BY <1>9, GoFacts DEF Mark, ApplySpeaker, Places
  <2>2. sessionActive' \in BOOLEAN
    BY <1>9 DEF Mark
  <2> QED BY <1>9, <2>1, <2>2 DEF Mark, TypeOK
<1>10. CASE Tell
  <2>1. AtOK'
    BY <1>10, GoFacts DEF Tell, Places
  <2>2. told' \in [Calls -> States] /\ block' \in Blocks \cup {Nothing}
    BY <1>10, BlockFacts, NothingAssumption DEF Tell, LockInv, BlockPlaces, TypeOK, States
  <2>3. ringing' \in BOOLEAN
    BY <1>10 DEF Tell
  <2> QED BY <1>10, <2>1, <2>2, <2>3 DEF Tell, TypeOK
<1>11. CASE HandleRoute
  <2>1. AtOK'
    BY <1>11, GoFacts DEF HandleRoute, Places
  <2> QED BY <1>11, <2>1 DEF HandleRoute, TypeOK
<1>12. CASE Initialize
  <2>1. core' \in BOOLEAN
    BY <1>12 DEF Initialize
  <2> QED BY <1>12, <2>1 DEF Initialize, TypeOK
<1>13. ASSUME NEW p \in Threads, Shutdown(p) \/ SetSpeaker(p) PROVE TypeOK'
  <2>1. AtOK'
    BY <1>13, GoFacts DEF Shutdown, SetSpeaker, Places
  <2> QED BY <1>13, <2>1 DEF Shutdown, SetSpeaker, TypeOK
<1>14. ASSUME NEW p \in Threads, InOperation(p) PROVE TypeOK'
  <2>0. After(p) \in Places
    BY DEF After, Places
  <2>1. CASE EndCallAudio(p)
    <3>1. AtOK'
      BY <2>0, <2>1, GoFacts DEF EndCallAudio, Places
    <3> QED BY <2>1, <3>1 DEF EndCallAudio, TypeOK
  <2>2. CASE Deactivate(p)
    <3>1. AtOK'
      BY <2>0, <2>2, GoFacts DEF Deactivate, Places
    <3>2. avActive' \in BOOLEAN /\ strayed' \in BOOLEAN
      BY <2>2 DEF Deactivate, TypeOK
    <3> QED BY <2>2, <3>1, <3>2 DEF Deactivate, TypeOK
  <2>3. CASE Unmark(p)
    <3>1. AtOK'
      BY <2>0, <2>3, GoFacts DEF Unmark, Places
    <3>2. sessionActive' \in BOOLEAN
      BY <2>3 DEF Unmark
    <3> QED BY <2>3, <3>1, <3>2 DEF Unmark, TypeOK
  <2>4. CASE EmitCurrentRoute(p)
    <3>1. AtOK'
      BY <2>0, <2>4, GoFacts DEF EmitCurrentRoute
    <3> QED BY <2>4, <3>1 DEF EmitCurrentRoute, TypeOK
  <2>5. CASE Halt(p)
    <3>1. AtOK'
      BY <2>5, GoFacts DEF Halt, Places
    <3>2. core' \in BOOLEAN /\ past' \subseteq Calls
          /\ calls' \in [Calls -> States \cup {"IDLE"}]
      BY <1>0, <2>5 DEF Halt, TypeOK
    <3> QED BY <2>5, <3>1, <3>2 DEF Halt, TypeOK
  <2>6. CASE Forget(p)
    <3>1. AtOK'
      BY <2>6, GoFacts DEF Forget, Places
    <3>2. tracked' \in [Calls -> States] /\ strayed' \in BOOLEAN
      BY <1>0, <2>6 DEF Forget, TypeOK
    <3> QED BY <2>6, <3>1, <3>2 DEF Forget, TypeOK
  <2>7. CASE Override(p)
    <3>1. AtOK'
      BY <2>7, GoFacts DEF Override, Places
    <3> QED BY <2>7, <3>1 DEF Override, TypeOK
  <2>8. CASE EmitSpeaker(p)
    <3>1. AtOK'
      BY <2>8, GoFacts DEF EmitSpeaker, Places
    <3> QED BY <2>8, <3>1 DEF EmitSpeaker, TypeOK
  <2> QED
    BY <1>14, <2>1, <2>2, <2>3, <2>4, <2>5, <2>6, <2>7, <2>8 DEF InOperation
<1>15. ASSUME NEW c \in Calls, CallInfo(c) PROVE TypeOK'
  <2>1. calls' \in [Calls -> States \cup {"IDLE"}]
    BY <1>15, ReportedAssumption DEF CallInfo, GetState, TypeOK, States
  <2> QED BY <1>15, <2>1 DEF CallInfo, TypeOK
<1>16. CASE UNCHANGED vars
  BY <1>16 DEF vars, TypeOK
<1> QED
  BY <1>1, <1>2, <1>3, <1>4, <1>5, <1>6, <1>7, <1>8, <1>9, <1>10, <1>11,
     <1>12, <1>13, <1>14, <1>15, <1>16, CallersAssumption
  DEF Next, InBlock

-----------------------------------------------------------------------------
(* Who holds the lock, and where the running block is.                     *)

\* Every step keeps each thread in its block or its operation.
LEMMA LockStep == TypeOK /\ LockInv /\ [Next]_vars => LockInv'
<1> SUFFICES ASSUME TypeOK, LockInv, [Next]_vars PROVE LockInv'
  OBVIOUS
<1> USE ThreadFacts DEF LockInv, BlockPlaces, EndPlaces, OpPlaces, Starting, Places
<1>1. ASSUME NEW c \in Calls, CallEvent(c) PROVE LockInv'
  BY <1>1 DEF CallEvent
<1>2. CASE Take
  <2>1. block' \in Blocks
    BY <1>2, QueueFacts DEF Take, TypeOK
  <2> QED BY <1>2, <2>1, GoFacts DEF Take
<1>3. CASE RouteChange
  BY <1>3, GoFacts DEF RouteChange
<1>4. CASE Cache
  BY <1>4, GoFacts DEF Cache
<1>5. CASE Remember
  BY <1>5, GoFacts DEF Remember
<1>6. CASE Sync
  BY <1>6, GoFacts DEF Sync
<1>7. CASE StartCallAudio
  BY <1>7, GoFacts DEF StartCallAudio, ApplySpeaker
<1>8. CASE Activate
  BY <1>8, GoFacts DEF Activate
<1>9. CASE Mark
  BY <1>9, GoFacts DEF Mark, ApplySpeaker
<1>10. CASE Tell
  BY <1>10, GoFacts DEF Tell
<1>11. CASE HandleRoute
  BY <1>11, GoFacts DEF HandleRoute
<1>12. CASE Initialize
  BY <1>12 DEF Initialize
<1>13. ASSUME NEW p \in Threads, Shutdown(p) \/ SetSpeaker(p) PROVE LockInv'
  BY <1>13, GoFacts DEF Shutdown, SetSpeaker
<1>14. ASSUME NEW p \in Threads, InOperation(p) PROVE LockInv'
  <2>1. CASE EndCallAudio(p)
    BY <2>1, GoFacts DEF EndCallAudio, After
  <2>2. CASE Deactivate(p)
    BY <2>2, GoFacts DEF Deactivate, After
  <2>3. CASE Unmark(p)
    BY <2>3, GoFacts DEF Unmark, After
  <2>4. CASE EmitCurrentRoute(p)
    BY <2>4, GoFacts DEF EmitCurrentRoute, After
  <2>5. CASE Halt(p)
    BY <2>5, GoFacts DEF Halt
  <2>6. CASE Forget(p)
    BY <2>6, GoFacts DEF Forget
  <2>7. CASE Override(p)
    BY <2>7, GoFacts DEF Override
  <2>8. CASE EmitSpeaker(p)
    BY <2>8, GoFacts DEF EmitSpeaker
  <2> QED
    BY <1>14, <2>1, <2>2, <2>3, <2>4, <2>5, <2>6, <2>7, <2>8 DEF InOperation
<1>15. ASSUME NEW c \in Calls, CallInfo(c) PROVE LockInv'
  BY <1>15 DEF CallInfo
<1>16. CASE UNCHANGED vars
  BY <1>16 DEF vars
<1> QED
  BY <1>1, <1>2, <1>3, <1>4, <1>5, <1>6, <1>7, <1>8, <1>9, <1>10, <1>11,
     <1>12, <1>13, <1>14, <1>15, <1>16, CallersAssumption
  DEF Next, InBlock

-----------------------------------------------------------------------------
(* What the delegate is told.                                              *)

\* Only these steps touch the states of the calls on their way.
LEMMA OtherSteps ==
    ASSUME [Next]_vars
    PROVE  \/ UNCHANGED <<heard, queue, block, told>>
           \/ Take \/ Tell \/ \E c \in Calls : CallEvent(c)
BY DEF Next, vars, InBlock, RouteChange, Cache, Remember, Sync, StartCallAudio,
       Activate, Mark, HandleRoute, Initialize, CallInfo, Shutdown, SetSpeaker,
       InOperation, EndCallAudio, Deactivate, Unmark, EmitCurrentRoute, Halt, Forget, Override,
       EmitSpeaker

\* Every step keeps the copies of a call's state in the order of the stream.
LEMMA StreamStep == TypeOK /\ LockInv /\ StreamInv /\ [Next]_vars => StreamInv'
<1> SUFFICES ASSUME TypeOK, LockInv, StreamInv, [Next]_vars PROVE StreamInv'
  OBVIOUS
<1>1. CASE UNCHANGED <<heard, queue, block, told>>
  BY <1>1 DEF StreamInv, Upto
<1>2. CASE Take
  <2>1. /\ queue # <<>> /\ 1 \in 1..Len(queue) /\ block' = queue[1]
        /\ \A i \in 1..Len(queue') : i + 1 \in 1..Len(queue) /\ queue'[i] = queue[i + 1]
    BY <1>2, QueueFacts DEF Take, TypeOK
  <2>2. UNCHANGED <<heard, told>>
    BY <1>2 DEF Take
  <2>3. ASSUME NEW i \in 1..Len(queue')
        PROVE  /\ Upto(queue'[i][2], heard[queue'[i][1]])
               /\ queue'[i][2] \in Core!After(told[queue'[i][1]])
               /\ block'[1] = queue'[i][1] => queue'[i][2] \in Core!After(block'[2])
    <3>1. i + 1 \in 1..Len(queue) /\ queue'[i] = queue[i + 1] /\ 1 < i + 1
      BY <2>1
    <3> QED BY <2>1, <3>1 DEF StreamInv
  <2>4. ASSUME NEW i \in 1..Len(queue'), NEW j \in 1..Len(queue'),
               i < j, queue'[i][1] = queue'[j][1]
        PROVE  queue'[j][2] \in Core!After(queue'[i][2])
    BY <2>1, <2>4 DEF StreamInv
  <2> QED BY <2>1, <2>2, <2>3, <2>4 DEF StreamInv, Upto
<1>3. CASE Tell
  <2>1. /\ block # Nothing /\ block[1] \in Calls
        /\ UNCHANGED <<heard, queue>>
    BY <1>3, BlockFacts, NothingAssumption DEF Tell, LockInv, BlockPlaces
  <2>2. CASE ringing
    BY <1>1, <1>3, <2>1, <2>2 DEF Tell
  <2>3. CASE ~ringing
    <3>1. /\ block' = Nothing /\ told'[block[1]] = block[2]
          /\ \A c \in Calls : c # block[1] => told'[c] = told[c]
      BY <1>3, <2>1, <2>3 DEF Tell, TypeOK
    <3>2. \A i \in 1..Len(queue) : queue[i] \in Blocks /\ queue[i][1] \in Calls
      BY QueueFacts DEF TypeOK, Blocks
    <3> QED BY <2>1, <3>1, <3>2 DEF StreamInv, Upto
  <2> QED BY <2>2, <2>3
<1>4. ASSUME NEW c \in Calls, CallEvent(c) PROVE StreamInv'
  <2>1. /\ heard'[c] \in Core!After(heard[c]) /\ <<c, heard'[c]>> \in Blocks
        /\ \A d \in Calls : d # c => heard'[d] = heard[d]
    BY <1>4, HearFacts DEF CallEvent
  <2>2. UNCHANGED <<block, told>>
    BY <1>4 DEF CallEvent
  <2>3. \A a : Upto(a, heard[c]) => heard'[c] \in Core!After(a)
    BY <2>1, StateFacts DEF Upto
  <2>4. ASSUME NEW a, NEW d \in Calls, Upto(a, heard[d]) PROVE Upto(a, heard'[d])
    BY <2>1, <2>3, <2>4 DEF Upto
  <2>5. /\ block # Nothing => block[1] \in Calls
        /\ \A i \in 1..Len(queue) : queue[i] \in Blocks /\ queue[i][1] \in Calls
    BY QueueFacts DEF TypeOK, Blocks
  <2>6. /\ Len(queue) \in Nat /\ Len(queue') = Len(queue) + 1
        /\ queue'[Len(queue) + 1] = <<c, heard'[c]>>
        /\ \A i \in 1..Len(queue) : queue'[i] = queue[i]
    BY <1>4, <2>1, QueueFacts DEF CallEvent, TypeOK
  <2>7. ASSUME NEW i \in 1..Len(queue')
        PROVE  /\ Upto(queue'[i][2], heard'[queue'[i][1]])
               /\ queue'[i][2] \in Core!After(told[queue'[i][1]])
               /\ block # Nothing /\ block[1] = queue'[i][1]
                    => queue'[i][2] \in Core!After(block[2])
    <3>1. CASE i = Len(queue) + 1
      <4>1. queue'[i][1] = c /\ queue'[i][2] = heard'[c]
        BY <2>6, <3>1
      <4>2. Upto(told[c], heard[c]) /\ (block # Nothing /\ block[1] = c => Upto(block[2], heard[c]))
        BY DEF StreamInv
      <4> QED BY <2>3, <4>1, <4>2 DEF Upto
    <3>2. CASE i # Len(queue) + 1
      <4>1. i \in 1..Len(queue) /\ queue'[i] = queue[i]
        BY <2>6, <3>2
      <4> QED BY <2>4, <2>5, <4>1 DEF StreamInv
    <3> QED BY <3>1, <3>2
  <2>8. ASSUME NEW i \in 1..Len(queue'), NEW j \in 1..Len(queue'),
               i < j, queue'[i][1] = queue'[j][1]
        PROVE  queue'[j][2] \in Core!After(queue'[i][2])
    <3>1. i \in 1..Len(queue) /\ queue'[i] = queue[i]
      BY <2>6, <2>8
    <3>2. CASE j = Len(queue) + 1
      <4>1. queue[i][1] = c /\ queue'[j][2] = heard'[c]
        BY <2>6, <2>8, <3>1, <3>2
      <4> QED BY <2>3, <3>1, <4>1 DEF StreamInv
    <3>3. CASE j # Len(queue) + 1
      BY <2>6, <2>8, <3>1, <3>3 DEF StreamInv
    <3> QED BY <3>2, <3>3
  <2>9. ASSUME NEW d \in Calls PROVE Upto(told[d], heard'[d])
    BY <2>4 DEF StreamInv
  <2>10. block # Nothing => /\ Upto(block[2], heard'[block[1]])
                           /\ block[2] \in Core!After(told[block[1]])
    BY <2>4, <2>5 DEF StreamInv
  <2> QED BY <2>2, <2>7, <2>8, <2>9, <2>10 DEF StreamInv
<1> QED BY <1>1, <1>2, <1>3, <1>4, OtherSteps

-----------------------------------------------------------------------------
(* The caches.                                                             *)

\* The core has said the end of a call that a block brought: nothing is found
\* of the call any more.
LEMMA EndIsHeard ==
    ASSUME TypeOK, StreamInv, NEW c \in Calls, LastBrought(c) \in Core!FinalStates
    PROVE  heard[c] \in Core!FinalStates /\ GetState(c) = {"IDLE"}
<1>1. Upto(LastBrought(c), heard[c])
  BY DEF StreamInv, LastBrought
<1> QED BY <1>1, StateFacts DEF Upto, GetState

\* Only these steps touch what callInfo answers after the session.
LEMMA OtherAnswers ==
    ASSUME TypeOK, LockInv, [Next]_vars
    PROVE  \/ /\ UNCHANGED <<core, calls, block, told>>
              /\ block # Nothing => (at'["main"] = "cache" <=> at["main"] = "cache")
           \/ Take \/ Cache \/ Tell \/ Initialize
           \/ \E c \in Calls : CallInfo(c)
           \/ \E p \in Threads : Halt(p)
<1> DEFINE Kept == /\ UNCHANGED <<core, calls, block, told>>
                   /\ block # Nothing
                        => (at'["main"] = "cache" <=> at["main"] = "cache")
<1> USE ThreadFacts, GoFacts DEF Places, Starting
<1>1. ASSUME NEW c \in Calls, CallEvent(c) PROVE Kept
  BY <1>1 DEF CallEvent
<1>2. CASE RouteChange \/ HandleRoute
  BY <1>2 DEF RouteChange, HandleRoute, LockInv
<1>3. CASE Remember \/ Sync \/ StartCallAudio
  BY <1>3 DEF Remember, Sync, StartCallAudio, ApplySpeaker
<1>4. CASE Activate \/ Mark
  BY <1>4 DEF Activate, Mark, ApplySpeaker
<1>5. ASSUME NEW p \in Threads, Shutdown(p) \/ SetSpeaker(p) PROVE Kept
  BY <1>5 DEF Shutdown, SetSpeaker
<1>6. ASSUME NEW p \in Threads, InOperation(p), ~Halt(p) PROVE Kept
  <2>0. After(p) \in {"halt", "tell"}
    BY DEF After
  <2> QED
    BY <1>6, <2>0
    DEF InOperation, EndCallAudio, Deactivate, Unmark, EmitCurrentRoute, Forget,
        Override, EmitSpeaker
<1>7. CASE UNCHANGED vars
  BY <1>7 DEF vars
<1> QED
  BY <1>1, <1>2, <1>3, <1>4, <1>5, <1>6, <1>7, CallersAssumption DEF Next, InBlock

\* Every step keeps the calls of an ended session in the past ...
LEMMA PastStep ==
    ASSUME TypeOK, LockInv, CacheInv, [Next]_vars
    PROVE  /\ \A c \in past' : heard'[c] # "SILENT"
           /\ \A p \in Threads : at'[p] = "forget" =>
                ~core' /\ \A c \in Calls : heard'[c] # "SILENT" => c \in past'
<1> DEFINE Goal == /\ \A c \in past' : heard'[c] # "SILENT"
                   /\ \A p \in Threads : at'[p] = "forget" =>
                        ~core' /\ \A c \in Calls : heard'[c] # "SILENT" => c \in past'
           Kept == /\ UNCHANGED <<core, heard, past>>
                   /\ \A p \in Threads : at'[p] = "forget" => at[p] = "forget"
<1>1. CASE Kept
  BY <1>1 DEF CacheInv
<1> USE ThreadFacts, GoFacts DEF Places, Starting
<1>2. ASSUME NEW c \in Calls, CallEvent(c) PROVE Goal
  <2>1. <<c, heard'[c]>> \in Blocks /\ \A d \in Calls : d # c => heard'[d] = heard[d]
    BY <1>2, HearFacts DEF CallEvent
  <2>2. heard'[c] # "SILENT"
    BY <2>1, StateFacts DEF Blocks
  <2> QED BY <1>2, <2>1, <2>2 DEF CallEvent, CacheInv, TypeOK
<1>3. ASSUME NEW p \in Threads, Halt(p) PROVE Goal
  BY <1>3 DEF Halt, CacheInv
<1>4. CASE Initialize
  BY <1>4 DEF Initialize, CacheInv, LockInv, OpPlaces
<1>5. ASSUME NEW c \in Calls, CallInfo(c) PROVE Goal
  BY <1>1, <1>5 DEF CallInfo
<1>6. CASE Take \/ RouteChange \/ HandleRoute \/ Tell
  BY <1>1, <1>6 DEF Take, RouteChange, HandleRoute, Tell
<1>7. CASE Cache \/ Remember \/ Sync \/ StartCallAudio
  BY <1>1, <1>7 DEF Cache, Remember, Sync, StartCallAudio, ApplySpeaker
<1>8. CASE Activate \/ Mark
  BY <1>1, <1>8 DEF Activate, Mark, ApplySpeaker
<1>9. ASSUME NEW p \in Threads, Shutdown(p) \/ SetSpeaker(p) PROVE Goal
  BY <1>1, <1>9 DEF Shutdown, SetSpeaker
<1>10. ASSUME NEW p \in Threads, InOperation(p), ~Halt(p) PROVE Goal
  <2>0. After(p) \in {"halt", "tell"}
    BY DEF After
  <2>1. CASE EndCallAudio(p) \/ Deactivate(p) \/ Unmark(p) \/ EmitCurrentRoute(p)
    BY <1>1, <2>0, <2>1 DEF EndCallAudio, Deactivate, Unmark, EmitCurrentRoute
  <2>2. CASE Forget(p) \/ Override(p) \/ EmitSpeaker(p)
    BY <1>1, <2>2 DEF Forget, Override, EmitSpeaker
  <2> QED BY <1>10, <2>1, <2>2 DEF InOperation
<1>11. CASE UNCHANGED vars
  BY <1>1, <1>11 DEF vars
<1> QED
  BY <1>2, <1>3, <1>4, <1>5, <1>6, <1>7, <1>8, <1>9, <1>10, <1>11, CallersAssumption
  DEF Next, InBlock

\* ... and the cache with the blocks, whichever of its two writers was last.
LEMMA CacheStep ==
    TypeOK /\ LockInv /\ StreamInv /\ CacheInv /\ [Next]_vars => CacheInv'
<1> SUFFICES ASSUME TypeOK, LockInv, StreamInv, CacheInv, [Next]_vars
             PROVE  \A c \in Calls :
                      /\ ~core' => calls'[c] \in {"SILENT", LastBrought(c)'}
                      /\ LastBrought(c)' \in Core!FinalStates
                           => calls'[c] \notin ActiveStates
  BY PastStep DEF CacheInv
<1> DEFINE Goal == \A c \in Calls :
             /\ ~core' => calls'[c] \in {"SILENT", LastBrought(c)'}
             /\ LastBrought(c)' \in Core!FinalStates => calls'[c] \notin ActiveStates
<1> USE ThreadFacts, GoFacts DEF Places
<1>1. CASE /\ UNCHANGED <<core, calls, block, told>>
           /\ block # Nothing => (at'["main"] = "cache" <=> at["main"] = "cache")
  BY <1>1 DEF CacheInv, LastBrought
<1>2. CASE Take
  <2>1. /\ UNCHANGED <<core, calls, told>> /\ at'["main"] = "cache" /\ block = Nothing
    BY <1>2 DEF Take, LockInv
  <2> QED BY <2>1 DEF CacheInv, LastBrought
<1>3. CASE Cache
  <2>1. /\ block # Nothing /\ block[1] \in Calls /\ at'["main"] = "remember"
        /\ UNCHANGED <<core, block, told>>
        /\ calls' = [calls EXCEPT ![block[1]] = block[2]]
    BY <1>3, BlockFacts, NothingAssumption DEF Cache, LockInv, BlockPlaces
  <2>2. \A c \in Calls : calls'[c] = IF c = block[1] THEN block[2] ELSE calls[c]
    BY <2>1 DEF TypeOK
  <2>3. \A c \in Calls : LastBrought(c)' = IF c = block[1] THEN block[2] ELSE LastBrought(c)
    BY <2>1 DEF LastBrought
  <2> QED BY <2>1, <2>2, <2>3, StateFacts DEF CacheInv
<1>4. CASE Tell
  <2>1. /\ block # Nothing /\ block[1] \in Calls /\ at["main"] = "tell"
        /\ UNCHANGED <<core, calls>>
    BY <1>4, BlockFacts, NothingAssumption DEF Tell, LockInv, BlockPlaces
  <2>2. \A c \in Calls : LastBrought(c)' = LastBrought(c)
    <3>1. CASE ringing
      BY <1>4, <2>1, <3>1 DEF Tell, LastBrought
    <3>2. CASE ~ringing
      BY <1>4, <2>1, <3>2 DEF Tell, LastBrought, TypeOK
    <3> QED BY <3>1, <3>2
  <2> QED BY <2>1, <2>2 DEF CacheInv
<1>5. CASE Initialize
  BY <1>5 DEF Initialize, CacheInv, LastBrought
<1>6. ASSUME NEW c \in Calls, CallInfo(c) PROVE Goal
  <2>1. /\ core /\ UNCHANGED <<core, block, told, at>>
        /\ \E st \in GetState(c) : calls' = [calls EXCEPT ![c] = st]
    BY <1>6 DEF CallInfo
  <2>2. \A d \in Calls : LastBrought(d)' = LastBrought(d)
    BY <2>1 DEF LastBrought
  <2>3. calls'[c] \in GetState(c) /\ \A d \in Calls : d # c => calls'[d] = calls[d]
    BY <2>1 DEF TypeOK
  <2>4. LastBrought(c) \in Core!FinalStates => calls'[c] \notin ActiveStates
    BY <2>3, EndIsHeard, StateFacts
  <2> QED BY <2>1, <2>2, <2>3, <2>4 DEF CacheInv
<1>7. ASSUME NEW p \in Threads, Halt(p) PROVE Goal
  <2>1. /\ UNCHANGED <<block, told>> /\ (at'["main"] = "cache" <=> at["main"] = "cache")
        /\ calls' = IF core THEN [c \in Calls |-> "SILENT"] ELSE calls
    BY <1>7 DEF Halt
  <2>2. \A c \in Calls : LastBrought(c)' = LastBrought(c)
    BY <2>1 DEF LastBrought
  <2> QED BY <2>1, <2>2, StateFacts DEF CacheInv
<1> QED
  BY <1>1, <1>2, <1>3, <1>4, <1>5, <1>6, <1>7, OtherAnswers

-----------------------------------------------------------------------------
(* The theorems.                                                           *)

IosInv == TypeOK /\ LockInv /\ StreamInv /\ CacheInv

\* The invariant holds at the start ...
LEMMA InitInv == Init => IosInv
<1> SUFFICES ASSUME Init PROVE IosInv
  OBVIOUS
<1> USE ThreadFacts DEF Init, Core!Init, Delegate!Init
<1>1. TypeOK
  <2>1. queue \in Seq(Blocks) /\ Len(queue) <= MaxQueued
    BY QueueAssumption
  <2>2. at \in [Threads -> Places]
    BY DEF Places
  <2> QED BY <2>1, <2>2 DEF TypeOK, States
<1>2. LockInv
  BY DEF LockInv, BlockPlaces, EndPlaces, OpPlaces, Starting
<1>3. StreamInv
  BY DEF StreamInv, Upto
<1>4. CacheInv
  BY StateFacts DEF CacheInv
<1> QED BY <1>1, <1>2, <1>3, <1>4 DEF IosInv

\* ... and is kept by every step.
LEMMA Inductive == Spec => []IosInv
<1>1. IosInv /\ [Next]_vars => IosInv'
  BY TypeStep, LockStep, StreamStep, CacheStep DEF IosInv
<1> QED BY InitInv, <1>1, PTL DEF Spec

\* The state has its types (OmnixVoice.swift, OmnixAudioSession.swift).
THEOREM TypeCorrect == Spec => []TypeOK
<1>1. IosInv => TypeOK
  BY DEF IosInv
<1> QED BY <1>1, Inductive, PTL

\* The delegate is told a stream of each call, for every number of calls and
\* every thread that shuts down (OmnixVoiceBridge.m:449-510).
THEOREM StreamImplemented == Spec => DelegateHearsAStream
<1>1. Init => Delegate!Init
  BY DEF Init
<1>2. IosInv /\ [Next]_vars => [Delegate!Next]_told
  <2> SUFFICES ASSUME IosInv, [Next]_vars PROVE [Delegate!Next]_told
    OBVIOUS
  <2>1. CASE Tell
    <3>1. block # Nothing /\ block[1] \in Calls
      BY <2>1, BlockFacts, NothingAssumption DEF Tell, IosInv, LockInv, BlockPlaces
    <3>2. block[2] \in Delegate!After(told[block[1]])
      BY <3>1, StateFacts DEF IosInv, StreamInv
    <3>3. UNCHANGED told \/ Delegate!Hear(block[1])
      BY <2>1, <3>2 DEF Tell, Delegate!Hear
    <3> QED BY <3>1, <3>3 DEF Delegate!Next
  <2> QED BY <2>1, OtherSteps DEF Take, CallEvent
<1> QED BY <1>1, <1>2, Inductive, PTL DEF Spec, DelegateHearsAStream, Delegate!Spec

\* callInfo answers after the session what the last block brought or nothing,
\* and never an ended call as active, although it overwrites the cache ahead of
\* the blocks and another thread empties it (OmnixVoiceBridge.m:208-218, 374-413).
THEOREM CallInfoAlwaysAgrees == Spec => []CallInfoAgrees
<1>1. IosInv => CallInfoAgrees
  <2> SUFFICES ASSUME IosInv, NEW c \in Calls
               PROVE  /\ ~core => calls[c] \in {"SILENT", LastBrought(c)}
                      /\ LastBrought(c) \in Core!FinalStates
                           => Answers(c) \cap ActiveStates = {}
    BY DEF CallInfoAgrees
  <2>1. LastBrought(c) \in Core!FinalStates => GetState(c) \cap ActiveStates = {}
    BY EndIsHeard, StateFacts DEF IosInv
  <2> QED BY <2>1 DEF IosInv, CacheInv, Answers
<1> QED BY <1>1, Inductive, PTL

-----------------------------------------------------------------------------
(* Nothing is lost on the way to the delegate.                             *)

\* Putting a block before a queue, taking it off, and appending behind it.
LEMMA WayFacts ==
    ASSUME NEW S, NEW q \in Seq(S)
    PROVE  /\ <<>> \o q = q
           /\ q # <<>> => <<Head(q)>> \o Tail(q) = q
           /\ \A x \in S : /\ <<x>> \o q # <<>> /\ Head(<<x>> \o q) = x
                           /\ Tail(<<x>> \o q) = q
                           /\ \A p \in Seq(S) : p \o Append(q, x) = Append(p \o q, x)
<1>1. <<>> \o q = q
  BY ConcatEmptySeq
<1>2. ASSUME q # <<>> PROVE <<Head(q)>> \o Tail(q) = q
  <2>1. Head(q) \in S /\ Tail(q) \in Seq(S) /\ Len(Tail(q)) = Len(q) - 1
        /\ (\A i \in 1..Len(Tail(q)) : Tail(q)[i] = q[i + 1])
    BY <1>2, HeadTailProperties
  <2>2. Len(q) \in Nat \ {0} /\ Head(q) = q[1]
    BY <1>2
  <2> DEFINE h == <<Head(q)>>
             t == Tail(q)
  <2>3. h \in Seq(S) /\ Len(h) = 1 /\ h[1] = q[1]
    BY <2>1, <2>2
  <2>a. t \in Seq(S)
    BY <2>1
  <2> HIDE DEF h, t
  <2>4. /\ h \o t \in Seq(S) /\ Len(h \o t) = Len(h) + Len(t)
        /\ \A i \in 1..(Len(h) + Len(t)) : (h \o t)[i] = IF i <= Len(h) THEN h[i] ELSE t[i - Len(h)]
    BY <2>a, <2>3, ConcatProperties
  <2>5. Len(h \o t) = Len(q) /\ \A i \in 1..Len(h \o t) : (h \o t)[i] = q[i]
    BY <2>1, <2>2, <2>3, <2>4 DEF t
  <2>6. h \o t = q
    BY <2>4, <2>5, SeqEqual
  <2> QED BY <2>6 DEF h, t
<1>3. ASSUME NEW x \in S
      PROVE <<x>> \o q # <<>> /\ Head(<<x>> \o q) = x /\ Tail(<<x>> \o q) = q
  <2> DEFINE h == <<x>>
  <2>1. h \in Seq(S) /\ Len(h) = 1 /\ h[1] = x
    OBVIOUS
  <2> HIDE DEF h
  <2>2. /\ h \o q \in Seq(S) /\ Len(h \o q) = Len(h) + Len(q)
        /\ \A i \in 1..(Len(h) + Len(q)) : (h \o q)[i] = IF i <= Len(h) THEN h[i] ELSE q[i - Len(h)]
    BY <2>1, ConcatProperties
  <2> DEFINE w == h \o q
  <2>3. w \in Seq(S) /\ Len(w) = Len(q) + 1 /\ w[1] = x
        /\ \A i \in 1..Len(q) : w[i + 1] = q[i]
    BY <2>1, <2>2
  <2> HIDE DEF w
  <2>4. w # <<>> /\ Head(w) = x
    BY <2>3
  <2>5. Tail(w) \in Seq(S) /\ Len(Tail(w)) = Len(q) /\ \A i \in 1..Len(Tail(w)) : Tail(w)[i] = q[i]
    BY <2>3, <2>4, HeadTailProperties
  <2>6. Tail(w) = q
    BY <2>5, SeqEqual
  <2> QED BY <2>4, <2>6 DEF w, h
<1>4. ASSUME NEW x \in S, NEW p \in Seq(S) PROVE p \o Append(q, x) = Append(p \o q, x)
  <2>1. /\ Append(q, x) = q \o <<x>> /\ p \o q \in Seq(S) /\ Append(p \o q, x) = (p \o q) \o <<x>>
        /\ <<x>> \in Seq(S)
    BY ConcatProperties, AppendIsConcat
  <2> QED BY <2>1, ConcatAssociative
<1> QED BY <1>1, <1>2, <1>3, <1>4

\* Nothing is on its way at first.
LEMMA RelayInit == Init => Relay!Init
<1>1. <<>> \in Seq(Blocks)
  OBVIOUS
<1> QED
  BY <1>1, WayFacts
  DEF Init, Way, Relay!Init, Relay!Stream!Init, Core!Init, Delegate!Init

\* The main thread takes a block from the queue into its hands, where it
\* still is the first on the way, until the delegate is told.
LEMMA RelayStep ==
    TypeOK /\ LockInv /\ [Next]_vars => [Relay!Next]_(Relay!vars)
<1> SUFFICES ASSUME TypeOK, LockInv, [Next]_vars PROVE [Relay!Next]_(Relay!vars)
  OBVIOUS
<1>0. queue \in Seq(Blocks)
  BY DEF TypeOK
<1>1. CASE UNCHANGED <<heard, queue, block, told>>
  BY <1>1 DEF Relay!vars, Way
<1>2. CASE Take
  <2>1. block = Nothing /\ queue # <<>> /\ block' = Head(queue) /\ queue' = Tail(queue)
        /\ UNCHANGED <<heard, told>>
    BY <1>2 DEF Take, LockInv
  <2>2. block' # Nothing
    BY <1>0, <2>1, NothingAssumption, QueueFacts
  <2>3. Way = queue /\ Way' = <<Head(queue)>> \o Tail(queue)
    BY <1>0, <2>1, <2>2, WayFacts DEF Way
  <2>4. Way' = Way
    BY <1>0, <2>1, <2>3, WayFacts
  <2> QED BY <2>1, <2>4 DEF Relay!vars
<1>3. CASE Tell
  <2>1. block \in Blocks /\ block # Nothing /\ UNCHANGED <<heard, queue>>
    BY <1>3, NothingAssumption DEF Tell, LockInv, BlockPlaces
  <2>2. CASE ringing
    BY <1>3, <2>1, <2>2 DEF Tell, Relay!vars, Way
  <2>3. CASE ~ringing
    <3>1. told' = [told EXCEPT ![block[1]] = block[2]] /\ block' = Nothing
      BY <1>3, <2>3 DEF Tell
    <3>2. Way = <<block>> \o queue /\ Way' = queue
      BY <1>0, <2>1, <3>1, WayFacts DEF Way
    <3>3. Way # <<>> /\ Head(Way) = block /\ Way' = Tail(Way)
      BY <1>0, <2>1, <3>2, WayFacts
    <3> QED BY <2>1, <3>1, <3>3 DEF Relay!Next, Relay!Tell
  <2> QED BY <2>2, <2>3
<1>4. ASSUME NEW c \in Calls, CallEvent(c) PROVE [Relay!Next]_(Relay!vars)
  <2> DEFINE x == <<c, heard'[c]>>
  <2>1. Core!Hear(c) /\ queue' = Append(queue, x) /\ UNCHANGED <<told, block>>
    BY <1>4 DEF CallEvent
  <2>2. x \in Blocks
    BY <2>1, HearFacts
  <2> HIDE DEF x
  <2>3. Way' = Append(Way, x)
    <3> DEFINE p == IF block # Nothing THEN <<block>> ELSE <<>>
    <3>1. p \in Seq(Blocks) /\ p' = p
      BY <2>1 DEF TypeOK
    <3>2. Way = p \o queue /\ Way' = p \o Append(queue, x)
      BY <2>1, <3>1 DEF Way
    <3> HIDE DEF p
    <3> QED BY <1>0, <2>2, <3>1, <3>2, WayFacts
  <2>4. Relay!Stream!Hear(c)
    BY <2>1 DEF Core!Hear, Relay!Stream!Hear, Core!After, Relay!Stream!After,
       Core!EventStates, Core!OpenStates, Core!Announcements, Core!MediaStates,
       Core!FinalStates, Relay!Stream!EventStates, Relay!Stream!OpenStates,
       Relay!Stream!Announcements, Relay!Stream!MediaStates, Relay!Stream!FinalStates
  <2> QED BY <2>1, <2>3, <2>4 DEF Relay!Next, Relay!Hear, x
<1> QED BY <1>1, <1>2, <1>3, <1>4, OtherSteps

\* The delegate is told every state the core says of the calls, each once and
\* in the order in which the core said them (OmnixVoiceBridge.m:449-510,
\* OmnixVoice.swift:190-253).
THEOREM AllIsTold == Spec => DelegateIsToldAll
<1>1. IosInv => TypeOK /\ LockInv
  BY DEF IosInv
<1> QED
  BY <1>1, RelayInit, RelayStep, Inductive, PTL DEF Spec, DelegateIsToldAll, Relay!Spec

\* What is last on the way of a call is what the core said last.
LastInv ==
    /\ \A c \in Calls : (\A i \in 1..Len(Way) : Way[i][1] # c) => told[c] = heard[c]
    /\ \A i \in 1..Len(Way) :
         (\A j \in 1..Len(Way) : i < j => Way[j][1] # Way[i][1])
             => heard[Way[i][1]] = Way[i][2]

\* The way is a sequence of call blocks.
LEMMA WayTyped == TypeOK => Way \in Seq(Blocks)
<1> SUFFICES ASSUME TypeOK PROVE Way \in Seq(Blocks)
  OBVIOUS
<1> DEFINE p == IF block # Nothing THEN <<block>> ELSE <<>>
<1>1. p \in Seq(Blocks) /\ queue \in Seq(Blocks)
  BY DEF TypeOK
<1>2. Way = p \o queue
  BY DEF Way
<1> HIDE DEF p
<1> QED BY <1>1, <1>2, ConcatProperties

\* With no block there is nothing on the way.
LEMMA EmptyWay ==
    queue = <<>> /\ block = Nothing =>
        Way = <<>> /\ Len(Way) = 0 /\ \A i \in 1..Len(Way) : FALSE
<1> SUFFICES ASSUME queue = <<>>, block = Nothing
             PROVE  Way = <<>> /\ Len(Way) = 0 /\ \A i \in 1..Len(Way) : FALSE
  OBVIOUS
<1>1. <<>> \in Seq(Blocks) /\ Way = <<>> \o <<>>
  BY DEF Way
<1>2. Way = <<>>
  BY <1>1, ConcatEmptySeq
<1>3. Len(Way) = 0
  BY <1>2
<1> QED BY <1>2, <1>3

\* Every step of a relay that loses nothing keeps it so.
LEMMA LastStep ==
    ASSUME TypeOK, TypeOK', LastInv, [Relay!Next]_(Relay!vars) PROVE LastInv'
<1> DEFINE w == Way
           v == Way'
<1>0. w \in Seq(Blocks) /\ heard \in [Calls -> States] /\ told \in [Calls -> States]
  BY WayTyped DEF TypeOK
<1>1. ASSUME NEW c \in Calls, Relay!Hear(c) PROVE LastInv'
  <2> DEFINE x == <<c, heard'[c]>>
  <2>1. v = Append(w, x) /\ told' = told /\ Relay!Stream!Hear(c)
    BY <1>1 DEF Relay!Hear
  <2>2. PICK st : heard' = [heard EXCEPT ![c] = st]
    BY <2>1 DEF Relay!Stream!Hear
  <2>3. heard'[c] \in States /\ \A d \in Calls : d # c => heard'[d] = heard[d]
    BY <1>0, <2>2 DEF TypeOK
  <2> HIDE DEF w, v, x
  <2>4. /\ Len(w) \in Nat /\ Len(v) = Len(w) + 1 /\ v[Len(w) + 1] = x
        /\ \A i \in 1..Len(w) : v[i] = w[i] /\ w[i] \in Blocks
    BY <1>0, <2>1
  <2>5. x[1] = c /\ x[2] = heard'[c]
    BY DEF x
  <2>6. ASSUME NEW d \in Calls, \A i \in 1..Len(v) : v[i][1] # d
        PROVE  told'[d] = heard'[d]
    <3>1. d # c
      BY <2>4, <2>5, <2>6
    <3>2. \A i \in 1..Len(w) : w[i][1] # d
      BY <2>4, <2>6
    <3> QED BY <2>1, <2>3, <3>1, <3>2 DEF LastInv, w
  <2>7. ASSUME NEW i \in 1..Len(v), \A j \in 1..Len(v) : i < j => v[j][1] # v[i][1]
        PROVE  heard'[v[i][1]] = v[i][2]
    <3>1. CASE i = Len(w) + 1
      BY <2>4, <2>5, <3>1
    <3>2. CASE i # Len(w) + 1
      <4>1. i \in 1..Len(w) /\ i < Len(w) + 1 /\ Len(w) + 1 \in 1..Len(v)
        BY <2>4, <3>2
      <4>2. v[i] = w[i] /\ w[i][1] \in Calls /\ w[i][1] # c
        BY <2>4, <2>5, <2>7, <4>1 DEF Blocks
      <4>3. \A j \in 1..Len(w) : i < j => w[j][1] # w[i][1]
        BY <2>4, <2>7, <4>1
      <4>4. heard[w[i][1]] = w[i][2]
        BY <4>1, <4>3 DEF LastInv, w
      <4> QED BY <2>3, <4>2, <4>4
    <3> QED BY <3>1, <3>2
  <2> QED BY <2>6, <2>7 DEF LastInv, v
<1>2. CASE Relay!Tell
  <2>1. w # <<>> /\ v = Tail(w) /\ heard' = heard
        /\ told' = [told EXCEPT ![Head(w)[1]] = Head(w)[2]]
    BY <1>2 DEF Relay!Tell
  <2> HIDE DEF w, v
  <2>2. /\ Len(w) \in Nat \ {0} /\ Head(w) = w[1] /\ w[1] \in Blocks
        /\ Len(v) = Len(w) - 1 /\ \A i \in 1..Len(v) : v[i] = w[i + 1]
    BY <1>0, <2>1, QueueFacts
  <2>3. 1 \in 1..Len(w) /\ \A i \in 1..Len(v) : i + 1 \in 1..Len(w)
    BY <2>2
  <2>4. \A i \in 1..Len(w) : i = 1 \/ (i - 1 \in 1..Len(v) /\ w[i] = v[i - 1])
    BY <2>2
  <2>5. ASSUME NEW d \in Calls, \A i \in 1..Len(v) : v[i][1] # d
        PROVE  told'[d] = heard'[d]
    <3>1. CASE w[1][1] = d
      <4>1. \A j \in 1..Len(w) : 1 < j => w[j][1] # w[1][1]
        BY <2>4, <2>5, <3>1
      <4>2. heard[d] = w[1][2]
        BY <2>3, <3>1, <4>1 DEF LastInv, w
      <4> QED BY <1>0, <2>1, <2>2, <3>1, <4>2
    <3>2. CASE w[1][1] # d
      <4>1. \A i \in 1..Len(w) : w[i][1] # d
        BY <2>4, <2>5, <3>2
      <4>2. told[d] = heard[d]
        BY <4>1 DEF LastInv, w
      <4> QED BY <1>0, <2>1, <2>2, <3>2, <4>2
    <3> QED BY <3>1, <3>2
  <2>6. ASSUME NEW i \in 1..Len(v), \A j \in 1..Len(v) : i < j => v[j][1] # v[i][1]
        PROVE  heard'[v[i][1]] = v[i][2]
    <3>1. ASSUME NEW j \in 1..Len(w), i + 1 < j
          PROVE  w[j][1] # w[i + 1][1]
      <4>1. j - 1 \in 1..Len(v) /\ i < j - 1 /\ w[j] = v[j - 1]
        BY <2>2, <2>4, <3>1
      <4>2. v[i] = w[i + 1]
        BY <2>2
      <4> QED BY <2>6, <4>1, <4>2
    <3>2. heard[w[i + 1][1]] = w[i + 1][2]
      BY <2>3, <3>1 DEF LastInv, w
    <3> QED BY <2>1, <2>2, <3>2
  <2> QED BY <2>5, <2>6 DEF LastInv, v
<1>3. CASE UNCHANGED Relay!vars
  BY <1>3 DEF Relay!vars, LastInv
<1> QED BY <1>1, <1>2, <1>3 DEF Relay!Next, Relay!Lose

\* When the main thread has run its blocks the delegate knows of every call
\* what the core said last: no state is lost in the main queue, whoever shuts
\* down meanwhile (OmnixVoiceBridge.m:449-510).
UpToDate == queue = <<>> /\ block = Nothing => told = heard

\* ... as follows from the relay, for any number of calls and blocks.
THEOREM AlwaysUpToDate == Spec => []UpToDate
<1>1. Init => LastInv
  <2> SUFFICES ASSUME Init PROVE LastInv
    OBVIOUS
  <2>1. told = heard /\ \A i \in 1..Len(Way) : FALSE
    BY EmptyWay DEF Init, Core!Init, Delegate!Init
  <2> QED BY <2>1 DEF LastInv
<1>2. IosInv /\ LastInv /\ IosInv' /\ [Next]_vars => LastInv'
  BY RelayStep, LastStep DEF IosInv
<1>3. IosInv /\ LastInv => UpToDate
  <2> SUFFICES ASSUME IosInv, LastInv, queue = <<>>, block = Nothing
               PROVE  told = heard
    BY DEF UpToDate
  <2>1. \A i \in 1..Len(Way) : FALSE
    BY EmptyWay
  <2>2. \A c \in Calls : told[c] = heard[c]
    BY <2>1 DEF LastInv
  <2> QED BY <2>2 DEF IosInv, TypeOK
<1> QED BY <1>1, <1>2, <1>3, Inductive, PTL DEF Spec

-----------------------------------------------------------------------------
(* Who waits for whom.                                                     *)

\* The main thread is in an operation and its own route change waits for the
\* facade's lock, which the operation holds.
Stuck == lock = "main" /\ at["main"] \in {"emit", "emitSpeaker"}

\* The thread's next step needs the facade's lock, and it is not free.
Waits(p) == \/ at[p] \in {"remember", "sync", "route"} /\ lock # "none"
            \/ at[p] \in {"emit", "emitSpeaker"} /\ ~CanEmit(p)

StuckForEver == [][Stuck => Stuck']_vars

\* setSpeakerEnabled on the main thread during a call, and shutdown there,
\* never return once they emit the route: no step of any thread gives the
\* lock back (OmnixAudioSession.swift:94-95, OmnixVoice.swift:61-68).
THEOREM OnceStuckForEver == Spec => StuckForEver
<1>1. IosInv /\ [Next]_vars /\ Stuck => Stuck'
  <2> SUFFICES ASSUME IosInv, [Next]_vars, Stuck PROVE Stuck'
    OBVIOUS
  <2> USE ThreadFacts DEF Stuck
  <2>0. TypeOK /\ at["worker"] \in {"idle"} \cup OpPlaces \cup EndPlaces
        /\ lock # "worker"
    BY DEF IosInv, LockInv
  <2>1. at["worker"] = "idle"
    BY <2>0 DEF IosInv, LockInv
  <2>2. ASSUME NEW p \in Threads, InOperation(p) PROVE FALSE
    <3>1. CASE p = "main"
      BY <2>2, <3>1
      DEF InOperation, EndCallAudio, Deactivate, Unmark, EmitCurrentRoute, Halt,
          Forget, Override, EmitSpeaker, CanEmit
    <3>2. CASE p = "worker"
      BY <2>1, <2>2, <3>2
      DEF InOperation, EndCallAudio, Deactivate, Unmark, EmitCurrentRoute, Halt,
          Forget, Override, EmitSpeaker
    <3> QED BY <3>1, <3>2
  <2>3. \A p \in Threads : ~(Shutdown(p) \/ SetSpeaker(p))
    BY DEF Shutdown, SetSpeaker
  <2>4. ~Take /\ ~RouteChange /\ ~InBlock /\ ~Initialize /\ \A c \in Calls : ~CallInfo(c)
    BY DEF CallInfo, Take, RouteChange, InBlock, Cache, Remember, Sync, StartCallAudio,
           Activate, Mark, Tell, HandleRoute, Initialize, Starting
  <2>5. ASSUME NEW c \in Calls, CallEvent(c) PROVE Stuck'
    BY <2>5 DEF CallEvent
  <2>6. CASE UNCHANGED vars
    BY <2>6 DEF vars
  <2> QED BY <2>2, <2>3, <2>4, <2>5, <2>6, CallersAssumption DEF Next
<1> QED BY <1>1, Inductive, PTL DEF Spec, StuckForEver

\* Nobody waits for a thread that waits: the main thread only for a worker
\* that is in an operation, and a worker in one for nobody.
NoCircularWait ==
    /\ Waits("main") => lock = "worker" /\ at["worker"] # "idle"
    /\ ~Waits("worker")

\* If no operation is called on the main thread no wait is circular, which is
\* all that keeps ThreadsReturn (OmnixVoice.swift:61-68, 125-149).
THEOREM WorkersNeverDeadlock ==
    ASSUME "main" \notin Callers PROVE Spec => []NoCircularWait
<1> DEFINE Free == lock # "main" /\ at["main"] \notin OpPlaces
<1>1. Init => Free
  BY ThreadFacts DEF Init, OpPlaces
<1>2. IosInv /\ Free /\ [Next]_vars => Free'
  <2> SUFFICES ASSUME IosInv, Free, [Next]_vars PROVE Free'
    OBVIOUS
  <2>0. TypeOK
    BY DEF IosInv
  <2> USE <2>0, ThreadFacts DEF OpPlaces, Places, Starting
  <2>1. ASSUME NEW c \in Calls, CallEvent(c) \/ CallInfo(c) PROVE Free'
    BY <2>1 DEF CallEvent, CallInfo
  <2>2. CASE Take \/ RouteChange \/ InBlock \/ Initialize
    <3>1. lock' = lock
      BY <2>2 DEF Take, RouteChange, InBlock, Cache, Remember, Sync,
         StartCallAudio, Activate, Mark, Tell, HandleRoute, Initialize
    <3>2. at' = at \/ \E place \in Places \ OpPlaces : Go("main", place)
      BY <2>2 DEF Take, RouteChange, InBlock, Cache, Remember, Sync,
         StartCallAudio, ApplySpeaker, Activate, Mark, Tell, HandleRoute, Initialize
    <3> QED BY <3>1, <3>2, GoFacts
  <2>3. ASSUME NEW p \in Callers, Shutdown(p) \/ SetSpeaker(p) PROVE Free'
    <3>1. p = "worker"
      BY CallersAssumption
    <3> QED BY <2>3, <3>1, GoFacts DEF Shutdown, SetSpeaker
  <2>4. ASSUME InOperation("worker") PROVE Free'
    <3>1. lock' \in {lock, "none"}
      BY <2>4 DEF InOperation, EndCallAudio, Deactivate, Unmark, EmitCurrentRoute,
         Halt, Forget, Override, EmitSpeaker
    <3>2. \E place \in Places : Go("worker", place)
      BY <2>4 DEF InOperation, EndCallAudio, Deactivate, Unmark, EmitCurrentRoute,
         Halt, Forget, Override, EmitSpeaker, After
    <3> QED BY <3>1, <3>2, GoFacts
  <2>5. ASSUME InOperation("main") PROVE Free'
    <3>1. lock' \in {lock, "none"}
      BY <2>5 DEF InOperation, EndCallAudio, Deactivate, Unmark, EmitCurrentRoute,
         Halt, Forget, Override, EmitSpeaker
    <3>2. \E place \in Places \ OpPlaces : Go("main", place)
      BY <2>5 DEF InOperation, EndCallAudio, Deactivate, Unmark, EmitCurrentRoute,
         Halt, Forget, Override, EmitSpeaker, After
    <3> QED BY <3>1, <3>2, GoFacts
  <2>6. CASE UNCHANGED vars
    BY <2>6 DEF vars
  <2> QED BY <2>1, <2>2, <2>3, <2>4, <2>5, <2>6 DEF Next
<1>3. IosInv /\ Free => NoCircularWait
  BY ThreadFacts
  DEF IosInv, TypeOK, LockInv, NoCircularWait, Waits, CanEmit, OpPlaces, EndPlaces
<1> HIDE DEF Free
<1> QED BY <1>1, <1>2, <1>3, Inductive, PTL DEF Spec

-----------------------------------------------------------------------------
(* The call audio.                                                         *)

\* The flag of OmnixAudioSession and AVAudioSession differ only within the
\* two steps that change both.  A block that ended the audio beside a
\* shutdown waits for its lock, so no block activates under a shutdown that
\* deactivates.
SessionInv ==
    /\ avActive # sessionActive =>
         at["main"] = "mark" \/ \E p \in Threads : at[p] = "unmark"
    /\ at["main"] \in {"activate", "mark"} =>
         ~sessionActive /\ at["worker"] \notin {"deactivate", "unmark"}
    /\ at["main"] = "mark" => avActive
    /\ \A p \in Threads : at[p] = "unmark" => ~avActive
    /\ at["worker"] \in {"deactivate", "unmark"} =>
         sessionActive \/ at["main"] = "emit"

InShutdown ==
    \E p \in Threads : lock = p /\ at[p] \in EndPlaces \cup {"halt", "forget"}

\* Outside a shutdown the audio follows trackedCalls: what a block decided
\* at syncCallAudio stays right until it is done.
FollowInv ==
    ~strayed /\ ~InShutdown =>
        /\ at["main"] \in Starting => HasActiveCall
        /\ at["main"] \in {"end", "deactivate", "unmark"} => ~HasActiveCall
        /\ at["main"] \in {"idle", "route", "cache", "remember", "emit", "tell"}
                            \cup OpPlaces
             => (sessionActive <=> HasActiveCall)

Queued(c) == \E i \in 1..Len(queue) : queue[i][1] = c
Pending(c) == \/ Queued(c)
              \/ block # Nothing /\ block[1] = c /\ at["main"] \in {"cache", "remember"}

\* The last block of a call carries what the core said last of it; a call
\* with no block under way is tracked in that state, and not at all once its
\* session is over.
TrackInv ==
    /\ \A i \in 1..Len(queue) :
         (\A j \in 1..Len(queue) : queue[j][1] = queue[i][1] => j <= i)
           => queue[i][2] = heard[queue[i][1]]
    /\ block # Nothing /\ ~Queued(block[1]) => block[2] = heard[block[1]]
    /\ ~strayed /\ (\A p \in Threads : at[p] # "forget") => \A c \in Calls :
         /\ c \in past => tracked[c] = "SILENT"
         /\ c \notin past /\ ~Pending(c) => tracked[c] = heard[c]

\* Every step keeps the two flags together.
LEMMA SessionStep ==
    TypeOK /\ LockInv /\ SessionInv /\ [Next]_vars => SessionInv'
<1> SUFFICES ASSUME TypeOK, LockInv, SessionInv, [Next]_vars PROVE SessionInv'
  OBVIOUS
<1> USE ThreadFacts, GoFacts
    DEF LockInv, SessionInv, BlockPlaces, EndPlaces, OpPlaces, Starting, Places
<1>1. ASSUME NEW c \in Calls, CallEvent(c) \/ CallInfo(c) PROVE SessionInv'
  BY <1>1 DEF CallEvent, CallInfo
<1>2. CASE Take \/ RouteChange
  BY <1>2 DEF Take, RouteChange
<1>3. CASE Cache \/ Remember \/ Sync
  BY <1>3 DEF Cache, Remember, Sync
<1>4. CASE StartCallAudio
  BY <1>4 DEF StartCallAudio, ApplySpeaker, TypeOK
<1>5. CASE Activate
  BY <1>5 DEF Activate, TypeOK
<1>6. CASE Mark
  BY <1>6 DEF Mark, ApplySpeaker, TypeOK
<1>7. CASE Tell \/ HandleRoute
  BY <1>7 DEF Tell, HandleRoute
<1>8. CASE Initialize
  BY <1>8 DEF Initialize
<1>9. ASSUME NEW p \in Threads, Shutdown(p) \/ SetSpeaker(p) PROVE SessionInv'
  BY <1>9 DEF Shutdown, SetSpeaker
<1>10. ASSUME NEW p \in Threads, InOperation(p) PROVE SessionInv'
  <2>1. CASE EndCallAudio(p)
    BY <2>1 DEF EndCallAudio, After, TypeOK
  <2>2. CASE Deactivate(p)
    BY <2>2 DEF Deactivate, After, TypeOK
  <2>3. CASE Unmark(p)
    <3>1. /\ at[p] = "unmark" /\ ~sessionActive' /\ avActive' = avActive
          /\ at'[p] = "emit" /\ \A q \in Threads : q # p => at'[q] = at[q]
      BY <2>3 DEF Unmark
    <3>2. avActive' = sessionActive'
      BY <2>3 DEF Unmark, TypeOK
    <3>3. CASE p = "main"
      BY <3>1, <3>2, <3>3
    <3>4. CASE p = "worker"
      BY <3>1, <3>2, <3>4
    <3> QED BY <3>3, <3>4
  <2>4. CASE EmitCurrentRoute(p)
    BY <2>4 DEF EmitCurrentRoute, After, CanEmit
  <2>5. CASE Halt(p) \/ Forget(p) \/ Override(p) \/ EmitSpeaker(p)
    BY <2>5 DEF Halt, Forget, Override, EmitSpeaker
  <2> QED
    BY <1>10, <2>1, <2>2, <2>3, <2>4, <2>5 DEF InOperation
<1>11. CASE UNCHANGED vars
  BY <1>11 DEF vars
<1> QED
  BY <1>1, <1>2, <1>3, <1>4, <1>5, <1>6, <1>7, <1>8, <1>9, <1>10, <1>11,
     CallersAssumption
  DEF Next, InBlock

\* Every step keeps the audio with the calls.
LEMMA FollowStep ==
    TypeOK /\ LockInv /\ SessionInv /\ FollowInv /\ [Next]_vars => FollowInv'
<1> SUFFICES ASSUME TypeOK, LockInv, SessionInv, FollowInv, [Next]_vars,
                    ~strayed', ~InShutdown'
             PROVE  /\ at'["main"] \in Starting => HasActiveCall'
                    /\ at'["main"] \in {"end", "deactivate", "unmark"} => ~HasActiveCall'
                    /\ at'["main"] \in {"idle", "route", "cache", "remember", "emit",
                                         "tell"} \cup OpPlaces
                         => (sessionActive' <=> HasActiveCall')
  BY DEF FollowInv
<1> DEFINE Goal == /\ at'["main"] \in Starting => HasActiveCall'
                   /\ at'["main"] \in {"end", "deactivate", "unmark"} => ~HasActiveCall'
                   /\ at'["main"] \in {"idle", "route", "cache", "remember", "emit",
                                        "tell"} \cup OpPlaces
                        => (sessionActive' <=> HasActiveCall')
<1>0. UNCHANGED tracked => (HasActiveCall' <=> HasActiveCall)
  BY DEF HasActiveCall
<1> USE ThreadFacts, GoFacts
    DEF LockInv, FollowInv, InShutdown, BlockPlaces, EndPlaces, OpPlaces, Starting,
        Places
<1>1. ASSUME NEW c \in Calls, CallEvent(c) \/ CallInfo(c) PROVE Goal
  BY <1>0, <1>1 DEF CallEvent, CallInfo
<1>2. CASE Take \/ RouteChange
  <2>1. UNCHANGED <<lock, tracked, sessionActive>> /\ at["main"] = "idle"
    BY <1>2 DEF Take, RouteChange
  <2>2. ~strayed
    BY <1>2, Zenon DEF Take, RouteChange
  <2>3. at'["main"] \in {"cache", "route"} /\ at'["worker"] = at["worker"]
    BY <1>2 DEF Take, RouteChange
  <2> QED BY <1>0, <2>1, <2>2, <2>3
<1>3. CASE Cache
  BY <1>0, <1>3 DEF Cache
<1>4. CASE Remember
  BY <1>4 DEF Remember
<1>5. CASE Sync
  BY <1>0, <1>5 DEF Sync
<1>6. CASE StartCallAudio
  BY <1>0, <1>6 DEF StartCallAudio, ApplySpeaker
<1>7. CASE Activate
  BY <1>0, <1>7 DEF Activate
<1>8. CASE Mark
  BY <1>0, <1>8 DEF Mark, ApplySpeaker
<1>9. CASE Tell \/ HandleRoute
  <2>1. UNCHANGED <<lock, tracked, sessionActive, strayed>>
        /\ at["main"] \in {"tell", "route"} /\ at'["main"] \in {"remember", "idle"}
        /\ at'["worker"] = at["worker"]
    BY <1>9 DEF Tell, HandleRoute
  <2> QED BY <1>0, <2>1
<1>10. CASE Initialize
  BY <1>0, <1>10 DEF Initialize
<1>11. ASSUME NEW p \in Threads, Shutdown(p) PROVE Goal
  BY <1>11 DEF Shutdown
<1>12. ASSUME NEW p \in Threads, SetSpeaker(p) PROVE Goal
  BY <1>0, <1>12 DEF SetSpeaker
<1>13. ASSUME NEW p \in Threads, InOperation(p) PROVE Goal
  <2>1. CASE EndCallAudio(p)
    BY <1>0, <2>1 DEF EndCallAudio, After
  <2>2. CASE Deactivate(p)
    BY <1>0, <2>2 DEF Deactivate, After
  <2>3. CASE Unmark(p)
    BY <1>0, <2>3 DEF Unmark
  <2>4. CASE EmitCurrentRoute(p)
    BY <1>0, <2>4 DEF EmitCurrentRoute, After
  <2>5. CASE Halt(p)
    BY <2>5 DEF Halt
  <2>6. CASE Forget(p)
    <3>1. ~HasActiveCall'
      <4>1. "SILENT" \notin ActiveStates
        BY DEF ActiveStates, Core!OpenStates, Core!Announcements, Core!MediaStates
      <4> QED BY <2>6, <4>1 DEF Forget, HasActiveCall
    <3>2. ~sessionActive' /\ at["main"] \notin Starting
      BY <2>6 DEF Forget
    <3> QED BY <2>6, <3>1, <3>2 DEF Forget
  <2>7. CASE Override(p) \/ EmitSpeaker(p)
    BY <1>0, <2>7 DEF Override, EmitSpeaker
  <2> QED
    BY <1>13, <2>1, <2>2, <2>3, <2>4, <2>5, <2>6, <2>7 DEF InOperation
<1>14. CASE UNCHANGED vars
  BY <1>0, <1>14 DEF vars
<1> QED
  BY <1>1, <1>2, <1>3, <1>4, <1>5, <1>6, <1>7, <1>8, <1>9, <1>10, <1>11,
     <1>12, <1>13, <1>14, CallersAssumption
  DEF Next, InBlock

\* Every step keeps trackedCalls with the core, but for what is under way.
LEMMA TrackStep ==
    TypeOK /\ LockInv /\ CacheInv /\ TrackInv /\ [Next]_vars => TrackInv'
<1> SUFFICES ASSUME TypeOK, LockInv, CacheInv, TrackInv, [Next]_vars PROVE TrackInv'
  OBVIOUS
<1> USE ThreadFacts, GoFacts DEF Places, Starting
<1> DEFINE Kept == /\ UNCHANGED <<heard, past, queue, block, tracked, strayed>>
                   /\ \A p \in Threads : at[p] = "forget" => at'[p] = "forget"
                   /\ at["main"] \in {"cache", "remember"}
                        => at'["main"] \in {"cache", "remember"}
<1>1. CASE Kept
  BY <1>1 DEF TrackInv, Queued, Pending
<1>2. ASSUME NEW c \in Calls, CallEvent(c) PROVE TrackInv'
  <2>1. /\ <<c, heard'[c]>> \in Blocks /\ queue' = Append(queue, <<c, heard'[c]>>)
        /\ \A d \in Calls : d # c => heard'[d] = heard[d]
        /\ UNCHANGED <<past, block, tracked, strayed, at>>
    BY <1>2, HearFacts DEF CallEvent
  <2>2. /\ Len(queue) \in Nat /\ Len(queue') = Len(queue) + 1
        /\ queue'[Len(queue) + 1] = <<c, heard'[c]>>
        /\ \A i \in 1..Len(queue) : queue'[i] = queue[i]
    BY <2>1, QueueFacts DEF TypeOK
  <2>3. \A d \in Calls : Queued(d)' <=> Queued(d) \/ d = c
    BY <2>2 DEF Queued
  <2>4. \A i \in 1..Len(queue) : queue[i][1] \in Calls
    BY QueueFacts DEF TypeOK, Blocks
  <2>5. ASSUME NEW i \in 1..Len(queue'),
               \A j \in 1..Len(queue') : queue'[j][1] = queue'[i][1] => j <= i
        PROVE  queue'[i][2] = heard'[queue'[i][1]]
    BY <2>1, <2>2, <2>4, <2>5 DEF TrackInv
  <2>6. block # Nothing => block[1] \in Calls
    BY BlockFacts
  <2>7. block' # Nothing /\ ~Queued(block[1])' => block'[2] = heard'[block'[1]]
    BY <2>1, <2>3, <2>6 DEF TrackInv
  <2> QED BY <2>1, <2>3, <2>5, <2>7 DEF TrackInv, Pending
<1>3. CASE Take
  <2>1. /\ queue # <<>> /\ 1 \in 1..Len(queue) /\ block' = queue[1] /\ block' \in Blocks
        /\ \A i \in 1..Len(queue') : i + 1 \in 1..Len(queue) /\ queue'[i] = queue[i + 1]
        /\ Len(queue') = Len(queue) - 1 /\ Len(queue) \in Nat \ {0}
    BY <1>3, QueueFacts DEF Take, TypeOK
  <2>2. /\ UNCHANGED <<heard, past, tracked>> /\ at'["main"] = "cache"
        /\ at'["worker"] = at["worker"] /\ at["main"] = "idle"
        /\ ~strayed' => ~strayed
    BY <1>3 DEF Take
  <2>3. block = Nothing /\ block' # Nothing
    BY <2>1, <2>2, NothingAssumption DEF LockInv
  <2>4. \A c \in Calls : Queued(c) => Queued(c)' \/ block'[1] = c
    <3> SUFFICES ASSUME NEW c \in Calls, NEW i \in 1..Len(queue), queue[i][1] = c,
                        block'[1] # c
                 PROVE  Queued(c)'
      BY DEF Queued
    <3>1. i - 1 \in 1..Len(queue') /\ queue'[i - 1] = queue[i]
      BY <2>1
    <3> QED BY <3>1 DEF Queued
  <2>5. ASSUME NEW i \in 1..Len(queue'),
               \A j \in 1..Len(queue') : queue'[j][1] = queue'[i][1] => j <= i
        PROVE  queue'[i][2] = heard'[queue'[i][1]]
    <3>1. \A j \in 1..Len(queue) : queue[j][1] = queue[i + 1][1] => j <= i + 1
      <4> SUFFICES ASSUME NEW j \in 1..Len(queue), queue[j][1] = queue[i + 1][1], j # 1
                   PROVE  j <= i + 1
        BY <2>1
      <4>1. j - 1 \in 1..Len(queue') /\ queue'[j - 1] = queue[j]
        BY <2>1
      <4> QED BY <2>1, <2>5, <4>1
    <3> QED BY <2>1, <2>2, <3>1 DEF TrackInv
  <2>6. ~Queued(block[1])' => block'[2] = heard'[block'[1]]
    <3> SUFFICES ASSUME \A i \in 1..Len(queue') : queue'[i][1] # block'[1]
                 PROVE  block'[2] = heard'[block'[1]]
      BY DEF Queued
    <3>1. \A j \in 1..Len(queue) : queue[j][1] = queue[1][1] => j <= 1
      <4> SUFFICES ASSUME NEW j \in 1..Len(queue), j # 1 PROVE queue[j][1] # queue[1][1]
        BY <2>1
      <4>1. j - 1 \in 1..Len(queue') /\ queue'[j - 1] = queue[j]
        BY <2>1
      <4> QED BY <2>1, <4>1
    <3> QED BY <2>1, <2>2, <3>1 DEF TrackInv
  <2>7. \A c \in Calls : Pending(c) => Pending(c)'
    BY <2>2, <2>3, <2>4 DEF Pending
  <2> QED BY <2>2, <2>5, <2>6, <2>7 DEF TrackInv
<1>4. CASE Cache
  BY <1>1, <1>4 DEF Cache
<1>5. CASE Remember
  <2>1. /\ UNCHANGED <<heard, past, queue, block>> /\ at["main"] = "remember"
        /\ block # Nothing /\ block[1] \in Calls
        /\ tracked' = [tracked EXCEPT ![block[1]] = block[2]]
        /\ at' = [at EXCEPT !["main"] = "sync"]
    BY <1>5, NothingAssumption, BlockFacts DEF Remember, LockInv, BlockPlaces, Go
  <2>2. ~strayed' => ~strayed /\ block[1] \notin past
    BY <1>5 DEF Remember
  <2>3. \A c \in Calls : tracked'[c] = IF c = block[1] THEN block[2] ELSE tracked[c]
    BY <2>1 DEF TypeOK
  <2>4. \A p \in Threads : at'[p] # "forget" => at[p] # "forget"
    BY <2>1 DEF TypeOK
  <2>5. \A c \in Calls : Queued(c)' <=> Queued(c)
    BY <2>1 DEF Queued
  <2>6. \A c \in Calls : Pending(c) => Pending(c)' \/ c = block[1]
    BY <2>1, <2>5 DEF Pending
  <2>7. ASSUME ~strayed', \A p \in Threads : at'[p] # "forget", NEW c \in Calls
        PROVE  /\ c \in past' => tracked'[c] = "SILENT"
               /\ c \notin past' /\ ~Pending(c)' => tracked'[c] = heard'[c]
    <3>1. CASE c = block[1]
      BY <2>1, <2>2, <2>3, <2>5, <2>7, <3>1 DEF TrackInv, Pending
    <3>2. CASE c # block[1]
      BY <2>1, <2>2, <2>3, <2>4, <2>6, <2>7, <3>2 DEF TrackInv
    <3> QED BY <3>1, <3>2
  <2> QED BY <2>1, <2>7 DEF TrackInv, Queued
<1>6. CASE Tell
  <2>1. /\ UNCHANGED <<heard, past, queue, tracked, strayed>>
        /\ at["main"] = "tell"
        /\ block' # Nothing => block' = block
        /\ \A p \in Threads : at[p] = "forget" => at'[p] = "forget"
    BY <1>6 DEF Tell
  <2>2. \A c \in Calls : Pending(c) => Pending(c)'
    BY <2>1 DEF Pending, Queued
  <2> QED BY <2>1, <2>2 DEF TrackInv, Queued
<1>7. CASE RouteChange
  BY <1>1, <1>7 DEF RouteChange
<1>8. CASE Sync
  BY <1>1, <1>8 DEF Sync
<1>9. CASE StartCallAudio
  BY <1>1, <1>9 DEF StartCallAudio, ApplySpeaker
<1>10. CASE Mark
  BY <1>1, <1>10 DEF Mark, ApplySpeaker
<1>11. CASE HandleRoute
  BY <1>1, <1>11 DEF HandleRoute
<1>12. CASE Initialize
  BY <1>1, <1>12 DEF Initialize
<1>13. ASSUME NEW p \in Threads, Shutdown(p) \/ SetSpeaker(p) PROVE TrackInv'
  BY <1>1, <1>13 DEF Shutdown, SetSpeaker
<1> DEFINE Strays == /\ UNCHANGED <<heard, past, queue, block, tracked>>
                     /\ ~strayed' => ~strayed
                     /\ \A p \in Threads : at[p] = "forget" => at'[p] = "forget"
                     /\ at["main"] \notin {"cache", "remember"}
<1>14. CASE Strays
  BY <1>14 DEF TrackInv, Queued, Pending
<1>15. CASE Activate
  BY <1>14, <1>15 DEF Activate
<1>16. ASSUME NEW p \in Threads, InOperation(p) PROVE TrackInv'
  <2>0. After(p) \in {"halt", "tell"}
    BY DEF After
  <2>1. CASE EndCallAudio(p)
    BY <1>1, <2>0, <2>1 DEF EndCallAudio
  <2>2. CASE Deactivate(p)
    <3>1. /\ UNCHANGED <<heard, past, queue, block, tracked>>
          /\ ~strayed' => ~strayed
          /\ \A q \in Threads : at[q] = "forget" => at'[q] = "forget"
          /\ at["main"] \in {"cache", "remember"}
               => at'["main"] \in {"cache", "remember"}
      BY <2>0, <2>2 DEF Deactivate
    <3> QED BY <3>1 DEF TrackInv, Queued, Pending
  <2>3. CASE Unmark(p)
    BY <1>1, <2>3 DEF Unmark
  <2>4. CASE EmitCurrentRoute(p)
    BY <1>1, <2>0, <2>4 DEF EmitCurrentRoute
  <2>5. CASE Halt(p)
    <3>1. UNCHANGED <<heard, queue, block>> /\ at'[p] = "forget"
      BY <2>5 DEF Halt
    <3> QED BY <3>1 DEF TrackInv, Queued
  <2>6. CASE Forget(p)
    <3>1. /\ UNCHANGED <<heard, past, queue, block>> /\ at[p] = "forget"
          /\ \A c \in Calls : tracked'[c] = "SILENT"
      BY <2>6 DEF Forget
    <3>2. \A c \in Calls : c \notin past => heard[c] = "SILENT"
      BY <3>1 DEF CacheInv
    <3> QED BY <3>1, <3>2 DEF TrackInv, Queued
  <2>7. CASE Override(p)
    BY <1>1, <2>7 DEF Override
  <2>8. CASE EmitSpeaker(p)
    BY <1>1, <2>8 DEF EmitSpeaker
  <2> QED
    BY <1>16, <2>1, <2>2, <2>3, <2>4, <2>5, <2>6, <2>7, <2>8 DEF InOperation
<1>17. CASE UNCHANGED vars
  BY <1>1, <1>17 DEF vars
<1>18. ASSUME NEW c \in Calls, CallInfo(c) PROVE TrackInv'
  BY <1>1, <1>18 DEF CallInfo
<1> QED
  BY <1>2, <1>3, <1>4, <1>5, <1>6, <1>7, <1>8, <1>9, <1>10, <1>11, <1>12,
     <1>13, <1>15, <1>16, <1>17, <1>18, CallersAssumption
  DEF Next, InBlock

\* When nothing is under way the call audio runs exactly while the core has
\* an active call, for any number of calls, any length of the main queue and
\* a shutdown on either thread (OmnixVoice.swift:255-275).
THEOREM AudioAlwaysFollows == Spec => []AudioFollowsCalls
<1>1. Init => SessionInv /\ FollowInv /\ TrackInv
  <2> SUFFICES ASSUME Init PROVE SessionInv /\ FollowInv /\ TrackInv
    OBVIOUS
  <2> USE ThreadFacts DEF Init, Core!Init
  <2>1. SessionInv
    BY DEF SessionInv
  <2>2. TrackInv
    BY DEF TrackInv
  <2>3. ~HasActiveCall
    BY DEF HasActiveCall, ActiveStates, Core!OpenStates, Core!Announcements,
           Core!MediaStates
  <2> QED BY <2>1, <2>2, <2>3 DEF FollowInv, Starting, OpPlaces
<1>2. IosInv /\ SessionInv /\ FollowInv /\ TrackInv /\ [Next]_vars
        => SessionInv' /\ FollowInv' /\ TrackInv'
  BY SessionStep, FollowStep, TrackStep DEF IosInv
<1>3. IosInv /\ SessionInv /\ FollowInv /\ TrackInv => AudioFollowsCalls
  <2> SUFFICES ASSUME IosInv, SessionInv, FollowInv, TrackInv, queue = <<>>,
                      \A p \in Threads : at[p] = "idle", ~strayed
               PROVE  /\ sessionActive <=> \E c \in Calls \ past : heard[c] \in ActiveStates
                      /\ avActive <=> sessionActive
    BY DEF AudioFollowsCalls
  <2>1. at["main"] = "idle" /\ at["worker"] = "idle"
    BY ThreadFacts
  <2>2. avActive <=> sessionActive
    BY <2>1, ThreadFacts DEF SessionInv, IosInv, TypeOK
  <2>3. sessionActive <=> HasActiveCall
    BY <2>1 DEF FollowInv, InShutdown, EndPlaces
  <2>4. \A c \in Calls : ~Pending(c)
    BY <2>1 DEF Pending, Queued
  <2>5. \A c \in Calls : tracked[c] = IF c \in past THEN "SILENT" ELSE heard[c]
    BY <2>4 DEF TrackInv
  <2>6. "SILENT" \notin ActiveStates
    BY DEF ActiveStates, Core!OpenStates, Core!Announcements, Core!MediaStates
  <2> QED BY <2>2, <2>3, <2>5, <2>6 DEF HasActiveCall
<1> QED BY <1>1, <1>2, <1>3, Inductive, PTL DEF Spec
=============================================================================
