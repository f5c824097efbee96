--------------------------- MODULE OmnixCallProofs ---------------------------
(***************************************************************************)
(* Proofs about OmnixCall for every set of calls and ids, every size of    *)
(* the registry and of the queue, with and without STUN and the test hook. *)
(***************************************************************************)
EXTENDS OmnixCall, TLAPS

USE SlotAssumption, AdmitAssumption, QueueAssumption, FlagAssumption,
    NameAssumption, HandlerAssumption

Later  == {"CONNECTED", "HELD", "ENDING", "ENDED", "FAILED"}

-----------------------------------------------------------------------------
(* Type correctness.                                                       *)

\* The event states as one literal set, and where the named subsets lie.
LEMMA EventFacts ==
    /\ EventStates = {"OUTGOING", "INCOMING", "CONNECTED", "HELD", "ENDING",
                      "ENDED", "FAILED"}
    /\ OpenStates = {"OUTGOING", "INCOMING", "CONNECTED", "HELD"}
    /\ FinalStates = {"ENDED", "FAILED"}
    /\ "SHUTDOWN" \notin EventStates
BY DEF EventStates, OpenStates, FinalStates, Stream!EventStates,
       Stream!OpenStates, Stream!FinalStates, Stream!Announcements,
       Stream!MediaStates

\* A push keeps the queue a queue of messages within its capacity.
LEMMA EnqueueType ==
    ASSUME NEW q \in Seq(Messages), Len(q) <= QueueCap,
           NEW c \in Calls, NEW st \in EventStates
    PROVE  /\ Enqueue(q, c, st) \in Seq(Messages)
           /\ Len(Enqueue(q, c, st)) <= QueueCap
<1>1. [call |-> c, st |-> st] \in Messages
  BY DEF Messages
<1>2. CASE stage = "up" /\ Len(q) < QueueCap
  <2>1. Enqueue(q, c, st) = Append(q, [call |-> c, st |-> st])
    BY <1>2 DEF Enqueue
  <2> QED
    BY <1>1, <1>2, <2>1
<1>3. CASE ~(stage = "up" /\ Len(q) < QueueCap)
  BY <1>3 DEF Enqueue
<1> QED
  BY <1>2, <1>3

\* So do the two shared steps: a notification and the end of a call.
LEMMA NotifyType ==
    ASSUME TypeOK, NEW c \in Calls, NEW st \in EventStates, Notify(c, st)
    PROVE  /\ mq' \in Seq(Messages) /\ Len(mq') <= QueueCap
           /\ lossy' \in BOOLEAN
<1>1. mq' = Enqueue(mq, c, st) /\ mq \in Seq(Messages) /\ Len(mq) <= QueueCap
  BY DEF Notify, TypeOK
<1>2. lossy' \in BOOLEAN
  BY DEF Notify, TypeOK
<1> QED
  BY <1>1, <1>2, EnqueueType

\* The end of a baresip call keeps the fields of calls typed.
LEMMA ReleaseType ==
    ASSUME TypeOK, NEW c \in Calls, Release(c)
    PROVE  /\ phase'  \in [Calls -> Phases \cup {"unborn", "freed"}]
           /\ idOf'   \in [Calls -> Ids \cup {NoId}]
           /\ sess'   \in [Calls -> {"none", "gathering", "up", "answered"}]
           /\ onHold' \in [Calls -> BOOLEAN]
           /\ hdl'    \in [Calls -> Slots \cup {UA}]
BY DEF TypeOK, Release

\* Clearing an entry keeps the registry typed.
LEMMA FreeSlotType ==
    ASSUME TypeOK, NEW s \in Slots, FreeSlot(s)
    PROVE  /\ slot' \in [Slots -> Calls \cup {NoCall}]
           /\ info' \in [Slots -> EventStates \cup {"IDLE"}]
BY DEF TypeOK, FreeSlot

\* omnix_call_finalize_closed keeps every field typed.
LEMMA FinalizeType ==
    ASSUME TypeOK, NEW c \in Calls, NEW st \in FinalStates, Finalize(c, st),
           UNCHANGED <<stage, heard>>
    PROVE  TypeOK'
<1>1. st \in EventStates
  BY EventFacts
<1>2. CASE hdl[c] \in Slots /\ slot[hdl[c]] = c
  <2>1. Release(c) /\ FreeSlot(hdl[c]) /\ Notify(c, st)
    BY <1>2 DEF Finalize
  <2> QED
    BY <1>1, <1>2, <2>1, ReleaseType, FreeSlotType, NotifyType DEF TypeOK
<1>3. CASE ~(hdl[c] \in Slots /\ slot[hdl[c]] = c)
  <2>1. Release(c) /\ UNCHANGED <<slot, info, mq, lossy>>
    BY <1>3 DEF Finalize
  <2> QED
    BY <2>1, ReleaseType DEF TypeOK
<1> QED
  BY <1>2, <1>3

\* A slot that takes a call, and its announcement.
LEMMA TrackType ==
    ASSUME TypeOK, NEW c \in Calls, NEW s \in Slots,
           NEW st \in EventStates, Track(c, s, st)
    PROVE  /\ hdl'  \in [Calls -> Slots \cup {UA}]
           /\ slot' \in [Slots -> Calls \cup {NoCall}]
           /\ info' \in [Slots -> EventStates \cup {"IDLE"}]
BY DEF TypeOK, Track

\* omnix_call_handle_incoming keeps every field typed, slot or none.
LEMMA HandleIncomingType ==
    ASSUME TypeOK, NEW c \in Calls, NEW i, HandleIncoming(c, i),
           idOf' \in [Calls -> Ids \cup {NoId}],
           UNCHANGED <<onHold, stage, heard>>
    PROVE  TypeOK'
<1>1. CASE /\ \E s \in Slots : AllocSlot(c, i, s) /\ Track(c, s, "INCOMING")
           /\ phase' = [phase EXCEPT ![c] = "INCOMING"]
           /\ sess'  = [sess EXCEPT ![c] = "up"]
           /\ Notify(c, "INCOMING")
  BY <1>1, TrackType, NotifyType, EventFacts DEF TypeOK, Phases
<1>2. CASE /\ NoSlotFor(c, i)
           /\ phase' = [phase EXCEPT ![c] = "TERMINATED"]
           /\ sess'  = [sess EXCEPT ![c] = "none"]
           /\ UNCHANGED <<hdl, slot, info, mq, lossy>>
  BY <1>2 DEF TypeOK, Phases
<1> QED
  BY <1>1, <1>2 DEF HandleIncoming

\* The initial state is typed.
LEMMA TypeInit == Init => TypeOK
<1> SUFFICES ASSUME Init PROVE TypeOK
  OBVIOUS
<1>1. mq \in Seq(Messages) /\ Len(mq) <= QueueCap
  BY DEF Init
<1> QED
  BY <1>1 DEF Init, TypeOK, Stages, Running

\* Every step keeps the state typed.
LEMMA TypeStep == TypeOK /\ [Next]_vars => TypeOK'
<1> SUFFICES ASSUME TypeOK, [Next]_vars PROVE TypeOK'
  OBVIOUS
<1>1. ASSUME NEW c \in Calls, NEW i \in Ids, MakeCall(c, i) PROVE TypeOK'
  <2>1. /\ idOf' \in [Calls -> Ids \cup {NoId}]
        /\ phase' \in [Calls -> Phases \cup {"unborn", "freed"}]
        /\ sess' \in [Calls -> {"none", "gathering", "up", "answered"}]
    BY <1>1 DEF MakeCall, TypeOK, Phases, ConnectOutcomes
  <2>2. /\ hdl'  \in [Calls -> Slots \cup {UA}]
        /\ slot' \in [Slots -> Calls \cup {NoCall}]
        /\ info' \in [Slots -> EventStates \cup {"IDLE"}]
    BY <1>1, TrackType, EventFacts DEF MakeCall
  <2>3. /\ mq' \in Seq(Messages) /\ Len(mq') <= QueueCap
        /\ lossy' \in BOOLEAN
    BY <1>1, NotifyType, EventFacts DEF MakeCall
  <2> QED
    BY <1>1, <2>1, <2>2, <2>3 DEF MakeCall, TypeOK
<1>2. ASSUME NEW c \in Calls, NEW i \in Ids, MakeCallRefused(c, i) PROVE TypeOK'
  BY <1>2 DEF MakeCallRefused, TypeOK, Phases, ConnectOutcomes
<1>3. ASSUME NEW c \in Calls, NEW i \in Ids, Arrive(c, i) PROVE TypeOK'
  <2>1. idOf' \in [Calls -> Ids \cup {NoId}]
    BY <1>3 DEF Arrive, TypeOK
  <2>2. CASE Stun
    BY <1>3, <2>1, <2>2 DEF Arrive, TypeOK, Phases
  <2>3. CASE ~Stun
    BY <1>3, <2>1, <2>3, HandleIncomingType DEF Arrive
  <2> QED
    BY <2>2, <2>3
<1>4. ASSUME NEW c \in Calls, MnatDone(c) PROVE TypeOK'
  <2>1. UNCHANGED <<idOf, onHold, stage, heard>> /\ idOf' \in [Calls -> Ids \cup {NoId}]
    BY <1>4 DEF MnatDone, TypeOK
  <2>2. CASE HandleIncoming(c, idOf[c])
    BY <2>1, <2>2, HandleIncomingType
  <2>3. CASE /\ \E out \in {"up", "none"} : sess' = [sess EXCEPT ![c] = out]
             /\ UNCHANGED <<phase, hdl, slot, info, mq, lossy>>
    BY <2>1, <2>3 DEF TypeOK
  <2> QED
    BY <1>4, <2>2, <2>3 DEF MnatDone
<1>5. ASSUME NEW c \in Calls, MnatFail(c) PROVE TypeOK'
  BY <1>5, FinalizeType DEF MnatFail
<1>6. ASSUME NEW c \in Calls, Progress(c) PROVE TypeOK'
  BY <1>6 DEF Progress, TypeOK, Phases
<1>7. ASSUME NEW c \in Calls, Establish(c) PROVE TypeOK'
  BY <1>7 DEF Establish, TypeOK, Phases
<1>8. ASSUME NEW c \in Calls, Closed(c) PROVE TypeOK'
  BY <1>8, FinalizeType DEF Closed
<1>9. ASSUME NEW i \in Ids, Answer(i) PROVE TypeOK'
  <2>1. PICK s \in Slots :
          /\ Found(i, s)
          /\ sess[slot[s]] = "up" /\ phase[slot[s]] = "INCOMING"
          /\ sess' = [sess EXCEPT ![slot[s]] = "answered"]
          /\ info' = [info EXCEPT ![s] = MapState(phase[slot[s]], onHold[slot[s]])]
    BY <1>9 DEF Answer
  <2>2. MapState(phase[slot[s]], onHold[slot[s]]) \in EventStates
    BY <2>1, EventFacts DEF MapState
  <2> QED
    BY <1>9, <2>1, <2>2 DEF Answer, TypeOK
<1>10. ASSUME NEW i \in Ids, Reject(i) PROVE TypeOK'
  <2>1. PICK s \in Slots : Found(i, s) /\ Finalize(slot[s], "FAILED")
    BY <1>10 DEF Reject
  <2>2. slot[s] \in Calls
    BY <2>1 DEF Found, TypeOK
  <2> QED
    BY <1>10, <2>1, <2>2, FinalizeType, EventFacts DEF Reject
<1>11. ASSUME NEW i \in Ids, Hangup(i) PROVE TypeOK'
  <2>1. PICK s \in Slots :
          /\ Found(i, s) /\ Release(slot[s]) /\ FreeSlot(s)
          /\ mq' = Enqueue(Enqueue(mq, slot[s], "ENDING"), slot[s], "ENDED")
          /\ lossy' \in BOOLEAN
    BY <1>11 DEF Hangup, TypeOK
  <2>2. slot[s] \in Calls
    BY <2>1 DEF Found, TypeOK
  <2>3. /\ Enqueue(mq, slot[s], "ENDING") \in Seq(Messages)
        /\ Len(Enqueue(mq, slot[s], "ENDING")) <= QueueCap
    BY <2>2, EnqueueType, EventFacts DEF TypeOK
  <2>4. mq' \in Seq(Messages) /\ Len(mq') <= QueueCap
    BY <2>1, <2>2, <2>3, EnqueueType, EventFacts
  <2> QED
    BY <1>11, <2>1, <2>2, <2>4, ReleaseType, FreeSlotType DEF Hangup, TypeOK
<1>12. ASSUME NEW i \in Ids, Hold(i) \/ Resume(i) PROVE TypeOK'
  <2>1. PICK s \in Slots, b \in BOOLEAN, st \in {"HELD", "CONNECTED"} :
          /\ Found(i, s)
          /\ onHold' = [onHold EXCEPT ![slot[s]] = b]
          /\ info'   = [info EXCEPT ![s] = st]
          /\ Notify(slot[s], st)
    BY <1>12 DEF Hold, Resume
  <2>2. slot[s] \in Calls /\ st \in EventStates
    BY <2>1, EventFacts DEF Found, TypeOK
  <2>3. UNCHANGED <<phase, idOf, sess, hdl, slot, stage, heard>>
    BY <1>12 DEF Hold, Resume
  <2>4. /\ onHold' \in [Calls -> BOOLEAN]
        /\ info' \in [Slots -> EventStates \cup {"IDLE"}]
    BY <2>1, <2>2 DEF TypeOK
  <2>5. /\ mq' \in Seq(Messages) /\ Len(mq') <= QueueCap
        /\ lossy' \in BOOLEAN
    BY <2>1, <2>2, NotifyType
  <2> QED
    BY <2>3, <2>4, <2>5 DEF TypeOK
<1>13. ASSUME NEW i \in Ids, ForceConnected(i) PROVE TypeOK'
  BY <1>13, EventFacts DEF ForceConnected, TypeOK, callVars
<1>14. CASE Deliver
  <2>1. mq \in Seq(Messages) /\ mq # <<>>
    BY <1>14 DEF Deliver, TypeOK
  <2>2. Tail(mq) \in Seq(Messages) /\ Len(Tail(mq)) = Len(mq) - 1
    BY <2>1
  <2>3. Head(mq) \in Messages /\ Head(mq) # NoMsg
    BY <1>14, <2>1 DEF Deliver
  <2>4. Head(mq).call \in Calls /\ Head(mq).st \in EventStates
    BY <2>3 DEF Messages
  <2> QED
    BY <1>14, <2>2, <2>4 DEF Deliver, TypeOK, callVars
<1>15. CASE HandleShutdown
  <2>1. mq \in Seq(Messages) /\ mq # <<>>
    BY <1>15 DEF HandleShutdown, TypeOK
  <2>2. Tail(mq) \in Seq(Messages) /\ Len(Tail(mq)) = Len(mq) - 1
    BY <2>1
  <2> QED
    BY <1>15, <2>2 DEF HandleShutdown, TypeOK, Stages
<1>16. CASE BeginShutdown
  BY <1>16 DEF BeginShutdown, TypeOK, Stages, callVars
<1>17. CASE ResetRegistry
  BY <1>17 DEF ResetRegistry, TypeOK, Stages, callVars
<1>18. CASE PostShutdown
  <2>1. NoMsg \in Messages
    BY DEF Messages
  <2>2. mq \in Seq(Messages) /\ Len(mq) \in Nat /\ Len(mq) <= QueueCap
    BY DEF TypeOK
  <2>3. CASE Len(mq) < QueueCap /\ mq' = Append(mq, NoMsg)
    <3>1. mq' \in Seq(Messages) /\ Len(mq') = Len(mq) + 1
      BY <2>1, <2>2, <2>3
    <3> QED
      BY <1>18, <2>2, <2>3, <3>1 DEF PostShutdown, TypeOK, Stages, callVars
  <2>4. CASE mq' = mq
    BY <1>18, <2>4 DEF PostShutdown, TypeOK, Stages, callVars
  <2> QED
    BY <1>18, <2>3, <2>4 DEF PostShutdown
<1>19. CASE Finish
  <2>1. mq' \in Seq(Messages) /\ Len(mq') <= QueueCap
    BY <1>19 DEF Finish
  <2> QED
    BY <1>19, <2>1 DEF Finish, TypeOK, Stages
<1>20. CASE Reinit
  BY <1>20 DEF Reinit, TypeOK, Stages, callVars
<1>21. CASE UNCHANGED vars
  BY <1>21 DEF vars, TypeOK
<1> QED
  BY <1>1, <1>2, <1>3, <1>4, <1>5, <1>6, <1>7, <1>8, <1>9, <1>10, <1>11,
     <1>12, <1>13, <1>14, <1>15, <1>16, <1>17, <1>18, <1>19, <1>20, <1>21
  DEF Next, CallSetup, CallEvent, CallApi, QueueHandler, ShutdownStep

\* Every state of the registry and of the queue is well typed; in particular
\* the queue never exceeds its capacity (omnix_events.c:400-428).
THEOREM TypeCorrect == Spec => []TypeOK
BY TypeInit, TypeStep, PTL DEF Spec

-----------------------------------------------------------------------------
(* The registry: RegistryConsistent is inductive over well-typed states.   *)

\* An entry given to a call keeps the registry consistent, provided the call
\* was not in another entry and ends up alive with the id it was given.
LEMMA TrackConsistent ==
    ASSUME TypeOK, RegistryConsistent, stage \in Running,
           NEW c \in Calls, NEW i, NEW s \in Slots, NEW st,
           AllocSlot(c, i, s), Track(c, s, st),
           phase[c] = "unborn" \/ (Alive(c) /\ idOf[c] = i),
           phase' \in [Calls -> Phases \cup {"unborn", "freed"}],
           \A d \in Calls : d # c => phase'[d] = phase[d] /\ idOf'[d] = idOf[d],
           phase'[c] \in {"OUTGOING", "INCOMING"}, idOf'[c] = i
    PROVE  RegistryConsistent'
<1>1. \A t \in Slots : slot'[t] = IF t = s THEN c ELSE slot[t]
  BY DEF Track, TypeOK
<1>2. \A d \in Calls : hdl'[d] = IF d = c THEN s ELSE hdl[d]
  BY DEF Track, TypeOK
<1>3. \A t \in Slots : t # s => slot[t] # c
  BY DEF AllocSlot, RegistryConsistent, Alive, Phases, TypeOK
<1>4. \A t \in Slots : t # s /\ slot[t] # NoCall => idOf[slot[t]] # i
  BY <1>3 DEF AllocSlot, RegistryConsistent, Alive, Phases, TypeOK
<1>5. \A t \in Slots : slot[t] \in Calls \cup {NoCall}
  BY DEF TypeOK
<1> SUFFICES ASSUME NEW t \in Slots, slot'[t] # NoCall
             PROVE  /\ Alive(slot[t])' /\ phase'[slot'[t]] # "TERMINATED"
                    /\ hdl'[slot'[t]] = t
                    /\ \A u \in Slots :
                         slot'[u] # NoCall /\ idOf'[slot'[u]] = idOf'[slot'[t]]
                           => u = t
  BY DEF RegistryConsistent
<1>6. CASE t = s
  BY <1>1, <1>2, <1>3, <1>4, <1>5, <1>6 DEF Alive, Phases
<1>7. CASE t # s
  BY <1>1, <1>2, <1>3, <1>4, <1>5, <1>7 DEF Alive, RegistryConsistent
<1> QED
  BY <1>6, <1>7

\* The end of a call removes the only entry that may point to it.
LEMMA ReleaseConsistent ==
    ASSUME TypeOK, RegistryConsistent, NEW c \in Calls, Release(c),
           UNCHANGED stage,
           \/ \E s \in Slots : slot[s] = c /\ slot' = [slot EXCEPT ![s] = NoCall]
           \/ (stage \in Running => ~Tracked(c)) /\ slot' = slot
    PROVE  RegistryConsistent'
<1> SUFFICES ASSUME stage \in Running PROVE RegistryConsistent'
  BY DEF RegistryConsistent
<1>1. \A t \in Slots : slot'[t] # NoCall => slot'[t] = slot[t] /\ slot[t] # c
  BY DEF RegistryConsistent, TypeOK, Tracked
<1>2. \A d \in Calls : d # c => phase'[d] = phase[d]
  BY DEF Release, TypeOK
<1>3. hdl' = hdl /\ idOf' = idOf
  BY DEF Release
<1>4. \A t \in Slots : slot[t] \in Calls \cup {NoCall}
  BY DEF TypeOK
<1> QED
  BY <1>1, <1>2, <1>3, <1>4 DEF RegistryConsistent, Alive

\* omnix_call_finalize_closed keeps the registry consistent.
LEMMA FinalizeConsistent ==
    ASSUME TypeOK, RegistryConsistent, NEW c \in Calls, NEW st,
           Finalize(c, st), UNCHANGED stage
    PROVE  RegistryConsistent'
<1>1. CASE hdl[c] \in Slots /\ slot[hdl[c]] = c
  <2>1. Release(c) /\ slot' = [slot EXCEPT ![hdl[c]] = NoCall]
    BY <1>1 DEF Finalize, FreeSlot
  <2> QED
    BY <1>1, <2>1, ReleaseConsistent
<1>2. CASE ~(hdl[c] \in Slots /\ slot[hdl[c]] = c)
  <2>1. Release(c) /\ slot' = slot
    BY <1>2 DEF Finalize
  <2>2. stage \in Running => ~Tracked(c)
    BY <1>2 DEF RegistryConsistent, Tracked, TypeOK
  <2> QED
    BY <2>1, <2>2, ReleaseConsistent
<1> QED
  BY <1>1, <1>2

\* A new call that gets an entry, or is refused, leaves the registry consistent.
LEMMA HandleIncomingConsistent ==
    ASSUME TypeOK, RegistryConsistent, stage \in Running, UNCHANGED stage,
           NEW c \in Calls, NEW i, HandleIncoming(c, i),
           phase[c] = "unborn" \/ (Alive(c) /\ idOf[c] = i),
           idOf' = [idOf EXCEPT ![c] = i]
    PROVE  RegistryConsistent'
<1>1. CASE \E s \in Slots : AllocSlot(c, i, s) /\ Track(c, s, "INCOMING")
  <2>1. phase' = [phase EXCEPT ![c] = "INCOMING"]
    BY <1>1 DEF HandleIncoming, Track, NoSlotFor
  <2> QED
    BY <1>1, <2>1, TrackConsistent DEF TypeOK, Phases
<1>2. CASE NoSlotFor(c, i) /\ UNCHANGED <<hdl, slot>>
           /\ phase' = [phase EXCEPT ![c] = "TERMINATED"]
  <2>1. \A t \in Slots : slot[t] # c
    BY <1>2 DEF NoSlotFor, AllocSlot
  <2> QED
    BY <1>2, <2>1 DEF RegistryConsistent, Alive, TypeOK
<1> QED
  BY <1>1, <1>2 DEF HandleIncoming

\* Every step keeps the registry consistent.
LEMMA RegistryStep == TypeOK /\ RegistryConsistent /\ [Next]_vars => RegistryConsistent'
<1> SUFFICES ASSUME TypeOK, RegistryConsistent, [Next]_vars
             PROVE  RegistryConsistent'
  OBVIOUS
<1>1. ASSUME NEW c \in Calls, NEW i \in Ids, MakeCall(c, i)
      PROVE  RegistryConsistent'
  <2>1. PICK s \in Slots : AllocSlot(c, i, s) /\ Track(c, s, "OUTGOING")
    BY <1>1 DEF MakeCall
  <2>2. stage \in Running /\ phase[c] = "unborn"
    BY <1>1 DEF MakeCall, HasUa, Running
  <2>3. /\ phase' \in [Calls -> Phases \cup {"unborn", "freed"}]
        /\ \A d \in Calls : d # c => phase'[d] = phase[d] /\ idOf'[d] = idOf[d]
        /\ phase'[c] \in {"OUTGOING", "INCOMING"} /\ idOf'[c] = i
    BY <1>1 DEF MakeCall, TypeOK, Phases
  <2>4. phase[c] = "unborn" \/ (Alive(c) /\ idOf[c] = i)
    BY <2>2
  <2> QED
    BY <2>1, <2>2, <2>3, <2>4, TrackConsistent
<1>2. ASSUME NEW c \in Calls, NEW i \in Ids, MakeCallRefused(c, i)
      PROVE  RegistryConsistent'
  <2>1. \A t \in Slots : slot[t] # c
    BY <1>2 DEF MakeCallRefused, RegistryConsistent, Alive, Phases, Running,
                HasUa, TypeOK
  <2> QED
    BY <1>2, <2>1 DEF MakeCallRefused, RegistryConsistent, Alive, TypeOK
<1>3. ASSUME NEW c \in Calls, NEW i \in Ids, Arrive(c, i)
      PROVE  RegistryConsistent'
  <2>1. /\ stage \in Running /\ phase[c] = "unborn" /\ UNCHANGED stage
        /\ idOf' = [idOf EXCEPT ![c] = i]
    BY <1>3 DEF Arrive
  <2>2. CASE Stun
    <3>1. \A t \in Slots : slot[t] # c
      BY <2>1 DEF RegistryConsistent, Alive, Phases
    <3> QED
      BY <1>3, <2>1, <2>2, <3>1 DEF Arrive, RegistryConsistent, Alive, TypeOK
  <2>3. CASE ~Stun
    <3>1. HandleIncoming(c, i)
      BY <1>3, <2>3 DEF Arrive
    <3>2. phase[c] = "unborn" \/ (Alive(c) /\ idOf[c] = i)
      BY <2>1
    <3> QED
      BY <2>1, <3>1, <3>2, HandleIncomingConsistent
  <2> QED
    BY <2>2, <2>3
<1>4. ASSUME NEW c \in Calls, MnatDone(c) PROVE RegistryConsistent'
  <2>1. stage \in Running /\ UNCHANGED <<stage, idOf>>
    BY <1>4 DEF MnatDone
  <2>2. CASE phase[c] = "INCOMING" /\ HandleIncoming(c, idOf[c])
    <3>1. idOf' = [idOf EXCEPT ![c] = idOf[c]]
      BY <2>1 DEF TypeOK
    <3> QED
      BY <2>1, <2>2, <3>1, HandleIncomingConsistent DEF Alive, Phases
  <2>3. CASE UNCHANGED <<phase, hdl, slot>>
    BY <2>1, <2>3 DEF RegistryConsistent, Alive
  <2> QED
    BY <1>4, <2>2, <2>3 DEF MnatDone
<1>5. ASSUME NEW c \in Calls, MnatFail(c) \/ Closed(c) PROVE RegistryConsistent'
  BY <1>5, FinalizeConsistent DEF MnatFail, Closed
<1>6. ASSUME NEW c \in Calls, Progress(c) \/ Establish(c)
      PROVE  RegistryConsistent'
  <2>1. PICK ph \in Phases \ {"TERMINATED"} : phase' = [phase EXCEPT ![c] = ph]
    BY <1>6 DEF Progress, Establish, Phases
  <2>2. UNCHANGED <<idOf, hdl, slot, stage>>
    BY <1>6 DEF Progress, Establish
  <2> QED
    BY <2>1, <2>2 DEF RegistryConsistent, Alive, TypeOK
<1>7. ASSUME NEW i \in Ids, Answer(i) \/ Hold(i) \/ Resume(i) \/ ForceConnected(i)
      PROVE  RegistryConsistent'
  <2>1. UNCHANGED <<phase, idOf, hdl, slot, stage>>
    BY <1>7 DEF Answer, Hold, Resume, ForceConnected, callVars
  <2> QED
    BY <2>1 DEF RegistryConsistent, Alive
<1>8. ASSUME NEW i \in Ids, Reject(i) PROVE RegistryConsistent'
  <2>1. PICK s \in Slots : Found(i, s) /\ Finalize(slot[s], "FAILED")
    BY <1>8 DEF Reject
  <2>2. slot[s] \in Calls
    BY <2>1 DEF Found, TypeOK
  <2> QED
    BY <1>8, <2>1, <2>2, FinalizeConsistent DEF Reject
<1>9. ASSUME NEW i \in Ids, Hangup(i) PROVE RegistryConsistent'
  <2>1. PICK s \in Slots : Found(i, s) /\ Release(slot[s]) /\ FreeSlot(s)
    BY <1>9 DEF Hangup
  <2>2. slot[s] \in Calls
    BY <2>1 DEF Found, TypeOK
  <2> QED
    BY <1>9, <2>1, <2>2, ReleaseConsistent DEF Hangup, FreeSlot
<1>10. CASE Deliver \/ BeginShutdown
  BY <1>10 DEF Deliver, BeginShutdown, callVars, RegistryConsistent, Alive, Running
<1>11. CASE HandleShutdown \/ Finish
  BY <1>11 DEF HandleShutdown, Finish, RegistryConsistent, Running
<1>12. CASE ResetRegistry \/ Reinit
  BY <1>12 DEF ResetRegistry, Reinit, RegistryConsistent
<1>13. CASE PostShutdown
  BY <1>13 DEF PostShutdown, callVars, RegistryConsistent, Alive, Running
<1>14. CASE UNCHANGED vars
  BY <1>14 DEF vars, RegistryConsistent, Alive
<1> QED
  BY <1>1, <1>2, <1>3, <1>4, <1>5, <1>6, <1>7, <1>8, <1>9, <1>10, <1>11,
     <1>12, <1>13, <1>14
  DEF Next, CallSetup, CallEvent, CallApi, QueueHandler, ShutdownStep

\* No entry of g_calls ever points to a call that is freed or hung up while
\* re_main runs, and entries are distinct in call and id, for any number of
\* calls and entries (omnix_call.c:103-179, 426-446, 549-660).
THEOREM RegistryAlwaysConsistent == Spec => []RegistryConsistent
<1>1. Init => RegistryConsistent
  BY DEF Init, RegistryConsistent
<1>2. QED
  BY <1>1, TypeInit, TypeStep, RegistryStep, PTL DEF Spec

-----------------------------------------------------------------------------
(* The stream of notifications.  Ordered: what is queued may be heard in   *)
(* the queue's order after what was heard.  Quiet: nothing was ever told   *)
(* of c.  Unfinished: nothing that was told of c announced its end.        *)

Ordered(q, h) ==
    \A k \in 1..Len(q) : q[k].call \in Calls =>
        /\ q[k].st \in Stream!After(h[q[k].call])
        /\ \A j \in 1..Len(q) : j < k /\ q[j].call = q[k].call
                                  => q[k].st \in Stream!After(q[j].st)

Quiet(q, h, c) ==
    h[c] = "SILENT" /\ \A k \in 1..Len(q) : q[k].call # c

Unfinished(q, h, c) ==
    /\ h[c] \in OpenStates \cup {"SILENT"}
    /\ \A k \in 1..Len(q) : q[k].call = c => q[k].st \in OpenStates

\* The state st may be told of c after all that was told of it.
MayFollow(q, h, c, st) ==
    /\ st \in Stream!After(h[c])
    /\ \A k \in 1..Len(q) : q[k].call = c => st \in Stream!After(q[k].st)

\* A call without a slot's handler was told of to nobody; a tracked call has
\* not ended.  Once shutting_down is set nothing is told any more.
StreamInv ==
    /\ Ordered(mq, heard)
    /\ \A c \in Calls : phase[c] = "unborn" \/ (Alive(c) /\ hdl[c] = UA)
                          => Quiet(mq, heard, c)
    /\ stage = "up" => \A s \in Slots : slot[s] # NoCall
                                          => Unfinished(mq, heard, slot[s])

\* After is what its definition lists, state by state.
LEMMA AfterFacts ==
    /\ Stream!After("SILENT") = EventStates
    /\ \A st \in OpenStates : Stream!After(st) = Later
    /\ Stream!After("ENDING") = FinalStates
BY DEF Stream!After, EventStates, OpenStates, FinalStates, Later,
       Stream!EventStates, Stream!OpenStates, Stream!FinalStates,
       Stream!Announcements, Stream!MediaStates

\* Anything may be told first of a call of which nothing was told.
LEMMA QuietMayFollow ==
    ASSUME NEW q, NEW h, NEW c \in Calls, Quiet(q, h, c), NEW st \in EventStates
    PROVE  MayFollow(q, h, c, st)
BY AfterFacts DEF Quiet, MayFollow

\* An open call may be followed by any state but its announcement.
LEMMA UnfinishedMayFollow ==
    ASSUME NEW q, NEW h, NEW c \in Calls, Unfinished(q, h, c), NEW st \in Later
    PROVE  MayFollow(q, h, c, st)
<1>1. \A o \in OpenStates \cup {"SILENT"} : st \in Stream!After(o)
  BY AfterFacts, EventFacts DEF Later
<1> QED
  BY <1>1 DEF Unfinished, MayFollow

\* A push of a state that may follow keeps the order, and changes what is
\* known of no other call.
LEMMA EnqueueOrdered ==
    ASSUME NEW q \in Seq(Messages), NEW h, NEW c \in Calls,
           NEW st \in EventStates, Ordered(q, h), MayFollow(q, h, c, st)
    PROVE  Ordered(Enqueue(q, c, st), h)
<1>1. CASE Enqueue(q, c, st) = q
  BY <1>1
<1>2. CASE Enqueue(q, c, st) = Append(q, [call |-> c, st |-> st])
  <2> DEFINE r == Append(q, [call |-> c, st |-> st])
  <2>1. /\ Len(r) = Len(q) + 1 /\ Len(q) \in Nat
        /\ r[Len(q) + 1] = [call |-> c, st |-> st]
        /\ \A k \in 1..Len(q) : r[k] = q[k]
    OBVIOUS
  <2> HIDE DEF r
  <2>2. ASSUME NEW k \in 1..Len(r), r[k].call \in Calls
        PROVE  /\ r[k].st \in Stream!After(h[r[k].call])
               /\ \A j \in 1..Len(r) : j < k /\ r[j].call = r[k].call
                                         => r[k].st \in Stream!After(r[j].st)
    <3>1. CASE k \in 1..Len(q)
      BY <2>1, <2>2, <3>1 DEF Ordered
    <3>2. CASE k = Len(q) + 1
      <4>1. r[k].call = c /\ r[k].st = st
        BY <2>1, <3>2
      <4>2. \A j \in 1..Len(r) : j < k => j \in 1..Len(q) /\ r[j] = q[j]
        BY <2>1, <3>2
      <4> QED
        BY <4>1, <4>2 DEF MayFollow
    <3> QED
      BY <2>1, <3>1, <3>2
  <2> QED
    BY <1>2, <2>2 DEF Ordered, r
<1> QED
  BY <1>1, <1>2 DEF Enqueue

\* A push adds at most the pushed message.
LEMMA EnqueueElements ==
    ASSUME NEW q \in Seq(Messages), NEW c \in Calls, NEW st \in EventStates,
           NEW k \in 1..Len(Enqueue(q, c, st))
    PROVE  \/ k \in 1..Len(q) /\ Enqueue(q, c, st)[k] = q[k]
           \/ Enqueue(q, c, st)[k] = [call |-> c, st |-> st]
BY DEF Enqueue

\* What is told of one call changes nothing for the others.
LEMMA EnqueueOthers ==
    ASSUME NEW q \in Seq(Messages), NEW h, NEW c \in Calls,
           NEW st \in EventStates, NEW d \in Calls, d # c
    PROVE  /\ Quiet(q, h, d) => Quiet(Enqueue(q, c, st), h, d)
           /\ Unfinished(q, h, d) => Unfinished(Enqueue(q, c, st), h, d)
<1> DEFINE r == Enqueue(q, c, st)
<1>1. \A k \in 1..Len(r) : \/ k \in 1..Len(q) /\ r[k] = q[k]
                           \/ r[k] = [call |-> c, st |-> st]
  BY EnqueueElements
<1> HIDE DEF r
<1>2. \A k \in 1..Len(r) : r[k].call = d => k \in 1..Len(q) /\ r[k] = q[k]
  BY <1>1
<1>3. Quiet(q, h, d) => Quiet(r, h, d)
  BY <1>2 DEF Quiet
<1>4. Unfinished(q, h, d) => Unfinished(r, h, d)
  BY <1>2 DEF Unfinished
<1> QED
  BY <1>3, <1>4 DEF r

\* An open state leaves a call unfinished.
LEMMA EnqueueUnfinished ==
    ASSUME NEW q \in Seq(Messages), NEW h, NEW c \in Calls, NEW st \in OpenStates,
           Unfinished(q, h, c)
    PROVE  Unfinished(Enqueue(q, c, st), h, c)
<1> DEFINE r == Enqueue(q, c, st)
<1>1. \A k \in 1..Len(r) : \/ k \in 1..Len(q) /\ r[k] = q[k]
                           \/ r[k] = [call |-> c, st |-> st]
  <2>1. st \in EventStates
    BY EventFacts
  <2> QED
    BY <2>1, EnqueueElements
<1> HIDE DEF r
<1>2. Unfinished(r, h, c)
  BY <1>1 DEF Unfinished
<1> QED
  BY <1>2 DEF r

\* A call of which nothing was told has not ended for the application.
LEMMA QuietIsUnfinished ==
    ASSUME NEW q, NEW h, NEW c, Quiet(q, h, c) PROVE Unfinished(q, h, c)
BY DEF Quiet, Unfinished

\* The head of an ordered queue may be heard, and the rest stays ordered.
LEMMA DeliverOrdered ==
    ASSUME NEW q \in Seq(Messages), q # <<>>,
           NEW h \in [Calls -> EventStates \cup {"SILENT"}],
           Ordered(q, h), Head(q).call \in Calls
    PROVE  /\ Head(q).st \in Stream!After(h[Head(q).call])
           /\ Ordered(Tail(q), [h EXCEPT ![Head(q).call] = Head(q).st])
<1>1. /\ Len(q) \in Nat /\ Len(q) >= 1 /\ Head(q) = q[1]
      /\ Len(Tail(q)) = Len(q) - 1
      /\ \A k \in 1..Len(q) - 1 : Tail(q)[k] = q[k + 1]
  OBVIOUS
<1>2. Head(q).st \in Stream!After(h[Head(q).call])
  BY <1>1 DEF Ordered
<1> DEFINE g == [h EXCEPT ![Head(q).call] = Head(q).st]
<1>3. ASSUME NEW k \in 1..Len(Tail(q)), Tail(q)[k].call \in Calls
      PROVE  /\ Tail(q)[k].st \in Stream!After(g[Tail(q)[k].call])
             /\ \A j \in 1..Len(Tail(q)) :
                  j < k /\ Tail(q)[j].call = Tail(q)[k].call
                    => Tail(q)[k].st \in Stream!After(Tail(q)[j].st)
  <2>1. /\ k + 1 \in 1..Len(q) /\ Tail(q)[k] = q[k + 1]
        /\ 1 \in 1..Len(q) /\ 1 < k + 1
    BY <1>1
  <2>2. \A j \in 1..Len(Tail(q)) :
          j < k => j + 1 \in 1..Len(q) /\ j + 1 < k + 1 /\ Tail(q)[j] = q[j + 1]
    BY <1>1
  <2>3. q[k + 1].st \in Stream!After(g[q[k + 1].call])
    BY <1>1, <1>3, <2>1 DEF Ordered
  <2> QED
    BY <1>3, <2>1, <2>2, <2>3 DEF Ordered
<1> QED
  BY <1>2, <1>3 DEF Ordered

\* Dropping the head without hearing it, as for the SHUTDOWN command.
LEMMA DropFirst ==
    ASSUME NEW q \in Seq(Messages), q # <<>>, NEW h, Ordered(q, h)
    PROVE  /\ Ordered(Tail(q), h)
           /\ \A d \in Calls : Quiet(q, h, d) => Quiet(Tail(q), h, d)
<1>1. /\ Len(q) \in Nat /\ Len(Tail(q)) = Len(q) - 1
      /\ \A k \in 1..Len(Tail(q)) : k + 1 \in 1..Len(q) /\ Tail(q)[k] = q[k + 1]
  OBVIOUS
<1>2. ASSUME NEW k \in 1..Len(Tail(q)), Tail(q)[k].call \in Calls
      PROVE  /\ Tail(q)[k].st \in Stream!After(h[Tail(q)[k].call])
             /\ \A j \in 1..Len(Tail(q)) :
                  j < k /\ Tail(q)[j].call = Tail(q)[k].call
                    => Tail(q)[k].st \in Stream!After(Tail(q)[j].st)
  <2>1. k + 1 \in 1..Len(q) /\ Tail(q)[k] = q[k + 1]
    BY <1>1
  <2>2. \A j \in 1..Len(Tail(q)) :
          j < k => j + 1 \in 1..Len(q) /\ j + 1 < k + 1 /\ Tail(q)[j] = q[j + 1]
    BY <1>1
  <2> QED
    BY <1>2, <2>1, <2>2 DEF Ordered
<1>3. Ordered(Tail(q), h)
  BY <1>2 DEF Ordered
<1>4. \A d \in Calls : Quiet(q, h, d) => Quiet(Tail(q), h, d)
  BY <1>1 DEF Quiet
<1> QED
  BY <1>3, <1>4

\* What a shared step does to the stream: told is what it tells of c, and
\* the other calls keep their slots' handlers and their life.
LEMMA StreamNotify ==
    ASSUME TypeOK, StreamInv, NEW c \in Calls, NEW st \in EventStates,
           MayFollow(mq, heard, c, st), Notify(c, st), UNCHANGED heard
    PROVE  /\ Ordered(mq', heard')
           /\ \A d \in Calls \ {c} :
                /\ Quiet(mq, heard, d) => Quiet(mq', heard', d)
                /\ Unfinished(mq, heard, d) => Unfinished(mq', heard', d)
           /\ stage # "up" => mq' = mq
<1>1. mq' = Enqueue(mq, c, st) /\ mq \in Seq(Messages) /\ heard' = heard
  BY DEF Notify, TypeOK
<1>2. Ordered(mq', heard')
  BY <1>1, EnqueueOrdered DEF StreamInv
<1>3. \A d \in Calls \ {c} :
        /\ Quiet(mq, heard, d) => Quiet(mq', heard', d)
        /\ Unfinished(mq, heard, d) => Unfinished(mq', heard', d)
  BY <1>1, EnqueueOthers
<1>4. stage # "up" => mq' = mq
  BY <1>1 DEF Enqueue
<1> QED
  BY <1>2, <1>3, <1>4

\* A call of which nothing was told gets a slot and is announced.
LEMMA StreamTrack ==
    ASSUME TypeOK, RegistryConsistent, StreamInv, stage \in Running,
           UNCHANGED <<stage, heard>>,
           NEW c \in Calls, NEW s \in Slots,
           NEW st \in {"OUTGOING", "INCOMING"},
           Quiet(mq, heard, c), Track(c, s, st), Notify(c, st),
           \A d \in Calls \ {c} : phase'[d] = phase[d],
           Alive(c)'
    PROVE  StreamInv'
<1>1. st \in EventStates /\ st \in OpenStates
  BY EventFacts
<1>2. MayFollow(mq, heard, c, st)
  BY <1>1, QuietMayFollow
<1>3. /\ Ordered(mq', heard')
      /\ \A d \in Calls \ {c} :
           /\ Quiet(mq, heard, d) => Quiet(mq', heard', d)
           /\ Unfinished(mq, heard, d) => Unfinished(mq', heard', d)
  BY <1>1, <1>2, StreamNotify
<1>4. Unfinished(mq', heard', c)
  <2>1. mq' = Enqueue(mq, c, st) /\ heard' = heard /\ mq \in Seq(Messages)
    BY DEF Notify, TypeOK
  <2> QED
    BY <1>1, <2>1, QuietIsUnfinished, EnqueueUnfinished
<1>5. \A d \in Calls : hdl'[d] = IF d = c THEN s ELSE hdl[d]
  BY DEF Track, TypeOK
<1>6. \A t \in Slots : slot'[t] = IF t = s THEN c ELSE slot[t]
  BY DEF Track, TypeOK
<1>7. ASSUME NEW d \in Calls,
             phase'[d] = "unborn" \/ (Alive(d)' /\ hdl'[d] = UA)
      PROVE  Quiet(mq', heard', d)
  <2>1. d # c
    BY <1>5, <1>7 DEF Alive, Phases
  <2>2. Quiet(mq, heard, d)
    BY <1>5, <1>7, <2>1 DEF StreamInv, Alive
  <2> QED
    BY <1>3, <2>1, <2>2
<1>8. ASSUME stage' = "up", NEW t \in Slots, slot'[t] # NoCall
      PROVE  Unfinished(mq', heard', slot'[t])
  <2>1. CASE slot'[t] = c
    BY <1>4, <2>1
  <2>2. CASE slot'[t] # c
    <3>1. slot[t] = slot'[t] /\ slot[t] \in Calls \ {c}
      BY <1>6, <1>8, <2>2 DEF TypeOK
    <3>2. Unfinished(mq, heard, slot[t])
      BY <1>8, <3>1 DEF StreamInv, TypeOK
    <3> QED
      BY <1>3, <3>1, <3>2
  <2> QED
    BY <2>1, <2>2
<1> QED
  BY <1>3, <1>7, <1>8 DEF StreamInv

\* Steps that tell nothing, give no call a slot and make no call unborn.
LEMMA StreamUntold ==
    ASSUME TypeOK, StreamInv, UNCHANGED <<mq, heard>>,
           \A d \in Calls : phase'[d] = "unborn" => phase[d] = "unborn",
           \A d \in Calls : Alive(d)' /\ hdl'[d] = UA =>
                              phase[d] = "unborn" \/ (Alive(d) /\ hdl[d] = UA),
           stage' = "up" => \A t \in Slots : slot'[t] # NoCall =>
                              stage = "up" /\ slot'[t] = slot[t]
    PROVE  StreamInv'
BY DEF StreamInv, TypeOK

\* The end of a tracked call is told in states that may follow.
LEMMA StreamEnd ==
    ASSUME TypeOK, RegistryConsistent, StreamInv, stage \in Running,
           NEW c \in Calls, NEW s \in Slots, slot[s] = c,
           Release(c), FreeSlot(s), UNCHANGED <<stage, heard>>,
           Ordered(mq', heard'),
           \A d \in Calls \ {c} :
             /\ Quiet(mq, heard, d) => Quiet(mq', heard', d)
             /\ Unfinished(mq, heard, d) => Unfinished(mq', heard', d)
    PROVE  StreamInv'
<1>1. \A d \in Calls : phase'[d] = IF d = c THEN "freed" ELSE phase[d]
  BY DEF Release, TypeOK
<1>2. \A t \in Slots : slot'[t] # NoCall => slot'[t] = slot[t] /\ slot[t] # c
  BY DEF FreeSlot, RegistryConsistent, TypeOK
<1>3. hdl' = hdl
  BY DEF Release
<1>4. \A d \in Calls : phase'[d] = "unborn" \/ (Alive(d)' /\ hdl'[d] = UA)
                         => Quiet(mq', heard', d)
  BY <1>1, <1>3 DEF StreamInv, Alive, Phases
<1>5. stage' = "up" => \A t \in Slots : slot'[t] # NoCall
                                          => Unfinished(mq', heard', slot'[t])
  BY <1>2 DEF StreamInv, TypeOK
<1> QED
  BY <1>4, <1>5 DEF StreamInv

\* omnix_call_finalize_closed keeps the stream in order.
LEMMA StreamFinalize ==
    ASSUME TypeOK, RegistryConsistent, StreamInv, stage \in Running,
           NEW c \in Calls, NEW st \in FinalStates, Finalize(c, st),
           UNCHANGED <<stage, heard>>
    PROVE  StreamInv'
<1>1. CASE hdl[c] \in Slots /\ slot[hdl[c]] = c
  <2>1. Release(c) /\ FreeSlot(hdl[c]) /\ Notify(c, st)
    BY <1>1 DEF Finalize
  <2>2. CASE stage = "up"
    <3>1. slot[hdl[c]] # NoCall
      BY <1>1
    <3>2. Unfinished(mq, heard, c)
      BY <1>1, <2>2, <3>1 DEF StreamInv
    <3>3. st \in Later /\ st \in EventStates
      BY EventFacts DEF Later
    <3>4. MayFollow(mq, heard, c, st)
      BY <3>2, <3>3, UnfinishedMayFollow
    <3> QED
      BY <1>1, <2>1, <3>3, <3>4, StreamNotify, StreamEnd
  <2>3. CASE stage # "up"
    <3>1. mq' = mq
      BY <2>1, <2>3 DEF Notify, Enqueue
    <3>2. Ordered(mq', heard')
      BY <3>1 DEF StreamInv
    <3> QED
      BY <1>1, <2>1, <3>1, <3>2, StreamEnd
  <2> QED
    BY <2>2, <2>3
<1>2. CASE ~(hdl[c] \in Slots /\ slot[hdl[c]] = c)
  <2>1. Release(c) /\ UNCHANGED <<slot, mq>>
    BY <1>2 DEF Finalize
  <2>2. \A d \in Calls : phase'[d] = IF d = c THEN "freed" ELSE phase[d]
    BY <2>1 DEF Release, TypeOK
  <2>3. hdl' = hdl
    BY <2>1 DEF Release
  <2> QED
    BY <2>1, <2>2, <2>3, StreamUntold DEF Alive, Phases
<1> QED
  BY <1>1, <1>2

\* omnix_call_handle_incoming keeps the stream in order.
LEMMA StreamHandleIncoming ==
    ASSUME TypeOK, RegistryConsistent, StreamInv, stage \in Running,
           UNCHANGED <<stage, heard>>,
           NEW c \in Calls, NEW i, HandleIncoming(c, i),
           phase[c] = "unborn" \/ Alive(c), Quiet(mq, heard, c)
    PROVE  StreamInv'
<1>1. CASE /\ \E s \in Slots : AllocSlot(c, i, s) /\ Track(c, s, "INCOMING")
           /\ phase' = [phase EXCEPT ![c] = "INCOMING"]
           /\ Notify(c, "INCOMING")
  <2>1. PICK s \in Slots : Track(c, s, "INCOMING")
    BY <1>1
  <2>2. Alive(c)' /\ \A d \in Calls \ {c} : phase'[d] = phase[d]
    BY <1>1 DEF Alive, Phases, TypeOK
  <2> QED
    BY <1>1, <2>1, <2>2, StreamTrack
<1>2. CASE /\ NoSlotFor(c, i)
           /\ phase' = [phase EXCEPT ![c] = "TERMINATED"]
           /\ UNCHANGED <<hdl, slot, mq>>
  <2>1. \A d \in Calls \ {c} : phase'[d] = phase[d]
    BY <1>2 DEF TypeOK
  <2>2. phase'[c] = "TERMINATED"
    BY <1>2 DEF TypeOK
  <2>3. \A d \in Calls : phase'[d] = "unborn" \/ (Alive(d)' /\ hdl'[d] = UA)
                           => Quiet(mq', heard', d)
    BY <1>2, <2>1, <2>2 DEF StreamInv, Alive, Phases
  <2> QED
    BY <1>2, <2>3 DEF StreamInv
<1> QED
  BY <1>1, <1>2 DEF HandleIncoming

\* A call keeps the UA's handler until it gets a slot, and a call whose
\* candidates are being gathered got none.
HandlerInv ==
    \A c \in Calls : \/ phase[c] = "unborn"
                     \/ sess[c] = "gathering" /\ phase[c] = "INCOMING"
                     => hdl[c] = UA

\* Every step keeps the UA handler with calls that have no slot.
LEMMA HandlerStep == TypeOK /\ HandlerInv /\ [Next]_vars => HandlerInv'
<1> SUFFICES ASSUME TypeOK, HandlerInv, [Next]_vars PROVE HandlerInv'
  OBVIOUS
<1>1. ASSUME NEW c \in Calls, NEW i, HandleIncoming(c, i) PROVE HandlerInv'
  <2>1. \A d \in Calls \ {c} : /\ phase'[d] = phase[d] /\ sess'[d] = sess[d]
                               /\ hdl'[d] = hdl[d]
    BY <1>1 DEF HandleIncoming, Track, TypeOK
  <2>2. phase'[c] # "unborn" /\ sess'[c] # "gathering"
    BY <1>1 DEF HandleIncoming, TypeOK
  <2> QED
    BY <2>1, <2>2 DEF HandlerInv
<1>2. ASSUME NEW c \in Calls, Release(c) PROVE HandlerInv'
  <2>1. \A d \in Calls : phase'[d] = (IF d = c THEN "freed" ELSE phase[d])
                         /\ (d # c => sess'[d] = sess[d])
    BY <1>2 DEF Release, TypeOK
  <2>2. hdl' = hdl
    BY <1>2 DEF Release
  <2> QED
    BY <2>1, <2>2 DEF HandlerInv
<1>3. ASSUME NEW c \in Calls, NEW i \in Ids, MakeCall(c, i) PROVE HandlerInv'
  <2>1. PICK s \in Slots : Track(c, s, "OUTGOING")
    BY <1>3 DEF MakeCall
  <2>2. \A d \in Calls \ {c} : /\ phase'[d] = phase[d] /\ sess'[d] = sess[d]
                               /\ hdl'[d] = hdl[d]
    BY <1>3, <2>1 DEF MakeCall, Track, TypeOK
  <2>3. phase'[c] = "OUTGOING"
    BY <1>3 DEF MakeCall, TypeOK
  <2> QED
    BY <2>2, <2>3 DEF HandlerInv
<1>4. ASSUME NEW c \in Calls, NEW i \in Ids, MakeCallRefused(c, i)
      PROVE  HandlerInv'
  BY <1>4 DEF MakeCallRefused, HandlerInv, TypeOK
<1>5. ASSUME NEW c \in Calls, NEW i \in Ids, Arrive(c, i) PROVE HandlerInv'
  BY <1>1, <1>5 DEF Arrive, HandlerInv, TypeOK
<1>6. ASSUME NEW c \in Calls, MnatDone(c) PROVE HandlerInv'
  <2>1. CASE HandleIncoming(c, idOf[c])
    BY <1>1, <2>1
  <2>2. CASE /\ \E out \in {"up", "none"} : sess' = [sess EXCEPT ![c] = out]
             /\ UNCHANGED <<phase, hdl>>
    BY <2>2 DEF HandlerInv, TypeOK
  <2> QED
    BY <1>6, <2>1, <2>2 DEF MnatDone
<1>7. ASSUME NEW c \in Calls, MnatFail(c) \/ Closed(c) PROVE HandlerInv'
  BY <1>2, <1>7 DEF MnatFail, Closed, Finalize
<1>8. ASSUME NEW c \in Calls, Progress(c) \/ Establish(c) PROVE HandlerInv'
  <2>1. PICK ph \in {"RINGING", "EARLY", "ESTABLISHED"} :
          phase' = [phase EXCEPT ![c] = ph]
    BY <1>8 DEF Progress, Establish
  <2>2. UNCHANGED <<sess, hdl>>
    BY <1>8 DEF Progress, Establish
  <2> QED
    BY <2>1, <2>2 DEF HandlerInv, TypeOK
<1>9. ASSUME NEW i \in Ids, Answer(i) PROVE HandlerInv'
  <2>1. UNCHANGED <<phase, hdl>>
    BY <1>9 DEF Answer
  <2>2. PICK s \in Slots : /\ Found(i, s)
                           /\ sess' = [sess EXCEPT ![slot[s]] = "answered"]
    BY <1>9 DEF Answer
  <2>3. slot[s] \in Calls
    BY <2>2 DEF Found, TypeOK
  <2> QED
    BY <2>1, <2>2, <2>3 DEF HandlerInv, TypeOK
<1>10. ASSUME NEW i \in Ids, Reject(i) \/ Hangup(i) PROVE HandlerInv'
  <2>1. PICK s \in Slots : Found(i, s) /\ Release(slot[s])
    BY <1>10 DEF Reject, Hangup, Finalize
  <2>2. slot[s] \in Calls
    BY <2>1 DEF Found, TypeOK
  <2> QED
    BY <1>2, <2>1, <2>2
<1>11. ASSUME NEW i \in Ids, Hold(i) \/ Resume(i) \/ ForceConnected(i)
       PROVE  HandlerInv'
  BY <1>11 DEF Hold, Resume, ForceConnected, callVars, HandlerInv
<1>12. CASE HandleShutdown \/ Finish
  BY <1>12 DEF HandleShutdown, Finish, HandlerInv, TypeOK
<1>13. CASE Deliver \/ BeginShutdown \/ ResetRegistry
  BY <1>13 DEF Deliver, BeginShutdown, ResetRegistry, callVars, HandlerInv
<1>14. CASE PostShutdown \/ Reinit \/ UNCHANGED vars
  BY <1>14 DEF PostShutdown, Reinit, vars, callVars, HandlerInv
<1> QED
  BY <1>3, <1>4, <1>5, <1>6, <1>7, <1>8, <1>9, <1>10, <1>11, <1>12, <1>13,
     <1>14
  DEF Next, CallSetup, CallEvent, CallApi, QueueHandler, ShutdownStep

\* Every step keeps the queue and what was heard in order.
LEMMA StreamStep ==
    TypeOK /\ RegistryConsistent /\ HandlerInv /\ StreamInv /\ [Next]_vars
        => StreamInv'
<1> SUFFICES ASSUME TypeOK, RegistryConsistent, HandlerInv, StreamInv,
                    [Next]_vars
             PROVE  StreamInv'
  OBVIOUS
<1>1. ASSUME NEW c \in Calls, NEW i \in Ids, MakeCall(c, i) PROVE StreamInv'
  <2>1. PICK s \in Slots : Track(c, s, "OUTGOING")
    BY <1>1 DEF MakeCall
  <2>2. /\ stage \in Running /\ UNCHANGED <<stage, heard>>
        /\ Quiet(mq, heard, c) /\ Notify(c, "OUTGOING")
    BY <1>1 DEF MakeCall, HasUa, Running, StreamInv
  <2>3. Alive(c)' /\ \A d \in Calls \ {c} : phase'[d] = phase[d]
    BY <1>1 DEF MakeCall, Alive, Phases, TypeOK
  <2> QED
    BY <2>1, <2>2, <2>3, StreamTrack
<1>2. ASSUME NEW c \in Calls, NEW i \in Ids, MakeCallRefused(c, i)
      PROVE  StreamInv'
  <2>1. /\ UNCHANGED <<mq, heard, hdl, slot, stage>>
        /\ phase[c] = "unborn" /\ phase'[c] = "TERMINATED"
        /\ \A d \in Calls \ {c} : phase'[d] = phase[d]
    BY <1>2 DEF MakeCallRefused, TypeOK
  <2> QED
    BY <2>1, StreamUntold DEF Alive
<1>3. ASSUME NEW c \in Calls, NEW i \in Ids, Arrive(c, i) PROVE StreamInv'
  <2>1. /\ stage \in Running /\ phase[c] = "unborn"
        /\ UNCHANGED <<stage, heard>> /\ Quiet(mq, heard, c)
    BY <1>3 DEF Arrive, StreamInv
  <2>2. CASE Stun
    <3>1. /\ UNCHANGED <<mq, hdl, slot>> /\ phase'[c] = "INCOMING"
          /\ \A d \in Calls \ {c} : phase'[d] = phase[d]
      BY <1>3, <2>2 DEF Arrive, TypeOK
    <3> QED
      BY <2>1, <3>1, StreamUntold DEF Alive
  <2>3. CASE ~Stun
    <3>1. HandleIncoming(c, i)
      BY <1>3, <2>3 DEF Arrive
    <3> QED
      BY <2>1, <3>1, StreamHandleIncoming
  <2> QED
    BY <2>2, <2>3
<1>4. ASSUME NEW c \in Calls, MnatDone(c) PROVE StreamInv'
  <2>1. stage \in Running /\ UNCHANGED <<stage, heard>>
    BY <1>4 DEF MnatDone
  <2>2. CASE phase[c] = "INCOMING" /\ HandleIncoming(c, idOf[c])
    <3>1. Alive(c)
      BY <2>2 DEF Alive, Phases
    <3>2. Quiet(mq, heard, c)
      BY <1>4, <2>2, <3>1 DEF MnatDone, HandlerInv, StreamInv
    <3> QED
      BY <2>1, <2>2, <3>1, <3>2, StreamHandleIncoming
  <2>3. CASE UNCHANGED <<phase, hdl, slot, mq>>
    BY <2>1, <2>3, StreamUntold DEF Alive
  <2> QED
    BY <1>4, <2>2, <2>3 DEF MnatDone
<1>5. ASSUME NEW c \in Calls, MnatFail(c) \/ Closed(c) PROVE StreamInv'
  BY <1>5, StreamFinalize DEF MnatFail, Closed
<1>6. ASSUME NEW c \in Calls, Progress(c) \/ Establish(c) PROVE StreamInv'
  <2>1. PICK ph \in Phases : phase' = [phase EXCEPT ![c] = ph]
    BY <1>6 DEF Progress, Establish, Phases
  <2>2. UNCHANGED <<mq, heard, hdl, slot, stage>> /\ Alive(c)
    BY <1>6 DEF Progress, Establish, Alive, Phases
  <2>3. \A d \in Calls : /\ phase'[d] = "unborn" => phase[d] = "unborn"
                         /\ Alive(d)' => Alive(d)
    BY <2>1, <2>2 DEF Alive, Phases, TypeOK
  <2> QED
    BY <2>2, <2>3, StreamUntold
<1>7. ASSUME NEW i \in Ids, Answer(i) \/ ForceConnected(i) PROVE StreamInv'
  <2>1. UNCHANGED <<phase, mq, heard, hdl, slot, stage>>
    BY <1>7 DEF Answer, ForceConnected, callVars
  <2> QED
    BY <2>1, StreamUntold DEF Alive
<1>8. ASSUME NEW i \in Ids, Reject(i) PROVE StreamInv'
  <2>1. PICK s \in Slots : Found(i, s) /\ Finalize(slot[s], "FAILED")
    BY <1>8 DEF Reject
  <2>2. slot[s] \in Calls /\ "FAILED" \in FinalStates
    BY <2>1, EventFacts DEF Found, TypeOK
  <2> QED
    BY <1>8, <2>1, <2>2, StreamFinalize DEF Reject
<1>9. ASSUME NEW i \in Ids, Hangup(i) PROVE StreamInv'
  <2>1. PICK s \in Slots :
          /\ Found(i, s) /\ Release(slot[s]) /\ FreeSlot(s)
          /\ mq' = Enqueue(Enqueue(mq, slot[s], "ENDING"), slot[s], "ENDED")
    BY <1>9 DEF Hangup
  <2>2. stage \in Running /\ UNCHANGED <<stage, heard>>
    BY <1>9 DEF Hangup
  <2>3. slot[s] \in Calls /\ slot[s] # NoCall
    BY <2>1 DEF Found, TypeOK
  <2> DEFINE c == slot[s]
             q == Enqueue(mq, c, "ENDING")
  <2>4. mq \in Seq(Messages) /\ q \in Seq(Messages)
    BY <2>3, EnqueueType, EventFacts DEF TypeOK
  <2>5. /\ Ordered(mq', heard')
        /\ \A d \in Calls \ {c} :
             /\ Quiet(mq, heard, d) => Quiet(mq', heard', d)
             /\ Unfinished(mq, heard, d) => Unfinished(mq', heard', d)
    <3>1. CASE stage = "up"
      <4>1. Unfinished(mq, heard, c)
        BY <2>3, <3>1 DEF StreamInv
      <4>2. /\ MayFollow(mq, heard, c, "ENDING")
            /\ MayFollow(mq, heard, c, "ENDED")
        BY <2>3, <4>1, UnfinishedMayFollow DEF Later
      <4>3. Ordered(q, heard)
        BY <2>3, <2>4, <4>2, EnqueueOrdered, EventFacts DEF StreamInv
      <4>4. MayFollow(q, heard, c, "ENDED")
        <5>1. \A k \in 1..Len(q) : \/ k \in 1..Len(mq) /\ q[k] = mq[k]
                                   \/ q[k] = [call |-> c, st |-> "ENDING"]
          BY <2>3, <2>4, EnqueueElements, EventFacts
        <5>2. "ENDED" \in Stream!After("ENDING")
          BY AfterFacts, EventFacts
        <5> HIDE DEF q
        <5> QED
          BY <4>2, <5>1, <5>2 DEF MayFollow
      <4>5. Ordered(mq', heard')
        BY <2>1, <2>2, <2>3, <2>4, <4>3, <4>4, EnqueueOrdered, EventFacts
      <4>6. \A d \in Calls \ {c} :
              /\ Quiet(mq, heard, d) => Quiet(q, heard, d)
              /\ Unfinished(mq, heard, d) => Unfinished(q, heard, d)
        BY <2>3, <2>4, EnqueueOthers, EventFacts
      <4>7. \A d \in Calls \ {c} :
              /\ Quiet(q, heard, d) => Quiet(mq', heard', d)
              /\ Unfinished(q, heard, d) => Unfinished(mq', heard', d)
        BY <2>1, <2>2, <2>3, <2>4, EnqueueOthers, EventFacts
      <4> QED
        BY <4>5, <4>6, <4>7
    <3>2. CASE stage # "up"
      <4>1. mq' = mq
        BY <2>1, <3>2 DEF Enqueue
      <4> QED
        BY <2>2, <4>1 DEF StreamInv
    <3> QED
      BY <3>1, <3>2
  <2> QED
    BY <2>1, <2>2, <2>3, <2>5, StreamEnd
<1>10. ASSUME NEW i \in Ids, Hold(i) \/ Resume(i) PROVE StreamInv'
  <2>1. PICK s \in Slots, st \in {"HELD", "CONNECTED"} :
          Found(i, s) /\ Notify(slot[s], st)
    BY <1>10 DEF Hold, Resume
  <2>2. UNCHANGED <<phase, hdl, slot, stage, heard>>
    BY <1>10 DEF Hold, Resume
  <2>3. slot[s] \in Calls /\ slot[s] # NoCall
    BY <2>1 DEF Found, TypeOK
  <2>4. st \in EventStates /\ st \in OpenStates /\ st \in Later
    BY EventFacts DEF Later
  <2>5. CASE stage = "up"
    <3>1. Unfinished(mq, heard, slot[s])
      BY <2>3, <2>5 DEF StreamInv
    <3>2. MayFollow(mq, heard, slot[s], st)
      BY <2>3, <2>4, <3>1, UnfinishedMayFollow
    <3>3. /\ Ordered(mq', heard')
          /\ \A d \in Calls \ {slot[s]} :
               /\ Quiet(mq, heard, d) => Quiet(mq', heard', d)
               /\ Unfinished(mq, heard, d) => Unfinished(mq', heard', d)
      BY <2>1, <2>2, <2>3, <2>4, <3>2, StreamNotify
    <3>4. Unfinished(mq', heard', slot[s])
      BY <2>1, <2>2, <2>3, <2>4, <3>1, EnqueueUnfinished DEF Notify, TypeOK
    <3>5. ~Quiet(mq, heard, slot[s]) \/ ~(phase[slot[s]] = "unborn" \/
                                         (Alive(slot[s]) /\ hdl[slot[s]] = UA))
      BY <1>10, <2>1, <2>3 DEF RegistryConsistent, Hold, Resume, Alive, Phases
    <3>6. \A d \in Calls : phase[d] = "unborn" \/ (Alive(d) /\ hdl[d] = UA)
                             => Quiet(mq', heard', d)
      BY <3>3, <3>5 DEF StreamInv
    <3>7. \A t \in Slots : slot[t] # NoCall => Unfinished(mq', heard', slot[t])
      BY <2>5, <3>3, <3>4 DEF StreamInv, TypeOK
    <3> QED
      BY <2>2, <3>3, <3>6, <3>7 DEF StreamInv, Alive
  <2>6. CASE stage # "up"
    <3>1. mq' = mq
      BY <2>1, <2>6 DEF Notify, Enqueue
    <3> QED
      BY <2>2, <3>1, StreamUntold DEF Alive
  <2> QED
    BY <2>5, <2>6
<1>11. CASE Deliver
  <2>1. mq \in Seq(Messages) /\ mq # <<>> /\ Head(mq) \in Messages
    BY <1>11 DEF Deliver, TypeOK
  <2>2. Head(mq).call \in Calls
    BY <1>11, <2>1 DEF Deliver, Messages
  <2> DEFINE c == Head(mq).call
  <2>3. /\ heard' = [heard EXCEPT ![c] = Head(mq).st] /\ mq' = Tail(mq)
        /\ UNCHANGED <<phase, hdl, slot, stage>>
    BY <1>11 DEF Deliver, callVars
  <2>4. Ordered(mq', heard')
    BY <2>1, <2>2, <2>3, DeliverOrdered DEF StreamInv, TypeOK
  <2>5. /\ Head(mq) = mq[1] /\ 1 \in 1..Len(mq)
        /\ \A k \in 1..Len(mq') : k + 1 \in 1..Len(mq) /\ mq'[k] = mq[k + 1]
    BY <2>1, <2>3
  <2>6. \A d \in Calls : Quiet(mq, heard, d) => Quiet(mq', heard', d)
    BY <2>2, <2>3, <2>5 DEF Quiet, TypeOK
  <2>7. \A d \in Calls : Unfinished(mq, heard, d) => Unfinished(mq', heard', d)
    BY <2>2, <2>3, <2>5 DEF Unfinished, TypeOK
  <2> QED
    BY <2>3, <2>4, <2>6, <2>7 DEF StreamInv, Alive, TypeOK
<1>12. CASE HandleShutdown \/ Finish
  <2>1. /\ UNCHANGED <<heard, hdl, slot>> /\ stage' # "up"
        /\ \A d \in Calls : phase'[d] = IF Alive(d) THEN "freed" ELSE phase[d]
    BY <1>12 DEF HandleShutdown, Finish
  <2>2. mq \in Seq(Messages)
    BY DEF TypeOK
  <2>3. /\ Ordered(mq', heard')
        /\ \A d \in Calls : Quiet(mq, heard, d) => Quiet(mq', heard', d)
    <3>1. CASE HandleShutdown
      BY <2>1, <2>2, <3>1, DropFirst DEF HandleShutdown, StreamInv
    <3>2. CASE Finish
      <4>1. Len(mq') = 0
        BY <3>2 DEF Finish
      <4> QED
        BY <2>1, <4>1 DEF Ordered, Quiet
    <3> QED
      BY <1>12, <3>1, <3>2
  <2>4. \A d \in Calls : phase'[d] = "unborn" \/ (Alive(d)' /\ hdl'[d] = UA)
                           => phase[d] = "unborn"
    BY <2>1 DEF Alive, Phases
  <2> QED
    BY <2>1, <2>3, <2>4 DEF StreamInv
<1>13. CASE BeginShutdown \/ ResetRegistry
  BY <1>13 DEF BeginShutdown, ResetRegistry, StreamInv, callVars, Alive
<1>14. CASE PostShutdown
  <2>1. UNCHANGED <<phase, hdl, slot, heard>> /\ stage' # "up"
    BY <1>14 DEF PostShutdown, callVars
  <2>2. mq' = mq \/ mq' = Append(mq, NoMsg)
    BY <1>14 DEF PostShutdown
  <2>3. mq \in Seq(Messages) /\ NoMsg.call \notin Calls
    BY DEF TypeOK, NoMsg
  <2>4. \A k \in 1..Len(mq') : \/ k \in 1..Len(mq) /\ mq'[k] = mq[k]
                               \/ mq'[k].call \notin Calls
    BY <2>2, <2>3 DEF NoMsg
  <2>5. Ordered(mq', heard')
    BY <2>1, <2>4 DEF Ordered, StreamInv
  <2>6. \A d \in Calls : Quiet(mq, heard, d) => Quiet(mq', heard', d)
    BY <2>1, <2>4 DEF Quiet
  <2> QED
    BY <2>1, <2>5, <2>6 DEF StreamInv, Alive
<1>15. CASE Reinit
  BY <1>15 DEF Reinit, StreamInv, callVars, Alive
<1>16. CASE UNCHANGED vars
  BY <1>16 DEF vars, StreamInv, Alive
<1> QED
  BY <1>1, <1>2, <1>3, <1>4, <1>5, <1>6, <1>7, <1>8, <1>9, <1>10, <1>11,
     <1>12, <1>13, <1>14, <1>15, <1>16
  DEF Next, CallSetup, CallEvent, CallApi, QueueHandler, ShutdownStep

\* The three invariants hold initially.
LEMMA StreamInit == Init => RegistryConsistent /\ HandlerInv /\ StreamInv
<1> SUFFICES ASSUME Init PROVE RegistryConsistent /\ HandlerInv /\ StreamInv
  OBVIOUS
<1>1. RegistryConsistent /\ HandlerInv
  BY DEF Init, RegistryConsistent, HandlerInv
<1>2. StreamInv
  BY DEF Init, StreamInv, Ordered, Quiet, Alive
<1> QED
  BY <1>1, <1>2

\* Only a delivery changes what was heard, and by a state that may follow.
LEMMA StreamRefines == TypeOK /\ StreamInv /\ [Next]_vars => [Stream!Next]_heard
<1> SUFFICES ASSUME TypeOK, StreamInv, [Next]_vars PROVE [Stream!Next]_heard
  OBVIOUS
<1>1. CASE Deliver
  <2>1. mq \in Seq(Messages) /\ mq # <<>> /\ Head(mq) \in Messages
    BY <1>1 DEF Deliver, TypeOK
  <2>2. Head(mq).call \in Calls
    BY <1>1, <2>1 DEF Deliver, Messages
  <2>3. Head(mq).st \in Stream!After(heard[Head(mq).call])
    BY <2>1, <2>2, DeliverOrdered DEF StreamInv, TypeOK
  <2>4. heard' = [heard EXCEPT ![Head(mq).call] = Head(mq).st]
    BY <1>1 DEF Deliver
  <2> QED
    BY <2>2, <2>3, <2>4 DEF Stream!Next, Stream!Hear
<1>2. CASE ~Deliver
  <2>1. heard' = heard
    BY <1>2 DEF Next, CallSetup, CallEvent, CallApi, QueueHandler, ShutdownStep,
         MakeCall, MakeCallRefused, Arrive, MnatDone, MnatFail, Progress,
         Establish, Closed, Answer, Reject, Hangup, Hold, Resume,
         ForceConnected, HandleShutdown, BeginShutdown, ResetRegistry,
         PostShutdown, Finish, Reinit, vars
  <2> QED
    BY <2>1
<1> QED
  BY <1>1, <1>2

\* OmnixCall implements CallStream: whatever the calls, the operations, lost
\* notifications, a full registry and a shutdown do, what on_call_event is
\* told of each call is an announcement first and nothing after the end
\* (omnix_call.c:426-446, 549-570, 655-660, 739-779; omnix_events.c:400-428).
THEOREM CallStreamImplemented == Spec => ImplementsCallStream
<1>1. Init => Stream!Init
  BY DEF Init, Stream!Init
<1>2. QED
  BY <1>1, TypeInit, TypeStep, RegistryStep, HandlerStep, StreamInit,
     StreamStep, StreamRefines, PTL
  DEF Spec, ImplementsCallStream, Stream!Spec
=============================================================================
