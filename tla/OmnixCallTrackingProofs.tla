----------------------- MODULE OmnixCallTrackingProofs -----------------------
(***************************************************************************)
(* What the registry owes the application, proved for every instance of    *)
(* OmnixCall: live calls stay reachable, an entry is free for every call   *)
(* baresip admits, the end of a call is told, and the state an entry       *)
(* reports is the one that was told last.                                  *)
(***************************************************************************)
EXTENDS OmnixCallProofs, FiniteSetTheorems

USE SlotAssumption, AdmitAssumption, QueueAssumption, FlagAssumption,
    NameAssumption, HandlerAssumption

-----------------------------------------------------------------------------
(* Live calls are tracked.                                                 *)

\* Sessions the registry does not know of: refused, or still gathering.
Exempt(c) == \/ ~Alive(c) \/ phase[c] = "TERMINATED"
             \/ phase[c] = "INCOMING" /\ sess[c] = "gathering"

\* LiveCallsAreTracked, with what makes it hold again after a new omnix_init:
\* nothing is alive once the SDK is down.
LiveInv ==
    /\ stage \in {"up", "flagged"} => \A c \in Calls : Exempt(c) \/ Tracked(c)
    /\ stage = "down" => \A c \in Calls : ~Alive(c)

\* An entry given to one call is not taken from another.
LEMMA TrackOthers ==
    ASSUME TypeOK, NEW c \in Calls, NEW i, NEW s \in Slots, NEW st,
           AllocSlot(c, i, s), Track(c, s, st)
    PROVE  /\ Tracked(c)'
           /\ \A d \in Calls : Tracked(d) => Tracked(d)'
<1>1. \A t \in Slots : slot'[t] = IF t = s THEN c ELSE slot[t]
  BY DEF Track, TypeOK
<1>2. slot[s] = c \/ slot[s] = NoCall
  BY DEF AllocSlot
<1>3. Tracked(c)'
  BY <1>1 DEF Tracked
<1> QED
  BY <1>1, <1>2, <1>3 DEF Tracked

\* omnix_free_call_slot of a call's own entry forgets no other call.
LEMMA FinalizeOthers ==
    ASSUME TypeOK, NEW c \in Calls, NEW st, Finalize(c, st)
    PROVE  \A d \in Calls \ {c} : Tracked(d) => Tracked(d)'
<1>1. CASE hdl[c] \in Slots /\ slot[hdl[c]] = c
  <2>1. slot' = [slot EXCEPT ![hdl[c]] = NoCall]
    BY <1>1 DEF Finalize, FreeSlot
  <2>2. \A t \in Slots : slot[t] # c => slot'[t] = slot[t]
    BY <1>1, <2>1 DEF TypeOK
  <2> QED
    BY <2>2 DEF Tracked
<1>2. CASE ~(hdl[c] \in Slots /\ slot[hdl[c]] = c)
  BY <1>2 DEF Finalize, Tracked
<1> QED
  BY <1>1, <1>2

\* A step about one call that leaves the others alone keeps LiveInv, if that
\* call ends up tracked or exempt.
LEMMA LiveKept ==
    ASSUME LiveInv, NEW c \in Calls, UNCHANGED stage, stage \in Running,
           \A d \in Calls \ {c} : /\ phase'[d] = phase[d] /\ sess'[d] = sess[d]
                                  /\ Tracked(d) => Tracked(d)',
           Exempt(c)' \/ Tracked(c)'
    PROVE  LiveInv'
<1>1. \A d \in Calls \ {c} : Exempt(d) => Exempt(d)'
  BY DEF Exempt, Alive
<1> QED
  BY <1>1 DEF LiveInv, Running

\* The end of a call.
LEMMA LiveFinalize ==
    ASSUME TypeOK, LiveInv, NEW c \in Calls, NEW st, Finalize(c, st),
           UNCHANGED stage, stage \in Running
    PROVE  LiveInv'
<1>1. phase' = [phase EXCEPT ![c] = "freed"] /\ sess' = [sess EXCEPT ![c] = "none"]
  BY DEF Finalize, Release
<1>2. Exempt(c)'
  BY <1>1 DEF Exempt, Alive, Phases, TypeOK
<1>3. \A d \in Calls \ {c} : phase'[d] = phase[d] /\ sess'[d] = sess[d]
  BY <1>1 DEF TypeOK
<1> QED
  BY <1>2, <1>3, FinalizeOthers, LiveKept

\* A new incoming call is tracked, or hung up.
LEMMA LiveIncoming ==
    ASSUME TypeOK, LiveInv, NEW c \in Calls, NEW i, HandleIncoming(c, i),
           UNCHANGED stage, stage \in Running
    PROVE  LiveInv'
<1>1. \A d \in Calls \ {c} : phase'[d] = phase[d] /\ sess'[d] = sess[d]
  BY DEF HandleIncoming, TypeOK
<1>2. CASE \E s \in Slots : AllocSlot(c, i, s) /\ Track(c, s, "INCOMING")
  BY <1>1, <1>2, TrackOthers, LiveKept
<1>3. CASE /\ phase' = [phase EXCEPT ![c] = "TERMINATED"]
           /\ UNCHANGED slot
  <2>1. Exempt(c)'
    BY <1>3 DEF Exempt, TypeOK
  <2> QED
    BY <1>1, <1>3, <2>1, LiveKept DEF Tracked
<1> QED
  BY <1>2, <1>3 DEF HandleIncoming

\* Every step keeps LiveInv.
LEMMA LiveStep == TypeOK /\ LiveInv /\ [Next]_vars => LiveInv'
<1> SUFFICES ASSUME TypeOK, LiveInv, [Next]_vars PROVE LiveInv'
  OBVIOUS
<1>1. ASSUME NEW c \in Calls, NEW i \in Ids, MakeCall(c, i) PROVE LiveInv'
  <2>1. PICK s \in Slots : AllocSlot(c, i, s) /\ Track(c, s, "OUTGOING")
    BY <1>1 DEF MakeCall
  <2>2. \A d \in Calls \ {c} : phase'[d] = phase[d] /\ sess'[d] = sess[d]
    BY <1>1 DEF MakeCall, TypeOK
  <2>3. UNCHANGED stage /\ stage \in Running
    BY <1>1 DEF MakeCall, HasUa, Running
  <2> QED
    BY <2>1, <2>2, <2>3, TrackOthers, LiveKept
<1>2. ASSUME NEW c \in Calls, NEW i \in Ids, MakeCallRefused(c, i) PROVE LiveInv'
  <2>1. \A d \in Calls \ {c} : phase'[d] = phase[d] /\ sess'[d] = sess[d]
    BY <1>2 DEF MakeCallRefused, TypeOK
  <2>2. UNCHANGED <<stage, slot>> /\ stage \in Running
    BY <1>2 DEF MakeCallRefused, HasUa, Running
  <2>3. Exempt(c)'
    BY <1>2 DEF MakeCallRefused, Exempt, TypeOK
  <2> QED
    BY <2>1, <2>2, <2>3, LiveKept DEF Tracked
<1>3. ASSUME NEW c \in Calls, NEW i \in Ids, Arrive(c, i) PROVE LiveInv'
  <2>1. UNCHANGED stage /\ stage \in Running
    BY <1>3 DEF Arrive
  <2>2. CASE Stun
    <3>1. /\ phase' = [phase EXCEPT ![c] = "INCOMING"]
          /\ sess'  = [sess EXCEPT ![c] = "gathering"]
          /\ UNCHANGED slot
      BY <1>3, <2>2 DEF Arrive
    <3>2. Exempt(c)'
      BY <3>1 DEF Exempt, TypeOK
    <3>3. \A d \in Calls \ {c} : phase'[d] = phase[d] /\ sess'[d] = sess[d]
      BY <3>1 DEF TypeOK
    <3> QED
      BY <2>1, <3>1, <3>2, <3>3, LiveKept DEF Tracked
  <2>3. CASE ~Stun
    BY <1>3, <2>1, <2>3, LiveIncoming DEF Arrive
  <2> QED
    BY <2>2, <2>3
<1>4. ASSUME NEW c \in Calls, MnatDone(c) PROVE LiveInv'
  <2>1. UNCHANGED stage /\ stage \in Running
    BY <1>4 DEF MnatDone
  <2>2. CASE HandleIncoming(c, idOf[c])
    BY <2>1, <2>2, LiveIncoming
  <2>3. CASE /\ phase[c] \in {"OUTGOING", "TERMINATED"}
             /\ \E out \in {"up", "none"} : sess' = [sess EXCEPT ![c] = out]
             /\ UNCHANGED <<phase, slot>>
    <3>1. stage \in {"up", "flagged"} => Exempt(c)' \/ Tracked(c)'
      BY <2>3 DEF LiveInv, Exempt, Tracked, Alive
    <3>2. \A d \in Calls \ {c} : phase'[d] = phase[d] /\ sess'[d] = sess[d]
      BY <2>3 DEF TypeOK
    <3> QED
      BY <2>1, <2>3, <3>1, <3>2 DEF LiveInv, Exempt, Tracked, Alive, Running
  <2> QED
    BY <1>4, <2>2, <2>3 DEF MnatDone
<1>5. ASSUME NEW c \in Calls, MnatFail(c) \/ Closed(c) PROVE LiveInv'
  BY <1>5, LiveFinalize DEF MnatFail, Closed
<1>6. ASSUME NEW c \in Calls, Progress(c) \/ Establish(c) PROVE LiveInv'
  <2>1. /\ UNCHANGED <<stage, sess, slot>> /\ stage \in Running
        /\ Alive(c) /\ phase[c] # "TERMINATED" /\ sess[c] # "gathering"
    BY <1>6 DEF Progress, Establish, Alive, Phases
  <2>2. \E ph \in Phases : phase' = [phase EXCEPT ![c] = ph]
    BY <1>6 DEF Progress, Establish, Phases
  <2>3. \A d \in Calls \ {c} : phase'[d] = phase[d]
    BY <2>2 DEF TypeOK
  <2>4. stage \in {"up", "flagged"} => Tracked(c)
    BY <2>1 DEF LiveInv, Exempt
  <2> QED
    BY <2>1, <2>3, <2>4 DEF LiveInv, Exempt, Tracked, Alive, Running
<1>7. ASSUME NEW i \in Ids, Answer(i) PROVE LiveInv'
  <2>1. PICK s \in Slots :
          Found(i, s) /\ sess' = [sess EXCEPT ![slot[s]] = "answered"]
    BY <1>7 DEF Answer
  <2>2. UNCHANGED <<stage, slot, phase>> /\ stage \in Running
    BY <1>7 DEF Answer
  <2>3. slot[s] \in Calls /\ Tracked(slot[s])'
    BY <2>1, <2>2 DEF Found, Tracked, TypeOK
  <2>4. \A d \in Calls \ {slot[s]} : sess'[d] = sess[d]
    BY <2>1, <2>3 DEF TypeOK
  <2> QED
    BY <2>2, <2>3, <2>4, LiveKept DEF Tracked
<1>8. ASSUME NEW i \in Ids, Reject(i) PROVE LiveInv'
  <2>1. PICK s \in Slots : Found(i, s) /\ Finalize(slot[s], "FAILED")
    BY <1>8 DEF Reject
  <2>2. slot[s] \in Calls
    BY <2>1 DEF Found, TypeOK
  <2> QED
    BY <1>8, <2>1, <2>2, LiveFinalize DEF Reject
<1>9. ASSUME NEW i \in Ids, Hangup(i) PROVE LiveInv'
  <2>1. PICK s \in Slots : Found(i, s) /\ Release(slot[s]) /\ FreeSlot(s)
    BY <1>9 DEF Hangup
  <2>2. PICK c \in Calls : c = slot[s]
    BY <2>1 DEF Found, TypeOK
  <2>3. \A d \in Calls \ {c} : /\ phase'[d] = phase[d] /\ sess'[d] = sess[d]
                               /\ Tracked(d) => Tracked(d)'
    BY <2>1, <2>2 DEF Release, FreeSlot, Tracked, TypeOK
  <2>4. Exempt(c)'
    BY <2>1, <2>2 DEF Release, Exempt, Alive, Phases, TypeOK
  <2>5. UNCHANGED stage /\ stage \in Running
    BY <1>9 DEF Hangup
  <2> QED
    BY <2>3, <2>4, <2>5, LiveKept
<1>10. ASSUME NEW i \in Ids, Hold(i) \/ Resume(i) \/ ForceConnected(i) PROVE LiveInv'
  BY <1>10 DEF Hold, Resume, ForceConnected, callVars, LiveInv, Exempt, Alive, Tracked
<1>11. CASE HandleShutdown \/ Finish
  <2>1. /\ stage' \in {"halted", "down"}
        /\ \A c \in Calls : phase'[c] = IF Alive(c) THEN "freed" ELSE phase[c]
    BY <1>11 DEF HandleShutdown, Finish
  <2>2. \A c \in Calls : ~Alive(c)'
    BY <2>1 DEF Alive, Phases
  <2> QED
    BY <2>1, <2>2 DEF LiveInv
<1>12. CASE Deliver \/ BeginShutdown \/ UNCHANGED vars
  BY <1>12 DEF Deliver, BeginShutdown, vars, callVars, LiveInv, Exempt, Alive, Tracked
<1>13. CASE ResetRegistry \/ PostShutdown
  BY <1>13 DEF ResetRegistry, PostShutdown, LiveInv
<1>14. CASE Reinit
  BY <1>14 DEF Reinit, callVars, LiveInv, Exempt, Alive
<1> QED
  BY <1>1, <1>2, <1>3, <1>4, <1>5, <1>6, <1>7, <1>8, <1>9, <1>10, <1>11,
     <1>12, <1>13, <1>14
  DEF Next, CallSetup, CallEvent, CallApi, QueueHandler, ShutdownStep

\* No session is alive that the application cannot reach by its id, except
\* one that was hung up or is not announced yet: for any number of calls,
\* entries and ids (omnix_call.c:549-570, 622-660).
THEOREM LiveCallsTracked == Spec => []LiveCallsAreTracked
<1>1. Init => LiveInv
  BY DEF Init, LiveInv, Exempt, Alive, Phases
<1>2. LiveInv => LiveCallsAreTracked
  BY DEF LiveInv, LiveCallsAreTracked, LiveCalls, Exempt
<1> QED
  BY <1>1, <1>2, TypeInit, TypeStep, LiveStep, PTL DEF Spec

-----------------------------------------------------------------------------
(* Room for what baresip admits.                                           *)

\* Distinct entries hold distinct live calls, so a full registry counts
\* MaxCalls of them: the pigeonhole principle against baresip's limit
\* (omnix_call.c:557-561; OMNIX_MAX_CALLS is at least max_calls).
THEOREM RoomAlways ==
    ASSUME IsFiniteSet(Calls), MaxBaresip <= MaxCalls
    PROVE  Spec => []RoomForIncoming
<1>1. TypeOK /\ RegistryConsistent => RoomForIncoming
  <2> SUFFICES ASSUME TypeOK, RegistryConsistent, stage \in {"up", "flagged"},
                      Cardinality(LiveCalls) < MaxBaresip,
                      \A s \in Slots : slot[s] # NoCall
               PROVE  FALSE
    BY DEF RoomForIncoming
  <2>1. slot \in [Slots -> LiveCalls]
    BY DEF TypeOK, RegistryConsistent, LiveCalls, Running
  <2>2. IsFiniteSet(LiveCalls) /\ Cardinality(LiveCalls) \in Nat
    BY FS_Subset, FS_CardinalityType DEF LiveCalls
  <2>3. IsFiniteSet(Slots) /\ Cardinality(Slots) = MaxCalls
    BY FS_Interval DEF Slots
  <2>4. Cardinality(LiveCalls) < Cardinality(Slots)
    BY <2>2, <2>3
  <2>5. PICK s, t \in Slots : s # t /\ slot[s] = slot[t]
    BY <2>1, <2>2, <2>3, <2>4, FS_PigeonHole
  <2> QED
    BY <2>5 DEF RegistryConsistent, Running
<1> QED
  BY <1>1, TypeInit, TypeStep, RegistryStep, StreamInit, PTL DEF Spec

-----------------------------------------------------------------------------
(* The end of a call is told.                                              *)

\* A push that is not lost is what the application is told last.
LEMMA ToldAppended ==
    ASSUME NEW q \in Seq(Messages), NEW c \in Calls, NEW st \in EventStates,
           mq' = Append(q, [call |-> c, st |-> st])
    PROVE  Told(c)' = st
<1> DEFINE m == [call |-> c, st |-> st]
           about == {j \in 1..Len(mq') : mq'[j].call = c}
           last == CHOOSE k \in about : \A j \in about : j <= k
<1>1. m \in Messages
  BY DEF Messages
<1>2. Len(mq') = Len(q) + 1 /\ mq'[Len(mq')] = m /\ Len(mq') \in Nat
  BY <1>1
<1>3. Len(mq') \in about /\ \A j \in about : j <= Len(mq')
  BY <1>2
<1>4. last \in about /\ \A j \in about : j <= last
  BY <1>3
<1>5. last = Len(mq')
  BY <1>2, <1>3, <1>4
<1>6. Told(c)' = IF about = {} THEN heard'[c] ELSE mq'[last].st
  BY DEF Told
<1> QED
  BY <1>2, <1>3, <1>5, <1>6

\* A step that untracks a call of a running SDK without a lost push tells
\* the end of that call.
LEMMA EndStep ==
    ASSUME TypeOK, [Next]_vars, NEW c \in Calls,
           Tracked(c), ~Tracked(c)', stage = "up", ~lossy'
    PROVE  Told(c)' \in FinalStates
<1>1. ASSUME NEW d \in Calls, NEW st \in FinalStates, Finalize(d, st)
      PROVE  Told(c)' \in FinalStates
  <2>1. c = d /\ hdl[d] \in Slots /\ slot[hdl[d]] = d
    BY <1>1, FinalizeOthers DEF Finalize, Tracked
  <2>2. Notify(c, st)
    BY <1>1, <2>1 DEF Finalize
  <2>3. mq \in Seq(Messages) /\ Len(mq) \in Nat
    BY DEF TypeOK
  <2>4. ~(Len(mq) >= QueueCap)
    BY <2>2, Zenon DEF Notify
  <2>5. mq' = Append(mq, [call |-> c, st |-> st])
    BY <2>2, <2>3, <2>4 DEF Notify, Enqueue
  <2> QED
    BY <1>1, <2>3, <2>5, ToldAppended, EventFacts
<1>2. ASSUME NEW i, NEW d \in Calls, HandleIncoming(d, i) PROVE FALSE
  BY <1>2, TrackOthers DEF HandleIncoming, Tracked
<1>3. ASSUME NEW d \in Calls, NEW i \in Ids, MakeCall(d, i) PROVE FALSE
  BY <1>3, TrackOthers DEF MakeCall
<1>4. ASSUME NEW d \in Calls, NEW i \in Ids, Arrive(d, i) PROVE FALSE
  BY <1>4, <1>2 DEF Arrive, Tracked
<1>5. ASSUME NEW d \in Calls, MnatDone(d) PROVE FALSE
  BY <1>5, <1>2 DEF MnatDone, Tracked
<1>6. ASSUME NEW d \in Calls, MnatFail(d) \/ Closed(d) PROVE Told(c)' \in FinalStates
  BY <1>1, <1>6 DEF MnatFail, Closed
<1>7. ASSUME NEW i \in Ids, Reject(i) PROVE Told(c)' \in FinalStates
  <2>1. PICK s \in Slots : Found(i, s) /\ Finalize(slot[s], "FAILED")
    BY <1>7 DEF Reject
  <2>2. slot[s] \in Calls
    BY <2>1 DEF Found, TypeOK
  <2> QED
    BY <1>1, <2>1, <2>2, EventFacts
<1>8. ASSUME NEW i \in Ids, Hangup(i) PROVE Told(c)' \in FinalStates
  <2>1. PICK s \in Slots :
          /\ Found(i, s) /\ FreeSlot(s)
          /\ mq' = Enqueue(Enqueue(mq, slot[s], "ENDING"), slot[s], "ENDED")
          /\ lossy' = (lossy \/ (stage = "up"
                         /\ Len(Enqueue(mq, slot[s], "ENDING")) >= QueueCap))
    BY <1>8 DEF Hangup
  <2>2. slot[s] = c
    BY <2>1 DEF FreeSlot, Tracked, TypeOK
  <2> DEFINE q == Enqueue(mq, c, "ENDING")
  <2>3. q \in Seq(Messages) /\ Len(q) \in Nat
    BY EnqueueType, EventFacts DEF TypeOK
  <2>4. mq' = Enqueue(q, c, "ENDED") /\ ~(Len(q) >= QueueCap)
    BY <2>1, <2>2, Zenon
  <2> HIDE DEF q
  <2>5. mq' = Append(q, [call |-> c, st |-> "ENDED"])
    BY <2>3, <2>4 DEF Enqueue
  <2> QED
    BY <2>3, <2>5, ToldAppended, EventFacts
<1>9. slot' # slot
  BY DEF Tracked
<1> QED
  BY <1>3, <1>4, <1>5, <1>6, <1>7, <1>8, <1>9
  DEF Next, CallSetup, CallEvent, CallApi, QueueHandler, ShutdownStep, vars,
      MakeCallRefused, Progress, Establish, Answer, Hold, Resume, ForceConnected,
      Deliver, HandleShutdown, BeginShutdown, ResetRegistry, PostShutdown,
      Finish, Reinit

\* A tracked call leaves the registry of a running SDK only with its final
\* state in the queue, unless that push failed: for any number of calls and
\* any capacity of the pipe (omnix_call.c:426-446, 739-779).
THEOREM EndAlwaysTold == Spec => EndIsTold
<1>1. TypeOK /\ [Next]_vars =>
        [\A c \in Calls : Tracked(c) /\ ~Tracked(c)' /\ stage = "up" /\ ~lossy' =>
             Told(c)' \in FinalStates]_vars
  BY EndStep
<1> QED
  BY <1>1, TypeInit, TypeStep, PTL DEF Spec, EndIsTold

-----------------------------------------------------------------------------
(* omnix_call_get_state agrees with what was told.                         *)

\* st is the last state of c in queue q, or what was heard if q has none.
LastIs(q, h, c, st) ==
    \/ h[c] = st /\ \A k \in 1..Len(q) : q[k].call # c
    \/ \E k \in 1..Len(q) : /\ q[k].call = c /\ q[k].st = st
                            /\ \A j \in 1..Len(q) : q[j].call = c => j <= k

\* Without the test hook no entry gets past the announcement: a call is never
\* held, a ringing one has a ringing entry, and an entry is what was told.
EntryAgrees(s) ==
    /\ info[s] \in {"OUTGOING", "INCOMING"}
    /\ phase[slot[s]] = "INCOMING" => info[s] = "INCOMING"
    /\ stage = "up" /\ ~lossy => LastIs(mq, heard, slot[s], info[s])

AgreeInv ==
    /\ \A c \in Calls : onHold[c] = FALSE
    /\ \A s \in Slots : slot[s] # NoCall => EntryAgrees(s)

\* What LastIs says is what Told returns.
LEMMA LastIsTold ==
    ASSUME TypeOK, NEW c \in Calls, NEW st, LastIs(mq, heard, c, st)
    PROVE  Told(c) = st
<1> DEFINE about == {j \in 1..Len(mq) : mq[j].call = c}
           last == CHOOSE k \in about : \A j \in about : j <= k
<1>1. Told(c) = IF about = {} THEN heard[c] ELSE mq[last].st
  BY DEF Told
<1>2. CASE heard[c] = st /\ \A k \in 1..Len(mq) : mq[k].call # c
  BY <1>1, <1>2
<1>3. CASE \E k \in 1..Len(mq) :
             /\ mq[k].call = c /\ mq[k].st = st
             /\ \A j \in 1..Len(mq) : mq[j].call = c => j <= k
  <2>1. PICK k \in 1..Len(mq) :
             /\ mq[k].call = c /\ mq[k].st = st
             /\ \A j \in 1..Len(mq) : mq[j].call = c => j <= k
    BY <1>3
  <2>2. k \in about /\ (\A j \in about : j <= k) /\ Len(mq) \in Nat
    BY <2>1 DEF TypeOK
  <2>3. last \in about /\ \A j \in about : j <= last
    BY <2>2
  <2>4. last = k
    BY <2>2, <2>3
  <2> QED
    BY <1>1, <2>1, <2>2, <2>4
<1> QED
  BY <1>2, <1>3 DEF LastIs

\* A push about one call changes nothing for another.
LEMMA PushOfAnother ==
    ASSUME NEW q \in Seq(Messages), NEW h, NEW c \in Calls, NEW d \in Calls \ {c},
           NEW st \in EventStates, NEW x, LastIs(q, h, d, x)
    PROVE  LastIs(Enqueue(q, c, st), h, d, x)
<1> DEFINE m == [call |-> c, st |-> st]
<1>1. CASE Enqueue(q, c, st) = Append(q, m)
  <2>1. m \in Messages /\ Len(q) \in Nat
    BY DEF Messages
  <2>2. /\ Len(Append(q, m)) = Len(q) + 1
        /\ \A k \in 1..Len(q) : Append(q, m)[k] = q[k]
        /\ Append(q, m)[Len(q) + 1] = m
    BY <2>1
  <2>3. m.call # d
    OBVIOUS
  <2> DEFINE r == Append(q, m)
  <2>4. /\ Len(r) = Len(q) + 1
        /\ \A k \in 1..Len(q) : r[k] = q[k]
        /\ r[Len(q) + 1].call # d
    BY <2>2, <2>3
  <2> HIDE DEF r
  <2>5. LastIs(r, h, d, x)
    BY <2>1, <2>4 DEF LastIs
  <2> QED
    BY <1>1, <2>5 DEF r
<1>2. CASE Enqueue(q, c, st) = q
  BY <1>2
<1> QED
  BY <1>1, <1>2 DEF Enqueue

\* A push of a state makes it the last one.
LEMMA PushOfOwn ==
    ASSUME NEW q \in Seq(Messages), NEW h, NEW c \in Calls, NEW st \in EventStates
    PROVE  LastIs(Append(q, [call |-> c, st |-> st]), h, c, st)
<1> DEFINE r == Append(q, [call |-> c, st |-> st])
<1>1. [call |-> c, st |-> st] \in Messages
  BY DEF Messages
<1>2. /\ Len(r) = Len(q) + 1 /\ Len(q) \in Nat
      /\ r[Len(q) + 1] = [call |-> c, st |-> st]
  BY <1>1
<1>3. r[Len(r)].call = c /\ r[Len(r)].st = st /\ Len(r) \in 1..Len(r)
  BY <1>2
<1> HIDE DEF r
<1>4. LastIs(r, h, c, st)
  BY <1>3 DEF LastIs
<1> QED
  BY <1>4 DEF r

\* A delivery moves the oldest notification from the queue to what was heard.
LEMMA DeliverLast ==
    ASSUME TypeOK, Deliver, NEW d \in Calls, NEW x, LastIs(mq, heard, d, x)
    PROVE  LastIs(mq', heard', d, x)
<1>1. mq \in Seq(Messages) /\ mq # <<>> /\ mq' = Tail(mq)
  BY DEF Deliver, TypeOK
<1>2. /\ Len(mq) \in Nat \ {0} /\ Len(mq') = Len(mq) - 1
      /\ \A k \in 1..Len(mq') : mq'[k] = mq[k + 1]
      /\ Head(mq) = mq[1]
  BY <1>1
<1>3. heard'[d] = IF mq[1].call = d THEN mq[1].st ELSE heard[d]
  BY <1>2 DEF Deliver, TypeOK
<1>4. CASE heard[d] = x /\ \A k \in 1..Len(mq) : mq[k].call # d
  BY <1>2, <1>3, <1>4 DEF LastIs
<1>5. CASE \E k \in 1..Len(mq) : /\ mq[k].call = d /\ mq[k].st = x
                                 /\ \A j \in 1..Len(mq) : mq[j].call = d => j <= k
  <2>1. PICK k \in 1..Len(mq) : /\ mq[k].call = d /\ mq[k].st = x
                                /\ \A j \in 1..Len(mq) : mq[j].call = d => j <= k
    BY <1>5
  <2>2. CASE k = 1
    BY <1>2, <1>3, <2>1, <2>2 DEF LastIs
  <2>3. CASE k # 1
    <3>1. k - 1 \in 1..Len(mq') /\ mq'[k - 1] = mq[k]
      BY <1>2, <2>3
    <3>2. \A j \in 1..Len(mq') : mq'[j].call = d => j <= k - 1
      BY <1>2, <2>1
    <3> QED
      BY <2>1, <3>1, <3>2 DEF LastIs
  <2> QED
    BY <2>2, <2>3
<1> QED
  BY <1>4, <1>5 DEF LastIs

\* A step that leaves the entries of the calls it keeps alone, rings none of
\* them and says nothing of them, keeps AgreeInv.
LEMMA AgreeKept ==
    ASSUME TypeOK, AgreeInv, UNCHANGED <<stage, onHold>>,
           stage = "up" /\ ~lossy' => ~lossy,
           NEW c,
           \A s \in Slots : slot'[s] # NoCall =>
               /\ slot'[s] = slot[s] /\ info'[s] = info[s]
               /\ phase'[slot[s]] = "INCOMING" => phase[slot[s]] = "INCOMING"
               /\ slot[s] # c \/ UNCHANGED <<mq, heard>>,
           \A d \in Calls \ {c}, x \in EventStates :
               LastIs(mq, heard, d, x) => LastIs(mq', heard', d, x)
    PROVE  AgreeInv'
<1> SUFFICES ASSUME NEW s \in Slots, slot'[s] # NoCall PROVE EntryAgrees(s)'
  BY DEF AgreeInv
<1>1. EntryAgrees(s) /\ slot'[s] = slot[s] /\ info'[s] = info[s] /\ slot[s] \in Calls
  BY DEF AgreeInv, TypeOK
<1>2. info[s] \in EventStates
  BY <1>1, EventFacts DEF EntryAgrees
<1>3. LastIs(mq, heard, slot[s], info[s]) => LastIs(mq', heard', slot[s], info[s])
  BY <1>1, <1>2
<1> QED
  BY <1>1, <1>3 DEF EntryAgrees

\* A call that gets an entry is announced with the state of that entry.
LEMMA AgreeTrack ==
    ASSUME TypeOK, RegistryConsistent, AgreeInv, stage \in Running,
           UNCHANGED <<stage, heard, onHold>>,
           NEW c \in Calls, NEW i, NEW s \in Slots,
           NEW st \in {"OUTGOING", "INCOMING"},
           AllocSlot(c, i, s), Track(c, s, st), Notify(c, st),
           phase' = [phase EXCEPT ![c] = st],
           phase[c] = "unborn" \/ Alive(c)
    PROVE  AgreeInv'
<1>1. \A t \in Slots : /\ slot'[t] = IF t = s THEN c ELSE slot[t]
                       /\ info'[t] = IF t = s THEN st ELSE info[t]
  BY DEF Track, TypeOK
<1>2. \A t \in Slots : t # s => slot[t] # c
  BY DEF AllocSlot, RegistryConsistent, Alive, Phases, TypeOK
<1>3. \A d \in Calls : phase'[d] = IF d = c THEN st ELSE phase[d]
  BY DEF TypeOK
<1>4. mq \in Seq(Messages) /\ Len(mq) \in Nat /\ st \in EventStates
  BY EventFacts DEF TypeOK
<1>5. stage = "up" /\ ~lossy' => ~lossy /\ ~(Len(mq) >= QueueCap)
  BY Zenon DEF Notify
<1>6. stage = "up" /\ ~lossy' => mq' = Append(mq, [call |-> c, st |-> st])
  BY <1>4, <1>5 DEF Notify, Enqueue
<1>7. stage = "up" /\ ~lossy' => LastIs(mq', heard', c, st)
  BY <1>4, <1>6, PushOfOwn
<1>8. \A d \in Calls \ {c}, x \in EventStates :
        LastIs(mq, heard, d, x) => LastIs(mq', heard', d, x)
  BY <1>4, PushOfAnother DEF Notify
<1> SUFFICES ASSUME NEW t \in Slots, slot'[t] # NoCall PROVE EntryAgrees(t)'
  BY DEF AgreeInv
<1>9. CASE t = s
  BY <1>1, <1>3, <1>7, <1>9 DEF EntryAgrees
<1>10. CASE t # s
  <2>1. /\ EntryAgrees(t) /\ slot'[t] = slot[t] /\ info'[t] = info[t]
        /\ slot[t] \in Calls \ {c} /\ info[t] \in EventStates
    BY <1>1, <1>2, <1>10, EventFacts DEF AgreeInv, EntryAgrees, TypeOK
  <2> QED
    BY <1>3, <1>5, <1>8, <2>1 DEF EntryAgrees
<1> QED
  BY <1>9, <1>10

\* The end of a call removes the only entry its last state concerns.
LEMMA AgreeFinalize ==
    ASSUME TypeOK, RegistryConsistent, AgreeInv, stage \in Running,
           UNCHANGED <<stage, heard>>,
           NEW c \in Calls, NEW st \in FinalStates, Finalize(c, st)
    PROVE  AgreeInv'
<1>1. /\ phase' = [phase EXCEPT ![c] = "freed"]
      /\ onHold' = [onHold EXCEPT ![c] = FALSE]
  BY DEF Finalize, Release
<1>2. UNCHANGED onHold
  BY <1>1 DEF AgreeInv, TypeOK
<1>3. \A s \in Slots : slot'[s] # NoCall =>
        slot'[s] = slot[s] /\ info'[s] = info[s] /\ slot[s] # c
  BY DEF Finalize, FreeSlot, RegistryConsistent, TypeOK
<1>4. \A d \in Calls : d # c => phase'[d] = phase[d]
  BY <1>1 DEF TypeOK
<1>5. stage = "up" /\ ~lossy' => ~lossy
  BY Zenon DEF Finalize, Notify
<1>6. mq' = mq \/ mq' = Enqueue(mq, c, st)
  BY DEF Finalize, Notify
<1>7. \A d \in Calls \ {c}, x \in EventStates :
        LastIs(mq, heard, d, x) => LastIs(mq', heard', d, x)
  <2>1. mq \in Seq(Messages) /\ st \in EventStates
    BY EventFacts DEF TypeOK
  <2>2. \A d \in Calls \ {c}, x \in EventStates :
          LastIs(mq, heard, d, x) => LastIs(Enqueue(mq, c, st), heard, d, x)
    BY <2>1, PushOfAnother
  <2> QED
    BY <1>6, <2>2
<1>8. \A s \in Slots : slot[s] \in Calls \cup {NoCall}
  BY DEF TypeOK
<1> QED
  BY <1>2, <1>3, <1>4, <1>5, <1>7, <1>8, AgreeKept

\* An incoming call is announced as INCOMING, or never gets an entry.
LEMMA AgreeIncoming ==
    ASSUME TypeOK, RegistryConsistent, AgreeInv, stage \in Running,
           UNCHANGED <<stage, heard, onHold>>,
           NEW c \in Calls, NEW i, HandleIncoming(c, i),
           phase[c] = "unborn" \/ Alive(c)
    PROVE  AgreeInv'
<1>1. CASE /\ \E s \in Slots : AllocSlot(c, i, s) /\ Track(c, s, "INCOMING")
           /\ phase' = [phase EXCEPT ![c] = "INCOMING"]
           /\ Notify(c, "INCOMING")
  BY <1>1, AgreeTrack
<1>2. CASE /\ phase' = [phase EXCEPT ![c] = "TERMINATED"]
           /\ UNCHANGED <<slot, info, mq, lossy>>
  <2>1. \A d \in Calls : phase'[d] = "INCOMING" => phase[d] = "INCOMING"
    BY <1>2 DEF TypeOK
  <2>2. \A s \in Slots : slot[s] \in Calls \cup {NoCall}
    BY DEF TypeOK
  <2> QED
    BY <1>2, <2>1, <2>2, AgreeKept
<1> QED
  BY <1>1, <1>2 DEF HandleIncoming

\* Every step of a build without the test hook keeps AgreeInv.
LEMMA AgreeStep ==
    ASSUME ~TestHook, TypeOK, RegistryConsistent, AgreeInv, [Next]_vars
    PROVE  AgreeInv'
<1>0. \A s \in Slots : slot[s] \in Calls \cup {NoCall}
  BY DEF TypeOK
<1>1. ASSUME NEW c \in Calls, NEW i \in Ids, MakeCall(c, i) PROVE AgreeInv'
  <2>1. PICK s \in Slots : AllocSlot(c, i, s) /\ Track(c, s, "OUTGOING")
    BY <1>1 DEF MakeCall
  <2>2. /\ stage \in Running /\ UNCHANGED <<stage, heard, onHold>>
        /\ phase' = [phase EXCEPT ![c] = "OUTGOING"]
        /\ phase[c] = "unborn" /\ Notify(c, "OUTGOING")
    BY <1>1 DEF MakeCall, HasUa, Running
  <2> QED
    BY <2>1, <2>2, AgreeTrack
<1>2. ASSUME NEW c \in Calls, NEW i \in Ids, MakeCallRefused(c, i) PROVE AgreeInv'
  <2>1. UNCHANGED <<slot, info, mq, stage, heard, lossy, onHold>>
    BY <1>2 DEF MakeCallRefused
  <2>2. \A d \in Calls : phase'[d] = "INCOMING" => phase[d] = "INCOMING"
    BY <1>2 DEF MakeCallRefused, TypeOK
  <2> QED
    BY <1>0, <2>1, <2>2, AgreeKept
<1>3. ASSUME NEW c \in Calls, NEW i \in Ids, Arrive(c, i) PROVE AgreeInv'
  <2>1. /\ stage \in Running /\ phase[c] = "unborn"
        /\ UNCHANGED <<onHold, stage, heard>>
    BY <1>3 DEF Arrive
  <2>2. CASE Stun
    <3>1. /\ UNCHANGED <<slot, info, mq, lossy>>
          /\ phase' = [phase EXCEPT ![c] = "INCOMING"]
      BY <1>3, <2>2 DEF Arrive
    <3>2. \A s \in Slots : slot[s] # c
      BY <2>1 DEF RegistryConsistent, Alive, Phases
    <3>3. \A d \in Calls : d # c => phase'[d] = phase[d]
      BY <3>1 DEF TypeOK
    <3> QED
      BY <1>0, <2>1, <3>1, <3>2, <3>3, AgreeKept
  <2>3. CASE ~Stun
    BY <1>3, <2>1, <2>3, AgreeIncoming DEF Arrive
  <2> QED
    BY <2>2, <2>3
<1>4. ASSUME NEW c \in Calls, MnatDone(c) PROVE AgreeInv'
  <2>1. stage \in Running /\ UNCHANGED <<onHold, stage, heard>>
    BY <1>4 DEF MnatDone
  <2>2. CASE phase[c] = "INCOMING" /\ HandleIncoming(c, idOf[c])
    BY <2>1, <2>2, AgreeIncoming DEF Alive, Phases
  <2>3. CASE UNCHANGED <<phase, slot, info, mq, lossy>>
    BY <1>0, <2>1, <2>3, AgreeKept
  <2> QED
    BY <1>4, <2>2, <2>3 DEF MnatDone
<1>5. ASSUME NEW c \in Calls, MnatFail(c) \/ Closed(c) PROVE AgreeInv'
  BY <1>5, AgreeFinalize DEF MnatFail, Closed
<1>6. ASSUME NEW c \in Calls, Progress(c) \/ Establish(c) PROVE AgreeInv'
  <2>1. UNCHANGED <<slot, info, mq, stage, heard, lossy, onHold>>
    BY <1>6 DEF Progress, Establish
  <2>2. \A d \in Calls : phase'[d] = "INCOMING" => phase[d] = "INCOMING"
    BY <1>6 DEF Progress, Establish, TypeOK
  <2> QED
    BY <1>0, <2>1, <2>2, AgreeKept
<1>7. ASSUME NEW i \in Ids, Answer(i) PROVE AgreeInv'
  <2>1. PICK s \in Slots :
          /\ Found(i, s) /\ phase[slot[s]] = "INCOMING"
          /\ info' = [info EXCEPT ![s] = MapState(phase[slot[s]], onHold[slot[s]])]
    BY <1>7 DEF Answer
  <2>2. slot[s] \in Calls /\ slot[s] # NoCall
    BY <2>1 DEF Found, TypeOK
  <2>3. onHold[slot[s]] = FALSE /\ info[s] = "INCOMING"
    BY <2>1, <2>2 DEF AgreeInv, EntryAgrees
  <2>4. MapState(phase[slot[s]], onHold[slot[s]]) = "INCOMING"
    BY <2>1, <2>3 DEF MapState
  <2>5. info' = info
    BY <2>1, <2>3, <2>4 DEF TypeOK
  <2>6. UNCHANGED <<phase, slot, mq, stage, heard, lossy, onHold>>
    BY <1>7 DEF Answer
  <2> QED
    BY <1>0, <2>5, <2>6, AgreeKept
<1>8. ASSUME NEW i \in Ids, Reject(i) PROVE AgreeInv'
  <2>1. PICK s \in Slots : Found(i, s) /\ Finalize(slot[s], "FAILED")
    BY <1>8 DEF Reject
  <2>2. slot[s] \in Calls
    BY <2>1 DEF Found, TypeOK
  <2> QED
    BY <1>8, <2>1, <2>2, AgreeFinalize, EventFacts DEF Reject
<1>9. ASSUME NEW i \in Ids, Hangup(i) PROVE AgreeInv'
  <2>1. PICK s \in Slots :
          /\ Found(i, s) /\ Release(slot[s]) /\ FreeSlot(s)
          /\ mq' = Enqueue(Enqueue(mq, slot[s], "ENDING"), slot[s], "ENDED")
    BY <1>9 DEF Hangup
  <2>2. stage \in Running /\ UNCHANGED <<stage, heard>>
    BY <1>9 DEF Hangup
  <2>3. PICK c \in Calls : c = slot[s]
    BY <2>1 DEF Found, TypeOK
  <2>4. /\ phase' = [phase EXCEPT ![c] = "freed"]
        /\ onHold' = [onHold EXCEPT ![c] = FALSE]
    BY <2>1, <2>3 DEF Release
  <2>5. UNCHANGED onHold
    BY <2>4 DEF AgreeInv, TypeOK
  <2>6. \A t \in Slots : slot'[t] # NoCall =>
          slot'[t] = slot[t] /\ info'[t] = info[t] /\ slot[t] # c
    BY <2>1, <2>2, <2>3 DEF FreeSlot, RegistryConsistent, TypeOK
  <2>7. \A d \in Calls : d # c => phase'[d] = phase[d]
    BY <2>4 DEF TypeOK
  <2>8. stage = "up" /\ ~lossy' => ~lossy
    BY <1>9, Zenon DEF Hangup
  <2>9. Enqueue(mq, c, "ENDING") \in Seq(Messages) /\ mq \in Seq(Messages)
    BY EnqueueType, EventFacts DEF TypeOK
  <2>10. \A d \in Calls \ {c}, x \in EventStates :
           LastIs(mq, heard, d, x) => LastIs(mq', heard', d, x)
    <3> SUFFICES ASSUME NEW d \in Calls \ {c}, NEW x \in EventStates,
                        LastIs(mq, heard, d, x)
                 PROVE  LastIs(mq', heard', d, x)
      OBVIOUS
    <3>1. LastIs(Enqueue(mq, c, "ENDING"), heard, d, x)
      BY <2>9, PushOfAnother, EventFacts
    <3>2. LastIs(Enqueue(Enqueue(mq, c, "ENDING"), c, "ENDED"), heard, d, x)
      BY <2>9, <3>1, PushOfAnother, EventFacts
    <3> QED
      BY <2>1, <2>2, <2>3, <3>2
  <2> QED
    BY <1>0, <2>2, <2>5, <2>6, <2>7, <2>8, <2>10, AgreeKept
<1>10. ASSUME NEW i \in Ids, Hold(i) \/ Resume(i) \/ ForceConnected(i) PROVE FALSE
  <2>1. PICK s \in Slots : Found(i, s) /\ info[s] \in {"CONNECTED", "HELD"}
    BY <1>10 DEF Hold, Resume, ForceConnected
  <2> QED
    BY <2>1 DEF Found, AgreeInv, EntryAgrees
<1>11. CASE Deliver
  <2>1. UNCHANGED <<phase, onHold, slot, info, stage, lossy>>
    BY <1>11 DEF Deliver, callVars
  <2>2. \A d \in Calls, x \in EventStates :
          LastIs(mq, heard, d, x) => LastIs(mq', heard', d, x)
    BY <1>11, DeliverLast
  <2>3. NoCall \notin Calls
    OBVIOUS
  <2> QED
    BY <1>0, <2>1, <2>2, <2>3, AgreeKept
<1>12. CASE HandleShutdown \/ Finish
  <2>1. /\ UNCHANGED <<slot, info>> /\ stage' # "up"
        /\ phase' = [c \in Calls |-> IF Alive(c) THEN "freed" ELSE phase[c]]
        /\ onHold' = [c \in Calls |-> FALSE]
    BY <1>12 DEF HandleShutdown, Finish
  <2> QED
    BY <1>0, <2>1 DEF AgreeInv, EntryAgrees, Alive
<1>13. CASE BeginShutdown \/ PostShutdown
  BY <1>13 DEF BeginShutdown, PostShutdown, callVars, AgreeInv, EntryAgrees
<1>14. CASE ResetRegistry \/ Reinit
  BY <1>14 DEF ResetRegistry, Reinit, callVars, AgreeInv
<1>15. CASE UNCHANGED vars
  BY <1>15 DEF vars, AgreeInv, EntryAgrees
<1> QED
  BY <1>1, <1>2, <1>3, <1>4, <1>5, <1>6, <1>7, <1>8, <1>9, <1>10, <1>11,
     <1>12, <1>13, <1>14, <1>15
  DEF Next, CallSetup, CallEvent, CallApi, QueueHandler, ShutdownStep

\* Without the test hook, and unless a push was lost, omnix_call_get_state of
\* a tracked call is what on_call_event was told of it last, queued or heard:
\* for any number of calls and any capacity of the pipe (omnix_call.c:1058-1067).
THEOREM GetStateAlwaysAgrees == ASSUME ~TestHook PROVE Spec => []GetStateAgrees
<1>1. Init => AgreeInv
  BY DEF Init, AgreeInv
<1>2. TypeOK /\ AgreeInv => GetStateAgrees
  BY LastIsTold DEF AgreeInv, EntryAgrees, GetStateAgrees, TypeOK
<1>3. TypeOK /\ RegistryConsistent /\ AgreeInv /\ [Next]_vars => AgreeInv'
  BY AgreeStep
<1> QED
  BY <1>1, <1>2, <1>3, TypeInit, TypeStep, RegistryStep, StreamInit, PTL DEF Spec

\* A call whose end on_call_event was told has no entry any more.
EndedIsUntracked ==
    stage = "up" => \A c \in Calls : heard[c] \in FinalStates => ~Tracked(c)

\* Every handler clears the entry before the end it queued is delivered, so
\* omnix_call_get_state asked of an ended call finds nothing, for any number of
\* calls and any losses: the GetState of OmnixIos (omnix_call.c:426-446, 1058-1067).
THEOREM EndedNeverTracked == Spec => []EndedIsUntracked
<1>1. StreamInv => EndedIsUntracked
  BY DEF StreamInv, Unfinished, EndedIsUntracked, Tracked, FinalStates, OpenStates,
         Stream!FinalStates, Stream!OpenStates, Stream!Announcements, Stream!MediaStates
<1> QED
  BY <1>1, TypeInit, TypeStep, RegistryStep, HandlerStep, StreamInit, StreamStep, PTL
  DEF Spec

-----------------------------------------------------------------------------
(* The stream ends with the session.                                       *)

\* Nothing in the queue is about c.
NoneOf(q, c) == \A k \in 1..Len(q) : q[k].call # c

\* A push about one call is about no other.
LEMMA PushNone ==
    ASSUME NEW q \in Seq(Messages), NEW d \in Calls, NEW st \in EventStates,
           NEW c, c # d, NoneOf(q, c)
    PROVE  NoneOf(Enqueue(q, d, st), c)
<1> DEFINE r == Enqueue(q, d, st)
<1>1. \A k \in 1..Len(r) : \/ k \in 1..Len(q) /\ r[k] = q[k]
                           \/ r[k] = [call |-> d, st |-> st]
  BY EnqueueElements
<1> HIDE DEF r
<1>2. NoneOf(r, c)
  BY <1>1 DEF NoneOf
<1> QED BY <1>2 DEF r

\* A call that was released is not told of again, nor is a new one at its
\* place: what refers to it in the registry is gone.
LEMMA FreedStep ==
    ASSUME TypeOK, RegistryConsistent, [Next]_vars,
           NEW c \in Calls, phase[c] = "freed", NoneOf(mq, c)
    PROVE  phase'[c] = "freed" /\ NoneOf(mq', c)
<1> DEFINE Goal == phase'[c] = "freed" /\ NoneOf(mq', c)
<1>0. /\ mq \in Seq(Messages) /\ Len(mq) \in Nat /\ ~Alive(c)
      /\ {"OUTGOING", "INCOMING"} \cup FinalStates \cup {"ENDING", "HELD", "CONNECTED"}
           \subseteq EventStates
  BY EventFacts DEF TypeOK, Alive, Phases
<1>a. \A s \in Slots : stage \in Running /\ slot[s] # NoCall
        => slot[s] \in Calls /\ slot[s] # c
  BY <1>0 DEF RegistryConsistent, TypeOK
<1>b. ASSUME NEW d \in Calls, d # c, NEW st \in EventStates, Notify(d, st)
      PROVE  NoneOf(mq', c)
  BY <1>0, <1>b, PushNone DEF Notify
<1>c. ASSUME NEW d \in Calls, d # c, NEW i, HandleIncoming(d, i) PROVE Goal
  <2>1. phase'[c] = "freed"
    BY <1>c DEF HandleIncoming, TypeOK
  <2>2. NoneOf(mq', c)
    BY <1>0, <1>b, <1>c DEF HandleIncoming
  <2> QED BY <2>1, <2>2
<1>d. ASSUME NEW d \in Calls, NEW st \in FinalStates, stage \in Running,
             Finalize(d, st)
      PROVE  Goal
  <2>1. phase'[c] = "freed"
    BY <1>d DEF Finalize, Release, TypeOK
  <2>2. CASE hdl[d] \in Slots /\ slot[hdl[d]] = d
    <3>1. d # c
      BY <1>a, <1>d, <2>2
    <3>2. Notify(d, st)
      BY <1>d, <2>2 DEF Finalize
    <3> QED BY <1>0, <1>b, <2>1, <3>1, <3>2
  <2>3. CASE ~(hdl[d] \in Slots /\ slot[hdl[d]] = d)
    BY <1>d, <2>1, <2>3 DEF Finalize
  <2> QED BY <2>2, <2>3
<1>1. ASSUME NEW d \in Calls, NEW i \in Ids, MakeCall(d, i) PROVE Goal
  <2>1. d # c /\ phase'[c] = "freed" /\ Notify(d, "OUTGOING")
    BY <1>1 DEF MakeCall, TypeOK
  <2> QED BY <1>0, <1>b, <2>1
<1>2. ASSUME NEW d \in Calls, NEW i \in Ids, MakeCallRefused(d, i) PROVE Goal
  BY <1>2 DEF MakeCallRefused, TypeOK
<1>3. ASSUME NEW d \in Calls, NEW i \in Ids, Arrive(d, i) PROVE Goal
  <2>1. d # c
    BY <1>3 DEF Arrive
  <2>2. CASE Stun
    BY <1>3, <2>1, <2>2 DEF Arrive, TypeOK
  <2>3. CASE ~Stun
    BY <1>c, <1>3, <2>1, <2>3 DEF Arrive
  <2> QED BY <2>2, <2>3
<1>4. ASSUME NEW d \in Calls, MnatDone(d) PROVE Goal
  <2>1. CASE phase[d] = "INCOMING" /\ HandleIncoming(d, idOf[d])
    BY <1>c, <2>1
  <2>2. CASE UNCHANGED <<phase, mq>>
    BY <2>2
  <2> QED BY <1>4, <2>1, <2>2 DEF MnatDone
<1>5. ASSUME NEW d \in Calls, MnatFail(d) \/ Closed(d) PROVE Goal
  BY <1>d, <1>5 DEF MnatFail, Closed
<1>6. ASSUME NEW d \in Calls, Progress(d) \/ Establish(d) PROVE Goal
  <2>1. d # c /\ mq' = mq
    BY <1>6 DEF Progress, Establish
  <2>2. \E ph \in Phases : phase' = [phase EXCEPT ![d] = ph]
    BY <1>6 DEF Progress, Establish, Phases
  <2> QED BY <2>1, <2>2 DEF TypeOK
<1>7. ASSUME NEW i \in Ids, Answer(i) \/ ForceConnected(i) PROVE Goal
  BY <1>7 DEF Answer, ForceConnected, callVars
<1>8. ASSUME NEW i \in Ids, Reject(i) PROVE Goal
  <2>1. PICK s \in Slots : Found(i, s) /\ Finalize(slot[s], "FAILED")
    BY <1>8 DEF Reject
  <2>2. slot[s] \in Calls /\ stage \in Running
    BY <1>8, <2>1 DEF Reject, Found, TypeOK
  <2> QED BY <1>d, <2>1, <2>2, EventFacts
<1>9. ASSUME NEW i \in Ids, Hangup(i) PROVE Goal
  <2>1. PICK s \in Slots :
          /\ Found(i, s) /\ Release(slot[s])
          /\ mq' = Enqueue(Enqueue(mq, slot[s], "ENDING"), slot[s], "ENDED")
    BY <1>9 DEF Hangup
  <2>2. slot[s] \in Calls /\ slot[s] # c
    BY <1>a, <1>9, <2>1 DEF Hangup, Found
  <2>3. phase'[c] = "freed"
    BY <2>1, <2>2 DEF Release, TypeOK
  <2> DEFINE q == Enqueue(mq, slot[s], "ENDING")
  <2>4. q \in Seq(Messages) /\ NoneOf(q, c)
    BY <1>0, <2>2, EnqueueType, PushNone DEF TypeOK
  <2>5. mq' = Enqueue(q, slot[s], "ENDED")
    BY <2>1
  <2> HIDE DEF q
  <2>6. "ENDED" \in EventStates
    BY EventFacts
  <2>7. NoneOf(Enqueue(q, slot[s], "ENDED"), c)
    BY <2>2, <2>4, <2>6, PushNone
  <2> QED BY <2>3, <2>5, <2>7
<1>10. ASSUME NEW i \in Ids, Hold(i) \/ Resume(i) PROVE Goal
  <2>1. PICK s \in Slots, st \in {"HELD", "CONNECTED"} :
          Found(i, s) /\ Notify(slot[s], st)
    BY <1>10 DEF Hold, Resume
  <2>2. slot[s] \in Calls /\ slot[s] # c /\ phase' = phase
    BY <1>a, <1>10, <2>1 DEF Hold, Resume, Found
  <2> QED BY <1>0, <1>b, <2>1, <2>2
<1>11. CASE Deliver \/ HandleShutdown
  <2>1. mq # <<>> /\ mq' = Tail(mq)
    BY <1>11 DEF Deliver, HandleShutdown
  <2>2. NoneOf(mq', c)
    <3>1. \A k \in 1..Len(Tail(mq)) : k + 1 \in 1..Len(mq) /\ Tail(mq)[k] = mq[k + 1]
      BY <1>0, <2>1
    <3> QED BY <2>1, <3>1 DEF NoneOf
  <2>3. phase'[c] = "freed"
    BY <1>0, <1>11 DEF Deliver, HandleShutdown, callVars
  <2> QED BY <2>2, <2>3
<1>12. CASE PostShutdown
  <2>1. mq' = mq \/ mq' = Append(mq, NoMsg)
    BY <1>12 DEF PostShutdown
  <2>2. NoMsg \in Messages /\ NoMsg.call # c
    BY DEF Messages, NoMsg
  <2>3. NoneOf(Append(mq, NoMsg), c)
    <3> DEFINE m == NoMsg
    <3> HIDE DEF m
    <3>1. Len(Append(mq, m)) = Len(mq) + 1 /\ Append(mq, m)[Len(mq) + 1] = m
          /\ \A k \in 1..Len(mq) : Append(mq, m)[k] = mq[k]
      BY <1>0, <2>2 DEF m
    <3>2. m.call # c
      BY <2>2 DEF m
    <3>3. NoneOf(Append(mq, m), c)
      BY <1>0, <3>1, <3>2 DEF NoneOf
    <3> QED BY <3>3 DEF m
  <2>4. phase' = phase
    BY <1>12 DEF PostShutdown, callVars
  <2> QED BY <2>1, <2>3, <2>4
<1>13. CASE Finish
  BY <1>0, <1>13 DEF Finish, NoneOf
<1>14. CASE BeginShutdown \/ ResetRegistry \/ Reinit \/ UNCHANGED vars
  BY <1>14 DEF BeginShutdown, ResetRegistry, Reinit, callVars, vars
<1> QED
  BY <1>1, <1>2, <1>3, <1>4, <1>5, <1>6, <1>7, <1>8, <1>9, <1>10, <1>11,
     <1>12, <1>13, <1>14
  DEF Next, CallSetup, CallEvent, CallApi, QueueHandler, ShutdownStep

\* The SDK is down by Finish only, and only a delivery is heard.
LEMMA DownByFinish ==
    ASSUME Next
    PROVE  /\ Finish \/ stage' # "down"
           /\ Deliver \/ heard' = heard
<1>1. Deliver \/ heard' = heard
  BY DEF Next, CallSetup, CallEvent, CallApi, QueueHandler, ShutdownStep,
     MakeCall, MakeCallRefused, Arrive, MnatDone, MnatFail, Progress,
     Establish, Closed, Answer, Reject, Hangup, Hold, Resume, ForceConnected,
     HandleShutdown, BeginShutdown, ResetRegistry, PostShutdown, Finish, Reinit
<1>2. Finish \/ stage' # "down"
  BY DEF Next, CallSetup, CallEvent, CallApi, QueueHandler, ShutdownStep,
     Running, HasUa,
     MakeCall, MakeCallRefused, Arrive, MnatDone, MnatFail, Progress,
     Establish, Closed, Answer, Reject, Hangup, Hold, Resume, ForceConnected,
     Deliver, HandleShutdown, BeginShutdown, ResetRegistry, PostShutdown, Reinit
<1> QED BY <1>1, <1>2

\* Every step is one of CallSessions.
LEMMA SessionStep ==
    TypeOK /\ RegistryConsistent /\ StreamInv /\ [Next]_vars
        => [Sessions!Next]_(Sessions!vars)
<1> SUFFICES ASSUME TypeOK, RegistryConsistent, StreamInv, Next
             PROVE  Sessions!Next \/ UNCHANGED Sessions!vars
  BY DEF vars, Sessions!vars, Past
<1>0. Past = {c \in Calls : heard[c] # "SILENT" /\ phase[c] = "freed" /\ NoneOf(mq, c)}
      /\ Past' = {c \in Calls : heard'[c] # "SILENT" /\ phase'[c] = "freed"
                                /\ NoneOf(mq', c)}
  BY DEF Past, NoneOf
<1>1. ASSUME Deliver
      PROVE  /\ Head(mq).call \in Calls /\ Head(mq).call \notin Past
             /\ heard' = [heard EXCEPT ![Head(mq).call] = Head(mq).st]
             /\ Head(mq).st \in Stream!After(heard[Head(mq).call])
             /\ stage # "down" /\ stage' = stage
  <2>1. mq \in Seq(Messages) /\ mq # <<>> /\ Head(mq) \in Messages
    BY <1>1 DEF Deliver, TypeOK
  <2>2. Head(mq).call \in Calls
    BY <1>1, <2>1 DEF Deliver, Messages
  <2>3. Head(mq).st \in Stream!After(heard[Head(mq).call])
    BY <2>1, <2>2, DeliverOrdered DEF StreamInv, TypeOK
  <2>4. 1 \in 1..Len(mq) /\ Head(mq) = mq[1]
    BY <2>1
  <2>5. Head(mq).call \notin Past
    BY <1>0, <2>4 DEF NoneOf
  <2> QED BY <1>1, <2>2, <2>3, <2>5 DEF Deliver, Running
<1>2. Past \subseteq Past' /\ Past' \subseteq Calls
  <2>1. ASSUME NEW c \in Past PROVE c \in Past'
    <3>1. c \in Calls /\ phase'[c] = "freed" /\ NoneOf(mq', c)
      BY <1>0, <2>1, FreedStep
    <3>2. heard'[c] = heard[c]
      BY <1>1, <2>1, <3>1, DownByFinish DEF TypeOK
    <3> QED BY <1>0, <2>1, <3>1, <3>2
  <2> QED BY <1>0, <2>1
<1>3. CASE Deliver
  <2>1. Sessions!Stream!Hear(Head(mq).call)
    BY <1>1, <1>3
    DEF Sessions!Stream!Hear, Stream!After, Sessions!Stream!After,
        Stream!EventStates, Stream!OpenStates, Stream!Announcements,
        Stream!MediaStates, Stream!FinalStates, Sessions!Stream!EventStates,
        Sessions!Stream!OpenStates, Sessions!Stream!Announcements,
        Sessions!Stream!MediaStates, Sessions!Stream!FinalStates
  <2> QED BY <1>1, <1>2, <1>3, <2>1 DEF Sessions!Next, Sessions!Hear
<1>4. CASE Finish
  <2>1. ASSUME NEW c \in Calls, heard[c] # "SILENT" PROVE c \in Past'
    <3>1. phase[c] # "unborn"
      BY <2>1 DEF StreamInv, Quiet
    <3>2. phase'[c] = "freed" /\ heard' = heard /\ mq' = <<>>
      BY <1>4, <3>1 DEF Finish, Alive, TypeOK
    <3>3. NoneOf(mq', c)
      BY <3>2 DEF NoneOf
    <3> QED BY <1>0, <2>1, <3>2, <3>3
  <2> QED BY <1>2, <1>4, <2>1 DEF Finish, Sessions!Next, Sessions!End
<1>5. CASE ~Deliver /\ ~Finish
  BY <1>2, <1>5, DownByFinish DEF Sessions!Next, Sessions!Begin
<1> QED BY <1>3, <1>4, <1>5

\* OmnixCall implements CallSessions: the stream the application hears ends
\* with the session, whatever is queued when the shutdown begins and whatever
\* calls, operations and events go on beside it: nothing is heard after
\* omnix_shutdown has returned, and of its calls nothing in any later session
\* (omnix_voice.c:155-205, omnix_events.c:400-428).
THEOREM CallSessionsImplemented == Spec => ImplementsCallSessions
<1>1. Init => Sessions!Init
  BY DEF Init, Sessions!Init, Sessions!Stream!Init, Past
<1> QED
  BY <1>1, TypeInit, TypeStep, RegistryStep, HandlerStep, StreamInit,
     StreamStep, SessionStep, PTL
  DEF Spec, ImplementsCallSessions, Sessions!Spec

-----------------------------------------------------------------------------
(* What keeps a shutdown and the word of an end going.                     *)

\* All that a step does to the queue, and to what was heard.
LEMMA QueueStep ==
    ASSUME TypeOK, [Next]_vars
    PROVE  \/ UNCHANGED <<mq, heard>>
           \/ \E c \in Calls, st \in EventStates :
                /\ mq' = Enqueue(mq, c, st) /\ UNCHANGED <<heard, stage>>
                /\ st \in {"CONNECTED", "HELD"} => \E i \in Ids : Hold(i) \/ Resume(i)
           \/ \E c \in Calls :
                /\ mq' = Enqueue(Enqueue(mq, c, "ENDING"), c, "ENDED")
                /\ UNCHANGED <<heard, stage>>
           \/ Deliver \/ HandleShutdown \/ PostShutdown \/ Finish
<1> DEFINE Pushed == \E c \in Calls, st \in EventStates :
                       /\ mq' = Enqueue(mq, c, st) /\ UNCHANGED <<heard, stage>>
                       /\ st \in {"CONNECTED", "HELD"}
                            => \E i \in Ids : Hold(i) \/ Resume(i)
<1>0. {"OUTGOING", "INCOMING", "HELD", "CONNECTED"} \cup FinalStates \subseteq EventStates
      /\ "CONNECTED" \notin FinalStates /\ "HELD" \notin FinalStates
  BY EventFacts
<1>a. ASSUME NEW c \in Calls, NEW i, HandleIncoming(c, i), UNCHANGED <<heard, stage>>
      PROVE  Pushed \/ UNCHANGED <<mq, heard>>
  <2>1. CASE Notify(c, "INCOMING")
    BY <1>0, <1>a, <2>1 DEF Notify
  <2> QED BY <1>a, <2>1 DEF HandleIncoming
<1>b. ASSUME NEW c \in Calls, NEW st \in FinalStates, Finalize(c, st),
             UNCHANGED <<heard, stage>>
      PROVE  Pushed \/ UNCHANGED <<mq, heard>>
  <2>1. CASE Notify(c, st)
    BY <1>0, <1>b, <2>1 DEF Notify
  <2> QED BY <1>b, <2>1 DEF Finalize
<1>1. ASSUME NEW c \in Calls, NEW i \in Ids, MakeCall(c, i) PROVE Pushed
  BY <1>0, <1>1 DEF MakeCall, Notify
<1>2. ASSUME NEW c \in Calls, NEW i \in Ids, Arrive(c, i)
      PROVE  Pushed \/ UNCHANGED <<mq, heard>>
  BY <1>a, <1>2 DEF Arrive
<1>3. ASSUME NEW c \in Calls, MnatDone(c) PROVE Pushed \/ UNCHANGED <<mq, heard>>
  BY <1>a, <1>3 DEF MnatDone
<1>4. ASSUME NEW c \in Calls, MnatFail(c) \/ Closed(c)
      PROVE  Pushed \/ UNCHANGED <<mq, heard>>
  BY <1>b, <1>4 DEF MnatFail, Closed
<1>5. ASSUME NEW i \in Ids, Reject(i) PROVE Pushed \/ UNCHANGED <<mq, heard>>
  <2>1. PICK s \in Slots : Found(i, s) /\ Finalize(slot[s], "FAILED")
    BY <1>5 DEF Reject
  <2>2. slot[s] \in Calls /\ UNCHANGED <<heard, stage>>
    BY <1>5, <2>1 DEF Reject, Found, TypeOK
  <2> QED BY <1>b, <2>1, <2>2, EventFacts
<1>6. ASSUME NEW i \in Ids, Hangup(i)
      PROVE  \E c \in Calls :
                /\ mq' = Enqueue(Enqueue(mq, c, "ENDING"), c, "ENDED")
                /\ UNCHANGED <<heard, stage>>
  BY <1>6 DEF Hangup, Found, TypeOK
<1>7. ASSUME NEW i \in Ids, Hold(i) \/ Resume(i) PROVE Pushed
  <2>1. PICK s \in Slots, st \in {"HELD", "CONNECTED"} :
          Found(i, s) /\ mq' = Enqueue(mq, slot[s], st)
    BY <1>7 DEF Hold, Resume, Notify
  <2>2. slot[s] \in Calls /\ UNCHANGED <<heard, stage>>
    BY <1>7, <2>1 DEF Hold, Resume, Found, TypeOK
  <2> QED BY <1>0, <1>7, <2>1, <2>2
<1> HIDE DEF Pushed
<1>8. Pushed \/ UNCHANGED <<mq, heard>> \/ Deliver \/ HandleShutdown \/ PostShutdown
      \/ Finish \/ \E i \in Ids : Hangup(i)
  BY <1>1, <1>2, <1>3, <1>4, <1>5, <1>7
  DEF Next, CallSetup, CallEvent, CallApi, QueueHandler, ShutdownStep, vars,
      callVars, MakeCallRefused, Progress, Establish, Answer, ForceConnected,
      BeginShutdown, ResetRegistry, Reinit
<1> QED BY <1>6, <1>8 DEF Pushed

\* A push adds behind what is there.
LEMMA EnqueuePrefix ==
    ASSUME NEW q \in Seq(Messages), NEW c \in Calls, NEW st \in EventStates
    PROVE  /\ Enqueue(q, c, st) \in Seq(Messages)
           /\ \A k \in 1..Len(q) : /\ k \in 1..Len(Enqueue(q, c, st))
                                   /\ Enqueue(q, c, st)[k] = q[k]
<1>1. [call |-> c, st |-> st] \in Messages /\ Len(q) \in Nat
  BY DEF Messages
<1> QED BY <1>1 DEF Enqueue

\* The application has heard the end of c, or will.
EndComes(c) ==
    \/ heard[c] \in FinalStates
    \/ \E k \in 1..Len(mq) : mq[k].call = c /\ mq[k].st \in FinalStates

\* No step takes it away: what is queued leaves the queue at its head, and
\* what is heard after it would have to follow a final state.
LEMMA EndKept ==
    ASSUME TypeOK, StreamInv, [Next]_vars, NEW c \in Calls, EndComes(c)
    PROVE  EndComes(c)' \/ stage' = "down"
<1>0. mq \in Seq(Messages) /\ Len(mq) \in Nat
  BY DEF TypeOK
<1>a. ASSUME heard' = heard,
             \A k \in 1..Len(mq) : k \in 1..Len(mq') /\ mq'[k] = mq[k]
      PROVE  EndComes(c)'
  BY <1>a DEF EndComes
<1>1. ASSUME NEW d \in Calls, NEW st \in EventStates, mq' = Enqueue(mq, d, st),
             heard' = heard
      PROVE  EndComes(c)'
  BY <1>0, <1>a, <1>1, EnqueuePrefix
<1>2. ASSUME NEW d \in Calls, heard' = heard,
             mq' = Enqueue(Enqueue(mq, d, "ENDING"), d, "ENDED")
      PROVE  EndComes(c)'
  <2> DEFINE q == Enqueue(mq, d, "ENDING")
  <2>1. "ENDING" \in EventStates /\ "ENDED" \in EventStates
    BY EventFacts
  <2>2. q \in Seq(Messages) /\ \A k \in 1..Len(mq) : k \in 1..Len(q) /\ q[k] = mq[k]
    BY <1>0, <2>1, EnqueuePrefix
  <2>3. mq' = Enqueue(q, d, "ENDED")
    BY <1>2
  <2> HIDE DEF q
  <2>4. \A k \in 1..Len(q) : k \in 1..Len(mq') /\ mq'[k] = q[k]
    BY <2>1, <2>2, <2>3, EnqueuePrefix
  <2> QED BY <1>2, <1>a, <2>2, <2>4
<1>3. CASE Deliver
  <2>0. mq # <<>> /\ mq' = Tail(mq) /\ Head(mq) # NoMsg
        /\ heard' = [heard EXCEPT ![Head(mq).call] = Head(mq).st]
    BY <1>3 DEF Deliver
  <2>a. Head(mq) = mq[1] /\ Head(mq) \in Messages
    BY <1>0, <2>0
  <2>1. heard' = [heard EXCEPT ![mq[1].call] = mq[1].st]
    BY <2>0, <2>a
  <2>2. mq[1].call \in Calls
    BY <2>0, <2>a DEF Messages
  <2>3. /\ Len(mq') = Len(mq) - 1 /\ 1 \in 1..Len(mq)
        /\ \A k \in 1..Len(mq') : mq'[k] = mq[k + 1]
    BY <1>0, <2>0
  <2>4. heard'[c] = IF mq[1].call = c THEN mq[1].st ELSE heard[c]
    BY <2>1, <2>2 DEF TypeOK
  <2>5. CASE heard[c] \in FinalStates
    <3>1. Stream!After(heard[c]) = {}
      BY <2>5, EventFacts
      DEF Stream!After, Stream!OpenStates, Stream!Announcements, Stream!MediaStates
    <3>2. mq[1].call # c
      BY <2>2, <2>3, <3>1 DEF StreamInv, Ordered
    <3> QED BY <2>4, <2>5, <3>2 DEF EndComes
  <2>6. ASSUME NEW k \in 1..Len(mq), mq[k].call = c, mq[k].st \in FinalStates
        PROVE  EndComes(c)'
    <3>1. CASE k = 1
      BY <2>4, <2>6, <3>1 DEF EndComes
    <3>2. CASE k # 1
      <4>1. k - 1 \in 1..Len(mq') /\ mq'[k - 1] = mq[k]
        BY <1>0, <2>3, <3>2
      <4> QED BY <2>6, <4>1 DEF EndComes
    <3> QED BY <3>1, <3>2
  <2> QED BY <2>5, <2>6 DEF EndComes
<1>4. CASE HandleShutdown
  <2>1. mq # <<>> /\ mq' = Tail(mq) /\ mq[1] = NoMsg /\ heard' = heard
    BY <1>0, <1>4 DEF HandleShutdown
  <2>2. Len(mq') = Len(mq) - 1 /\ \A k \in 1..Len(mq') : mq'[k] = mq[k + 1]
    BY <1>0, <2>1
  <2>3. NoMsg.call # c
    BY DEF NoMsg
  <2>4. ASSUME NEW k \in 1..Len(mq), mq[k].call = c, mq[k].st \in FinalStates
        PROVE  EndComes(c)'
    <3>1. k # 1
      BY <2>1, <2>3, <2>4
    <3>2. k - 1 \in 1..Len(mq') /\ mq'[k - 1] = mq[k]
      BY <1>0, <2>2, <3>1
    <3> QED BY <2>4, <3>2 DEF EndComes
  <2> QED BY <2>1, <2>4 DEF EndComes
<1>5. CASE PostShutdown
  <2>1. heard' = heard /\ (mq' = mq \/ mq' = Append(mq, NoMsg))
    BY <1>5 DEF PostShutdown
  <2>2. NoMsg \in Messages
    BY DEF Messages
  <2>3. \A k \in 1..Len(mq) : k \in 1..Len(mq') /\ mq'[k] = mq[k]
    BY <1>0, <2>1, <2>2
  <2> QED BY <1>a, <2>1, <2>3
<1>6. CASE Finish
  BY <1>6 DEF Finish
<1>7. CASE UNCHANGED <<mq, heard>>
  BY <1>7 DEF EndComes
<1> QED BY <1>1, <1>2, <1>3, <1>4, <1>5, <1>6, <1>7, QueueStep

\* The end of a call that was told stays told: no later state replaces it,
\* and the queue gives it up only to the application or, with re_main stopped,
\* to the end of the SDK (omnix_events.c:261-276).
EndStays == [][\A c \in Calls : EndComes(c) => EndComes(c)' \/ stage' = "down"]_vars

\* This is what keeps FinalIsHeard, for every queue and any number of calls.
THEOREM EndAlwaysStays == Spec => EndStays
<1>1. TypeOK /\ StreamInv /\ [Next]_vars =>
        [\A c \in Calls : EndComes(c) => EndComes(c)' \/ stage' = "down"]_vars
  BY EndKept
<1> QED
  BY <1>1, TypeInit, TypeStep, RegistryStep, HandlerStep, StreamInit,
     StreamStep, PTL
  DEF Spec, EndStays

\* The request to stop waits in the queue, and once it is posted nothing is
\* put into the queue, which only gets shorter until re_main meets it: the
\* notifications before it are finitely many (omnix_voice.c:155-177).
StopComes ==
    [][stage = "posted" =>
         /\ \E k \in 1..Len(mq) : mq[k] = NoMsg
         /\ \/ mq' = mq /\ stage' = "posted"
            \/ mq # <<>> /\ mq' = Tail(mq) /\ stage' \in {"posted", "halted"}]_vars

\* This is what keeps ShutdownCompletes, for every capacity of the pipe.
THEOREM StopAlwaysComes == Spec => StopComes
<1> DEFINE Posted == stage = "posted" => \E k \in 1..Len(mq) : mq[k] = NoMsg
<1>1. TypeOK /\ Posted /\ [Next]_vars /\ stage = "posted" =>
        \/ mq' = mq /\ stage' = "posted"
        \/ mq # <<>> /\ mq' = Tail(mq) /\ stage' \in {"posted", "halted"}
  <2> SUFFICES ASSUME TypeOK, [Next]_vars, stage = "posted"
               PROVE  \/ mq' = mq /\ stage' = "posted"
                      \/ mq # <<>> /\ mq' = Tail(mq) /\ stage' \in {"posted", "halted"}
    OBVIOUS
  <2>1. \A q, c, st : Enqueue(q, c, st) = q
    BY DEF Enqueue
  <2>2. CASE Deliver \/ HandleShutdown
    BY <2>2 DEF Deliver, HandleShutdown
  <2>3. ~PostShutdown /\ ~Finish
    BY DEF PostShutdown, Finish
  <2>4. Deliver \/ HandleShutdown \/ mq' = mq
    BY <2>1, <2>3, QueueStep
  <2>5. HandleShutdown \/ stage' = "posted"
    BY DEF Next, CallSetup, CallEvent, CallApi, QueueHandler, ShutdownStep, vars,
       MakeCall, MakeCallRefused, Arrive, MnatDone, MnatFail, Progress,
       Establish, Closed, Answer, Reject, Hangup, Hold, Resume, ForceConnected,
       Deliver, BeginShutdown, ResetRegistry, PostShutdown, Finish, Reinit
  <2> QED BY <2>2, <2>4, <2>5
<1>2. TypeOK /\ Posted /\ [Next]_vars => Posted'
  <2> SUFFICES ASSUME TypeOK, Posted, [Next]_vars, stage' = "posted"
               PROVE  \E k \in 1..Len(mq') : mq'[k] = NoMsg
    OBVIOUS
  <2>0. mq \in Seq(Messages) /\ Len(mq) \in Nat /\ NoMsg \in Messages
    BY DEF TypeOK, Messages
  <2>1. CASE PostShutdown
    <3> DEFINE m == NoMsg
    <3>1. mq' = Append(mq, m) /\ m \in Messages
      BY <2>0, <2>1 DEF PostShutdown
    <3> HIDE DEF m
    <3>2. Len(mq') = Len(mq) + 1 /\ mq'[Len(mq) + 1] = m
      BY <2>0, <3>1
    <3>3. Len(mq) + 1 \in 1..Len(mq') /\ mq'[Len(mq) + 1] = m
      BY <2>0, <3>2
    <3> QED BY <3>3 DEF m
  <2>2. CASE ~PostShutdown
    <3>1. stage = "posted"
      BY <2>2 DEF Next, CallSetup, CallEvent, CallApi, QueueHandler, ShutdownStep,
         vars, MakeCall, MakeCallRefused, Arrive, MnatDone, MnatFail, Progress,
         Establish, Closed, Answer, Reject, Hangup, Hold, Resume, ForceConnected,
         Deliver, HandleShutdown, BeginShutdown, ResetRegistry, Finish, Reinit
    <3>2. CASE mq' = mq
      BY <3>1, <3>2
    <3>3. CASE mq' # mq
      <4>1. ~HandleShutdown
        BY DEF HandleShutdown
      <4>2. \A q, c, st : Enqueue(q, c, st) = q
        BY <3>1 DEF Enqueue
      <4>3. ~Finish
        BY <3>1 DEF Finish
      <4>4. Deliver
        BY <2>2, <3>3, <4>1, <4>2, <4>3, QueueStep
      <4>5. mq # <<>> /\ mq' = Tail(mq) /\ Head(mq) # NoMsg
        BY <4>4 DEF Deliver
      <4> DEFINE m == NoMsg
      <4>6. PICK k \in 1..Len(mq) : mq[k] = m
        BY <3>1
      <4>7. Head(mq) # m
        BY <4>5
      <4> HIDE DEF m
      <4>8. k # 1 /\ k - 1 \in 1..Len(mq') /\ mq'[k - 1] = mq[k]
        BY <2>0, <4>5, <4>6, <4>7
      <4>9. \E j \in 1..Len(mq') : mq'[j] = m
        BY <4>6, <4>8
      <4> QED BY <4>9 DEF m
    <3> QED BY <3>2, <3>3
  <2> QED BY <2>1, <2>2
<1>3. Init => Posted
  BY DEF Init
<1>4. TypeOK /\ Posted /\ [Next]_vars =>
        [stage = "posted" =>
           /\ \E k \in 1..Len(mq) : mq[k] = NoMsg
           /\ \/ mq' = mq /\ stage' = "posted"
              \/ mq # <<>> /\ mq' = Tail(mq) /\ stage' \in {"posted", "halted"}]_vars
  BY <1>1
<1> HIDE DEF Posted
<1> QED BY <1>2, <1>3, <1>4, TypeInit, TypeStep, PTL DEF Spec, StopComes

-----------------------------------------------------------------------------
(* What the code's comments say, and is not so.                            *)

MediaStates == {"CONNECTED", "HELD"}

\* The application is never told CONNECTED or HELD, no entry gets there, and
\* hold and resume are refused always.
NoMedia ==
    /\ \A c \in Calls : heard[c] \notin MediaStates
    /\ \A k \in 1..Len(mq) : mq[k].st \notin MediaStates
    /\ \A s \in Slots : info[s] \notin MediaStates

\* So ConnectedIsReported fails whenever a tracked call is established, in
\* every instance without the test hook and not only in the run TLC shows:
\* CONNECTED is written by the resume of a held call only, and HELD by the
\* hold of a connected one (omnix_call.c:783-851, 1006).
THEOREM NeverConnected == ASSUME ~TestHook PROVE Spec => []NoMedia
<1> DEFINE Quieted == /\ \A c \in Calls : heard[c] \notin MediaStates
                      /\ \A k \in 1..Len(mq) : mq[k].st \notin MediaStates
                      /\ \A s \in Slots : slot[s] = NoCall => info[s] = "IDLE"
<1>0. MediaStates = {"CONNECTED", "HELD"} /\ "ENDING" \notin MediaStates
      /\ "ENDED" \notin MediaStates /\ {"ENDED", "ENDING"} \subseteq EventStates
  BY EventFacts DEF MediaStates
<1>1. ASSUME TypeOK, AgreeInv, Quieted, [Next]_vars PROVE Quieted'
  <2>0. mq \in Seq(Messages) /\ Len(mq) \in Nat
    BY <1>1 DEF TypeOK
  <2>1. \A i \in Ids : ~Hold(i) /\ ~Resume(i)
    BY <1>1 DEF Hold, Resume, Found, AgreeInv, EntryAgrees
  <2>2. ASSUME NEW q \in Seq(Messages), \A k \in 1..Len(q) : q[k].st \notin MediaStates,
               NEW c \in Calls, NEW st \in EventStates \ MediaStates
        PROVE  /\ Enqueue(q, c, st) \in Seq(Messages)
               /\ \A k \in 1..Len(Enqueue(q, c, st)) : Enqueue(q, c, st)[k].st \notin MediaStates
    <3> DEFINE r == Enqueue(q, c, st)
    <3>1. r \in Seq(Messages)
      BY EnqueuePrefix
    <3>2. \A k \in 1..Len(r) : \/ k \in 1..Len(q) /\ r[k] = q[k]
                               \/ r[k] = [call |-> c, st |-> st]
      BY EnqueueElements
    <3> HIDE DEF r
    <3>3. \A k \in 1..Len(r) : r[k].st \notin MediaStates
      BY <2>2, <3>2
    <3> QED BY <3>1, <3>3 DEF r
  <2>3. \A k \in 1..Len(mq') : mq'[k].st \notin MediaStates
    <3>1. ASSUME NEW c \in Calls, NEW st \in EventStates \ MediaStates,
                 mq' = Enqueue(mq, c, st)
          PROVE  \A k \in 1..Len(mq') : mq'[k].st \notin MediaStates
      BY <1>1, <2>0, <2>2, <3>1
    <3>2. ASSUME NEW c \in Calls, mq' = Enqueue(Enqueue(mq, c, "ENDING"), c, "ENDED")
          PROVE  \A k \in 1..Len(mq') : mq'[k].st \notin MediaStates
      <4> DEFINE q == Enqueue(mq, c, "ENDING")
      <4>1. q \in Seq(Messages) /\ \A k \in 1..Len(q) : q[k].st \notin MediaStates
        BY <1>0, <1>1, <2>0, <2>2
      <4>2. mq' = Enqueue(q, c, "ENDED")
        BY <3>2
      <4> HIDE DEF q
      <4> QED BY <1>0, <2>2, <4>1, <4>2
    <3>3. CASE Deliver \/ HandleShutdown
      <4>1. mq # <<>> /\ mq' = Tail(mq)
        BY <3>3 DEF Deliver, HandleShutdown
      <4>2. \A k \in 1..Len(mq') : k + 1 \in 1..Len(mq) /\ mq'[k] = mq[k + 1]
        BY <2>0, <4>1
      <4> QED BY <1>1, <4>2
    <3>4. CASE PostShutdown
      <4>1. mq' = mq \/ mq' = Append(mq, NoMsg)
        BY <3>4 DEF PostShutdown
      <4>2. NoMsg \in Messages /\ NoMsg.st \notin MediaStates
        BY <1>0 DEF NoMsg, Messages
      <4>3. \A k \in 1..Len(Append(mq, NoMsg)) : \/ k \in 1..Len(mq) /\ Append(mq, NoMsg)[k] = mq[k]
                                                 \/ Append(mq, NoMsg)[k] = NoMsg
        BY <2>0, <4>2
      <4> QED BY <1>1, <4>1, <4>2, <4>3
    <3>5. CASE Finish
      BY <3>5 DEF Finish
    <3>6. CASE mq' = mq
      BY <1>1, <3>6
    <3> QED BY <1>0, <1>1, <2>1, <3>1, <3>2, <3>3, <3>4, <3>5, <3>6, QueueStep
  <2>4. \A c \in Calls : heard'[c] \notin MediaStates
    <3>1. CASE Deliver
      <4>1. mq # <<>> /\ heard' = [heard EXCEPT ![Head(mq).call] = Head(mq).st]
        BY <3>1 DEF Deliver
      <4>2. Head(mq) = mq[1] /\ 1 \in 1..Len(mq)
        BY <2>0, <4>1
      <4>3. Head(mq).st \notin MediaStates
        BY <1>1, <4>2
      <4> QED BY <1>1, <4>1, <4>3 DEF TypeOK
    <3>2. CASE heard' = heard
      BY <1>1, <3>2
    <3> QED BY <1>1, <3>1, <3>2, DownByFinish DEF vars
  <2>5. \A s \in Slots : slot'[s] = NoCall => info'[s] = "IDLE"
    <3>1. ASSUME NEW c \in Calls, NEW s \in Slots, NEW st, Track(c, s, st)
          PROVE  \A t \in Slots : slot'[t] = NoCall => info'[t] = "IDLE"
      BY <1>1, <3>1 DEF Track, TypeOK
    <3>2. ASSUME NEW s \in Slots, FreeSlot(s)
          PROVE  \A t \in Slots : slot'[t] = NoCall => info'[t] = "IDLE"
      BY <1>1, <3>2 DEF FreeSlot, TypeOK
    <3>3. CASE UNCHANGED <<slot, info>>
      BY <1>1, <3>3
    <3>4. ASSUME NEW i \in Ids, Answer(i)
          PROVE  \A t \in Slots : slot'[t] = NoCall => info'[t] = "IDLE"
      BY <1>1, <3>4 DEF Answer, Found, TypeOK
    <3>5. CASE ResetRegistry \/ Reinit
      BY <3>5 DEF ResetRegistry, Reinit
    <3>6. ASSUME NEW i \in Ids, Reject(i) \/ Hangup(i)
          PROVE  \A t \in Slots : slot'[t] = NoCall => info'[t] = "IDLE"
      BY <3>2, <3>3, <3>6 DEF Reject, Hangup, Finalize
    <3>7. \A i \in Ids : ~ForceConnected(i)
      BY DEF ForceConnected
    <3>8. ASSUME NEW c \in Calls, NEW i, HandleIncoming(c, i)
          PROVE  \A t \in Slots : slot'[t] = NoCall => info'[t] = "IDLE"
      BY <3>1, <3>3, <3>8 DEF HandleIncoming
    <3>9. ASSUME NEW c \in Calls, MnatDone(c) \/ MnatFail(c) \/ Closed(c)
          PROVE  \A t \in Slots : slot'[t] = NoCall => info'[t] = "IDLE"
      BY <3>2, <3>3, <3>8, <3>9 DEF MnatDone, MnatFail, Closed, Finalize
    <3>10. ASSUME NEW c \in Calls, NEW i \in Ids, MakeCall(c, i) \/ Arrive(c, i)
           PROVE  \A t \in Slots : slot'[t] = NoCall => info'[t] = "IDLE"
      BY <3>1, <3>3, <3>8, <3>10 DEF MakeCall, Arrive
    <3> QED
      BY <1>1, <2>1, <3>3, <3>4, <3>5, <3>6, <3>7, <3>9, <3>10
      DEF Next, CallSetup, CallEvent, CallApi, QueueHandler, ShutdownStep, vars,
          callVars, MakeCallRefused, Progress, Establish, Deliver,
          HandleShutdown, BeginShutdown, PostShutdown, Finish
  <2> QED BY <2>3, <2>4, <2>5
<1>2. Init => Quieted
  BY <1>0 DEF Init, TypeOK
<1>3. TypeOK /\ AgreeInv /\ Quieted => NoMedia
  BY <1>0 DEF AgreeInv, EntryAgrees, NoMedia
<1>4. TypeOK /\ AgreeInv /\ Quieted /\ [Next]_vars => Quieted'
  BY <1>1
<1>5. Init => AgreeInv
  BY DEF Init, AgreeInv
<1>6. TypeOK /\ RegistryConsistent /\ AgreeInv /\ [Next]_vars => AgreeInv'
  BY AgreeStep
<1> HIDE DEF Quieted
<1> QED
  BY <1>2, <1>3, <1>4, <1>5, <1>6, TypeInit, TypeStep, RegistryStep, StreamInit,
     PTL DEF Spec

\* A call that was refused and has no session is not released while re_main
\* runs: it counts against baresip's max_calls until the SDK is shut down.
RefusedStays ==
    [][\A c \in Calls : phase[c] = "TERMINATED" /\ sess[c] = "none" =>
         \/ phase'[c] = "TERMINATED" /\ sess'[c] = "none"
         \/ stage' \in {"halted", "down"}]_vars

\* No step of a running SDK releases it: RefusedCallReleased fails for every
\* refused call, whatever the application and the peers do afterwards
\* (omnix_call.c:643-651).
THEOREM RefusedAlwaysStays == Spec => RefusedStays
<1>1. ASSUME TypeOK, RegistryConsistent, [Next]_vars, NEW c \in Calls,
             phase[c] = "TERMINATED", sess[c] = "none",
             stage' \notin {"halted", "down"}
      PROVE  phase'[c] = "TERMINATED" /\ sess'[c] = "none"
  <2> SUFFICES ASSUME TypeOK, RegistryConsistent, [Next]_vars,
                      phase[c] = "TERMINATED", sess[c] = "none",
                      stage' \notin {"halted", "down"}
               PROVE  phase'[c] = "TERMINATED" /\ sess'[c] = "none"
    BY <1>1
  <2> DEFINE Stays == phase'[c] = "TERMINATED" /\ sess'[c] = "none"
  <2>a. \A i \in Ids, s \in Slots : stage \in Running /\ Found(i, s)
          => slot[s] \in Calls /\ slot[s] # c
    BY DEF Found, RegistryConsistent, TypeOK
  <2>b. ASSUME NEW d \in Calls, d # c, NEW st, Finalize(d, st) \/ Release(d) PROVE Stays
    BY <2>b DEF Finalize, Release, TypeOK
  <2>c. ASSUME NEW d \in Calls, d # c, NEW i, HandleIncoming(d, i) PROVE Stays
    BY <2>c DEF HandleIncoming, TypeOK
  <2>1. ASSUME NEW d \in Calls, NEW i \in Ids, MakeCall(d, i) \/ MakeCallRefused(d, i)
        PROVE  Stays
    <3>1. d # c
      BY <2>1 DEF MakeCall, MakeCallRefused
    <3> QED BY <2>1, <3>1 DEF MakeCall, MakeCallRefused, TypeOK
  <2>2. ASSUME NEW d \in Calls, NEW i \in Ids, Arrive(d, i) PROVE Stays
    <3>1. d # c
      BY <2>2 DEF Arrive
    <3> QED BY <2>2, <2>c, <3>1 DEF Arrive, TypeOK
  <2>3. ASSUME NEW d \in Calls, MnatDone(d) PROVE Stays
    <3>1. d # c
      BY <2>3 DEF MnatDone
    <3> QED BY <2>3, <2>c, <3>1 DEF MnatDone, TypeOK
  <2>4. ASSUME NEW d \in Calls, MnatFail(d) \/ Closed(d) PROVE Stays
    <3>1. d # c
      BY <2>4 DEF MnatFail, Closed, HasSess
    <3> QED BY <2>4, <2>b, <3>1 DEF MnatFail, Closed
  <2>5. ASSUME NEW d \in Calls, Progress(d) \/ Establish(d) PROVE Stays
    <3>1. d # c /\ sess' = sess
      BY <2>5 DEF Progress, Establish
    <3>2. \E ph \in Phases : phase' = [phase EXCEPT ![d] = ph]
      BY <2>5 DEF Progress, Establish, Phases
    <3> QED BY <3>1, <3>2 DEF TypeOK
  <2>6. ASSUME NEW i \in Ids, Answer(i) PROVE Stays
    BY <2>6, <2>a DEF Answer, TypeOK
  <2>7. ASSUME NEW i \in Ids, Reject(i) \/ Hangup(i) PROVE Stays
    BY <2>7, <2>a, <2>b DEF Reject, Hangup
  <2>8. ASSUME NEW i \in Ids, Hold(i) \/ Resume(i) \/ ForceConnected(i) PROVE Stays
    BY <2>8 DEF Hold, Resume, ForceConnected, callVars
  <2>9. CASE Deliver \/ BeginShutdown \/ ResetRegistry \/ PostShutdown \/ Reinit
    BY <2>9 DEF Deliver, BeginShutdown, ResetRegistry, PostShutdown, Reinit, callVars
  <2>10. ~HandleShutdown /\ ~Finish
    BY DEF HandleShutdown, Finish
  <2>11. CASE UNCHANGED vars
    BY <2>11 DEF vars
  <2> QED
    BY <2>1, <2>2, <2>3, <2>4, <2>5, <2>6, <2>7, <2>8, <2>9, <2>10, <2>11
    DEF Next, CallSetup, CallEvent, CallApi, QueueHandler, ShutdownStep
<1>2. TypeOK /\ RegistryConsistent /\ [Next]_vars =>
        [\A c \in Calls : phase[c] = "TERMINATED" /\ sess[c] = "none" =>
           \/ phase'[c] = "TERMINATED" /\ sess'[c] = "none"
           \/ stage' \in {"halted", "down"}]_vars
  BY <1>1
<1> QED
  BY <1>2, TypeInit, TypeStep, RegistryStep, StreamInit, PTL DEF Spec, RefusedStays
=============================================================================
