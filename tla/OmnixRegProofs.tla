---------------------------- MODULE OmnixRegProofs ----------------------------
(***************************************************************************)
(* Proofs about OmnixReg for every queue capacity and every number of      *)
(* requests in flight: its types, that REGISTERED is backed by an answer,  *)
(* and that the application's last word agrees with reg_state.             *)
(*                                                                         *)
(* The last needs a stronger invariant, LastWordInv: it follows the last   *)
(* state pushed, delivered or not, and says what the re thread and the app *)
(* thread still owe at each point of omnix_register.                       *)
(***************************************************************************)
EXTENDS OmnixReg, TLAPS

\* The state on_reg_state will have been told last when the queue is empty.
LastWord == IF mq = <<>> THEN told ELSE mq[Len(mq)]

Agreed == LastWord = regState \/ (LastWord = "none" /\ regState = "UNREGISTERED")

\* A refused client neither waits for an answer nor for its timer, the state
\* the re thread is about to push is still reg_state when no call to
\* omnix_register is under way, and when nothing more is owed the last word
\* is reg_state.
LastWordInv ==
    /\ app \in {"rejected", "failed"} => inFlight = 0 /\ ~timer /\ LockFree
    /\ app = "failed" => regState = "FAILED"
    /\ app \in {"idle", "leaving"} /\ ~LockFree => regState = toPush
    /\ app \in {"idle", "leaving"} /\ LockFree /\ inFlight = 0 /\ ~lossy => Agreed

-----------------------------------------------------------------------------
\* Pushing states keeps the queue typed and within its capacity, never
\* forgets a loss, and unless one is lost the last state pushed is the last
\* of the queue (omnix_events_push_reg_state).
LEMMA PushFacts ==
    ASSUME mq \in Seq(States), Len(mq) <= QueueCap, lossy \in BOOLEAN,
           NEW sts \in Seq(States), Push(sts)
    PROVE  /\ mq' \in Seq(States) /\ Len(mq') <= QueueCap
           /\ lossy' \in BOOLEAN /\ (lossy => lossy')
           /\ sts # <<>> /\ ~lossy'
                => mq' # <<>> /\ mq'[Len(mq')] = sts[Len(sts)]
           /\ sts = <<>> => mq' = mq
<1> DEFINE room == QueueCap - Len(mq)
           fits == IF Len(sts) <= room THEN Len(sts) ELSE room
           sub  == SubSeq(sts, 1, fits)
<1>1. /\ room \in Nat /\ fits \in 0..Len(sts) /\ Len(mq) + fits <= QueueCap
      /\ Len(sts) \in Nat /\ Len(mq) \in Nat
  BY QueueAssumption
<1>2. mq' = mq \o sub /\ lossy' = (lossy \/ fits < Len(sts))
  BY DEF Push
<1> HIDE DEF room
<1>3. sub \in Seq(States) /\ Len(sub) = fits /\ \A i \in 1..fits : sub[i] = sts[i]
  <2>1. fits \in Nat /\ \A i \in 1..fits : i \in 1..Len(sts)
    BY <1>1
  <2> HIDE DEF fits
  <2> QED BY <2>1
<1> HIDE DEF fits, sub
<1>4. mq' \in Seq(States) /\ Len(mq') = Len(mq) + fits
  <2>1. ASSUME NEW q \in Seq(States), NEW r \in Seq(States)
        PROVE  q \o r \in Seq(States) /\ Len(q \o r) = Len(q) + Len(r)
    OBVIOUS
  <2> QED BY <2>1, <1>2, <1>3
<1>5. ASSUME sts # <<>>, ~lossy' PROVE mq' # <<>> /\ mq'[Len(mq')] = sts[Len(sts)]
  <2>1. Len(sts) > 0
    BY <1>5
  <2>2. ~(fits < Len(sts))
    BY <1>2, <1>5, Zenon
  <2>3. fits = Len(sts)
    BY <2>2, <1>1
  <2>4. ASSUME NEW q \in Seq(States), NEW r \in Seq(States), Len(r) > 0
        PROVE  q \o r # <<>> /\ (q \o r)[Len(q \o r)] = r[Len(r)]
    BY <2>4
  <2> QED BY <2>1, <2>3, <2>4, <1>1, <1>2, <1>3
<1>6. ASSUME sts = <<>> PROVE mq' = mq
  BY <1>6, <1>1, <1>2, <1>3
<1> QED BY <1>1, <1>2, <1>4, <1>5, <1>6

\* One state is a sequence of states that ends in it.
LEMMA Single ==
    ASSUME NEW st \in States
    PROVE  /\ <<st>> \in Seq(States) /\ <<st>> # <<>>
           /\ Len(<<st>>) = 1 /\ <<st>>[Len(<<st>>)] = st
OBVIOUS

\* What omnix_register pushes under the re lock, if its request is sent and
\* if it is refused, and where it ends.
LEMMA RegisterPushes ==
    /\ OnRegistering \in Seq(States)
    /\ OnRegistering # <<>> => OnRegistering[Len(OnRegistering)] = "REGISTERING"
    /\ OnRegistering \o <<"FAILED">> \in Seq(States)
<1>1. "REGISTERING" \in States /\ "FAILED" \in States
  BY DEF States
<1>2. <<"REGISTERING">> \in Seq(States) /\ <<"FAILED">> \in Seq(States) /\ <<>> \in Seq(States)
  BY <1>1
<1>3. OnRegistering = <<>> \/ OnRegistering = <<"REGISTERING">>
  BY DEF OnRegistering
<1>4. OnRegistering \in Seq(States)
  BY <1>2, <1>3
<1> QED BY <1>2, <1>3, <1>4

-----------------------------------------------------------------------------
(* Types.                                                                  *)

\* Every step of either thread keeps the fields of the module typed.
LEMMA TypeStep == TypeOK /\ [Next]_vars => TypeOK'
<1> SUFFICES ASSUME TypeOK, [Next]_vars PROVE TypeOK'
  OBVIOUS
<1> USE QueueAssumption, FlightAssumption
<1>0. mq \in Seq(States) /\ Len(mq) <= QueueCap /\ lossy \in BOOLEAN
  BY DEF TypeOK
<1>1. CASE RegisterCall
  BY <1>1 DEF TypeOK, RegisterCall, AppPoints, States, clientVars, history
<1>2. CASE RegisterTell
  <2>1. "REGISTERING" \in States
    BY DEF States
  <2>2. mq' \in Seq(States) /\ Len(mq') <= QueueCap /\ lossy' \in BOOLEAN
    BY <1>0, <1>2, <2>1, PushFacts, Single DEF RegisterTell
  <2> QED BY <1>2, <2>2 DEF TypeOK, RegisterTell, AppPoints, clientVars, history
<1>3. CASE RegisterSend
  <2>1. mq' \in Seq(States) /\ Len(mq') <= QueueCap /\ lossy' \in BOOLEAN
    BY <1>0, <1>3, PushFacts, RegisterPushes DEF RegisterSend
  <2>2. /\ inFlight' \in {0, 1} /\ app' \in {"idle", "rejected"}
        /\ regState' \in {"REGISTERING", "FAILED"} /\ pending' = FALSE
        /\ client' = "in" /\ timer' = FALSE /\ accepted' = FALSE
        /\ onlyOut' = FALSE /\ toPush' = toPush /\ told' = told
    BY <1>3 DEF RegisterSend
  <2>3. {0, 1} \subseteq 0..MaxInFlight
    OBVIOUS
  <2> QED BY <2>1, <2>2, <2>3 DEF TypeOK, AppPoints, States
<1>4. CASE RejectSet
  BY <1>4 DEF TypeOK, RejectSet, AppPoints, States, clientVars, history
<1>5. CASE RejectTell
  <2>1. "FAILED" \in States
    BY DEF States
  <2>2. mq' \in Seq(States) /\ Len(mq') <= QueueCap /\ lossy' \in BOOLEAN
    BY <1>0, <1>5, <2>1, PushFacts, Single DEF RejectTell
  <2> QED BY <1>5, <2>2 DEF TypeOK, RejectTell, AppPoints, clientVars, history
<1>6. CASE UnregisterCall
  BY <1>6 DEF TypeOK, UnregisterCall, AppPoints, clientVars, history
<1>7. CASE UnregisterSend
  <2>1. CASE client = "none"
    BY <1>7, <2>1 DEF TypeOK, UnregisterSend, AppPoints, clientVars
  <2>2. CASE client # "none"
    <3>1. "UNREGISTERED" \in States
      BY DEF States
    <3>2. mq' \in Seq(States) /\ Len(mq') <= QueueCap /\ lossy' \in BOOLEAN
      BY <1>0, <1>7, <2>2, <3>1, PushFacts, Single DEF UnregisterSend
    <3>3. inFlight' \in 0..MaxInFlight
      BY <1>7, <2>2 DEF UnregisterSend, TypeOK
    <3> QED BY <1>7, <2>2, <3>1, <3>2, <3>3 DEF TypeOK, UnregisterSend, AppPoints
  <2> QED BY <2>1, <2>2
<1>8. CASE AnswerOk
  <2>1. inFlight' \in 0..MaxInFlight
    BY <1>8 DEF AnswerOk, TypeOK
  <2> QED BY <1>8, <2>1 DEF TypeOK, AnswerOk, Apply, OnOk, States
<1>9. CASE AnswerFail
  <2>1. inFlight' \in 0..MaxInFlight
    BY <1>9 DEF AnswerFail, TypeOK
  <2> QED BY <1>9, <2>1 DEF TypeOK, AnswerFail, Apply, States, history
<1>10. CASE Refresh
  <2>1. inFlight \in 0..MaxInFlight
    BY DEF TypeOK
  <2>2. CASE inFlight < MaxInFlight /\ inFlight' = inFlight + 1 /\ timer' = FALSE
             /\ UNCHANGED <<regState, pending, toPush>>
    <3>1. inFlight' \in 0..MaxInFlight
      BY <2>1, <2>2
    <3>2. UNCHANGED <<app, client, mq, told, lossy, accepted, onlyOut>>
      BY <1>10 DEF Refresh, history
    <3> QED BY <2>2, <3>1, <3>2 DEF TypeOK
  <2>3. CASE Apply("FAILED") /\ UNCHANGED <<inFlight, timer>>
    BY <1>10, <2>3 DEF TypeOK, Refresh, Apply, States, history
  <2> QED BY <1>10, <2>2, <2>3 DEF Refresh
<1>11. CASE ReTell
  <2>1. toPush \in States
    BY <1>11 DEF ReTell, TypeOK
  <2>2. mq' \in Seq(States) /\ Len(mq') <= QueueCap /\ lossy' \in BOOLEAN
    BY <1>0, <1>11, <2>1, PushFacts, Single DEF ReTell
  <2> QED BY <1>11, <2>2 DEF TypeOK, ReTell, clientVars, history
<1>12. CASE Deliver
  <2>1. Head(mq) \in States /\ Tail(mq) \in Seq(States) /\ Len(Tail(mq)) <= QueueCap
    BY <1>0, <1>12 DEF Deliver
  <2> QED BY <1>12, <2>1 DEF TypeOK, Deliver, clientVars, history
<1>13. CASE UNCHANGED vars
  BY <1>13 DEF TypeOK, vars
<1> QED
  BY <1>1, <1>2, <1>3, <1>4, <1>5, <1>6, <1>7, <1>8, <1>9, <1>10, <1>11,
     <1>12, <1>13 DEF Next, AppStep, Answer

\* Every field stays in its type and the queue within the pipe, whatever the
\* two threads do (omnix_events.c:85-144, 365-394).
THEOREM TypeCorrect == Spec => []TypeOK
<1>1. Init => TypeOK
  <2>1. <<>> \in Seq(States) /\ Len(<<>>) <= QueueCap /\ 0 \in 0..MaxInFlight
    BY QueueAssumption, FlightAssumption
  <2> QED BY <2>1 DEF Init, TypeOK, States, AppPoints
<1>2. TypeOK /\ [Next]_vars => TypeOK'
  BY TypeStep
<1> QED BY <1>1, <1>2, PTL DEF Spec

-----------------------------------------------------------------------------
(* REGISTERED is backed by an answer.                                      *)

\* reg_state is REGISTERED only if the present client was answered 200: no
\* step of the app thread and no answer to an earlier client sets it
\* (omnix_voice.c:388-410, omnix_events.c:171-191).
THEOREM AlwaysBacked == Spec => []RegisteredIsBacked
<1>1. Init => RegisteredIsBacked
  BY DEF Init, RegisteredIsBacked
<1>2. RegisteredIsBacked /\ [Next]_vars => RegisteredIsBacked'
  <2> SUFFICES ASSUME RegisteredIsBacked, [Next]_vars, regState' = "REGISTERED"
               PROVE  accepted'
    BY DEF RegisteredIsBacked
  <2>1. CASE RegisterCall
    BY <2>1 DEF RegisterCall
  <2>2. CASE RegisterSend
    BY <2>2 DEF RegisterSend
  <2>3. CASE RejectSet
    BY <2>3 DEF RejectSet
  <2>4. CASE UnregisterSend
    BY <2>4 DEF UnregisterSend, RegisteredIsBacked
  <2>5. CASE AnswerOk
    BY <2>5 DEF AnswerOk
  <2>6. CASE AnswerFail
    BY <2>6 DEF AnswerFail, Apply
  <2>7. CASE Refresh
    BY <2>7 DEF Refresh, Apply, history, RegisteredIsBacked
  <2>8. CASE UNCHANGED <<regState, accepted>>
    BY <2>8 DEF RegisteredIsBacked
  <2> QED
    BY <2>1, <2>2, <2>3, <2>4, <2>5, <2>6, <2>7, <2>8
    DEF Next, AppStep, Answer, RegisterTell, RejectTell, UnregisterCall,
        ReTell, Deliver, history, vars
<1> QED BY <1>1, <1>2, PTL DEF Spec

-----------------------------------------------------------------------------
(* The last word of the application.                                       *)

\* A push that loses nothing makes the state pushed the last word.
LEMMA PushSpeaks ==
    ASSUME TypeOK, NEW st \in States, Push(<<st>>)
    PROVE  /\ lossy => lossy'
           /\ ~lossy' => LastWord' = st
<1>1. <<st>> \in Seq(States) /\ <<st>> # <<>> /\ <<st>>[Len(<<st>>)] = st
  BY Single
<1>2. /\ lossy => lossy'
      /\ ~lossy' => mq' # <<>> /\ mq'[Len(mq')] = <<st>>[Len(<<st>>)]
  BY <1>1, PushFacts DEF TypeOK
<1> QED BY <1>1, <1>2 DEF LastWord

\* Delivering the oldest state leaves the last word as it is.
LEMMA DeliverSpeaks ==
    ASSUME TypeOK, Deliver
    PROVE  LastWord' = LastWord
<1>1. ASSUME NEW q \in Seq(States), q # <<>>
      PROVE  IF Tail(q) = <<>> THEN Head(q) = q[Len(q)]
                               ELSE Tail(q)[Len(Tail(q))] = q[Len(q)]
  <2> DEFINE t == Tail(q)
  <2>1. /\ Len(q) \in Nat \ {0} /\ Head(q) = q[1]
        /\ t \in Seq(States) /\ Len(t) = Len(q) - 1
        /\ \A i \in 1..(Len(q) - 1) : t[i] = q[i + 1]
    BY <1>1
  <2> HIDE DEF t
  <2>2. CASE t = <<>>
    <3>1. Len(t) = 0
      BY <2>2
    <3>2. \A n \in Nat : n - 1 = 0 => n = 1
      OBVIOUS
    <3>3. Len(q) = 1
      BY <2>1, <3>1, <3>2
    <3> QED BY <2>1, <2>2, <3>3 DEF t
  <2>3. CASE t # <<>>
    <3>1. Len(t) # 0
      BY <2>1, <2>3
    <3>2. Len(q) - 1 \in 1..(Len(q) - 1) /\ (Len(q) - 1) + 1 = Len(q)
      BY <2>1, <3>1
    <3>3. t[Len(t)] = q[Len(q)]
      BY <2>1, <3>2
    <3> QED BY <2>3, <3>3 DEF t
  <2> QED BY <2>2, <2>3
<1>2. mq \in Seq(States) /\ mq # <<>> /\ mq' = Tail(mq) /\ told' = Head(mq)
  BY DEF TypeOK, Deliver
<1> QED BY <1>1, <1>2 DEF LastWord

\* Each step pays what is owed: a handler's push makes reg_state the last
\* word, and a call of omnix_register ends with a request in flight or with
\* FAILED both in reg_state and in the queue.
LEMMA LastWordStep == TypeOK /\ LastWordInv /\ [Next]_vars => LastWordInv'
<1> SUFFICES ASSUME TypeOK, LastWordInv, [Next]_vars PROVE LastWordInv'
  OBVIOUS
<1>0. "FAILED" \in States /\ "UNREGISTERED" \in States /\ "none" \notin States
  BY DEF States
<1>1. CASE RegisterCall
  BY <1>1 DEF LastWordInv, RegisterCall
<1>2. CASE RegisterTell
  BY <1>2 DEF LastWordInv, RegisterTell
<1>3. CASE RegisterSend
  BY <1>3 DEF LastWordInv, RegisterSend, LockFree
<1>4. CASE RejectSet
  BY <1>4 DEF LastWordInv, RejectSet, LockFree, clientVars
<1>5. CASE RejectTell
  <2>1. (lossy => lossy') /\ (~lossy' => LastWord' = "FAILED")
    BY <1>0, <1>5, PushSpeaks DEF RejectTell
  <2> QED BY <1>5, <2>1 DEF LastWordInv, RejectTell, LockFree, clientVars, Agreed
<1>6. CASE UnregisterCall
  BY <1>6 DEF LastWordInv, UnregisterCall, LockFree, clientVars, Agreed, LastWord
<1>7. CASE UnregisterSend
  <2>1. CASE client = "none"
    BY <1>7, <2>1 DEF LastWordInv, UnregisterSend, LockFree, clientVars, Agreed, LastWord
  <2>2. CASE client # "none"
    <3>1. (lossy => lossy') /\ (~lossy' => LastWord' = "UNREGISTERED")
      BY <1>0, <1>7, <2>2, PushSpeaks DEF UnregisterSend
    <3> QED BY <1>7, <2>2, <3>1 DEF LastWordInv, UnregisterSend, LockFree, Agreed
  <2> QED BY <2>1, <2>2
<1>8. CASE AnswerOk
  <2>1. inFlight > 0 /\ OnOk \in States
    BY <1>8 DEF AnswerOk, OnOk, States
  <2> QED BY <1>0, <1>8, <2>1 DEF LastWordInv, AnswerOk, Apply, LockFree
<1>9. CASE AnswerFail
  BY <1>0, <1>9 DEF LastWordInv, AnswerFail, Apply, LockFree
<1>10. CASE Refresh
  <2>1. inFlight \in Nat
    BY FlightAssumption DEF TypeOK
  <2>2. timer /\ app \notin {"rejected", "failed"}
    BY <1>10 DEF Refresh, LastWordInv
  <2>3. CASE inFlight' = inFlight + 1 /\ UNCHANGED <<regState, pending, toPush>>
    <3>1. inFlight' # 0
      BY <2>1, <2>3
    <3> QED BY <1>10, <2>2, <2>3, <3>1 DEF LastWordInv, Refresh, LockFree
  <2>4. CASE Apply("FAILED")
    BY <1>0, <1>10, <2>2, <2>4 DEF LastWordInv, Refresh, Apply, LockFree
  <2> QED BY <1>10, <2>3, <2>4 DEF Refresh
<1>11. CASE ReTell
  <2>1. toPush \in States /\ ~LockFree /\ LockFree'
    BY <1>11 DEF ReTell, TypeOK, LockFree
  <2>2. (lossy => lossy') /\ (~lossy' => LastWord' = toPush)
    BY <1>11, <2>1, PushSpeaks DEF ReTell
  <2> QED BY <1>11, <2>1, <2>2 DEF LastWordInv, ReTell, clientVars, Agreed
<1>12. CASE Deliver
  <2>1. LastWord' = LastWord
    BY <1>12, DeliverSpeaks
  <2> QED BY <1>12, <2>1 DEF LastWordInv, Deliver, LockFree, clientVars, Agreed
<1>13. CASE UNCHANGED vars
  BY <1>13 DEF LastWordInv, vars, LockFree, Agreed, LastWord
<1> QED
  BY <1>1, <1>2, <1>3, <1>4, <1>5, <1>6, <1>7, <1>8, <1>9, <1>10, <1>11,
     <1>12, <1>13 DEF Next, AppStep, Answer

\* When nothing is on its way and no push was dropped, on_reg_state was last
\* told reg_state: the unordered writes and pushes of the two threads never
\* leave the application with a stale state (omnix_events.c:119-144, 365-394).
THEOREM AlwaysAgrees == Spec => []ToldAgrees
<1>1. Init => LastWordInv
  BY DEF Init, LastWordInv, LockFree, Agreed, LastWord
<1>2. LastWordInv => ToldAgrees
  BY DEF LastWordInv, ToldAgrees, Agreed, LastWord
<1> QED BY <1>1, <1>2, TypeCorrect, LastWordStep, PTL DEF Spec

-----------------------------------------------------------------------------
(* REGISTERING is awaited.                                                 *)

Awaited ==
    regState = "REGISTERING" => app \in {"registering", "told"} \/ inFlight > 0

\* Every step that leaves reg_state REGISTERING leaves what will end it.
LEMMA AwaitedStep == TypeOK /\ Awaited /\ [Next]_vars => Awaited'
<1> SUFFICES ASSUME TypeOK, Awaited, [Next]_vars, regState' = "REGISTERING"
             PROVE  app' \in {"registering", "told"} \/ inFlight' > 0
  BY DEF Awaited
<1> USE DEF Awaited
<1>0. inFlight \in Nat
  BY FlightAssumption DEF TypeOK
<1>1. CASE RegisterCall
  BY <1>1 DEF RegisterCall
<1>2. CASE RegisterTell
  BY <1>2 DEF RegisterTell
<1>3. CASE RegisterSend
  BY <1>3 DEF RegisterSend
<1>4. CASE RejectSet
  BY <1>4 DEF RejectSet
<1>5. CASE UnregisterSend
  BY <1>5 DEF UnregisterSend, clientVars
<1>6. CASE Answer
  BY <1>6 DEF Answer, AnswerOk, AnswerFail, Apply, OnOk
<1>7. CASE Refresh
  BY <1>0, <1>7 DEF Refresh, Apply
<1>8. CASE RejectTell \/ UnregisterCall
  BY <1>8 DEF RejectTell, UnregisterCall, clientVars
<1>9. CASE UNCHANGED <<regState, app, inFlight>>
  BY <1>9
<1> QED
  BY <1>1, <1>2, <1>3, <1>4, <1>5, <1>6, <1>7, <1>8, <1>9
  DEF Next, AppStep, ReTell, Deliver, clientVars, vars

\* reg_state is REGISTERING, and the application is told so last, only while
\* something is under way that will change it: no interleaving of the two
\* threads leaves the application to wait for nothing (omnix_voice.c:388-437,
\* omnix_events.c:85-144).
THEOREM AlwaysAwaited == Spec => []RegisteringIsAwaited
<1>1. Init => LastWordInv /\ Awaited
  BY DEF Init, LastWordInv, LockFree, Agreed, LastWord, Awaited
<1>2. TypeOK /\ LastWordInv /\ Awaited => RegisteringIsAwaited
  <2> SUFFICES ASSUME TypeOK, LastWordInv, Awaited,
                      told = "REGISTERING", ~lossy, mq = <<>>, LockFree,
                      ~(inFlight > 0), app \in {"idle", "leaving"}
               PROVE  FALSE
    BY DEF RegisteringIsAwaited, Awaited
  <2>1. inFlight = 0
    BY FlightAssumption DEF TypeOK
  <2>2. Agreed
    BY <2>1, Zenon DEF LastWordInv
  <2>3. regState = "REGISTERING"
    BY <2>2 DEF Agreed, LastWord
  <2> QED BY <2>3 DEF Awaited
<1>3. TypeOK /\ Awaited /\ [Next]_vars => Awaited'
  BY AwaitedStep
<1> QED BY <1>1, <1>2, <1>3, TypeCorrect, LastWordStep, PTL DEF Spec

-----------------------------------------------------------------------------
(* What the 200 to an un-REGISTER says.                                    *)

\* unregister_pending is only set from the call of omnix_unregister to its
\* lock, or while there is no client that could be answered.
PendingInv ==
    /\ client = "none" => inFlight = 0 /\ ~timer
    /\ pending /\ client # "none" => app = "leaving"

\* Every step that sends the request of omnix_unregister clears it again.
LEMMA PendingStep == TypeOK /\ PendingInv /\ [Next]_vars => PendingInv'
<1> SUFFICES ASSUME TypeOK, PendingInv, [Next]_vars PROVE PendingInv'
  OBVIOUS
<1> USE DEF PendingInv
<1>1. CASE RegisterCall \/ RegisterTell
  BY <1>1 DEF RegisterCall, RegisterTell, clientVars
<1>2. CASE RegisterSend
  BY <1>2 DEF RegisterSend
<1>3. CASE RejectSet \/ RejectTell \/ UnregisterCall
  BY <1>3 DEF RejectSet, RejectTell, UnregisterCall, clientVars
<1>4. CASE UnregisterSend
  BY <1>4 DEF UnregisterSend, clientVars
<1>5. CASE Answer
  BY <1>5 DEF Answer, AnswerOk, AnswerFail, Apply
<1>6. CASE Refresh
  <2>1. client # "none" /\ UNCHANGED <<client, app>>
    BY <1>6 DEF Refresh
  <2>2. pending' => pending
    BY <1>6 DEF Refresh, Apply
  <2>3. PendingInv'
    BY <2>1, <2>2, Zenon
  <2> QED BY <2>3
<1>7. CASE ReTell \/ Deliver \/ UNCHANGED vars
  BY <1>7 DEF ReTell, Deliver, clientVars, vars
<1> QED
  BY <1>1, <1>2, <1>3, <1>4, <1>5, <1>6, <1>7 DEF Next, AppStep

\* A 200 is told as REGISTERED unless omnix_unregister waits for the lock.
OkSaysRegistered ==
    [][AnswerOk /\ app # "leaving" => regState' = "REGISTERED"]_vars

\* No 200 to an un-REGISTER that omnix_unregister has sent is ever told as
\* UNREGISTERED: what unregister_pending is for (omnix_events.c:179-182) only
\* happens to an answer that comes before the request is there.  This is the
\* counterexample to UnregisterLasts for every schedule and every capacity.
THEOREM OkAlwaysSaysRegistered == Spec => OkSaysRegistered
<1>1. Init => PendingInv
  BY DEF Init, PendingInv
<1>2. TypeOK /\ PendingInv =>
        (AnswerOk /\ app # "leaving" => regState' = "REGISTERED")
  <2> SUFFICES ASSUME TypeOK, PendingInv, AnswerOk, app # "leaving"
               PROVE  regState' = "REGISTERED"
    OBVIOUS
  <2>1. client # "none" /\ regState' = OnOk
    BY DEF PendingInv, AnswerOk, Apply
  <2>2. ~pending
    BY <2>1, Zenon DEF PendingInv
  <2> QED BY <2>1, <2>2 DEF OnOk
<1> QED
  BY <1>1, <1>2, TypeCorrect, PendingStep, PTL DEF Spec, OkSaysRegistered
=============================================================================
