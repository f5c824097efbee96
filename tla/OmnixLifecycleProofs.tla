------------------------- MODULE OmnixLifecycleProofs -------------------------
(***************************************************************************)
(* Proofs about OmnixLifecycle for every capacity of the queue and every   *)
(* patience of omnix_init.                                                 *)
(*                                                                         *)
(* LifeInv ties the place of the application thread to the life of the re  *)
(* thread: between its creation and its join the stack is there; until a   *)
(* stop is asked for the loop is not cancelled and no request to stop is   *)
(* in the queue; and g_re_ready is set only by a loop that still runs.     *)
(***************************************************************************)
EXTENDS OmnixLifecycle, FiniteSetTheorems, TLAPS

\* From the creation of the thread to its join, and until the stop request.
Joinable  == {"ask", "wait", "account", "up", "stop", "join"}
Unstopped == Joinable \ {"join"}

LifeInv ==
    /\ thread = "none" <=> pc \notin Joinable
    /\ pc \in Joinable => stackUp /\ mqUp
    /\ pc \in {"down", "events", "create"} => mq = <<>>
    /\ pc \in Unstopped => /\ \A i \in 1..Len(mq) : mq[i] # "shutdown"
                           /\ thread \in Running => polling
    /\ pc \in {"ask", "wait", "account", "up"} /\ ready => thread \in Running
    /\ pc \in {"account", "up"} => ready
    /\ pc \in {"events", "create"} => ~ready /\ stackUp
    /\ pc = "create" => mqUp
    /\ pc = "up" => initialized

-----------------------------------------------------------------------------
\* A push appends its message and keeps the capacity.
LEMMA PushFacts ==
    ASSUME TypeOK, NEW m \in Messages, Push(m)
    PROVE  /\ mq' \in Seq(Messages) /\ Len(mq') <= QueueCap
           /\ Len(mq') = Len(mq) + 1 /\ mq'[Len(mq')] = m
           /\ \A i \in 1..Len(mq) : mq'[i] = mq[i]
           /\ lossy' = lossy
<1>1. mq \in Seq(Messages) /\ Len(mq) \in Nat /\ Len(mq) < QueueCap
  BY QueueAssumption DEF TypeOK, Push, Full
<1>2. mq' = Append(mq, m) /\ lossy' = lossy
  BY DEF Push
<1>3. ASSUME NEW q \in Seq(Messages)
      PROVE  /\ Append(q, m) \in Seq(Messages)
             /\ Len(Append(q, m)) = Len(q) + 1
             /\ Append(q, m)[Len(q) + 1] = m
             /\ \A i \in 1..Len(q) : Append(q, m)[i] = q[i]
  OBVIOUS
<1>4. mq' \in Seq(Messages) /\ Len(mq') = Len(mq) + 1 /\ mq'[Len(mq) + 1] = m
      /\ \A i \in 1..Len(mq) : mq'[i] = mq[i]
  BY <1>1, <1>2, <1>3
<1> QED BY <1>1, <1>2, <1>4, QueueAssumption

\* A notification is pushed or dropped, and is never a request to stop.
LEMMA NotifyFacts ==
    ASSUME TypeOK, Notify
    PROVE  /\ mq' \in Seq(Messages) /\ Len(mq') <= QueueCap /\ lossy' \in BOOLEAN
           /\ (\A i \in 1..Len(mq) : mq[i] # "shutdown")
                => \A i \in 1..Len(mq') : mq'[i] # "shutdown"
<1>0. "payload" \in Messages /\ mq \in Seq(Messages) /\ Len(mq) \in Nat
  BY DEF Messages, TypeOK
<1>1. CASE Push("payload")
  <2>1. /\ mq' \in Seq(Messages) /\ Len(mq') <= QueueCap
        /\ Len(mq') = Len(mq) + 1 /\ mq'[Len(mq')] = "payload"
        /\ \A i \in 1..Len(mq) : mq'[i] = mq[i]
    BY <1>0, <1>1, PushFacts
  <2>2. lossy' \in BOOLEAN
    BY <1>1 DEF Push, TypeOK
  <2>3. \A i \in 1..Len(mq') : i \in 1..Len(mq) \/ i = Len(mq')
    BY <1>0, <2>1
  <2> QED BY <2>1, <2>2, <2>3
<1>2. CASE Full /\ lossy' = TRUE /\ UNCHANGED mq
  BY <1>2 DEF TypeOK
<1> QED BY <1>1, <1>2 DEF Notify

\* Taking the oldest message leaves the others.
LEMMA TailFacts ==
    ASSUME TypeOK, mq # <<>>
    PROVE  /\ Head(mq) \in Messages /\ Tail(mq) \in Seq(Messages)
           /\ Len(Tail(mq)) <= QueueCap
           /\ (\A i \in 1..Len(mq) : mq[i] # "shutdown")
                => /\ Head(mq) # "shutdown"
                   /\ \A i \in 1..Len(Tail(mq)) : Tail(mq)[i] # "shutdown"
<1>1. ASSUME NEW q \in Seq(Messages), q # <<>>
      PROVE  /\ Len(q) \in Nat \ {0} /\ Head(q) \in Messages /\ Head(q) = q[1]
             /\ Tail(q) \in Seq(Messages) /\ Len(Tail(q)) = Len(q) - 1
             /\ \A i \in 1..(Len(q) - 1) : Tail(q)[i] = q[i + 1]
  BY <1>1
<1>2. mq \in Seq(Messages) /\ Len(mq) <= QueueCap
  BY DEF TypeOK
<1> DEFINE t == Tail(mq)
           h == Head(mq)
<1>3. /\ Len(mq) \in Nat \ {0} /\ h \in Messages /\ h = mq[1]
      /\ t \in Seq(Messages) /\ Len(t) = Len(mq) - 1
      /\ \A i \in 1..(Len(mq) - 1) : t[i] = mq[i + 1]
  BY <1>1, <1>2
<1> HIDE DEF t, h
<1>4. Len(t) <= QueueCap
  BY <1>2, <1>3, QueueAssumption
<1>5. ASSUME \A i \in 1..Len(mq) : mq[i] # "shutdown"
      PROVE  h # "shutdown" /\ \A i \in 1..Len(t) : t[i] # "shutdown"
  <2>1. 1 \in 1..Len(mq) /\ \A i \in 1..Len(t) : i + 1 \in 1..Len(mq)
    BY <1>3
  <2> QED BY <1>3, <1>5, <2>1
<1> QED BY <1>3, <1>4, <1>5 DEF t, h
-----------------------------------------------------------------------------
(* Types.                                                                  *)

\* Every step of the two threads keeps the state typed.
LEMMA TypeStep == TypeOK /\ [Next]_vars => TypeOK'
<1> SUFFICES ASSUME TypeOK, [Next]_vars PROVE TypeOK'
  OBVIOUS
<1> USE QueueAssumption, PatienceAssumption DEF PCs, Rest, Threads, Running
<1>1. CASE InitBegin
  <2>1. 0 \in 0..Patience /\ 0 \in 0..QueueCap
    OBVIOUS
  <2> QED BY <1>1, <2>1 DEF TypeOK, InitBegin, g_state, loop
<1>2. CASE EventsInit
  BY <1>2 DEF TypeOK, EventsInit, g_state, loop
<1>3. CASE CreateThread
  BY <1>3 DEF TypeOK, CreateThread, g_state
<1>4. CASE AskReady
  <2>1. mq' \in Seq(Messages) /\ Len(mq') <= QueueCap /\ lossy' = lossy
    BY <1>4, PushFacts DEF AskReady, Messages
  <2> QED BY <1>4, <2>1 DEF TypeOK, AskReady, g_state, loop
<1>5. CASE Sleep
  <2>1. waits' \in 0..Patience
    BY <1>5 DEF TypeOK, Sleep
  <2> QED BY <1>5, <2>1 DEF TypeOK, Sleep, g_state, loop
<1>6. CASE Await
  BY <1>6 DEF TypeOK, Await, g_state, loop
<1>7. CASE AccountSetup
  BY <1>7 DEF TypeOK, AccountSetup, loop
<1>8. CASE AppNotify
  <2>1. mq' \in Seq(Messages) /\ Len(mq') <= QueueCap /\ lossy' \in BOOLEAN
    BY <1>8, NotifyFacts DEF AppNotify
  <2> QED BY <1>8, <2>1 DEF TypeOK, AppNotify, g_state, loop
<1>9. CASE ShutdownBegin
  BY <1>9 DEF TypeOK, ShutdownBegin, loop
<1>10. CASE Stop
  <2>1. CASE Push("shutdown") /\ UNCHANGED polling
    <3>1. mq' \in Seq(Messages) /\ Len(mq') <= QueueCap /\ lossy' = lossy
      BY <2>1, PushFacts DEF Messages
    <3> QED BY <1>10, <2>1, <3>1 DEF TypeOK, Stop, g_state
  <2>2. CASE Full /\ lossy' = TRUE /\ polling' = FALSE /\ UNCHANGED mq
    BY <1>10, <2>2 DEF TypeOK, Stop, g_state
  <2> QED BY <1>10, <2>1, <2>2 DEF Stop
<1>11. CASE Join
  BY <1>11 DEF TypeOK, Join, g_state
<1>12. CASE Close
  <2> DEFINE left == {i \in DOMAIN mq : mq[i] = "payload"}
  <2>1. left \subseteq 1..Len(mq) /\ Len(mq) \in 0..QueueCap
    BY DEF TypeOK
  <2>2. IsFiniteSet(1..Len(mq)) /\ Cardinality(1..Len(mq)) = Len(mq)
    <3>1. Len(mq) \in Int /\ 1 \in Int
      BY <2>1
    <3>2. /\ IsFiniteSet(1..Len(mq))
          /\ Cardinality(1..Len(mq)) = IF 1 > Len(mq) THEN 0 ELSE Len(mq) - 1 + 1
      BY <3>1, FS_Interval, Zenon
    <3> QED BY <2>1, <3>1, <3>2
  <2>3. Cardinality(left) \in Nat /\ Cardinality(left) <= Len(mq)
    BY <2>1, <2>2, FS_Subset, FS_CardinalityType
  <2>4. leaked' \in 0..QueueCap
    BY <1>12, <2>1, <2>3 DEF Close
  <2>5. <<>> \in Seq(Messages) /\ Len(<<>>) <= QueueCap
    OBVIOUS
  <2> QED BY <1>12, <2>4, <2>5 DEF TypeOK, Close, loop
<1>13. CASE ReMain
  BY <1>13 DEF TypeOK, ReMain, g_state
<1>14. CASE Loop
  BY <1>14 DEF TypeOK, Loop, g_state
<1>15. CASE Handle
  <2>1. Tail(mq) \in Seq(Messages) /\ Len(Tail(mq)) <= QueueCap
    BY <1>15, TailFacts DEF Handle
  <2>2. ready' \in BOOLEAN /\ shutting' \in BOOLEAN /\ polling' \in BOOLEAN
    BY <1>15 DEF Handle
  <2> QED BY <1>15, <2>1, <2>2 DEF TypeOK, Handle
<1>16. CASE Emit
  BY <1>16 DEF TypeOK, Emit, g_state
<1>17. CASE EmitPush
  <2>1. mq' \in Seq(Messages) /\ Len(mq') <= QueueCap /\ lossy' \in BOOLEAN
    BY <1>17, NotifyFacts DEF EmitPush
  <2> QED BY <1>17, <2>1 DEF TypeOK, EmitPush, g_state
<1>18. CASE UNCHANGED vars
  BY <1>18 DEF TypeOK, vars
<1> QED
  BY <1>1, <1>2, <1>3, <1>4, <1>5, <1>6, <1>7, <1>8, <1>9, <1>10, <1>11,
     <1>12, <1>13, <1>14, <1>15, <1>16, <1>17, <1>18
  DEF Next, AppStep, ReStep

-----------------------------------------------------------------------------
(* The life of the re thread.                                              *)

\* Every step keeps the two threads' places in agreement.
LEMMA LifeStep == TypeOK /\ LifeInv /\ [Next]_vars => LifeInv'
<1> SUFFICES ASSUME TypeOK, LifeInv, [Next]_vars PROVE LifeInv'
  OBVIOUS
<1> USE DEF Joinable, Unstopped, Running
<1>1. CASE InitBegin
  BY <1>1 DEF LifeInv, InitBegin, g_state, loop
<1>2. CASE EventsInit
  BY <1>2 DEF LifeInv, EventsInit, g_state, loop
<1>3. CASE CreateThread
  <2>1. thread = "none" /\ mq' = <<>> /\ ready' = FALSE
    BY <1>3 DEF LifeInv, CreateThread
  <2>2. \A i \in 1..Len(mq') : mq'[i] # "shutdown"
    BY <2>1
  <2>3. CASE pc' = "ask" /\ thread' = "started"
    BY <1>3, <2>1, <2>2, <2>3 DEF LifeInv, CreateThread, g_state
  <2>4. CASE pc' = "close" /\ thread' = "none"
    BY <2>4 DEF LifeInv
  <2> QED BY <1>3, <2>3, <2>4 DEF CreateThread
<1>4. CASE AskReady
  <2>1. /\ Len(mq') = Len(mq) + 1 /\ Len(mq) \in Nat /\ mq'[Len(mq')] = "ready"
        /\ \A i \in 1..Len(mq) : mq'[i] = mq[i]
    BY <1>4, PushFacts DEF AskReady, Messages, TypeOK
  <2>2. \A i \in 1..Len(mq) : mq[i] # "shutdown"
    BY <1>4 DEF AskReady, LifeInv
  <2>3. \A i \in 1..Len(mq') : mq'[i] # "shutdown"
    <3>1. \A i \in 1..Len(mq') : i \in 1..Len(mq) \/ i = Len(mq')
      BY <2>1
    <3> QED BY <2>1, <2>2, <3>1
  <2> QED BY <1>4, <2>3 DEF LifeInv, AskReady, g_state, loop
<1>5. CASE Sleep
  BY <1>5 DEF LifeInv, Sleep, g_state, loop
<1>6. CASE Await
  BY <1>6 DEF LifeInv, Await, g_state, loop
<1>7. CASE AccountSetup
  BY <1>7 DEF LifeInv, AccountSetup, loop
<1>8. CASE AppNotify
  <2>1. \A i \in 1..Len(mq') : mq'[i] # "shutdown"
    BY <1>8, NotifyFacts DEF AppNotify, LifeInv
  <2> QED BY <1>8, <2>1 DEF LifeInv, AppNotify, g_state, loop
<1>9. CASE ShutdownBegin
  BY <1>9 DEF LifeInv, ShutdownBegin, loop
<1>10. CASE Stop
  BY <1>10 DEF LifeInv, Stop, g_state
<1>11. CASE Join
  BY <1>11 DEF LifeInv, Join, g_state
<1>12. CASE Close
  BY <1>12 DEF LifeInv, Close, loop
<1>13. CASE ReMain
  BY <1>13 DEF LifeInv, ReMain, g_state
<1>14. CASE Loop
  BY <1>14 DEF LifeInv, Loop, g_state
<1>15. CASE Handle
  <2>1. CASE pc \in Unstopped
    <3>1. /\ Head(mq) # "shutdown" /\ mq' = Tail(mq)
          /\ \A i \in 1..Len(mq') : mq'[i] # "shutdown"
      BY <1>15, <2>1, TailFacts DEF Handle, LifeInv
    <3> QED BY <1>15, <2>1, <3>1 DEF LifeInv, Handle
  <2>2. CASE pc \notin Unstopped
    BY <1>15, <2>2 DEF LifeInv, Handle
  <2> QED BY <2>1, <2>2
<1>16. CASE Emit
  BY <1>16 DEF LifeInv, Emit, g_state
<1>17. CASE EmitPush
  <2>1. pc \in Unstopped => \A i \in 1..Len(mq') : mq'[i] # "shutdown"
    BY <1>17, NotifyFacts DEF EmitPush, LifeInv
  <2> QED BY <1>17, <2>1 DEF LifeInv, EmitPush, g_state
<1>18. CASE UNCHANGED vars
  BY <1>18 DEF LifeInv, vars
<1> QED
  BY <1>1, <1>2, <1>3, <1>4, <1>5, <1>6, <1>7, <1>8, <1>9, <1>10, <1>11,
     <1>12, <1>13, <1>14, <1>15, <1>16, <1>17, <1>18
  DEF Next, AppStep, ReStep

\* The initial state is typed and in agreement.
LEMMA InitHolds == Init => TypeOK /\ LifeInv
<1> SUFFICES ASSUME Init PROVE TypeOK /\ LifeInv
  OBVIOUS
<1>1. <<>> \in Seq(Messages) /\ Len(<<>>) <= QueueCap /\ 0 \in 0..QueueCap
      /\ 0 \in 0..Patience
  BY QueueAssumption, PatienceAssumption
<1>2. TypeOK
  BY <1>1 DEF Init, TypeOK, PCs, Rest, Threads
<1>3. LifeInv
  BY DEF Init, LifeInv, Joinable, Unstopped
<1> QED BY <1>2, <1>3

\* The two invariants hold together.
LEMMA Inductive == Spec => [](TypeOK /\ LifeInv)
BY InitHolds, TypeStep, LifeStep, PTL DEF Spec

\* The state stays in its types, the queue within the pipe and the wait of
\* omnix_init within its patience (omnix_voice.c:203-386).
THEOREM TypeCorrect == Spec => []TypeOK
BY Inductive, PTL

\* After omnix_init has returned OK the loop of this session is live and
\* serves its queue, until omnix_shutdown (omnix_voice.c:325-344).
THEOREM AlwaysServed == Spec => []UpIsServed
<1>1. TypeOK /\ LifeInv => UpIsServed
  BY DEF LifeInv, UpIsServed, Joinable, Unstopped
<1> QED BY <1>1, Inductive, PTL

\* The re thread, and with it every callback of the application, lives
\* within the life of the stack and of the queue (omnix_voice.c:155-201).
THEOREM StackOutlivesThread == Spec => []NothingOutlivesStack
<1>1. TypeOK /\ LifeInv => NothingOutlivesStack
  BY DEF LifeInv, NothingOutlivesStack, Joinable, Running
<1> QED BY <1>1, Inductive, PTL
-----------------------------------------------------------------------------
(* What a session leaves in the pipe.                                      *)

NoPayload == \A i \in 1..Len(mq) : mq[i] # "payload"
AtMostOne == \A i, j \in 1..Len(mq) : mq[i] = "payload" /\ mq[j] = "payload" => i = j

\* Before initialized, and after shutting_down, nothing is emitted anew.
DeafInv ==
    /\ pc \notin {"up", "stop", "join", "close"} => ~initialized
    /\ pc \in {"stop", "join"} /\ initialized => shutting
    /\ ~initialized => NoPayload /\ thread # "emit"
    /\ pc \in Unstopped /\ thread \notin Running => ~initialized
    /\ pc = "join" /\ thread = "started" => ~initialized

\* The request to stop is in the pipe, and behind it at most the one payload
\* that was under way.
Asked ==
    \E k \in 1..Len(mq) :
        /\ mq[k] = "shutdown" /\ \A i \in 1..(k - 1) : mq[i] # "shutdown"
        /\ Len(mq) <= k + 1 /\ (thread = "emit" => Len(mq) = k)

Served  == thread \in Running /\ ~polling
Serving == thread = "started" \/ (thread \in Running /\ polling)

StopInv ==
    ~lossy =>
        /\ pc = "join" /\ Serving => Asked
        /\ pc = "join" /\ Served => thread = "check"
        /\ pc = "join" /\ ~Serving => AtMostOne
        /\ pc = "close" => AtMostOne
        /\ leaked <= 1

\* A notification adds at most one message, a payload, behind the others.
LEMMA NotifyAdds ==
    ASSUME TypeOK, Notify, ~lossy'
    PROVE  /\ ~lossy /\ Len(mq) \in Nat /\ Len(mq') = Len(mq) + 1
           /\ \A i \in 1..Len(mq) : mq'[i] = mq[i]
<1>1. Push("payload") /\ lossy' = lossy
  BY DEF Notify, Push
<1>2. "payload" \in Messages /\ Len(mq) \in Nat
  BY DEF Messages, TypeOK
<1> QED BY <1>1, <1>2, PushFacts

\* A message other than a payload leaves a pipe without payloads so.
LEMMA PushKeeps ==
    ASSUME TypeOK, NEW m \in Messages \ {"payload"}, Push(m), NoPayload
    PROVE  NoPayload'
<1>1. /\ Len(mq') = Len(mq) + 1 /\ Len(mq) \in Nat /\ mq'[Len(mq')] = m
      /\ \A i \in 1..Len(mq) : mq'[i] = mq[i]
  BY PushFacts DEF TypeOK
<1>2. \A i \in 1..Len(mq') : i \in 1..Len(mq) \/ i = Len(mq')
  BY <1>1
<1> QED BY <1>1, <1>2 DEF NoPayload

\* What is left when the oldest message is taken moves up by one.
LEMMA TailShifts ==
    ASSUME TypeOK, mq # <<>>, mq' = Tail(mq)
    PROVE  /\ Len(mq) \in Nat \ {0} /\ Head(mq) = mq[1]
           /\ Len(mq') = Len(mq) - 1
           /\ \A i \in 1..Len(mq') : mq'[i] = mq[i + 1] /\ i + 1 \in 1..Len(mq)
<1>1. ASSUME NEW q \in Seq(Messages), q # <<>>
      PROVE  /\ Len(q) \in Nat \ {0} /\ Head(q) = q[1]
             /\ Len(Tail(q)) = Len(q) - 1
             /\ \A i \in 1..(Len(q) - 1) : Tail(q)[i] = q[i + 1] /\ i + 1 \in 1..Len(q)
  BY <1>1
<1> QED BY <1>1 DEF TypeOK

\* Every step keeps the re thread deaf outside a session.
LEMMA DeafStep == TypeOK /\ LifeInv /\ DeafInv /\ [Next]_vars => DeafInv'
<1> SUFFICES ASSUME TypeOK, LifeInv, DeafInv, [Next]_vars PROVE DeafInv'
  OBVIOUS
<1> USE DEF Joinable, Unstopped, Running
<1>1. CASE InitBegin
  BY <1>1 DEF DeafInv, NoPayload, InitBegin, g_state, loop
<1>2. CASE EventsInit
  BY <1>2 DEF DeafInv, NoPayload, EventsInit, g_state, loop
<1>3. CASE CreateThread
  BY <1>3 DEF DeafInv, NoPayload, CreateThread, g_state
<1>4. CASE AskReady
  <2>1. NoPayload => NoPayload'
    BY <1>4, PushKeeps DEF AskReady, Messages
  <2> QED BY <1>4, <2>1 DEF DeafInv, AskReady, g_state, loop
<1>5. CASE Sleep
  BY <1>5 DEF DeafInv, NoPayload, Sleep, g_state, loop
<1>6. CASE Await
  BY <1>6 DEF DeafInv, NoPayload, Await, g_state, loop
<1>7. CASE AccountSetup
  BY <1>7 DEF LifeInv, DeafInv, NoPayload, AccountSetup, loop
<1>8. CASE AppNotify
  BY <1>8 DEF LifeInv, DeafInv, AppNotify, g_state, loop
<1>9. CASE ShutdownBegin
  BY <1>9 DEF LifeInv, DeafInv, NoPayload, ShutdownBegin, loop
<1>10. CASE Stop
  <2>1. NoPayload => NoPayload'
    <3>1. CASE Push("shutdown")
      BY <3>1, PushKeeps DEF Messages
    <3>2. CASE UNCHANGED mq
      BY <3>2 DEF NoPayload
    <3> QED BY <1>10, <3>1, <3>2 DEF Stop
  <2> QED BY <1>10, <2>1 DEF DeafInv, Stop, g_state
<1>11. CASE Join
  BY <1>11 DEF DeafInv, NoPayload, Join, g_state
<1>12. CASE Close
  <2>1. NoPayload' /\ thread' = "none"
    BY <1>12 DEF LifeInv, NoPayload, Close, loop
  <2> QED BY <1>12, <2>1 DEF DeafInv, Close
<1>13. CASE ReMain
  BY <1>13 DEF DeafInv, NoPayload, ReMain, g_state
<1>14. CASE Loop
  BY <1>14 DEF LifeInv, DeafInv, NoPayload, Loop, g_state
<1>15. CASE Handle
  <2>1. NoPayload => NoPayload'
    BY <1>15, TailShifts DEF Handle, NoPayload
  <2> QED BY <1>15, <2>1 DEF DeafInv, Handle
<1>16. CASE Emit
  BY <1>16 DEF DeafInv, NoPayload, Emit, g_state
<1>17. CASE EmitPush
  BY <1>17 DEF DeafInv, EmitPush, g_state
<1>18. CASE UNCHANGED vars
  BY <1>18 DEF DeafInv, NoPayload, vars
<1> QED
  BY <1>1, <1>2, <1>3, <1>4, <1>5, <1>6, <1>7, <1>8, <1>9, <1>10, <1>11,
     <1>12, <1>13, <1>14, <1>15, <1>16, <1>17, <1>18
  DEF Next, AppStep, ReStep

\* Every step before the join keeps the request to stop near the end.
LEMMA StopStep ==
    TypeOK /\ LifeInv /\ DeafInv /\ StopInv /\ [Next]_vars => StopInv'
<1> SUFFICES ASSUME TypeOK, LifeInv, DeafInv, StopInv, [Next]_vars, ~lossy'
             PROVE  /\ pc' = "join" /\ Serving' => Asked'
                    /\ pc' = "join" /\ Served' => thread' = "check"
                    /\ pc' = "join" /\ ~Serving' => AtMostOne'
                    /\ pc' = "close" => AtMostOne'
                    /\ leaked' <= 1
  BY DEF StopInv
<1> USE DEF Joinable, Unstopped, Running
<1>0. ASSUME mq' = mq, NoPayload PROVE AtMostOne'
  BY <1>0 DEF NoPayload, AtMostOne
<1>1. CASE InitBegin
  <2>1. mq' = <<>> /\ leaked' = 0 /\ pc' # "join"
    BY <1>1 DEF LifeInv, InitBegin
  <2> QED BY <2>1 DEF AtMostOne
<1>2. CASE EventsInit
  <2>1. mq' = <<>> /\ leaked' <= 1 /\ pc' # "join"
    BY <1>2 DEF LifeInv, StopInv, EventsInit
  <2> QED BY <2>1 DEF AtMostOne
<1>3. CASE CreateThread
  <2>1. mq' = <<>> /\ leaked' <= 1 /\ pc' # "join"
    BY <1>3 DEF LifeInv, StopInv, CreateThread
  <2> QED BY <2>1 DEF AtMostOne
<1>4. CASE AskReady
  BY <1>4 DEF StopInv, AskReady, Push
<1>5. CASE Sleep
  BY <1>5 DEF StopInv, Sleep
<1>6. CASE Await
  BY <1>6 DEF StopInv, Await
<1>7. CASE AccountSetup
  BY <1>7 DEF StopInv, AccountSetup
<1>8. CASE AppNotify
  BY <1>8, NotifyAdds DEF StopInv, AppNotify
<1>9. CASE ShutdownBegin
  BY <1>9 DEF StopInv, ShutdownBegin
<1>10. CASE Stop
  <2>1. /\ pc = "stop" /\ pc' = "join" /\ Push("shutdown") /\ lossy' = lossy
        /\ UNCHANGED <<polling, thread, leaked, initialized>>
    BY <1>10 DEF Stop, Push, g_state
  <2>2. /\ Len(mq) \in Nat /\ Len(mq') = Len(mq) + 1 /\ mq'[Len(mq')] = "shutdown"
        /\ \A i \in 1..Len(mq) : mq'[i] = mq[i] /\ mq[i] # "shutdown"
    BY <2>1, PushFacts DEF TypeOK, Messages, LifeInv
  <2>3. Asked'
    <3> DEFINE k == Len(mq')
    <3>1. k \in 1..Len(mq') /\ k - 1 = Len(mq) /\ Len(mq') <= k + 1 /\ Len(mq') = k
      BY <2>2
    <3>2. \A i \in 1..(k - 1) : mq'[i] # "shutdown"
      BY <2>2, <3>1
    <3> HIDE DEF k
    <3>3. mq'[k] = "shutdown"
      BY <2>2 DEF k
    <3> QED BY <3>1, <3>2, <3>3 DEF Asked
  <2>4. thread # "none" /\ (thread \in Running => polling)
    BY <2>1 DEF LifeInv
  <2>5. ~Serving' => AtMostOne'
    <3>1. ~Serving' => NoPayload
      BY <2>1, <2>4 DEF Serving, DeafInv
    <3>2. NoPayload => NoPayload'
      BY <2>1, PushKeeps DEF Messages
    <3> QED BY <3>1, <3>2 DEF NoPayload, AtMostOne
  <2> QED BY <2>1, <2>3, <2>4, <2>5 DEF Served, StopInv
<1>11. CASE Join
  <2>1. pc = "join" /\ ~Serving /\ pc' = "close" /\ UNCHANGED <<mq, lossy, leaked>>
    BY <1>11 DEF Join, Serving
  <2> QED BY <2>1 DEF StopInv, AtMostOne
<1>12. CASE Close
  <2> DEFINE left == {i \in DOMAIN mq : mq[i] = "payload"}
  <2>1. AtMostOne /\ DOMAIN mq = 1..Len(mq)
    BY <1>12 DEF StopInv, Close, TypeOK
  <2>2. Cardinality(left) <= 1
    <3>1. CASE left = {}
      <4>1. Cardinality(left) = 0
        BY <3>1, FS_EmptySet
      <4> QED BY <4>1
    <3>2. CASE left # {}
      <4>1. PICK i \in left : TRUE
        BY <3>2
      <4>2. left = {i}
        BY <2>1, <4>1 DEF AtMostOne
      <4> HIDE DEF left
      <4>3. Cardinality(left) = 1
        BY <4>2, FS_Singleton
      <4> QED BY <4>3
    <3> QED BY <3>1, <3>2
  <2> QED BY <1>12, <2>2 DEF Close
<1>13. CASE ReMain
  <2>1. /\ thread = "started" /\ thread' \in {"check", "exited"}
        /\ (thread' = "check" => polling') /\ UNCHANGED <<pc, mq, lossy, leaked>>
    BY <1>13 DEF ReMain
  <2>2. pc = "join" => Asked /\ NoPayload
    BY <2>1 DEF StopInv, Serving, DeafInv
  <2>3. pc = "join" => Asked' /\ AtMostOne'
    BY <2>1, <2>2, <1>0 DEF Asked
  <2>4. pc # "close"
    BY <2>1 DEF LifeInv
  <2> QED BY <2>1, <2>3, <2>4 DEF StopInv, Served
<1>14. CASE Loop
  <2>1. /\ thread = "check" /\ thread' = IF polling THEN "poll" ELSE "exited"
        /\ UNCHANGED <<pc, polling, mq, lossy, leaked>>
    BY <1>14 DEF Loop
  <2>2. pc # "close"
    BY <2>1 DEF LifeInv
  <2>3. CASE polling
    <3>1. Serving /\ Serving' /\ ~Served'
      BY <2>1, <2>3 DEF Serving, Served
    <3> QED BY <2>1, <2>2, <3>1 DEF StopInv, Asked
  <2>4. CASE ~polling
    <3>1. ~Serving /\ ~Serving' /\ ~Served'
      BY <2>1, <2>4 DEF Serving, Served
    <3> QED BY <2>1, <2>2, <3>1 DEF StopInv, AtMostOne
  <2> QED BY <2>3, <2>4
<1>15. CASE Handle
  <2>1. /\ thread = "poll" /\ thread' = "check" /\ mq # <<>> /\ mq' = Tail(mq)
        /\ polling' = (polling /\ Head(mq) # "shutdown")
        /\ UNCHANGED <<pc, lossy, leaked>>
    BY <1>15 DEF Handle
  <2>2. ASSUME pc = "join"
        PROVE  (Serving' => Asked') /\ (~Serving' => AtMostOne')
    <3>1. polling /\ Asked
      BY <2>1, <2>2 DEF StopInv, Serving, Served
    <3>2. PICK k \in 1..Len(mq) :
              /\ mq[k] = "shutdown" /\ \A i \in 1..(k - 1) : mq[i] # "shutdown"
              /\ Len(mq) <= k + 1 /\ (thread = "emit" => Len(mq) = k)
      BY <3>1 DEF Asked
    <3>3. /\ Len(mq) \in Nat \ {0} /\ Head(mq) = mq[1] /\ Len(mq') = Len(mq) - 1
          /\ \A i \in 1..Len(mq') : mq'[i] = mq[i + 1] /\ i + 1 \in 1..Len(mq)
      BY <2>1, TailShifts
    <3>4. CASE k = 1
      <4>1. ~Serving'
        BY <2>1, <3>2, <3>3, <3>4 DEF Serving
      <4>2. Len(mq') <= 1 /\ Len(mq') \in Nat
        BY <3>2, <3>3, <3>4
      <4>3. \A i, j \in 1..Len(mq') : i = j
        BY <4>2
      <4> QED BY <4>1, <4>3 DEF AtMostOne
    <3>5. CASE k # 1
      <4>1. k \in Nat /\ k - 1 \in 1..Len(mq') /\ 1 \in 1..(k - 1)
        BY <3>2, <3>3, <3>5
      <4>2. Head(mq) # "shutdown"
        BY <3>2, <3>3, <4>1
      <4>3. Serving'
        BY <2>1, <3>1, <4>2 DEF Serving
      <4>4. mq'[k - 1] = "shutdown"
        BY <3>2, <3>3, <4>1
      <4>5. \A i \in 1..((k - 1) - 1) : mq'[i] # "shutdown"
        <5>1. \A i \in 1..((k - 1) - 1) : i \in 1..Len(mq') /\ i + 1 \in 1..(k - 1)
          BY <3>3, <4>1
        <5> QED BY <3>2, <3>3, <5>1
      <4>6. Len(mq') <= (k - 1) + 1 /\ thread' # "emit"
        BY <2>1, <3>2, <3>3
      <4>7. Asked'
        BY <4>1, <4>4, <4>5, <4>6 DEF Asked
      <4> QED BY <4>3, <4>7
    <3> QED BY <3>4, <3>5
  <2>3. pc # "close"
    BY <2>1 DEF LifeInv
  <2> QED BY <2>1, <2>2, <2>3 DEF StopInv
<1>16. CASE Emit
  <2>1. /\ thread = "poll" /\ UNCHANGED <<pc, polling, mq, lossy, leaked>>
        /\ thread' \in {"emit", "check"}
        /\ thread' = "emit" => initialized /\ ~shutting
    BY <1>16 DEF Emit
  <2>2. pc # "close"
    BY <2>1 DEF LifeInv
  <2>3. pc = "join" => thread' = "check" /\ polling
    BY <2>1 DEF DeafInv, StopInv, Served
  <2> QED BY <2>1, <2>2, <2>3 DEF StopInv, Serving, Served, Asked
<1>17. CASE EmitPush
  <2>1. /\ thread = "emit" /\ thread' = "check" /\ Notify
        /\ UNCHANGED <<pc, polling, leaked>>
    BY <1>17 DEF EmitPush
  <2>2. /\ ~lossy /\ Len(mq) \in Nat /\ Len(mq') = Len(mq) + 1
        /\ \A i \in 1..Len(mq) : mq'[i] = mq[i]
    BY <2>1, NotifyAdds
  <2>3. pc # "close"
    BY <2>1 DEF LifeInv
  <2>4. pc = "join" => polling /\ Asked
    BY <2>1, <2>2 DEF StopInv, Serving, Served
  <2>5. Asked => Asked'
    <3> SUFFICES ASSUME Asked PROVE Asked'
      OBVIOUS
    <3>1. PICK k \in 1..Len(mq) :
              /\ mq[k] = "shutdown" /\ \A i \in 1..(k - 1) : mq[i] # "shutdown"
              /\ Len(mq) <= k + 1 /\ (thread = "emit" => Len(mq) = k)
      BY DEF Asked
    <3>2. k \in 1..Len(mq') /\ Len(mq') <= k + 1 /\ \A i \in 1..(k - 1) : i \in 1..Len(mq)
      BY <2>1, <2>2, <3>1
    <3>3. mq'[k] = "shutdown" /\ \A i \in 1..(k - 1) : mq'[i] # "shutdown"
      BY <2>2, <3>1, <3>2
    <3> QED BY <2>1, <3>2, <3>3 DEF Asked
  <2> QED BY <2>1, <2>2, <2>3, <2>4, <2>5 DEF StopInv, Serving, Served
<1>18. CASE UNCHANGED vars
  BY <1>18 DEF StopInv, Serving, Served, Asked, AtMostOne, vars
<1> QED
  BY <1>1, <1>2, <1>3, <1>4, <1>5, <1>6, <1>7, <1>8, <1>9, <1>10, <1>11,
     <1>12, <1>13, <1>14, <1>15, <1>16, <1>17, <1>18
  DEF Next, AppStep, ReStep

\* A session that never found the pipe full leaves at most one payload in it,
\* however its two threads interleave (omnix_events.c:137-143).
THEOREM AtMostOneEverLeaks == Spec => []AtMostOneLeaks
<1>1. Init => DeafInv /\ StopInv
  BY DEF Init, DeafInv, StopInv, NoPayload, Unstopped, Joinable
<1>2. Spec => [](TypeOK /\ LifeInv /\ DeafInv /\ StopInv)
  BY <1>1, InitHolds, TypeStep, LifeStep, DeafStep, StopStep, PTL DEF Spec
<1>3. StopInv => AtMostOneLeaks
  BY DEF StopInv, AtMostOneLeaks
<1> QED BY <1>2, <1>3, PTL
-----------------------------------------------------------------------------
(* The request to stop reaches the loop.                                   *)

HasRequest == \E i \in 1..Len(mq) : mq[i] = "shutdown"

\* A thread that has not entered re_main finds at most the request for
\* RE_READY in the pipe, so that the request to stop fits behind it.
RequestInv ==
    /\ thread = "started" /\ pc = "ask" => mq = <<>>
    /\ thread = "started" /\ pc \in {"wait", "stop"} => Len(mq) <= 1
    /\ StopReachesLoop

\* A notification takes no message away.
LEMMA NotifyKeeps ==
    ASSUME TypeOK, Notify
    PROVE  (HasRequest => HasRequest') /\ (mq # <<>> => mq' # <<>>)
<1>1. CASE Push("payload")
  <2>1. /\ Len(mq) \in Nat /\ Len(mq') = Len(mq) + 1
        /\ \A i \in 1..Len(mq) : mq'[i] = mq[i] /\ i \in 1..Len(mq')
    BY <1>1, PushFacts DEF Messages, TypeOK
  <2>2. mq' # <<>>
    BY <2>1
  <2> QED BY <2>1, <2>2 DEF HasRequest
<1>2. CASE UNCHANGED mq
  BY <1>2 DEF HasRequest
<1> QED BY <1>1, <1>2 DEF Notify

\* Every step keeps the request where the loop will find it.
LEMMA RequestStep ==
    TypeOK /\ LifeInv /\ RequestInv /\ [Next]_vars => RequestInv'
<1> SUFFICES ASSUME TypeOK, LifeInv, RequestInv, [Next]_vars PROVE RequestInv'
  OBVIOUS
<1> USE DEF Joinable, Unstopped, Running
<1>1. CASE InitBegin
  BY <1>1 DEF RequestInv, StopReachesLoop, InitBegin
<1>2. CASE EventsInit
  BY <1>2 DEF RequestInv, StopReachesLoop, EventsInit
<1>3. CASE CreateThread
  BY <1>3 DEF LifeInv, RequestInv, StopReachesLoop, CreateThread
<1>4. CASE AskReady
  <2>1. Len(mq') = Len(mq) + 1 /\ pc = "ask" /\ pc' = "wait" /\ thread' = thread
    BY <1>4, PushFacts DEF AskReady, Messages, loop
  <2>2. mq = <<>> => Len(mq) = 0
    OBVIOUS
  <2> QED BY <2>1, <2>2 DEF RequestInv, StopReachesLoop
<1>5. CASE Sleep
  BY <1>5 DEF RequestInv, StopReachesLoop, Sleep, loop
<1>6. CASE Await
  BY <1>6 DEF RequestInv, StopReachesLoop, Await, loop
<1>7. CASE AccountSetup
  BY <1>7 DEF LifeInv, RequestInv, StopReachesLoop, AccountSetup, loop
<1>8. CASE AppNotify
  BY <1>8 DEF RequestInv, StopReachesLoop, AppNotify
<1>9. CASE ShutdownBegin
  BY <1>9 DEF LifeInv, RequestInv, StopReachesLoop, ShutdownBegin, loop
<1>10. CASE Stop
  <2>1. CASE Push("shutdown")
    <3>1. Len(mq') \in Nat \ {0} /\ mq'[Len(mq')] = "shutdown"
      BY <2>1, PushFacts DEF Messages, TypeOK
    <3> QED BY <1>10, <3>1 DEF RequestInv, StopReachesLoop, Stop
  <2>2. CASE Full /\ polling' = FALSE /\ UNCHANGED mq
    <3>1. Len(mq) >= 2 /\ mq # <<>>
      BY <2>2, QueueAssumption DEF Full
    <3>2. thread # "started" /\ thread' = thread /\ pc' = "join"
      BY <1>10, <3>1 DEF RequestInv, Stop
    <3>3. thread' \in Running \cup {"exited"}
      BY <1>10, <3>2 DEF LifeInv, Stop, TypeOK, Threads
    <3> QED BY <2>2, <3>1, <3>2, <3>3 DEF RequestInv, StopReachesLoop
  <2> QED BY <1>10, <2>1, <2>2 DEF Stop
<1>11. CASE Join
  BY <1>11 DEF RequestInv, StopReachesLoop, Join
<1>12. CASE Close
  BY <1>12 DEF RequestInv, StopReachesLoop, Close
<1>13. CASE ReMain
  BY <1>13 DEF RequestInv, StopReachesLoop, ReMain
<1>14. CASE Loop
  BY <1>14 DEF RequestInv, StopReachesLoop, Loop
<1>15. CASE Handle
  <2>1. /\ thread = "poll" /\ thread' = "check" /\ pc' = pc /\ mq # <<>>
        /\ mq' = Tail(mq) /\ polling' = (polling /\ Head(mq) # "shutdown")
    BY <1>15 DEF Handle
  <2>2. CASE HasRequest /\ Head(mq) # "shutdown"
    <3>1. PICK i \in 1..Len(mq) : mq[i] = "shutdown"
      BY <2>2 DEF HasRequest
    <3>2. i - 1 \in 1..Len(mq') /\ mq'[i - 1] = mq[i]
      <4>1. /\ Len(mq) \in Nat \ {0} /\ Head(mq) = mq[1] /\ Len(mq') = Len(mq) - 1
            /\ \A j \in 1..Len(mq') : mq'[j] = mq[j + 1]
        BY <2>1, TailShifts
      <4>2. i # 1
        BY <2>2, <3>1, <4>1
      <4>3. i - 1 \in 1..Len(mq') /\ (i - 1) + 1 = i
        BY <4>1, <4>2
      <4> QED BY <4>1, <4>3
    <3> QED BY <2>1, <3>1, <3>2 DEF RequestInv, StopReachesLoop
  <2>3. CASE ~HasRequest \/ Head(mq) = "shutdown"
    <3>1. pc = "join" => ~polling'
      BY <2>1, <2>3 DEF RequestInv, StopReachesLoop, HasRequest
    <3> QED BY <2>1, <3>1 DEF RequestInv, StopReachesLoop
  <2> QED BY <2>2, <2>3
<1>16. CASE Emit
  BY <1>16 DEF RequestInv, StopReachesLoop, Emit
<1>17. CASE EmitPush
  <2>1. /\ HasRequest => HasRequest'
        /\ thread = "emit" /\ thread' = "check" /\ UNCHANGED <<pc, polling>>
    BY <1>17, NotifyKeeps DEF EmitPush
  <2> QED BY <2>1 DEF RequestInv, StopReachesLoop, HasRequest
<1>18. CASE UNCHANGED vars
  BY <1>18 DEF RequestInv, StopReachesLoop, vars
<1> QED
  BY <1>1, <1>2, <1>3, <1>4, <1>5, <1>6, <1>7, <1>8, <1>9, <1>10, <1>11,
     <1>12, <1>13, <1>14, <1>15, <1>16, <1>17, <1>18
  DEF Next, AppStep, ReStep

\* A thread that omnix_shutdown or a failed omnix_init joins has a request to
\* stop before it that nothing takes back: thrd_join waits for nothing but
\* the loop's own steps (omnix_voice.c:155-177).
THEOREM StopAlwaysReaches == Spec => []StopReachesLoop
<1>1. Init => RequestInv
  BY DEF Init, RequestInv, StopReachesLoop
<1>2. Spec => []RequestInv
  BY <1>1, InitHolds, TypeStep, LifeStep, RequestStep, PTL DEF Spec
<1>3. RequestInv => StopReachesLoop
  BY DEF RequestInv
<1> QED BY <1>2, <1>3, PTL
=============================================================================
