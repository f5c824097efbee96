--------------------------- MODULE OmnixMediaProofs ---------------------------
(***************************************************************************)
(* Proofs about OmnixMedia, with and without the test hook.                *)
(*                                                                         *)
(* DirInv relates the three records of one wish: is_muted, the direction   *)
(* of the stream and the one in its SDP.                                   *)
(***************************************************************************)
EXTENDS OmnixMedia, TLAPS

DirInv ==
    /\ ldir \in {"SENDRECV", "RECVONLY"}
    /\ ~muted \/ phase = "calling" => ldir = "SENDRECV"
    /\ ~onHold => sdpDir = ldir
    /\ Sends(sdpDir) => Sends(ldir)

-----------------------------------------------------------------------------
\* Every step keeps the types of the call's media.
LEMMA TypeStep == TypeOK /\ DirInv /\ [Next]_vars => TypeOK'
<1> SUFFICES ASSUME TypeOK, DirInv, [Next]_vars PROVE TypeOK'
  OBVIOUS
<1> USE DEF TypeOK, Dirs, SetDir, Apply, Sends
<1>1. CASE Invite
  BY <1>1 DEF Invite
<1>2. CASE EarlyMedia
  BY <1>2 DEF EarlyMedia
<1>3. CASE Establish
  BY <1>3 DEF Establish
<1>4. CASE Secured
  BY <1>4 DEF Secured
<1>5. CASE SetEstablished
  BY <1>5 DEF SetEstablished, Modify
<1>6. CASE PeerAnswers
  BY <1>6 DEF PeerAnswers
<1>7. CASE PeerOffers
  BY <1>7 DEF PeerOffers
<1>8. ASSUME NEW b \in BOOLEAN, SetMute(b) PROVE TypeOK'
  BY <1>8 DEF SetMute
<1>9. ASSUME NEW b \in BOOLEAN, Hold(b) PROVE TypeOK'
  <2>1. sdpDir' \in Dirs
    BY <1>9 DEF Hold, HeldDir, DirInv
  <2>2. offering' \in BOOLEAN /\ tx' \in BOOLEAN
    BY <1>9 DEF Hold, Modify
  <2> QED BY <1>9, <2>1, <2>2 DEF Hold
<1>10. CASE UNCHANGED vars
  BY <1>10 DEF vars
<1> QED
  BY <1>1, <1>2, <1>3, <1>4, <1>5, <1>6, <1>7, <1>8, <1>9, <1>10 DEF Next

\* Every step keeps mute, stream and SDP in agreement, and starts the sender
\* only as the direction asks.
LEMMA DirStep ==
    TypeOK /\ DirInv /\ [Next]_vars => DirInv' /\ (tx' /\ ~tx => Sends(ldir'))
<1> SUFFICES ASSUME TypeOK, DirInv, [Next]_vars
             PROVE  DirInv' /\ (tx' /\ ~tx => Sends(ldir'))
  OBVIOUS
<1> USE DEF DirInv, SetDir, Apply, Sends
<1>1. CASE Invite
  BY <1>1 DEF Invite
<1>2. CASE EarlyMedia
  BY <1>2 DEF EarlyMedia
<1>3. CASE Establish
  BY <1>3 DEF Establish
<1>4. CASE Secured
  BY <1>4 DEF Secured
<1>5. CASE SetEstablished
  BY <1>5 DEF SetEstablished, Modify
<1>6. CASE PeerAnswers
  <2>1. UNCHANGED <<phase, ldir, sdpDir, onHold, muted>>
    BY <1>6 DEF PeerAnswers
  <2>2. tx' /\ ~tx => Sends(sdpDir)
    BY <1>6 DEF PeerAnswers
  <2> QED BY <2>1, <2>2
<1>7. CASE PeerOffers
  BY <1>7 DEF PeerOffers
<1>8. ASSUME NEW b \in BOOLEAN, SetMute(b)
      PROVE  DirInv' /\ (tx' /\ ~tx => Sends(ldir'))
  <2>1. muted' = b /\ tx' = tx /\ phase' = phase /\ onHold' = onHold
    BY <1>8 DEF SetMute
  <2>2. CASE phase = "calling"
    <3>1. ldir' = ldir /\ sdpDir' = sdpDir /\ ldir = "SENDRECV"
      BY <1>8, <2>2 DEF SetMute
    <3> QED BY <2>1, <2>2, <3>1
  <2>3. CASE phase # "calling"
    <3>1. /\ ldir' = sdpDir' /\ ldir' \in {"SENDRECV", "RECVONLY"}
          /\ ~b => ldir' = "SENDRECV"
      BY <1>8, <2>3 DEF SetMute
    <3> QED BY <2>1, <2>3, <3>1
  <2> QED BY <2>2, <2>3
<1>9. ASSUME NEW b \in BOOLEAN, Hold(b)
      PROVE  DirInv' /\ (tx' /\ ~tx => Sends(ldir'))
  <2>1. ldir' = ldir /\ muted' = muted /\ phase' = phase /\ onHold' = b
    BY <1>9 DEF Hold
  <2>2. (~b => sdpDir' = ldir) /\ (Sends(sdpDir') => Sends(ldir))
    BY <1>9 DEF Hold, HeldDir
  <2>3. tx' /\ ~tx => Sends(sdpDir')
    BY <1>9 DEF Hold, Modify
  <2> QED BY <2>1, <2>2, <2>3
<1>10. CASE UNCHANGED vars
  BY <1>10 DEF vars
<1> QED
  BY <1>1, <1>2, <1>3, <1>4, <1>5, <1>6, <1>7, <1>8, <1>9, <1>10 DEF Next

\* A new call is typed and neither muted nor held.
LEMMA InitHolds == Init => TypeOK /\ DirInv
BY DEF Init, TypeOK, DirInv, Dirs, Sends

\* The two invariants hold together.
LEMMA Inductive == Spec => [](TypeOK /\ DirInv)
BY InitHolds, TypeStep, DirStep, PTL DEF Spec

\* The media state stays in its types, and the timer and the re-INVITEs belong
\* to established calls (call.c of baresip, omnix_call.c:781-922).
THEOREM TypeCorrect == Spec => []TypeOK
BY Inductive, PTL

\* Unmuted and not on hold, a call offers to send and to receive, whatever
\* order mute, hold, resume and the timer came in (omnix_call.c:781-922).
THEOREM UnmuteAlwaysRestores == Spec => []UnmuteRestores
<1>1. TypeOK /\ DirInv => UnmuteRestores
  BY DEF DirInv, UnmuteRestores
<1> QED BY <1>1, Inductive, PTL

\* The sender starts only if the direction asked for last sends
\* (omnix_call.c:910-918).
THEOREM AlwaysStartsAsAsked == Spec => StartsAsAsked
<1>1. TypeOK /\ DirInv /\ [Next]_vars => [tx' /\ ~tx => Sends(ldir')]_vars
  BY DirStep
<1> QED BY <1>1, Inductive, PTL DEF Spec, StartsAsAsked
=============================================================================
