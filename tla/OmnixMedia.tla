------------------------------ MODULE OmnixMedia ------------------------------
(***************************************************************************)
(* The audio of one call: omnix_call_set_mute, _hold and _resume           *)
(* (omnix_call.c) over baresip's stream directions, the negotiations that  *)
(* put a direction into effect, and the timer that restores the            *)
(* established direction shortly after the call is answered.               *)
(*                                                                         *)
(* Of a direction only the half the mute is about matters: what this side  *)
(* sends.  OmnixCall has the states of the call; here they are three.      *)
(***************************************************************************)
EXTENDS Integers

CONSTANT TestHook   \* the test hook that makes a call CONNECTED is used

ASSUME HookAssumption == TestHook \in BOOLEAN

VARIABLES
    phase,      \* "calling": no streams yet; "early"; "up": established
    ldir,       \* stream->ldir: the direction asked for
    sdpDir,     \* sdp->ldir: the direction offered and applied
    peerHears,  \* sdp->rdir: the peer wants to receive
    secure,     \* DTLS-SRTP is done: the stream is ready
    tx,         \* tx.enabled: stream_send sends, unless on hold
    onHold,     \* call->on_hold and stream->hold
    offering,   \* a re-INVITE of ours is open
    timer,      \* tmr_reinv runs
    muted       \* entry->info.is_muted

vars == <<phase, ldir, sdpDir, peerHears, secure, tx, onHold, offering, timer,
          muted>>

Dirs == {"SENDRECV", "SENDONLY", "RECVONLY", "INACTIVE"}

TypeOK ==
    /\ phase \in {"calling", "early", "up"}
    /\ ldir \in Dirs /\ sdpDir \in Dirs
    /\ peerHears \in BOOLEAN /\ secure \in BOOLEAN /\ tx \in BOOLEAN
    /\ onHold \in BOOLEAN /\ offering \in BOOLEAN
    /\ timer \in BOOLEAN /\ muted \in BOOLEAN
    /\ timer \/ offering => phase = "up"

\* An outgoing call has no streams until its INVITE is built; an incoming one
\* has them, with the offer of the peer decoded.
Init ==
    /\ phase \in {"calling", "early"}
    /\ ldir = "SENDRECV" /\ sdpDir = "SENDRECV"
    /\ peerHears \in BOOLEAN /\ secure = FALSE /\ tx = FALSE
    /\ onHold = FALSE /\ offering = FALSE /\ timer = FALSE
    /\ muted = FALSE

\* What is sent: stream_send.
Sending == tx /\ ~onHold

\* audio_update: the sender runs if both sides want it to and it is secured.
Sends(dir) == dir \in {"SENDRECV", "SENDONLY"}
Apply(dir, hears, sec) == tx' = (Sends(dir) /\ hears /\ sec)

\* stream_set_ldir.
SetDir(dir) == ldir' = dir /\ sdpDir' = dir

\* stream_hold: what is offered on hold, which is to receive nothing.
HeldDir == CASE ldir = "RECVONLY" -> "INACTIVE"
             [] ldir = "SENDRECV" -> "SENDONLY"
             [] OTHER -> ldir

\* call_modify: an offer, if none is open, and the update of the media; an
\* offer that cannot be sent leaves the media alone.
Modify(dir) ==
    \/ ~offering /\ offering' = TRUE /\ Apply(dir, peerHears, secure)
    \/ ~offering /\ UNCHANGED <<offering, tx>>
    \/ offering /\ UNCHANGED offering /\ Apply(dir, peerHears, secure)

-----------------------------------------------------------------------------
(* The call.                                                               *)

\* The INVITE is built: call_streams_alloc and call_set_mdir.
Invite ==
    /\ phase = "calling" /\ phase' = "early"
    /\ SetDir("SENDRECV")
    /\ UNCHANGED <<peerHears, secure, tx, onHold, offering, timer, muted>>

\* An SDP of the peer before the call is established.
EarlyMedia ==
    /\ phase = "early" /\ peerHears' \in BOOLEAN
    /\ Apply(sdpDir, peerHears', secure)
    /\ UNCHANGED <<phase, ldir, sdpDir, secure, onHold, offering, timer, muted>>

\* Mutant: the state of the call is left as it is.
EstablishUnset ==
    /\ phase = "early" /\ UNCHANGED phase /\ timer' = TRUE
    /\ Apply(sdpDir, peerHears, secure)
    /\ UNCHANGED <<ldir, sdpDir, peerHears, secure, onHold, offering, muted>>

\* sipsess_estab_handler.
Establish ==
    /\ phase = "early" /\ phase' = "up" /\ timer' = TRUE
    /\ Apply(sdpDir, peerHears, secure)
    /\ UNCHANGED <<ldir, sdpDir, peerHears, secure, onHold, offering, muted>>

\* menc_event_handler: DTLS-SRTP is done.
Secured ==
    /\ phase # "calling" /\ ~secure /\ secure' = TRUE
    /\ Apply(sdpDir, peerHears, TRUE)
    /\ UNCHANGED <<phase, ldir, sdpDir, peerHears, onHold, offering, timer, muted>>

\* set_established_mdir: whatever direction was asked for meanwhile, the
\* established one comes back.
SetEstablished ==
    /\ timer /\ timer' = FALSE
    /\ IF ldir # "SENDRECV"
       THEN SetDir("SENDRECV") /\ Modify("SENDRECV")
       ELSE UNCHANGED <<ldir, sdpDir, offering, tx>>
    /\ UNCHANGED <<phase, peerHears, secure, onHold, muted>>

\* The peer answers our offer, or refuses it.
PeerAnswers ==
    /\ offering /\ offering' = FALSE
    /\ \/ peerHears' \in BOOLEAN /\ Apply(sdpDir, peerHears', secure)
       \/ UNCHANGED <<peerHears, tx>>
    /\ UNCHANGED <<phase, ldir, sdpDir, secure, onHold, timer, muted>>

\* A re-INVITE of the peer (with ours open it is refused).
PeerOffers ==
    /\ phase = "up" /\ ~offering /\ peerHears' \in BOOLEAN
    /\ Apply(sdpDir, peerHears', secure)
    /\ UNCHANGED <<phase, ldir, sdpDir, secure, onHold, offering, timer, muted>>

-----------------------------------------------------------------------------
(* The application.                                                        *)

\* Mutant: the direction is asked for and not handed to the SDP.
SetMuteUnoffered(mute) ==
    /\ muted' = mute
    /\ IF phase = "calling" THEN UNCHANGED ldir
       ELSE ldir' = IF mute THEN "RECVONLY" ELSE "SENDRECV"
    /\ UNCHANGED <<phase, sdpDir, peerHears, secure, tx, onHold, offering, timer>>

\* omnix_call_set_mute: the direction, without an update of the media, and
\* of nothing while there are no streams.
SetMute(mute) ==
    /\ muted' = mute
    /\ IF phase = "calling" THEN UNCHANGED <<ldir, sdpDir>>
       ELSE SetDir(IF mute THEN "RECVONLY" ELSE "SENDRECV")
    /\ UNCHANGED <<phase, peerHears, secure, tx, onHold, offering, timer>>

\* Mutant: resuming leaves the direction that was offered for the hold.
HoldKept(hold) ==
    /\ TestHook /\ phase = "up" /\ onHold = ~hold
    /\ onHold' = hold
    /\ sdpDir' = IF hold THEN HeldDir ELSE sdpDir
    /\ Modify(sdpDir')
    /\ UNCHANGED ldir
    /\ UNCHANGED <<phase, peerHears, secure, timer, muted>>

\* omnix_call_hold and omnix_call_resume of an established call.
Hold(hold) ==
    /\ TestHook /\ phase = "up" /\ onHold = ~hold
    /\ onHold' = hold
    /\ sdpDir' = IF hold THEN HeldDir ELSE ldir
    /\ Modify(sdpDir')
    /\ UNCHANGED ldir
    /\ UNCHANGED <<phase, peerHears, secure, timer, muted>>

Next == \/ Invite \/ EarlyMedia \/ Establish \/ Secured \/ SetEstablished
        \/ PeerAnswers \/ PeerOffers
        \/ \E b \in BOOLEAN : SetMute(b) \/ Hold(b)

Spec == Init /\ [][Next]_vars

-----------------------------------------------------------------------------
(* Correctness.                                                            *)

\* However mute, hold, resume and the timer interleave, a call that is
\* neither muted nor held offers to send and to receive
\* (omnix_call.c:818, 868, 910-918).
UnmuteRestores == ~muted /\ ~onHold => sdpDir = "SENDRECV"

\* The sender starts only if the direction asked for last sends: no answer,
\* re-INVITE, key exchange or resume starts it on a call whose mute is in
\* effect (omnix_call.c:868, 910-918).
StartsAsAsked == [][ tx' /\ ~tx => Sends(ldir') ]_vars

\* Claim of omnix_call.c:911 (mute = stop local TX): nothing is sent on an
\* established call while it is muted.
MutedSendsNothing == muted /\ phase = "up" => ~Sending
=============================================================================
