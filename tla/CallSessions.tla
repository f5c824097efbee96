----------------------------- MODULE CallSessions -----------------------------
(***************************************************************************)
(* What the facades rely on in the C core, between two calls of omnix_init *)
(* and over any number of them: the application hears a CallStream, it     *)
(* hears nothing while the core is down, and of a call of a session that   *)
(* is over it never hears again.                                           *)
(***************************************************************************)
CONSTANT Calls
VARIABLES
    core,     \* omnix_init has returned, or the shutdown after it has not
    heard,    \* the last state the application heard of each call
    past      \* the calls of which no more is heard

vars == <<core, heard, past>>

Stream == INSTANCE CallStream

Init == core \in BOOLEAN /\ Stream!Init /\ past = {}

Hear(c) == core /\ c \notin past /\ Stream!Hear(c) /\ UNCHANGED core

\* omnix_init, or the end of a call.
Begin == core' = TRUE /\ UNCHANGED heard

\* omnix_shutdown returns: every call that was heard of is over.
End == /\ core' = FALSE /\ UNCHANGED heard
       /\ {c \in Calls : heard[c] # "SILENT"} \subseteq past'

Next == /\ past \subseteq past' /\ past' \subseteq Calls
        /\ Begin \/ End \/ \E c \in Calls : Hear(c)

Spec == Init /\ [][Next]_vars
=============================================================================
