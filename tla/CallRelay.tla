------------------------------ MODULE CallRelay ------------------------------
(***************************************************************************)
(* How a facade passes on what the core says of the calls: through one     *)
(* queue, so that the application is told it in order across all calls,    *)
(* nothing twice, and nothing is lost but what comes while nobody takes it *)
(* in or listens.                                                          *)
(***************************************************************************)
EXTENDS Sequences

CONSTANT Calls
VARIABLES
    heard,      \* the last state the core said, per call
    way,        \* what it said that is on its way: <<call, state>>
    told,       \* the last state the application was told, per call
    open,       \* what the core says is taken in
    listening   \* the application listens

vars == <<heard, way, told>>

Stream == INSTANCE CallStream

Init == Stream!Init /\ way = <<>> /\ told = heard

\* The core says the next state of a call.
Hear(c) == /\ Stream!Hear(c) /\ UNCHANGED told
           /\ \/ way' = Append(way, <<c, heard'[c]>>)
              \/ ~open /\ UNCHANGED way

\* The application is told what the core said first.
Tell == /\ way # <<>> /\ way' = Tail(way)
        /\ told' = [told EXCEPT ![Head(way)[1]] = Head(way)[2]]
        /\ UNCHANGED heard

\* Nobody listens to it.
Lose == /\ ~listening /\ way # <<>> /\ way' = Tail(way)
        /\ UNCHANGED <<heard, told>>

Next == (\E c \in Calls : Hear(c)) \/ Tell \/ Lose

Spec == Init /\ [][Next]_vars
=============================================================================
