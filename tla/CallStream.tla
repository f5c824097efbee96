----------------------------- MODULE CallStream -----------------------------
(***************************************************************************)
(* What on_call_event promises an application about one call: the states   *)
(* it hears form a path from the announcement (OUTGOING or INCOMING) to at *)
(* most one final state (ENDED or FAILED), after which the call is silent. *)
(* A notification may be lost (the bounded queue of the SDK drops it), so  *)
(* a path may skip states; it never goes back.                             *)
(***************************************************************************)
CONSTANT Calls
VARIABLE heard      \* the last state the application heard of each call

Announcements == {"OUTGOING", "INCOMING"}
MediaStates   == {"CONNECTED", "HELD"}
OpenStates    == Announcements \cup MediaStates
FinalStates   == {"ENDED", "FAILED"}
EventStates   == OpenStates \cup {"ENDING"} \cup FinalStates

\* The states that may be heard after st; transitive, because of losses.
After(st) ==
    CASE st = "SILENT"       -> EventStates
      [] st \in OpenStates   -> MediaStates \cup {"ENDING"} \cup FinalStates
      [] st = "ENDING"       -> FinalStates
      [] OTHER               -> {}

Init == heard = [c \in Calls |-> "SILENT"]

Hear(c) == \E st \in After(heard[c]) : heard' = [heard EXCEPT ![c] = st]

Next == \E c \in Calls : Hear(c)

Spec == Init /\ [][Next]_heard
=============================================================================
