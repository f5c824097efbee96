----------------------------- MODULE MCOmnixCall ----------------------------
(***************************************************************************)
(* Small instances of OmnixCall for TLC.                                   *)
(***************************************************************************)
EXTENDS OmnixCall, TLC

\* Calls are interchangeable (used by the runs without a liveness property).
CallSymmetry == Permutations(Calls)
CallIdSymmetry == Permutations(Calls) \cup Permutations(Ids)
=============================================================================
