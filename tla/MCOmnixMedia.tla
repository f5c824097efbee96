----------------------------- MODULE MCOmnixMedia -----------------------------
(***************************************************************************)
(* OmnixMedia for TLC: its one constant is a flag, given in the cfg files. *)
(***************************************************************************)
EXTENDS OmnixMedia
=============================================================================
