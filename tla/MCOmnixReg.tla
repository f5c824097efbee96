------------------------------ MODULE MCOmnixReg -----------------------------
(***************************************************************************)
(* OmnixReg for TLC: the constants are numbers, given in the cfg files.    *)
(***************************************************************************)
EXTENDS OmnixReg
=============================================================================
