------------------------------- MODULE MCRaw -------------------------------
(* Instances of Raw for TLC: the constants are set in the .cfg files.      *)
EXTENDS Raw
=============================================================================
