------------------------------- MODULE MC_X75 -------------------------------
(* Values of the constants of X75 for TLC; see the .cfg files.             *)
EXTENDS X75
=============================================================================
