----------------------------- MODULE MC_YateX75 -----------------------------
(* Values of the constants of YateX75 for TLC; see the .cfg files.         *)
EXTENDS YateX75
=============================================================================
