--------------------------- MODULE MC_YateHdlcPpp ---------------------------
(* Values of the constants of YateHdlcPpp for TLC.                         *)
EXTENDS YateHdlcPpp

\* A packet that is stuffed and one that is not; an FCS that is stuffed.
MCPackets == {<<65>>, <<126, 94>>}
MCFcs == {<<94, 3>>}
=============================================================================
