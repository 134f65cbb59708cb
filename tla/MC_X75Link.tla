----------------------------- MODULE MC_X75Link -----------------------------
(* Values of the constants of X75Link for TLC: payloads from the DTE only, *)
(* or both ways; within a window of two, or beyond it.                     *)
EXTENDS X75Link, TLC

Load(dce, dte, loss, patient) ==
  [send |-> "dce" :> dce @@ "dte" :> dte, loss |-> loss, patient |-> patient]

Safety == {Load(2, 2, 3, TRUE), Load(1, 1, 1, FALSE)}
OneWay == {Load(0, 2, 3, TRUE), Load(2, 0, 2, TRUE)}
BothWays == {Load(1, 1, 1, TRUE)}
BeyondWindow == {Load(0, 3, 1, TRUE)}
=============================================================================
