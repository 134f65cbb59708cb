----------------------------- MODULE MC_YateTty -----------------------------
(* A call after a message with a caller of its own; a call without room    *)
(* for the line before it; lines that are almost calls.                    *)
EXTENDS YateTty

Line(args) == <<"%%>message", ":", "id", ":", "time", ":">> \o args \o <<"\n">>
Calls1 == Line(<<"call.execute", ":", ":", "callednr=", "2">>)

MCStreams ==
  {Line(<<"x", ":", "caller=", "1">>) \o Calls1,
   <<"x">> \o Line(<<"x", ":", ":", ":", ":", ":", ":">>) \o Calls1,
   Line(<<"call.execute">>)}

MCRoom == [c \in Channels |-> 1]
=============================================================================
