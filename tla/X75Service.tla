----------------------------- MODULE X75Service -----------------------------
(***************************************************************************)
(* What a link layer promises to the layers above its two ends, whatever   *)
(* protocol runs between them: payloads are numbered per side in the order *)
(* they are handed over; they arrive in this order, each once; and an end  *)
(* forgets a payload only when it has arrived.  Once an end has been told  *)
(* that the link is down nothing more is promised.                         *)
(***************************************************************************)
EXTENDS Integers, Sequences

CONSTANT Side  \* the two ends

VARIABLES
  sent,       \* sent[p]: how many payloads p has handed over
  got,        \* got[p]: the payloads p has been given
  confirmed,  \* confirmed[p]: how many of its payloads p has forgotten
  broken      \* an end has been told

serviceVars == <<sent, got, confirmed, broken>>

Peer(p) == CHOOSE q \in Side : q # p

Init ==
  /\ sent = [p \in Side |-> 0] /\ confirmed = [p \in Side |-> 0]
  /\ got = [p \in Side |-> <<>>] /\ broken = FALSE

\* The layer above p hands over its next payload.
Request(p) ==
  /\ sent' = [sent EXCEPT ![p] = @ + 1]
  /\ UNCHANGED <<got, confirmed, broken>>

\* p gives the next payload of its peer to the layer above, or forgets some
\* that have arrived, or both, as one frame may carry both.
Serve(p) ==
  /\ \/ UNCHANGED got
     \/ /\ Len(got[p]) < sent[Peer(p)]
        /\ got' = [got EXCEPT ![p] = Append(@, Len(@) + 1)]
  /\ \E n \in confirmed[p] .. Len(got[Peer(p)]) :
       confirmed' = [confirmed EXCEPT ![p] = n]
  /\ UNCHANGED <<sent, broken>>

\* An end gives up or hears of a release; what has arrived has arrived.
Break == ~ broken /\ broken' /\ UNCHANGED <<sent, got>>

\* A link that was once down.
Anything == broken /\ broken'

Next == (\E p \in Side : Request(p) \/ Serve(p)) \/ Break \/ Anything

Spec == Init /\ [][Next]_serviceVars
=============================================================================
