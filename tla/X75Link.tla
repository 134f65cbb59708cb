------------------------------- MODULE X75Link ------------------------------
(***************************************************************************)
(* Two X.75 stations, a DCE and a DTE, that run the same code at the two   *)
(* ends of a B channel.  The channel is a FIFO in each direction; a frame  *)
(* can be lost (the HDLC decoder drops one with a bad checksum), but not   *)
(* duplicated or overtaken.  The layer above hands over the payloads 1, 2, *)
(* 3, ... of its side while the station takes them.                        *)
(***************************************************************************)
EXTENDS X75Station

CONSTANTS
  Loads,    \* what may be asked of the link, as records: send, the payloads
            \* each side hands over; loss, the frames lost; patient, whether
            \* T1 outlasts a round trip, the exchange it waits for
  MaxChan   \* bound: frames in flight to one side

Side == {"dce", "dte"}

Other(p) == IF p = "dce" THEN "dte" ELSE "dce"

ASSUME LinkAssumption ==
  /\ Loads \subseteq [send : [Side -> Nat], loss : Nat, patient : BOOLEAN]
  /\ MaxChan \in Nat \ {0}
  /\ \A l \in Loads, p \in Side : 1 .. l.send[p] \subseteq Data

VARIABLES
  load,    \* bound: the load of this behaviour
  st,      \* the two control blocks
  chan,    \* chan[p]: the frames on their way to p, oldest first
  sent,    \* sent[p]: how many payloads p's upper layer has handed over
  got,     \* got[p]: the payloads delivered to p's upper layer, in order
  losses,  \* how many frames were lost
  broken   \* has a layer above been told that the link went down?

vars == <<load, st, chan, sent, got, losses, broken>>

Init ==
  /\ load \in Loads
  /\ st = [p \in Side |-> x75_register(p = "dce")]
  /\ chan = [p \in Side |-> <<>>]
  /\ sent = [p \in Side |-> 0]
  /\ got = [p \in Side |-> <<>>]
  /\ losses = 0
  /\ broken = FALSE

Alive(p) == ~ st[p].crashed

\* A handler of p that left the control block s: what it sent goes into the
\* channel in, the channels before the step, what it delivered to the layer
\* above.
Handle(p, s, in) ==
  /\ Len(in[Other(p)]) + Len(s.out) <= MaxChan
  /\ st' = [st EXCEPT ![p] = Flush(s)]
  /\ chan' = [in EXCEPT ![Other(p)] = @ \o s.out]
  /\ got' = [got EXCEPT ![p] = @ \o s.rx]
  /\ broken' = (broken \/ s.up = "disconnected")

Receive(p) ==
  /\ Alive(p) /\ chan[p] # <<>>
  /\ Handle(p, x75_data_input(st[p], Head(chan[p])),
            [chan EXCEPT ![p] = Tail(@)])
  /\ UNCHANGED <<load, sent, losses>>

Quiet == \A p \in Side : chan[p] = <<>>

T1Fires(p) ==
  /\ Alive(p) /\ st[p].t1_pending
  /\ load.patient => Quiet
  /\ Handle(p, T1Expires(st[p]), chan)
  /\ UNCHANGED <<load, sent, losses>>

T2Fires(p) ==
  /\ Alive(p) /\ st[p].t2_pending
  /\ Handle(p, T2Expires(st[p]), chan)
  /\ UNCHANGED <<load, sent, losses>>

Submit(p) ==
  /\ Alive(p) /\ st[p].state \in {3, 4}
  /\ sent[p] < load.send[p]
  /\ Handle(p, x75_data_request(st[p], sent[p] + 1), chan)
  /\ sent' = [sent EXCEPT ![p] = @ + 1]
  /\ UNCHANGED <<load, losses>>

\* The channel corrupts the oldest frame on its way to p.
Lose(p) ==
  /\ chan[p] # <<>> /\ losses < load.loss
  /\ chan' = [chan EXCEPT ![p] = Tail(@)]
  /\ losses' = losses + 1
  /\ UNCHANGED <<load, st, sent, got, broken>>

Next ==
  \E p \in Side : Receive(p) \/ T1Fires(p) \/ T2Fires(p) \/ Submit(p) \/ Lose(p)

\* The main loops run: frames that arrive are handled, expired timers fire,
\* and a readable TCP socket is read while the station takes data.  Losses
\* need not happen.
Fairness ==
  \A p \in Side :
    WF_vars(Receive(p)) /\ WF_vars(T1Fires(p)) /\ WF_vars(T2Fires(p))
      /\ WF_vars(Submit(p))

Spec == Init /\ [][Next]_vars

FairSpec == Spec /\ Fairness

-----------------------------------------------------------------------------
(* Invariants.                                                             *)

\* While T1 is patient, losses and retransmissions never make a station
\* refuse an N(R) of its peer: x75_validate_nr never fails between two
\* stations that run this code, so neither ever enters state 4.
NoFrameReject == load.patient => \A p \in Side : st[p].state # 4

\* Up to the first disconnection the layer above receives the payloads of
\* its peer in order, without gap and without duplicate.
NoGap ==
  ~ broken => \A p \in Side : \A i \in DOMAIN got[p] : got[p][i] = i

\* What p has handed over and no longer has in a queue.
Confirmed(p) == sent[p] - Len(st[p].write_queue) - Len(st[p].ack_queue)

-----------------------------------------------------------------------------
(* Refinement.                                                             *)

Service == INSTANCE X75Service WITH confirmed <- [p \in Side |-> Confirmed(p)]

\* Step by step the two stations do what a link layer is there for: each
\* handler gives at most the next payload to the layer above and forgets
\* only payloads that have arrived, until a disconnection is reported.
IsService == Service!Spec

-----------------------------------------------------------------------------
(* Liveness, under FairSpec.                                               *)

Established == \A p \in Side : st[p].state = 3

\* The two stations set up the link by themselves, in spite of losses, or a
\* layer above is told that it was given up.  (Told is one side only: when
\* every UA is lost, N2 times and once more, the side that sent them stays
\* in data transfer with a peer that is not.)
EventuallyEstablished == <>(Established \/ broken)

\* A payload handed over is delivered, or a layer above learns that the
\* link went down: I frames are retransmitted until one or the other.
NoSilentStall ==
  \A p \in Side : \A k \in UNION {1 .. l.send[p] : l \in Loads} :
    sent[p] >= k ~> (Len(got[Other(p)]) >= k \/ broken)
=============================================================================
