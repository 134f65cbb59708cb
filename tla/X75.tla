--------------------------------- MODULE X75 --------------------------------
(***************************************************************************)
(* One X.75 station and everything that may happen to it: a peer that      *)
(* sends whatever frames it likes, two timers, and a layer above that      *)
(* calls the requests of x75_iface.c whenever it likes.  The process has   *)
(* one thread, so each callback and each request runs to its end before    *)
(* the next: one action each.                                              *)
(***************************************************************************)
EXTENDS X75Station

CONSTANTS
  Dce,       \* is X75_DCE set in x75_cb.mode?
  MaxQueue   \* bound: no data request once the two queue counters reach it

ASSUME DceAssumption == Dce \in BOOLEAN
ASSUME MaxQueueAssumption == MaxQueue \in Nat

VARIABLE x75   \* the control block

\* The frames x75_decode can produce, without the fields that no state
\* machine reads: cr is read for RR, RNR and REJ only.  An address octet of
\* neither side leaves cr uninitialised: either value, like any other frame.
PeerFrame ==
  [type : {"I"}, pf : BOOLEAN, cr : {"COMMAND"}, ns : Seqno, nr : Seqno,
   data : Data]
  \cup [type : {"RR", "RNR", "REJ"}, pf : BOOLEAN,
        cr : {"COMMAND", "RESPONSE"}, ns : {0}, nr : Seqno, data : {NoData}]
  \cup [type : {"SABM", "SABME", "DISC", "DM", "UA", "FRMR", "OTHER"},
        pf : BOOLEAN, cr : {"COMMAND"}, ns : {0}, nr : {0}, data : {NoData}]

Init == x75 = x75_register(Dce)

Receive(f) == ~ x75.crashed /\ x75' = Flush(x75_data_input(x75, f))

T1Fires == ~ x75.crashed /\ x75.t1_pending /\ x75' = Flush(T1Expires(x75))

T2Fires == ~ x75.crashed /\ x75.t2_pending /\ x75' = Flush(T2Expires(x75))

ConnectRequest == ~ x75.crashed /\ x75' = Flush(x75_connect_request(x75))

DisconnectRequest ==
  ~ x75.crashed /\ x75' = Flush(x75_disconnect_request(x75))

DataRequest(d) ==
  /\ ~ x75.crashed
  /\ x75.write_queue_count + x75.ack_queue_count < MaxQueue
  /\ x75' = Flush(x75_data_request(x75, d))

Next ==
  \/ \E f \in PeerFrame : Receive(f)
  \/ T1Fires
  \/ T2Fires
  \/ ConnectRequest
  \/ DisconnectRequest
  \/ \E d \in Data : DataRequest(d)

\* The main loop runs expired timers before it waits again; neither the
\* peer nor the layer above has to do anything.
Fairness == WF_x75(T1Fires) /\ WF_x75(T2Fires)

Spec == Init /\ [][Next]_x75

FairSpec == Spec /\ Fairness

-----------------------------------------------------------------------------
(* Invariants.                                                             *)

\* The fields of the control block have their types; n2count stays within
\* N2, the sequence variables within the modulus.
TypeOK == x75 \in Station

\* The counters that x75_kick, x75_frames_acked and x75_can_write trust
\* never claim less than the queues hold: no frame is stranded.
QueueCountsCover ==
  /\ x75.write_queue_count >= Len(x75.write_queue)
  /\ x75.ack_queue_count >= Len(x75.ack_queue)

\* Whatever the peer acknowledges or rejects, V(S) is at most a window
\* ahead of V(A): x75_kick never sends beyond va + window.
WindowRespected == Dist(x75.va, x75.vs) <= Window

\* A station that waits for an answer (states 1, 2 and 4) has T1 running,
\* pending, and set up with T1's own callback, although x75_start_t2timer
\* replaces that callback.
AwaitingSupervised ==
  x75.state \in {1, 2, 4} =>
    x75.t1_running /\ x75.t1_pending /\ x75.t1_cb = "x75_t1timer_expiry"

\* The layer above has been told: connected in states 3 and 4, and not
\* connected in state 0, along every path through the state machines.
UpperLayerInformed ==
  /\ x75.state \in {3, 4} => x75.up = "connected"
  /\ x75.state = 0 => x75.up # "connected"

\* In data transfer data waits only for the peer, never for a step of this
\* side that nothing will trigger: the peer is busy, or a full window is
\* outstanding.  (A busy peer is not polled: when the RR that ends the busy
\* condition is lost and nothing is outstanding, data waits for ever.)
WaitsForPeer ==
  x75.state = 3 /\ ~ x75.crashed /\ x75.write_queue # <<>> =>
    \/ "PEER_RX_BUSY" \in x75.condition
    \/ x75.ack_queue_count > 0 /\ Dist(x75.va, x75.vs) = Window

-----------------------------------------------------------------------------
(* What a step may never do.                                               *)

Held == Len(x75.write_queue) + Len(x75.ack_queue)

\* While the link is not being released (it ends the step in state 1, 3 or
\* 4) frames leave the two queues only by being acknowledged: at most as
\* many as V(A) advances.  Resets, rejects and retries drop nothing.
NoSilentLoss ==
  [][x75'.state \in {1, 3, 4} => Held - Held' <= Dist(x75.va, x75'.va)]_x75

\* Between an RNR and the RR or REJ that ends it, no I frame is sent: the
\* ack queue does not grow.
PeerBusyHolds ==
  [][ "PEER_RX_BUSY" \in x75.condition \cap x75'.condition
        => Len(x75'.ack_queue) <= Len(x75.ack_queue) ]_x75

-----------------------------------------------------------------------------
(* Liveness, under FairSpec.                                               *)

\* No wait for an answer lasts for ever, whatever frames arrive and
\* requests are made meanwhile: T1 gives up after N2 retries.
WaitsEnd ==
  \A st \in {1, 2, 4} : x75.state = st ~> (x75.state # st \/ x75.crashed)

-----------------------------------------------------------------------------
(* What the comments of the code say, and the code does not do.            *)

\* x75_kick: "Dequeue the frame and copy it."  There is a frame to copy.
NoCrash == ~ x75.crashed
=============================================================================
