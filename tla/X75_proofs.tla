------------------------------ MODULE X75_proofs ----------------------------
(***************************************************************************)
(* Proofs about X75: for every modulus, window, retry limit and set of     *)
(* payloads, whatever the peer and the layer above do.  The types, the     *)
(* window, the timers and the layer above follow from the invariant Inv of *)
(* X75Station_proofs; what a step does to the queues from what the         *)
(* handlers do to them.                                                    *)
(***************************************************************************)
EXTENDS X75, X75Station_proofs

-----------------------------------------------------------------------------
(* The specification.                                                      *)

\* A freshly registered station.
LEMMA InitInv == Init => Inv(x75)
<1> SUFFICES ASSUME Init PROVE Inv(x75)
  OBVIOUS
<1>1. x75_register(Dce) \in Station
  <2>1. <<>> \in Seq(Frame) /\ <<>> \in Seq(Data) /\ {} \in SUBSET Conditions
    OBVIOUS
  <2>2. 0 \in Nat /\ 0 \in 0 .. 4
    OBVIOUS
  <2> QED
    BY <2>1, <2>2, Zeros, DceAssumption
       DEF x75_register, x75_start_t1timer, Station, Callbacks
<1>2. Numbers(x75_register(Dce))
  BY Zeros, EmptyQueue DEF x75_register, x75_start_t1timer, Numbers
<1>3. Supervised(x75_register(Dce)) /\ Informed(x75_register(Dce))
  BY DEF x75_register, x75_start_t1timer, Supervised, T1Set, Informed
<1> QED
  BY <1>1, <1>2, <1>3 DEF Init, Inv, Core

LEMMA PeerFrames ==
  ASSUME NEW f \in PeerFrame
  PROVE  f \in Frame /\ (f.type = "I" => f.data \in Data)
  BY Zeros DEF PeerFrame, Frame, FrameType

\* Every step preserves Inv.
LEMMA NextInv == Inv(x75) /\ [Next]_x75 => Inv(x75')
<1> SUFFICES ASSUME Inv(x75), [Next]_x75 PROVE Inv(x75')
  OBVIOUS
<1>1. ASSUME NEW f \in PeerFrame, Receive(f) PROVE Inv(x75')
  <2>1. f \in Frame /\ (f.type = "I" => f.data \in Data)
    BY PeerFrames
  <2>2. Inv(x75_data_input(x75, f))
    BY <2>1, DataInput
  <2>3. Inv(Flush(x75_data_input(x75, f)))
    BY <2>2, FlushInv
  <2> QED
    BY <1>1, <2>3 DEF Receive
<1>2. ASSUME T1Fires PROVE Inv(x75')
  <2>1. x75.t1_pending = TRUE
    BY <1>2 DEF T1Fires, Inv, Core, Station
  <2>2. Inv(Flush(T1Expires(x75)))
    BY <2>1, T1ExpiresInv, FlushInv
  <2> QED
    BY <1>2, <2>2 DEF T1Fires
<1>3. ASSUME T2Fires PROVE Inv(x75')
  BY <1>3, T2ExpiresInv, FlushInv DEF T2Fires
<1>4. ASSUME ConnectRequest PROVE Inv(x75')
  BY <1>4, ConnectInv, FlushInv DEF ConnectRequest
<1>5. ASSUME DisconnectRequest PROVE Inv(x75')
  BY <1>5, DisconnectInv, FlushInv DEF DisconnectRequest
<1>6. ASSUME NEW d \in Data, DataRequest(d) PROVE Inv(x75')
  <2>1. Inv(Flush(x75_data_request(x75, d)))
    BY DataInv, FlushInv
  <2> QED
    BY <1>6, <2>1 DEF DataRequest
<1>7. CASE UNCHANGED x75
  BY <1>7
<1> QED
  BY <1>1, <1>2, <1>3, <1>4, <1>5, <1>6, <1>7 DEF Next

\* Every step does to the queues what a handler does.
LEMMA NextHandled == Inv(x75) /\ [Next]_x75 => Handled(x75, x75')
<1> SUFFICES ASSUME Inv(x75), [Next]_x75 PROVE Handled(x75, x75')
  OBVIOUS
<1>1. Core(x75)
  BY DEF Inv
<1>2. ASSUME NEW q, Handled(x75, q), Core(q), x75' = Flush(q)
      PROVE  Handled(x75, x75')
  BY <1>2, CoreFacts, IdleFields, ThenIdle
<1>3. ASSUME NEW f \in PeerFrame, Receive(f) PROVE Handled(x75, x75')
  <2>1. f \in Frame /\ (f.type = "I" => f.data \in Data)
    BY PeerFrames
  <2>2. Handled(x75, x75_data_input(x75, f)) /\ Core(x75_data_input(x75, f))
    BY <2>1, DataInput, DataInputFine DEF Inv, Fine
  <2> QED
    BY <1>2, <1>3, <2>2 DEF Receive
<1>4. ASSUME T1Fires PROVE Handled(x75, x75')
  <2>1. x75.t1_pending = TRUE
    BY <1>4 DEF T1Fires, Inv, Core, Station
  <2>2. Core(T1Expires(x75))
    BY <2>1, T1ExpiresInv DEF Inv
  <2> QED
    BY <1>1, <1>2, <1>4, <2>2, TimersFine DEF Fine, T1Fires
<1>5. ASSUME T2Fires PROVE Handled(x75, x75')
  <2>1. Core(T2Expires(x75))
    BY T2ExpiresInv DEF Inv
  <2> QED
    BY <1>1, <1>2, <1>5, <2>1, TimersFine DEF Fine, T2Fires
<1>6. ASSUME ConnectRequest PROVE Handled(x75, x75')
  <2>1. Core(x75_connect_request(x75))
    BY ConnectInv DEF Inv
  <2> QED
    BY <1>1, <1>2, <1>6, <2>1, RequestsFine DEF Fine, ConnectRequest
<1>7. ASSUME DisconnectRequest PROVE Handled(x75, x75')
  <2>1. Core(x75_disconnect_request(x75))
    BY DisconnectInv DEF Inv
  <2> QED
    BY <1>1, <1>2, <1>7, <2>1, RequestsFine DEF Fine, DisconnectRequest
<1>8. ASSUME NEW d \in Data, DataRequest(d) PROVE Handled(x75, x75')
  <2>1. Core(x75_data_request(x75, d))
    BY DataInv DEF Inv
  <2> QED
    BY <1>1, <1>2, <1>8, <2>1, DataFine DEF DataRequest
<1>9. CASE UNCHANGED x75
  BY <1>1, <1>9, IdleFine DEF Idle, Same, SameQueues, Fine
<1> QED
  BY <1>3, <1>4, <1>5, <1>6, <1>7, <1>8, <1>9 DEF Next

\* The inductive invariant of the specification.
IInv == Inv(x75) /\ Waits(x75)

\* What it says in the terms of X75.
LEMMA InvImplies ==
  IInv => /\ TypeOK
          /\ QueueCountsCover
          /\ WindowRespected
          /\ AwaitingSupervised
          /\ UpperLayerInformed
          /\ WaitsForPeer
<1>1. Inv(x75) => /\ TypeOK
                  /\ QueueCountsCover
                  /\ WindowRespected
                  /\ AwaitingSupervised
                  /\ UpperLayerInformed
  BY DEF Inv, Core, Numbers, Supervised, T1Set, Informed, TypeOK,
         QueueCountsCover, WindowRespected, AwaitingSupervised,
         UpperLayerInformed
<1>2. Waits(x75) => WaitsForPeer
  BY DEF Waits, WaitsForPeer
<1> QED
  BY <1>1, <1>2 DEF IInv

LEMMA InvAlways == Spec => []IInv
<1>1. Init => IInv
  <2>1. Init => Waits(x75)
    BY DEF Init, Waits, x75_register, x75_start_t1timer
  <2> QED
    BY <2>1, InitInv DEF IInv
<1>2. IInv /\ [Next]_x75 => IInv'
  BY NextInv, NextHandled DEF IInv, Handled
<1> QED
  BY <1>1, <1>2, PTL DEF Spec

\* The control block keeps its type: n2count never passes N2 and the
\* sequence variables never reach the modulus, whatever frames arrive.
THEOREM TypeCorrect == Spec => []TypeOK
  BY InvAlways, InvImplies, PTL

\* write_queue_count and ack_queue_count, which x75_kick and
\* x75_frames_acked trust, never claim less than the lists hold.
THEOREM CountsCover == Spec => []QueueCountsCover
  BY InvAlways, InvImplies, PTL

\* x75_kick never lets V(S) run more than the window ahead of V(A),
\* whatever the peer acknowledges, rejects or resets.
THEOREM WindowKept == Spec => []WindowRespected
  BY InvAlways, InvImplies, PTL

\* In states 1, 2 and 4 T1 is running and will call its own handler: the
\* callback that x75_start_t2timer puts in its place never survives there.
THEOREM WaitsSupervised == Spec => []AwaitingSupervised
  BY InvAlways, InvImplies, PTL

\* In data transfer and frame reject the layer above believes it is
\* connected, in state 0 it does not: no path forgets a callback.
THEOREM LayerAboveInformed == Spec => []UpperLayerInformed
  BY InvAlways, InvImplies, PTL

\* In data transfer the write queue waits only for the peer: behind every
\* handler that could let frames go there is an x75_kick.
THEOREM DataWaitsForPeer == Spec => []WaitsForPeer
  BY InvAlways, InvImplies, PTL

\* No step that leaves the link up, or on its way up, drops a frame from the
\* queues that V(A) has not passed: resets, rejects and retries included.
THEOREM NothingLost == Spec => NoSilentLoss
<1>1. IInv /\ [Next]_x75 =>
        [x75'.state \in {1, 3, 4} => Held - Held' <= Dist(x75.va, x75'.va)]_x75
  BY NextHandled DEF IInv, Handled, Effect, Acked, Queued, Held
<1> QED
  BY <1>1, InvAlways, PTL DEF Spec, NoSilentLoss

\* No handler sends an I frame between an RNR and what ends it.
THEOREM BusyPeerSpared == Spec => PeerBusyHolds
<1>1. IInv /\ [Next]_x75 =>
        [ "PEER_RX_BUSY" \in x75.condition \cap x75'.condition
            => Len(x75'.ack_queue) <= Len(x75.ack_queue) ]_x75
  BY NextHandled DEF IInv, Handled, Effect
<1> QED
  BY <1>1, InvAlways, PTL DEF Spec, PeerBusyHolds
=============================================================================
