---------------------------- MODULE YateX75_proofs --------------------------
(***************************************************************************)
(* Proofs about the process yate_x75, for every modulus, window, retry     *)
(* limit, flow-control limit and pair of shutdown delays.  The stack's     *)
(* part is Inv of X75Station_proofs and the effect of the handlers on the  *)
(* queues, proved there too; the bridge's part is the invariant Served,    *)
(* which rests on what a handler tells the bridge (Agrees).                *)
(***************************************************************************)
EXTENDS YateX75, X75Station_proofs

-----------------------------------------------------------------------------
(* What a handler tells the bridge.                                        *)

\* The state in which a frame leaves the station: it does not depend on what
\* the layer above was told before.
NewState(s, f) ==
  CASE s.state \in {0, 4} -> IF f.type = SetMode THEN 3 ELSE s.state
    [] s.state = 1 -> IF f.type = "UA" /\ f.pf THEN 3
                      ELSE IF f.type = "DM" /\ f.pf THEN 0 ELSE 1
    [] s.state = 2 -> IF f.type \in {"UA", "DM"} /\ f.pf THEN 0 ELSE 2
    [] OTHER ->
         CASE f.type \in {"DISC", "DM"} -> 0
           [] f.type \in {"RR", "RNR", "REJ", "I"} ->
                IF x75_validate_nr(s, f.nr) THEN 3 ELSE 4
           [] f.type = "FRMR"    -> 1
           [] f.type = "ILLEGAL" -> 4
           [] OTHER              -> 3

\* The same for T1.
NewStateT1(s) ==
  IF s.t1_pending \/ ~ s.t1_running THEN s.state
  ELSE IF s.state = 0 THEN IF s.dce /\ s.n2count # N2 THEN 0 ELSE 1
  ELSE IF s.n2count = N2 THEN 0 ELSE s.state

\* A handler that leaves the link up has said so, or found it up and said
\* nothing.
Told(s, q) ==
  q.state \in {3, 4} =>
    q.up = "connected" \/ (q.up = s.up /\ s.state \in {3, 4})

LEMMA ToldInStates0124 ==
  ASSUME NEW s \in Station, NEW f \in Frame, s.state \in {0, 1, 2, 4}
  PROVE  LET q == CASE s.state = 0 -> x75_state0_machine(s, f)
                    [] s.state = 1 -> x75_state1_machine(s, f)
                    [] s.state = 2 -> x75_state2_machine(s, f)
                    [] s.state = 4 -> x75_state4_machine(s, f)
         IN  q.state = NewState(s, f) /\ Told(s, q)
<1> USE DEF Station, Frame, SetMode, OtherMode, Told, NewState, Respond,
            ResetLink, Disconnected, x75_send_control, x75_transmit_buffer,
            x75_start_t1timer, x75_stop_t1timer, x75_stop_t2timer,
            x75_connect_indication, x75_connect_confirmation,
            x75_disconnect_indication, x75_disconnect_confirmation,
            x75_clear_queues
<1>1. CASE s.state = 0
  BY <1>1 DEF x75_state0_machine
<1>2. CASE s.state = 1
  BY <1>2 DEF x75_state1_machine
<1>3. CASE s.state = 2
  BY <1>3 DEF x75_state2_machine
<1>4. CASE s.state = 4
  BY <1>4 DEF x75_state4_machine
<1> QED
  BY <1>1, <1>2, <1>3, <1>4

LEMMA CoreInStates0124 ==
  ASSUME NEW s, Core(s), NEW f \in Frame
  PROVE  /\ Core(x75_state0_machine(s, f)) /\ Core(x75_state1_machine(s, f))
         /\ Core(x75_state2_machine(s, f)) /\ Core(x75_state4_machine(s, f))
<1> DEFINE u == Respond(s, "UA", f)
           i == x75_connect_indication([ResetLink(u) EXCEPT !.state = 3])
           c == x75_connect_confirmation([ResetLink(s) EXCEPT !.state = 3])
           d == x75_disconnect_indication(Disconnected(x75_clear_queues(s)))
           e == x75_disconnect_confirmation(Disconnected(s))
<1>1. Core(u) /\ Core(Respond(s, "DM", f))
  BY Answer, KeepsCore DEF FrameType
<1>2. Core(i) /\ Core(c)
  BY <1>1, Connected DEF Inv
<1>3. Core(d) /\ Core(e)
  BY ClearKeeps, KeepsCore, Down DEF Inv
<1> HIDE DEF i, c, d, e
<1> QED
  BY <1>1, <1>2, <1>3
     DEF x75_state0_machine, x75_state1_machine, x75_state2_machine,
         x75_state4_machine, i, c, d, e

LEMMA FrameRejectState ==
  ASSUME NEW s \in Station
  PROVE  FrameReject(s).state = 4 /\ FrameReject(s).up = s.up
  BY DEF Station, FrameReject, x75_transmit_frmr, x75_send_control,
         x75_transmit_buffer, x75_start_t1timer, x75_stop_t2timer

LEMMA ToldInState3 ==
  ASSUME NEW s, Core(s), NEW f \in Frame, f.type = "I" => f.data \in Data,
         s.state = 3
  PROVE  LET q == x75_state3_machine(s, f)
         IN  q.state = NewState(s, f) /\ Told(s, q) /\ Core(q)
<1> DEFINE q == x75_state3_machine(s, f)
<1>1. s \in Station /\ f.nr \in Seqno /\ s.condition \in SUBSET Conditions
  BY CoreFacts DEF Frame, Station
<1>2. ASSUME NEW c \in SUBSET Conditions
      PROVE  LET r == x75_check_need_response([s EXCEPT !.condition = c],
                                              f.cr, f.pf)
             IN  /\ Core(r) /\ r.state = 3 /\ r.up = s.up
                 /\ x75_validate_nr(r, f.nr) <=> x75_validate_nr(s, f.nr)
  <2> DEFINE a == [s EXCEPT !.condition = c]
             r == x75_check_need_response(a, f.cr, f.pf)
  <2>1. Keeps(s, a) /\ Core(a)
    BY ConditionKeeps, KeepsCore
  <2>2. Keeps(a, r)
    BY <2>1, NeedResponse
  <2>3. r.va = s.va /\ r.vs = s.vs
    BY <1>1 DEF Station, x75_check_need_response, x75_enquiry_response,
                ClearAckPending, x75_send_control, x75_transmit_buffer
  <2> HIDE DEF r, a
  <2> QED
    BY <2>1, <2>2, <2>3 DEF Keeps, x75_validate_nr, r, a
<1>3. CASE f.type \in {"RR", "RNR"}
  <2> DEFINE c == IF f.type = "RNR" THEN s.condition \cup {"PEER_RX_BUSY"}
                                    ELSE s.condition \ {"PEER_RX_BUSY"}
             r == x75_check_need_response([s EXCEPT !.condition = c],
                                          f.cr, f.pf)
  <2>1. c \in SUBSET Conditions
    BY <1>1 DEF Conditions
  <2>2. q = IF x75_validate_nr(r, f.nr) THEN x75_check_iframes_acked(r, f.nr)
                                        ELSE FrameReject(r)
    BY <1>3 DEF x75_state3_machine, ReceiveReady, SetMode, OtherMode
  <2> HIDE DEF c
  <2>3. /\ Core(r) /\ r.state = 3 /\ r.up = s.up
        /\ x75_validate_nr(r, f.nr) <=> x75_validate_nr(s, f.nr)
    BY <1>2, <2>1
  <2> HIDE DEF r, q
  <2>4. x75_validate_nr(r, f.nr)
          => Keeps(r, x75_check_iframes_acked(r, f.nr))
    BY <1>1, <2>3, CheckAcked
  <2>5. q.state = IF x75_validate_nr(s, f.nr) THEN 3 ELSE 4
    BY <2>2, <2>3, <2>4, CoreFacts, FrameRejectState DEF Keeps
  <2>6. q.up = s.up
    BY <2>2, <2>3, <2>4, CoreFacts, FrameRejectState DEF Keeps
  <2>7. Core(q)
    BY <2>2, <2>3, <2>4, Rejected, KeepsCore
  <2> QED
    BY <1>3, <2>5, <2>6, <2>7 DEF NewState, Told, q
<1>4. CASE f.type = "REJ"
  <2> DEFINE c == s.condition \ {"PEER_RX_BUSY"}
             r == x75_check_need_response([s EXCEPT !.condition = c],
                                          f.cr, f.pf)
             a == x75_frames_acked(r, f.nr)
             b == x75_stop_t1timer(a)
             d == [b EXCEPT !.n2count = 0]
  <2>1. c \in SUBSET Conditions
    BY <1>1 DEF Conditions
  <2>2. q = IF x75_validate_nr(r, f.nr) THEN x75_requeue_frames(d)
                                        ELSE FrameReject(r)
    BY <1>4 DEF x75_state3_machine, ReceiveReject, SetMode, OtherMode
  <2> HIDE DEF c
  <2>3. /\ Core(r) /\ r.state = 3 /\ r.up = s.up
        /\ x75_validate_nr(r, f.nr) <=> x75_validate_nr(s, f.nr)
    BY <1>2, <2>1
  <2> HIDE DEF r, q
  <2>4. ASSUME x75_validate_nr(r, f.nr)
        PROVE  Keeps(r, x75_requeue_frames(d))
    <3>1. Keeps(r, a)
      BY <1>1, <2>3, <2>4, FramesAcked, CoreFacts
    <3>2. Core(a) /\ a.state = 3
      BY <2>3, <3>1 DEF Keeps
    <3> HIDE DEF a
    <3>3. Keeps(a, b)
      BY <3>2, TimersKeep
    <3> HIDE DEF b
    <3>4. Keeps(b, d)
      BY <3>3, KeepsCore, TimersKeep, Zeros
    <3> HIDE DEF d
    <3>5. Keeps(d, x75_requeue_frames(d))
      BY <3>4, KeepsCore, CoreFacts, Requeue
    <3> QED
      BY <3>1, <3>3, <3>4, <3>5, KeepsKeeps
  <2> HIDE DEF d
  <2>5. q.state = IF x75_validate_nr(s, f.nr) THEN 3 ELSE 4
    BY <2>2, <2>3, <2>4, CoreFacts, FrameRejectState DEF Keeps
  <2>6. q.up = s.up
    BY <2>2, <2>3, <2>4, CoreFacts, FrameRejectState DEF Keeps
  <2>7. Core(q)
    BY <2>2, <2>3, <2>4, Rejected, KeepsCore
  <2> QED
    BY <1>4, <2>5, <2>6, <2>7 DEF NewState, Told, q
<1>5. CASE f.type = "I"
  <2> DEFINE a == IF "PEER_RX_BUSY" \in s.condition
                  THEN x75_frames_acked(s, f.nr)
                  ELSE x75_check_iframes_acked(s, f.nr)
  <2>1. q = IF ~ x75_validate_nr(s, f.nr) THEN FrameReject(s)
            ELSE IF f.ns = a.vr THEN AcceptIFrame(a, f)
            ELSE RefuseIFrame(a, f)
    BY <1>5 DEF x75_state3_machine, ReceiveIFrame, SetMode, OtherMode
  <2>2. ASSUME x75_validate_nr(s, f.nr)
        PROVE  Keeps(s, AcceptIFrame(a, f)) /\ Keeps(s, RefuseIFrame(a, f))
    <3>1. Keeps(s, a)
      BY <1>1, <2>2, FramesAcked, CheckAcked, CoreFacts
    <3>2. Core(a) /\ a.state = 3
      BY <3>1 DEF Keeps
    <3> HIDE DEF a
    <3>3. Keeps(a, AcceptIFrame(a, f)) /\ Keeps(a, RefuseIFrame(a, f))
      BY <1>5, <3>2, Accept, Refuse
    <3> QED
      BY <3>1, <3>3, KeepsKeeps
  <2> HIDE DEF a, q
  <2>3. q.state = IF x75_validate_nr(s, f.nr) THEN 3 ELSE 4
    BY <1>1, <2>1, <2>2, FrameRejectState DEF Keeps
  <2>4. q.up = s.up
    BY <1>1, <2>1, <2>2, FrameRejectState DEF Keeps
  <2>5. Core(q)
    BY <2>1, <2>2, Rejected, KeepsCore
  <2> QED
    BY <1>5, <2>3, <2>4, <2>5 DEF NewState, Told, q
<1>6. CASE f.type \notin {"RR", "RNR", "REJ", "I"}
  <2>1. Core(q)
    <3> DEFINE u == Respond(s, "UA", f)
               r == x75_requeue_frames(ResetLink(u))
               c == x75_clear_queues(s)
               d == x75_disconnect_indication(Disconnected(c))
               e == x75_disconnect_indication(
                      Disconnected(Respond(c, "UA", f)))
               l == x75_requeue_frames(x75_establish_data_link(s))
               n == [l EXCEPT !.state = 1]
    <3>1. Core(u) /\ Core(Respond(s, "DM", f))
      BY Answer, KeepsCore DEF FrameType
    <3>2. Core(r)
      BY <3>1, Reset, Requeue, CoreFacts, KeepsCore
    <3>3. Core(c)
      BY ClearKeeps, KeepsCore
    <3>4. Core(d) /\ Core(e)
      <4>1. Core(Respond(c, "UA", f))
        BY <3>3, Answer, KeepsCore DEF FrameType
      <4> QED
        BY <3>3, <4>1, Down DEF Inv
    <3>5. Core(l)
      BY Establish, Requeue, CoreFacts, KeepsCore
    <3> HIDE DEF r, d, e, l
    <3>6. Core(n)
      BY <3>5, SetState, StateNumbers
    <3>7. Core(FrameReject(s))
      BY Rejected
    <3> HIDE DEF n
    <3> QED
      BY <1>6, <3>1, <3>2, <3>4, <3>6, <3>7
         DEF x75_state3_machine, r, d, e, l, n
  <2>2. q.state = NewState(s, f) /\ Told(s, q)
    BY <1>1, <1>6
     DEF Station, Frame, SetMode, OtherMode, Told, NewState, Respond,
         ResetLink, Disconnected, x75_send_control, x75_transmit_buffer,
         x75_start_t1timer, x75_stop_t1timer, x75_stop_t2timer,
         x75_disconnect_indication, x75_clear_queues, x75_requeue_frames,
         x75_establish_data_link, FrameReject, x75_transmit_frmr,
         x75_state3_machine
  <2> QED
    BY <2>1, <2>2
<1> QED
  BY <1>3, <1>4, <1>5, <1>6

LEMMA ToldByInput ==
  ASSUME NEW s, Core(s), NEW f \in Frame, f.type = "I" => f.data \in Data
  PROVE  LET q == x75_data_input(s, f)
         IN  q.state = NewState(s, f) /\ Told(s, q)
<1>1. s \in Station /\ s.state \in {0, 1, 2, 3, 4}
  BY CoreTypes
<1> DEFINE m == CASE s.state = 0 -> x75_state0_machine(s, f)
                  [] s.state = 1 -> x75_state1_machine(s, f)
                  [] s.state = 2 -> x75_state2_machine(s, f)
                  [] s.state = 3 -> x75_state3_machine(s, f)
                  [] s.state = 4 -> x75_state4_machine(s, f)
<1>2. m.state = NewState(s, f) /\ Told(s, m)
  <2>1. CASE s.state = 3
    <3>1. m = x75_state3_machine(s, f)
      BY <2>1
    <3> HIDE DEF m
    <3> QED
      BY <1>1, <2>1, <3>1, ToldInState3
  <2>2. CASE s.state # 3
    <3>1. s.state \in {0, 1, 2, 4}
      BY <1>1, <2>2
    <3>2. m = CASE s.state = 0 -> x75_state0_machine(s, f)
                [] s.state = 1 -> x75_state1_machine(s, f)
                [] s.state = 2 -> x75_state2_machine(s, f)
                [] s.state = 4 -> x75_state4_machine(s, f)
      BY <3>1
    <3> HIDE DEF m
    <3> QED
      BY <1>1, <3>1, <3>2, ToldInStates0124
  <2> QED
    BY <2>1, <2>2
<1>3. Core(m)
  BY <1>1, CoreInStates0124, ToldInState3
<1>4. x75_data_input(s, f) = x75_kick(m)
  BY DEF x75_data_input
<1> HIDE DEF m
<1>5. Keeps(m, x75_kick(m))
  BY <1>3, Kick, CoreFacts
<1> QED
  BY <1>2, <1>4, <1>5 DEF Keeps, Told

\* T2's callback keeps the state; T1's never leads to data transfer.
LEMMA ToldByT2 ==
  ASSUME NEW s \in Station
  PROVE  LET q == x75_t2timer_expiry(s)
         IN  q.state = s.state /\ q.up = s.up
  BY DEF Station, x75_t2timer_expiry, x75_timeout_response, ClearAckPending,
         x75_send_control, x75_transmit_buffer

LEMMA ToldByT1 ==
  ASSUME NEW s, Core(s)
  PROVE  LET q == x75_t1timer_expiry(s)
         IN  q.state = NewStateT1(s) /\ Told(s, q)
<1>1. s \in Station /\ s.state \in {0, 1, 2, 3, 4}
  BY CoreTypes
<1>2. CASE s.t1_pending \/ ~ s.t1_running
  BY <1>2 DEF x75_t1timer_expiry, NewStateT1, Told
<1>3. CASE /\ ~ (s.t1_pending \/ ~ s.t1_running)
           /\ s.state = 0 \/ s.n2count = N2 \/ s.state # 3
  BY <1>1, <1>3 DEF Station, x75_t1timer_expiry, NewStateT1, Told,
     T1Disconnected, T1GiveUp, T1Retry, x75_establish_data_link,
     x75_send_control, x75_transmit_buffer, x75_transmit_frmr,
     x75_clear_queues, x75_start_t1timer, x75_stop_t2timer,
     x75_disconnect_indication, x75_disconnect_confirmation
<1>4. CASE /\ ~ (s.t1_pending \/ ~ s.t1_running)
           /\ s.state = 3 /\ s.n2count # N2
  <2> DEFINE c == [s EXCEPT !.n2count = s.n2count + 1]
             m == x75_requeue_frames(c)
             k == x75_kick(m)
             q == x75_t1timer_expiry(s)
  <2>1. s.n2count + 1 \in 0 .. N2
    BY <1>1, <1>4, N2Assumption DEF Station
  <2>2. Keeps(s, c)
    BY <2>1, TimersKeep
  <2>3. q = x75_start_t1timer(k)
    BY <1>4 DEF x75_t1timer_expiry, T1Retry
  <2> HIDE DEF c
  <2>4. Keeps(c, m)
    BY <2>2, KeepsCore, CoreFacts, Requeue
  <2> HIDE DEF m
  <2>5. Keeps(m, k)
    BY <2>4, KeepsCore, CoreFacts, Kick
  <2> HIDE DEF k
  <2>6. Keeps(k, q)
    BY <2>3, <2>5, KeepsCore, TimersKeep
  <2> HIDE DEF q
  <2>7. q.state = s.state /\ q.up = s.up
    BY <2>2, <2>4, <2>5, <2>6 DEF Keeps
  <2> QED
    BY <1>4, <2>7 DEF NewStateT1, Told, q
<1> QED
  BY <1>2, <1>3, <1>4

\* The station in the eyes of a bridge that has been told nothing.
Blind(s) == [s EXCEPT !.up = "none"]

\* What a handler tells agrees with what it does to the real station.
Agrees(s, q, told) ==
  q.state \in {3, 4} =>
    told = "connected" \/ (told = "none" /\ s.state \in {3, 4})

LEMMA BlindFields ==
  ASSUME NEW s, Core(s)
  PROVE  LET z == Blind(s)
         IN  /\ Core(z) /\ z.up = "none" /\ z.state = s.state
             /\ z.t1_cb = s.t1_cb /\ z.t2_cb = s.t2_cb
             /\ \A f : NewState(z, f) = NewState(s, f)
             /\ NewStateT1([z EXCEPT !.t1_pending = FALSE])
                  = NewStateT1([s EXCEPT !.t1_pending = FALSE])
             /\ NewStateT1([z EXCEPT !.t2_pending = FALSE])
                  = NewStateT1([s EXCEPT !.t2_pending = FALSE])
<1>1. s \in Station /\ Numbers(s)
  BY CoreFacts
<1>2. Blind(s) \in Station /\ Numbers(Blind(s))
  BY <1>1 DEF Station, Numbers, Blind
<1>3. LET z == Blind(s)
      IN  /\ z.up = "none" /\ z.state = s.state
          /\ z.t1_cb = s.t1_cb /\ z.t2_cb = s.t2_cb
          /\ z.va = s.va /\ z.vs = s.vs
  BY <1>1 DEF Station, Blind
<1>4. \A f : NewState(Blind(s), f) = NewState(s, f)
  BY <1>3 DEF NewState, x75_validate_nr
<1>5. LET z == Blind(s)
      IN  /\ NewStateT1([z EXCEPT !.t1_pending = FALSE])
               = NewStateT1([s EXCEPT !.t1_pending = FALSE])
          /\ NewStateT1([z EXCEPT !.t2_pending = FALSE])
               = NewStateT1([s EXCEPT !.t2_pending = FALSE])
  BY <1>1 DEF Station, Blind, NewStateT1
<1> QED
  BY <1>2, <1>3, <1>4, <1>5, CoreFacts

LEMMA InputAgrees ==
  ASSUME NEW s, Core(s), NEW f \in Frame, f.type = "I" => f.data \in Data
  PROVE  Agrees(s, x75_data_input(s, f), x75_data_input(Blind(s), f).up)
<1> DEFINE z == Blind(s)
<1>1. /\ Core(z) /\ z.up = "none" /\ z.state = s.state
      /\ NewState(z, f) = NewState(s, f)
  BY BlindFields
<1> HIDE DEF z
<1>2. /\ x75_data_input(s, f).state = NewState(s, f)
      /\ x75_data_input(z, f).state = NewState(z, f)
      /\ Told(z, x75_data_input(z, f))
  BY <1>1, ToldByInput
<1> QED
  BY <1>1, <1>2 DEF Agrees, Told, z

LEMMA TimersAgree ==
  ASSUME NEW s, Core(s)
  PROVE  /\ Agrees(s, T1Expires(s), T1Expires(Blind(s)).up)
         /\ Agrees(s, T2Expires(s), T2Expires(Blind(s)).up)
<1> DEFINE z == Blind(s)
           Off1(r) == [r EXCEPT !.t1_pending = FALSE]
           Off2(r) == [r EXCEPT !.t2_pending = FALSE]
<1>1. /\ Core(z) /\ z.up = "none" /\ z.state = s.state
      /\ z.t1_cb = s.t1_cb /\ z.t2_cb = s.t2_cb
      /\ NewStateT1(Off1(z)) = NewStateT1(Off1(s))
      /\ NewStateT1(Off2(z)) = NewStateT1(Off2(s))
  BY BlindFields
<1> HIDE DEF z
<1>2. ASSUME NEW r, Core(r)
      PROVE  /\ Core(Off1(r)) /\ Core(Off2(r))
             /\ Off1(r).state = r.state /\ Off1(r).up = r.up
             /\ Off2(r).state = r.state /\ Off2(r).up = r.up
  BY <1>2, CoreFacts DEF Station, Numbers
<1> HIDE DEF Off1, Off2
<1>3. ASSUME NEW r, Core(r), NEW cb
      PROVE  LET q == RunCallback(r, cb)
             IN  /\ q.state = IF cb = "x75_t1timer_expiry" THEN NewStateT1(r)
                                                           ELSE r.state
                 /\ Told(r, q)
  <2>1. /\ x75_t1timer_expiry(r).state = NewStateT1(r)
        /\ Told(r, x75_t1timer_expiry(r))
    BY <1>3, ToldByT1
  <2>2. /\ x75_t2timer_expiry(r).state = r.state
        /\ x75_t2timer_expiry(r).up = r.up
    BY <1>3, CoreFacts, ToldByT2
  <2>3. Told(r, x75_t2timer_expiry(r)) /\ Told(r, r)
    BY <2>2 DEF Told
  <2> QED
    BY <2>1, <2>2, <2>3 DEF RunCallback
<1>4. Agrees(s, T1Expires(s), T1Expires(z).up)
  <2>1. /\ T1Expires(s) = RunCallback(Off1(s), s.t1_cb)
        /\ T1Expires(z) = RunCallback(Off1(z), s.t1_cb)
    BY <1>1 DEF T1Expires, Off1
  <2>2. T1Expires(s).state = T1Expires(z).state
    BY <1>1, <1>2, <1>3, <2>1
  <2>3. Told(Off1(z), T1Expires(z))
    BY <1>1, <1>2, <1>3, <2>1
  <2> QED
    BY <1>1, <1>2, <2>2, <2>3 DEF Told, Agrees
<1>5. Agrees(s, T2Expires(s), T2Expires(z).up)
  <2>1. /\ T2Expires(s) = RunCallback(Off2(s), s.t2_cb)
        /\ T2Expires(z) = RunCallback(Off2(z), s.t2_cb)
    BY <1>1 DEF T2Expires, Off2
  <2>2. T2Expires(s).state = T2Expires(z).state
    BY <1>1, <1>2, <1>3, <2>1
  <2>3. Told(Off2(z), T2Expires(z))
    BY <1>1, <1>2, <1>3, <2>1
  <2> QED
    BY <1>1, <1>2, <2>2, <2>3 DEF Told, Agrees
<1> QED
  BY <1>4, <1>5 DEF z

-----------------------------------------------------------------------------
(* The functions of X75Spec are those of X75Station.                       *)

LEMMA SameBasics ==
  /\ X75Spec!SetMode = SetMode
  /\ X75Spec!OtherMode = OtherMode
  /\ \A s : X75Spec!x75_start_t1timer(s) = x75_start_t1timer(s)
  /\ \A s : X75Spec!x75_stop_t1timer(s) = x75_stop_t1timer(s)
  /\ \A s : X75Spec!x75_start_t2timer(s) = x75_start_t2timer(s)
  /\ \A s : X75Spec!x75_stop_t2timer(s) = x75_stop_t2timer(s)
  /\ \A s : X75Spec!x75_connect_confirmation(s) = x75_connect_confirmation(s)
  /\ \A s : X75Spec!x75_connect_indication(s) = x75_connect_indication(s)
  /\ \A s :
       X75Spec!x75_disconnect_confirmation(s)
         = x75_disconnect_confirmation(s)
  /\ \A s : X75Spec!x75_disconnect_indication(s) = x75_disconnect_indication(s)
  /\ \A s : X75Spec!x75_clear_queues(s) = x75_clear_queues(s)
  /\ \A s : X75Spec!x75_requeue_frames(s) = x75_requeue_frames(s)
  /\ \A s : X75Spec!ClearAckPending(s) = ClearAckPending(s)
  /\ \A s : X75Spec!Flush(s) = Flush(s)
  /\ \A s, d : X75Spec!x75_data_indication(s, d) = x75_data_indication(s, d)
  BY DEF SetMode, X75Spec!SetMode, OtherMode, X75Spec!OtherMode,
         x75_start_t1timer, X75Spec!x75_start_t1timer, x75_stop_t1timer,
         X75Spec!x75_stop_t1timer, x75_start_t2timer,
         X75Spec!x75_start_t2timer, x75_stop_t2timer,
         X75Spec!x75_stop_t2timer, x75_connect_confirmation,
         X75Spec!x75_connect_confirmation, x75_connect_indication,
         X75Spec!x75_connect_indication, x75_disconnect_confirmation,
         X75Spec!x75_disconnect_confirmation, x75_disconnect_indication,
         X75Spec!x75_disconnect_indication, x75_clear_queues,
         X75Spec!x75_clear_queues, x75_requeue_frames,
         X75Spec!x75_requeue_frames, ClearAckPending,
         X75Spec!ClearAckPending, Flush, X75Spec!Flush, x75_data_indication,
         X75Spec!x75_data_indication

LEMMA SameNumbers ==
  /\ \A s, nr : X75Spec!x75_frames_acked(s, nr) = x75_frames_acked(s, nr)
  /\ \A s, nr : X75Spec!x75_validate_nr(s, nr) = x75_validate_nr(s, nr)
  /\ \A s, start, n : X75Spec!SendBurst(s, start, n) = SendBurst(s, start, n)
  /\ \A x, n : X75Spec!Plus(x, n) = Plus(x, n)
  /\ \A a, b : X75Spec!Dist(a, b) = Dist(a, b)
  /\ \A m, n : X75Spec!Min2(m, n) = Min2(m, n)
  BY DEF x75_frames_acked, X75Spec!x75_frames_acked, x75_validate_nr,
         X75Spec!x75_validate_nr, SendBurst, X75Spec!SendBurst, IFrame,
         X75Spec!IFrame, x75_start_t1timer, X75Spec!x75_start_t1timer, Plus,
         X75Spec!Plus, Dist, X75Spec!Dist, Min2, X75Spec!Min2

LEMMA SameSending ==
  /\ \A s, t, pf, cr :
       X75Spec!x75_send_control(s, t, pf, cr)
         = x75_send_control(s, t, pf, cr)
  /\ \A s : X75Spec!x75_kick(s) = x75_kick(s)
  BY SameNumbers DEF x75_send_control, X75Spec!x75_send_control,
         x75_transmit_buffer, X75Spec!x75_transmit_buffer, x75_kick,
         X75Spec!x75_kick

LEMMA SameResponses ==
  /\ \A s : X75Spec!x75_transmit_frmr(s) = x75_transmit_frmr(s)
  /\ \A s : X75Spec!x75_establish_data_link(s) = x75_establish_data_link(s)
  /\ \A s : X75Spec!x75_enquiry_response(s) = x75_enquiry_response(s)
  /\ \A s : X75Spec!x75_timeout_response(s) = x75_timeout_response(s)
  /\ \A s : X75Spec!ResetLink(s) = ResetLink(s)
  /\ \A s : X75Spec!Disconnected(s) = Disconnected(s)
  /\ \A s : X75Spec!FrameReject(s) = FrameReject(s)
  /\ \A s, t, f : X75Spec!Respond(s, t, f) = Respond(s, t, f)
  BY SameBasics, SameSending DEF x75_transmit_frmr,
         X75Spec!x75_transmit_frmr, x75_establish_data_link,
         X75Spec!x75_establish_data_link, x75_enquiry_response,
         X75Spec!x75_enquiry_response, x75_timeout_response,
         X75Spec!x75_timeout_response, ResetLink, X75Spec!ResetLink,
         Disconnected, X75Spec!Disconnected, FrameReject,
         X75Spec!FrameReject, Respond, X75Spec!Respond

LEMMA SameReceiving ==
  /\ \A s, nr :
       X75Spec!x75_check_iframes_acked(s, nr)
         = x75_check_iframes_acked(s, nr)
  /\ \A s, cr, pf :
       X75Spec!x75_check_need_response(s, cr, pf)
         = x75_check_need_response(s, cr, pf)
  /\ \A s, f : X75Spec!AcceptIFrame(s, f) = AcceptIFrame(s, f)
  /\ \A s, f : X75Spec!RefuseIFrame(s, f) = RefuseIFrame(s, f)
<1>1. \A s, nr : X75Spec!x75_check_iframes_acked(s, nr)
                  = x75_check_iframes_acked(s, nr)
  BY SameBasics, SameNumbers
     DEF x75_check_iframes_acked, X75Spec!x75_check_iframes_acked
<1>2. \A s, cr, pf : X75Spec!x75_check_need_response(s, cr, pf)
                      = x75_check_need_response(s, cr, pf)
  BY SameResponses
     DEF x75_check_need_response, X75Spec!x75_check_need_response
<1>3. \A s, f : X75Spec!AcceptIFrame(s, f) = AcceptIFrame(s, f)
  BY SameBasics, SameResponses
     DEF AcceptIFrame, X75Spec!AcceptIFrame, Plus, X75Spec!Plus,
         x75_data_indication, X75Spec!x75_data_indication
<1>4. \A s, f : X75Spec!RefuseIFrame(s, f) = RefuseIFrame(s, f)
  BY SameBasics, SameResponses DEF RefuseIFrame, X75Spec!RefuseIFrame
<1> QED
  BY <1>1, <1>2, <1>3, <1>4

LEMMA SameReceived ==
  /\ \A s, f : X75Spec!ReceiveReady(s, f) = ReceiveReady(s, f)
  /\ \A s, f : X75Spec!ReceiveReject(s, f) = ReceiveReject(s, f)
  /\ \A s, f : X75Spec!ReceiveIFrame(s, f) = ReceiveIFrame(s, f)
  BY SameBasics, SameNumbers, SameResponses, SameReceiving DEF ReceiveReady,
         X75Spec!ReceiveReady, ReceiveReject, X75Spec!ReceiveReject,
         ReceiveIFrame, X75Spec!ReceiveIFrame

LEMMA SameMachines ==
  /\ \A s, f : X75Spec!x75_state0_machine(s, f) = x75_state0_machine(s, f)
  /\ \A s, f : X75Spec!x75_state1_machine(s, f) = x75_state1_machine(s, f)
  /\ \A s, f : X75Spec!x75_state2_machine(s, f) = x75_state2_machine(s, f)
  /\ \A s, f : X75Spec!x75_state3_machine(s, f) = x75_state3_machine(s, f)
  /\ \A s, f : X75Spec!x75_state4_machine(s, f) = x75_state4_machine(s, f)
  BY SameBasics, SameResponses, SameReceived DEF x75_state0_machine,
         X75Spec!x75_state0_machine, x75_state1_machine,
         X75Spec!x75_state1_machine, x75_state2_machine,
         X75Spec!x75_state2_machine, x75_state3_machine,
         X75Spec!x75_state3_machine, x75_state4_machine,
         X75Spec!x75_state4_machine

LEMMA SameInput ==
  /\ \A s, f : X75Spec!x75_data_input(s, f) = x75_data_input(s, f)
  BY SameSending, SameMachines DEF x75_data_input, X75Spec!x75_data_input

LEMMA SameExpiry ==
  /\ \A s : X75Spec!x75_t2timer_expiry(s) = x75_t2timer_expiry(s)
  /\ \A s : X75Spec!T1Disconnected(s) = T1Disconnected(s)
  /\ \A s : X75Spec!T1GiveUp(s) = T1GiveUp(s)
  /\ \A s : X75Spec!T1Retry(s) = T1Retry(s)
  BY SameBasics, SameSending, SameResponses DEF x75_t2timer_expiry,
         X75Spec!x75_t2timer_expiry, T1Disconnected, X75Spec!T1Disconnected,
         T1GiveUp, X75Spec!T1GiveUp, T1Retry, X75Spec!T1Retry

LEMMA SameTimers ==
  /\ \A s : X75Spec!T1Expires(s) = T1Expires(s)
  /\ \A s : X75Spec!T2Expires(s) = T2Expires(s)
  BY SameBasics, SameExpiry DEF T1Expires, X75Spec!T1Expires, T2Expires,
         X75Spec!T2Expires, RunCallback, X75Spec!RunCallback,
         x75_t1timer_expiry, X75Spec!x75_t1timer_expiry

LEMMA SameRequests ==
  /\ \A s : X75Spec!x75_disconnect_request(s) = x75_disconnect_request(s)
  /\ \A s, d : X75Spec!x75_data_request(s, d) = x75_data_request(s, d)
  BY SameBasics, SameSending DEF x75_disconnect_request,
         X75Spec!x75_disconnect_request, x75_data_request,
         X75Spec!x75_data_request

-----------------------------------------------------------------------------
(* The process.                                                            *)

\* What the bridge knows of a link that is up, at any point of the loop: it
\* bridges it, or it is about to exit, or it has just read the end of the
\* TCP connection and LoopTail will see it in this pass.  A write that waits
\* changes nothing of it.
Served ==
  Alive /\ x75.state \in {3, 4} =>
    \/ state = "X75CONNECTED"
    \/ exit_timer # Off
    \/ state = "TCPDISCONNECTED" /\ at # Select

\* The inductive invariant.  The blocks that the X.75 counters count have
\* been read from the TCP connection: the stack counts none twice.
IInv ==
  /\ TypeOK
  /\ Inv(x75)
  /\ Count(x75) + tcp <= MaxTcp
  /\ Served

LEMMA InitIInv == Init => IInv
<1> SUFFICES ASSUME Init PROVE IInv
  OBVIOUS
<1> DEFINE r == x75_register(TRUE)
<1>1. r \in Station
  <2>1. <<>> \in Seq(Frame) /\ <<>> \in Seq(Data) /\ {} \in SUBSET Conditions
    OBVIOUS
  <2>2. 0 \in Nat /\ 0 \in 0 .. 4
    OBVIOUS
  <2> QED
    BY <2>1, <2>2, Zeros
       DEF x75_register, x75_start_t1timer, Station, Callbacks
<1>2. Numbers(r)
  BY Zeros, EmptyQueue DEF x75_register, x75_start_t1timer, Numbers
<1>3. Supervised(r) /\ Informed(r)
  BY DEF x75_register, x75_start_t1timer, Supervised, T1Set, Informed
<1>4. Count(r) = 0 /\ r.state = 0
  BY DEF x75_register, x75_start_t1timer, Count
<1> HIDE DEF r
<1>5. /\ x75 = r /\ state = "IDLE" /\ telnet_ofd = "NULL"
      /\ reading = FALSE /\ tcp = MaxTcp /\ closed = FALSE
      /\ close_timer = Off /\ exit_timer = Off /\ at = Select
      /\ process = "running"
  BY DEF Init, r
<1>6. /\ MaxTcp \in 0 .. MaxTcp /\ Select \in Select .. Telnet
      /\ Off \in Off .. CloseDelay /\ Off \in Off .. ExitDelay
      /\ 0 + MaxTcp <= MaxTcp
  BY BridgeAssumption DEF Off, Select, Telnet
<1>7. TypeOK
  BY <1>1, <1>5, <1>6 DEF TypeOK, BridgeState
<1> QED
  BY <1>1, <1>2, <1>3, <1>4, <1>5, <1>6, <1>7 DEF IInv, Inv, Core, Served

\* A handler of the stack.
LEMMA HandlerStep ==
  ASSUME IInv, Running,
         NEW q, Inv(q), Fine(x75, q),
         NEW told, Agrees(x75, q, told), Handle(q, told),
         NEW stage \in Select .. Telnet, at' = stage, at <= stage,
         UNCHANGED <<tcp, exit_timer>>,
         x75'.state = q.state, Count(x75') = Count(q), Inv(x75')
  PROVE  /\ Inv(x75')
         /\ Count(x75') + tcp' <= MaxTcp
         /\ Served'
<1>1. Count(x75') + tcp' <= MaxTcp
  <2>1. Count(x75) \in Nat /\ Count(q) \in Nat
    BY CoreTypes DEF IInv, Inv
  <2>2. tcp \in Nat
    BY DEF IInv, TypeOK
  <2> QED
    BY <2>1, <2>2, BridgeAssumption DEF IInv, Fine
<1>2. Served'
  <2> USE DEF Running, Alive
  <2> SUFFICES ASSUME x75'.state \in {3, 4}
               PROVE  \/ state' = "X75CONNECTED"
                      \/ exit_timer' # Off
                      \/ state' = "TCPDISCONNECTED" /\ at' # Select
    BY DEF Served
  <2>1. CASE told = "connected"
    BY <2>1 DEF Handle, StateAfter
  <2>2. CASE told = "none" /\ x75.state \in {3, 4}
    <3>1. state' = state
      BY <2>2 DEF Handle, StateAfter
    <3>2. at # Select => at' # Select
      BY DEF IInv, TypeOK, Select, Telnet
    <3> QED
      BY <2>2, <3>1, <3>2 DEF IInv, Served
  <2> QED
    BY <2>1, <2>2 DEF Agrees
<1> QED
  BY <1>1, <1>2

\* The types of the bridge's own variables.
LEMMA NextType ==
  ASSUME TypeOK, [Next]_vars, x75' \in Station
  PROVE  TypeOK'
<1> USE DEF TypeOK, Reaches, Select, Timers, Stdin, Samples, Telnet, Off
<1>1. ASSUME NEW told PROVE StateAfter(told) \in BridgeState
  BY DEF StateAfter, BridgeState
<1>2. CASE T1Fires
  BY <1>1, <1>2 DEF T1Fires, Handle
<1>3. CASE T2Fires
  BY <1>1, <1>3 DEF T2Fires, Handle
<1>4. CASE disconnect_close_cb
  BY <1>4, BridgeAssumption DEF disconnect_close_cb
<1>5. CASE force_exit_cb
  BY <1>5 DEF force_exit_cb
<1>6. CASE call_initialize
  <2>1. PICK r \in telnet_init :
           IF r.rc < 0
           THEN /\ process' = "exited"
                /\ UNCHANGED <<state, telnet_ofd, reading>>
           ELSE /\ telnet_ofd' = r.ofd /\ reading' = TRUE
                /\ state' = "TCPCONNECTED"
                /\ UNCHANGED process
    BY <1>6 DEF call_initialize
  <2>2. r.ofd \in {"NULL", "open"}
    BY DEF telnet_init
  <2>3. /\ state' \in BridgeState /\ telnet_ofd' \in {"NULL", "open"}
        /\ reading' \in BOOLEAN
        /\ process' \in {"running", "writing", "exited", "crashed"}
    BY <2>1, <2>2 DEF BridgeState
  <2> QED
    BY <1>6, <2>3 DEF call_initialize
<1>7. ASSUME NEW f \in X75Spec!PeerFrame, handle_sample_buffer(f) PROVE TypeOK'
  BY <1>1, <1>7 DEF handle_sample_buffer, Handle, Write
<1>8. CASE SamplesOnly
  BY <1>8 DEF SamplesOnly
<1>9. CASE telnet_rx_cb
  <2>1. CASE TelnetRefused
    BY <2>1 DEF TelnetRefused
  <2>2. CASE TelnetData
    BY <2>2, BridgeAssumption DEF TelnetData
  <2>3. CASE TelnetEnd
    BY <2>3 DEF TelnetEnd, BridgeState
  <2> QED
    BY <1>9, <2>1, <2>2, <2>3 DEF telnet_rx_cb
<1>10. CASE LoopTail
  <2>1. reading' \in BOOLEAN
    BY <1>10 DEF LoopTail, x75_can_write
  <2>2. /\ state' \in BridgeState
        /\ process' \in {"running", "writing", "exited", "crashed"}
    BY <1>10 DEF LoopTail, BridgeState
  <2>3. /\ close_timer' \in Off .. CloseDelay
        /\ exit_timer' \in Off .. ExitDelay
    BY <1>10, BridgeAssumption DEF LoopTail
  <2> QED
    BY <1>10, <2>1, <2>2, <2>3 DEF LoopTail
<1>11. CASE Tick
  BY <1>11, BridgeAssumption DEF Tick
<1>12. CASE ServerCloses
  BY <1>12 DEF ServerCloses
<1>13. CASE WriteReturns
  BY <1>13 DEF WriteReturns, Write
<1>14. CASE UNCHANGED vars
  BY <1>14 DEF vars
<1> QED
  BY <1>2, <1>3, <1>4, <1>5, <1>6, <1>7, <1>8, <1>9, <1>10, <1>11, <1>12,
     <1>13, <1>14 DEF Next

LEMMA PeerFrames ==
  ASSUME NEW f \in X75Spec!PeerFrame
  PROVE  f \in Frame /\ (f.type = "I" => f.data \in Data)
  BY Zeros DEF X75Spec!PeerFrame, X75Spec!Seqno, Seqno, Frame, FrameType

\* What Flush leaves alone.
LEMMA Flushed ==
  ASSUME NEW q, Inv(q)
  PROVE  /\ Inv(Flush(q)) /\ Flush(q).state = q.state
         /\ Count(Flush(q)) = Count(q)
<1>1. q \in Station
  BY DEF Inv, Core
<1>2. Flush(q).state = q.state /\ Count(Flush(q)) = Count(q)
  BY <1>1 DEF Station, Flush, Count
<1> QED
  BY <1>2, FlushInv

LEMMA NextIInv == IInv /\ [Next]_vars => IInv'
<1> SUFFICES ASSUME IInv, [Next]_vars PROVE IInv'
  OBVIOUS
<1>1. /\ Inv(x75) /\ Core(x75) /\ x75 \in Station /\ TypeOK /\ Served
      /\ Count(x75) \in Nat /\ tcp \in Nat /\ Count(x75) + tcp <= MaxTcp
  <2>1. Inv(x75) /\ Core(x75) /\ TypeOK /\ Served /\ Count(x75) + tcp <= MaxTcp
    BY DEF IInv, Inv
  <2> QED
    BY <2>1, CoreTypes DEF TypeOK
<1>2. Silent = Blind(x75) /\ Core(Silent)
  BY <1>1, BlindFields DEF Silent, Blind
<1> DEFINE Rest == /\ Inv(x75')
                   /\ Count(x75') + tcp' <= MaxTcp
                   /\ Served'
<1>3. ASSUME x75' = x75, tcp' = tcp, Served' PROVE Rest
  BY <1>1, <1>3
<1>4. ASSUME T1Fires PROVE Rest
  <2>1. x75.t1_pending = TRUE /\ Running
    BY <1>1, <1>4 DEF T1Fires, Station, Reaches
  <2> DEFINE q    == T1Expires(x75)
             told == T1Expires(Silent).up
  <2>2. Inv(q) /\ Fine(x75, q) /\ Agrees(x75, q, told)
    BY <1>1, <1>2, <2>1, T1ExpiresInv, TimersFine, TimersAgree
  <2>3. Handle(q, told) /\ UNCHANGED <<tcp, exit_timer>>
    BY <1>4 DEF T1Fires
  <2>4. at' = Timers /\ at <= Timers /\ Timers \in Select .. Telnet
    BY <1>4 DEF T1Fires, Reaches, Timers, Select, Telnet
  <2> HIDE DEF q, told
  <2>5. Inv(x75') /\ x75'.state = q.state /\ Count(x75') = Count(q)
    BY <2>2, <2>3, Flushed DEF Handle
  <2> QED
    BY <2>1, <2>2, <2>3, <2>4, <2>5, HandlerStep
<1>5. ASSUME T2Fires PROVE Rest
  <2>1. Running
    BY <1>5 DEF T2Fires, Reaches
  <2> DEFINE q    == T2Expires(x75)
             told == T2Expires(Silent).up
  <2>2. Inv(q) /\ Fine(x75, q) /\ Agrees(x75, q, told)
    BY <1>1, <1>2, T2ExpiresInv, TimersFine, TimersAgree
  <2>3. Handle(q, told) /\ UNCHANGED <<tcp, exit_timer>>
    BY <1>5 DEF T2Fires
  <2>4. at' = Timers /\ at <= Timers /\ Timers \in Select .. Telnet
    BY <1>5 DEF T2Fires, Reaches, Timers, Select, Telnet
  <2> HIDE DEF q, told
  <2>5. Inv(x75') /\ x75'.state = q.state /\ Count(x75') = Count(q)
    BY <2>2, <2>3, Flushed DEF Handle
  <2> QED
    BY <2>1, <2>2, <2>3, <2>4, <2>5, HandlerStep
<1>6. ASSUME NEW f \in X75Spec!PeerFrame, handle_sample_buffer(f) PROVE Rest
  <2>1. Running
    BY <1>6 DEF handle_sample_buffer, Reaches
  <2> DEFINE q    == x75_data_input(x75, f)
             told == x75_data_input(Silent, f).up
  <2>2. Inv(q) /\ Fine(x75, q) /\ Agrees(x75, q, told)
    BY <1>1, <1>2, PeerFrames, DataInput, DataInputFine, InputAgrees
  <2>3. Handle(q, told) /\ UNCHANGED <<tcp, exit_timer>>
    BY <1>6 DEF handle_sample_buffer
  <2>4. at' = Samples /\ at <= Samples /\ Samples \in Select .. Telnet
    BY <1>6 DEF handle_sample_buffer, Reaches, Samples, Select, Telnet
  <2> HIDE DEF q, told
  <2>5. Inv(x75') /\ x75'.state = q.state /\ Count(x75') = Count(q)
    BY <2>2, <2>3, Flushed DEF Handle
  <2> QED
    BY <2>1, <2>2, <2>3, <2>4, <2>5, HandlerStep
<1>7. ASSUME disconnect_close_cb PROVE Rest
  <2> DEFINE q == x75_disconnect_request(x75)
  <2>1. Inv(q) /\ Fine(x75, q)
    BY <1>1, DisconnectInv, RequestsFine
  <2>2. q.state \in {0, 2}
    BY <1>1, CoreTypes
       DEF Station, x75_disconnect_request, x75_start_t1timer,
           x75_stop_t2timer, x75_send_control, x75_transmit_buffer,
           x75_clear_queues
  <2>3. x75' = Flush(q) /\ tcp' = tcp
    BY <1>7 DEF disconnect_close_cb
  <2> HIDE DEF q
  <2>4. Inv(x75') /\ x75'.state \in {0, 2} /\ Count(x75') = Count(q)
    BY <2>1, <2>2, <2>3, Flushed
  <2>5. Count(q) \in Nat
    BY <2>1, CoreTypes DEF Inv
  <2>6. Count(x75') + tcp' <= MaxTcp
    BY <1>1, <2>1, <2>3, <2>4, <2>5, BridgeAssumption DEF Fine
  <2>7. Served'
    BY <2>4 DEF Served
  <2> QED
    BY <2>4, <2>6, <2>7
<1>8. ASSUME force_exit_cb PROVE Rest
  <2>1. x75' = x75 /\ tcp' = tcp /\ process' = "exited"
    BY <1>8 DEF force_exit_cb
  <2> QED
    BY <1>3, <2>1 DEF Served, Alive
<1>9. ASSUME call_initialize PROVE Rest
  <2>1. /\ x75' = x75 /\ tcp' = tcp /\ exit_timer' = exit_timer
        /\ state = "IDLE" /\ Running
    BY <1>9 DEF call_initialize, Reaches
  <2> QED
    BY <1>1, <1>3, <2>1 DEF Served, Running, Alive
<1>10. ASSUME SamplesOnly PROVE Rest
  <2>1. /\ x75' = x75 /\ tcp' = tcp /\ exit_timer' = exit_timer
        /\ state' = state /\ process' = process
        /\ at' = Samples
    BY <1>10 DEF SamplesOnly, Reaches
  <2>2. at' # Select
    BY <2>1 DEF Samples, Select
  <2> QED
    BY <1>1, <1>3, <2>1, <2>2 DEF Served, Alive
<1>11. ASSUME TelnetRefused PROVE Rest
  <2>1. /\ x75' = x75 /\ tcp' = tcp /\ exit_timer' = exit_timer
        /\ state' = state /\ process' = process
        /\ at' = Telnet
    BY <1>11 DEF TelnetRefused, Reaches
  <2>2. at' # Select
    BY <2>1 DEF Telnet, Select
  <2> QED
    BY <1>1, <1>3, <2>1, <2>2 DEF Served, Alive
<1>12. ASSUME TelnetData PROVE Rest
  <2>1. PICK d \in Data : x75' = Flush(x75_data_request(x75, d))
    BY <1>12 DEF TelnetData
  <2>2. /\ tcp > 0 /\ tcp' = tcp - 1 /\ exit_timer' = exit_timer
        /\ state' = state /\ process' = process
        /\ at' = Telnet /\ Running
        /\ x75.state \in {3, 4}
    BY <1>12 DEF TelnetData, Reaches, x75_can_write
  <2> DEFINE q == x75_data_request(x75, d)
  <2>3. Inv(q) /\ Count(q) <= Count(x75) + 1
    BY <1>1, DataInv, DataFine
  <2> HIDE DEF q
  <2>4. Inv(x75') /\ Count(x75') = Count(q)
    BY <2>1, <2>3, Flushed DEF q
  <2>5. Count(q) \in Nat
    BY <2>3, CoreTypes DEF Inv
  <2>6. Count(x75') + tcp' <= MaxTcp
    BY <1>1, <2>2, <2>3, <2>4, <2>5, BridgeAssumption
  <2>7. at' # Select
    BY <2>2 DEF Telnet, Select
  <2> QED
    BY <1>1, <2>2, <2>4, <2>6, <2>7 DEF Served, Running, Alive
<1>13. ASSUME TelnetEnd PROVE Rest
  <2>1. /\ x75' = x75 /\ tcp' = tcp /\ state' = "TCPDISCONNECTED"
        /\ at' = Telnet
    BY <1>13 DEF TelnetEnd, Reaches
  <2>2. at' # Select
    BY <2>1 DEF Telnet, Select
  <2> QED
    BY <1>3, <2>1, <2>2 DEF Served
<1>14. ASSUME LoopTail PROVE Rest
  <2>1. x75' = x75 /\ tcp' = tcp /\ Running
    BY <1>14 DEF LoopTail
  <2>2. CASE telnet_ofd = "NULL"
    BY <1>3, <1>14, <2>1, <2>2 DEF LoopTail, Served, Alive
  <2>3. CASE telnet_ofd # "NULL" /\ state = "TCPDISCONNECTED"
    <3>1. exit_timer' = ExitDelay
      BY <1>14, <2>3 DEF LoopTail
    <3>2. exit_timer' # Off
      BY <3>1, BridgeAssumption DEF Off
    <3> QED
      BY <1>3, <2>1, <3>2 DEF Served
  <2>4. CASE telnet_ofd # "NULL" /\ state # "TCPDISCONNECTED"
    BY <1>1, <1>3, <1>14, <2>1, <2>4 DEF LoopTail, Served, Running, Alive
  <2> QED
    BY <2>2, <2>3, <2>4
<1>15. ASSUME Tick PROVE Rest
  <2>1. /\ x75' = x75 /\ tcp' = tcp /\ state' = state /\ at' = at
        /\ Alive
        /\ exit_timer' = IF exit_timer > 0 THEN exit_timer - 1 ELSE exit_timer
    BY <1>15 DEF Tick
  <2>2. exit_timer # Off => exit_timer' # Off
    BY <1>1, <2>1, BridgeAssumption DEF TypeOK, Off
  <2> QED
    BY <1>1, <1>3, <2>1, <2>2 DEF Served
<1>16. ASSUME ServerCloses PROVE Rest
  BY <1>1, <1>3, <1>16 DEF ServerCloses, Served, Alive
<1>17. ASSUME WriteReturns PROVE Rest
  <2>1. /\ x75' = x75 /\ tcp' = tcp /\ state' = state /\ at' = at
        /\ exit_timer' = exit_timer /\ Alive
    BY <1>17 DEF WriteReturns, Alive
  <2> QED
    BY <1>1, <1>3, <2>1 DEF Served
<1>18. ASSUME UNCHANGED vars PROVE Rest
  BY <1>1, <1>3, <1>18 DEF vars, Served, Alive
<1>19. Rest
  BY <1>4, <1>5, <1>6, <1>7, <1>8, <1>9, <1>10, <1>11, <1>12, <1>13, <1>14,
     <1>15, <1>16, <1>17, <1>18 DEF Next, telnet_rx_cb
<1>20. TypeOK'
  BY <1>1, <1>19, NextType DEF Inv, Core
<1> QED
  BY <1>19, <1>20 DEF IInv

LEMMA IInvAlways == Spec => []IInv
  BY InitIInv, NextIInv, PTL DEF Spec

\* Every variable of the process keeps its type: the shutdown timers never
\* run below Off, and the control block is one of X75's.
THEOREM TypeCorrect == Spec => []TypeOK
<1>1. IInv => TypeOK
  BY DEF IInv
<1> QED
  BY <1>1, IInvAlways, PTL

\* At the end of every pass of the main loop a link that is up is bridged,
\* or the process is about to exit, in whatever order the call, the peer,
\* the timers and the end of the TCP connection came.
THEOREM LinkServedOrClosing == Spec => []ServedOrClosing
<1>1. IInv => ServedOrClosing
  BY DEF IInv, Served, ServedOrClosing, Running, Alive
<1> QED
  BY <1>1, IInvAlways, PTL

\* The process uses the stack as X75 describes it: every step is one of X75
\* or leaves the control block alone, so that all that X75_proofs shows of
\* the station holds in the process.
THEOREM ImplementsX75 == Spec => UsesX75
<1>1. Init => X75Spec!Init
  BY DEF Init, X75Spec!Init, x75_register, X75Spec!x75_register,
         x75_start_t1timer, X75Spec!x75_start_t1timer
<1>2. IInv /\ [Next]_vars => [X75Spec!Next]_x75
  <2> SUFFICES ASSUME IInv, Next PROVE X75Spec!Next \/ UNCHANGED x75
    BY DEF vars
  <2>1. CASE T1Fires
    <3>1. X75Spec!T1Fires
      BY <2>1, SameTimers, SameBasics
         DEF T1Fires, X75Spec!T1Fires, Reaches, Running, Handle
    <3> QED
      BY <3>1 DEF X75Spec!Next
  <2>2. CASE T2Fires
    <3>1. X75Spec!T2Fires
      BY <2>2, SameTimers, SameBasics
         DEF T2Fires, X75Spec!T2Fires, Reaches, Running, Handle
    <3> QED
      BY <3>1 DEF X75Spec!Next
  <2>3. CASE disconnect_close_cb
    <3>1. X75Spec!DisconnectRequest
      BY <2>3, SameRequests, SameBasics
         DEF disconnect_close_cb, X75Spec!DisconnectRequest, Reaches, Running
    <3> QED
      BY <3>1 DEF X75Spec!Next
  <2>4. ASSUME NEW f \in X75Spec!PeerFrame, handle_sample_buffer(f)
        PROVE  X75Spec!Next
    <3>1. X75Spec!Receive(f)
      BY <2>4, SameInput, SameBasics
         DEF handle_sample_buffer, X75Spec!Receive, Reaches, Running, Handle
    <3> QED
      BY <3>1 DEF X75Spec!Next
  <2>5. CASE TelnetData
    <3>1. PICK d \in Data : x75' = Flush(x75_data_request(x75, d))
      BY <2>5 DEF TelnetData
    <3>2. x75.write_queue_count + x75.ack_queue_count < MaxTcp
      <4>1. Count(x75) \in Nat /\ tcp \in Nat /\ Count(x75) + tcp <= MaxTcp
        BY CoreTypes DEF IInv, Inv, TypeOK
      <4>2. tcp > 0
        BY <2>5 DEF TelnetData
      <4>3. Count(x75) < MaxTcp
        BY <4>1, <4>2, BridgeAssumption
      <4> QED
        BY <4>3 DEF Count
    <3>3. X75Spec!DataRequest(d)
      BY <2>5, <3>1, <3>2, SameRequests, SameBasics
         DEF TelnetData, X75Spec!DataRequest, Reaches, Running
    <3> QED
      BY <3>3 DEF X75Spec!Next
  <2>6. CASE \/ force_exit_cb \/ call_initialize \/ SamplesOnly
             \/ TelnetRefused \/ TelnetEnd \/ LoopTail \/ Tick
             \/ ServerCloses \/ WriteReturns
    BY <2>6 DEF force_exit_cb, call_initialize, SamplesOnly, TelnetRefused,
                TelnetEnd, LoopTail, Tick, ServerCloses, WriteReturns
  <2> QED
    BY <2>1, <2>2, <2>3, <2>4, <2>5, <2>6 DEF Next, telnet_rx_cb
<1> QED
  BY <1>1, <1>2, IInvAlways, PTL DEF Spec, UsesX75, X75Spec!Spec
=============================================================================
