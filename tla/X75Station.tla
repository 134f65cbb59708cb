----------------------------- MODULE X75Station -----------------------------
(***************************************************************************)
(* One X.75 (LAPB) station: the control block struct x75_cb as a record    *)
(* and every function of x75_subr.c, x75_out.c, x75_timer.c, x75_in.c and  *)
(* x75_iface.c as an operator from control block to control block.  The    *)
(* module has no variables: X75 makes a specification of one station from  *)
(* it, X75Link one of two stations joined by lossy channels.               *)
(*                                                                         *)
(* Loops of the code over modulo counters and queues appear in closed form *)
(* (see frames_acked, validate_nr, kick), so that nothing is recursive.    *)
(* Two fields are not in the code: out and rx collect, in order, the       *)
(* frames handed to the data_transmit callback and the payloads handed to  *)
(* the data_indication callback while one handler runs.                    *)
(***************************************************************************)
EXTENDS Integers, Sequences

CONSTANTS
  Data,      \* payloads of I frames
  NoData,    \* the information field of every other frame
  Modulus,   \* X75_SMODULUS or X75_EMODULUS, chosen by the mode
  Window,    \* x75_cb.window
  N2,        \* x75_cb.n2, the number of retries
  Extended   \* is X75_EXTENDED set in x75_cb.mode?

ASSUME ModulusAssumption == Modulus \in Nat /\ Modulus > 1
\* x75_setparms accepts windows from 1 to modulus - 1 only.
ASSUME WindowAssumption == Window \in 1 .. (Modulus - 1)
\* x75_setparms refuses n2 < 1.
ASSUME N2Assumption == N2 \in Nat \ {0}
ASSUME ExtendedAssumption == Extended \in BOOLEAN
ASSUME NoDataAssumption == NoData \notin Data

Seqno == 0 .. (Modulus - 1)

\* OTHER stands for any control field that no state machine has a case for.
FrameType == {"I", "RR", "RNR", "REJ", "SABM", "SABME", "DISC", "DM", "UA",
              "FRMR", "ILLEGAL", "OTHER"}

\* struct x75_frame; the fields a frame type does not carry are 0 / NoData.
Frame == [type : FrameType, pf : BOOLEAN, cr : {"COMMAND", "RESPONSE"},
          ns : Seqno, nr : Seqno, data : Data \cup {NoData}]

Conditions == {"ACK_PENDING", "REJECT", "PEER_RX_BUSY"}

\* What an osmo timer calls when it expires.
Callbacks == {"NULL", "x75_t1timer_expiry", "x75_t2timer_expiry"}

\* struct x75_cb.  dce is the X75_DCE bit of mode; up is what the last
\* callback or return code told the layer above; crashed is set when the
\* code dereferences NULL.
Station ==
  [state : 0 .. 4, dce : BOOLEAN,
   vs : Seqno, vr : Seqno, va : Seqno,
   condition : SUBSET Conditions, n2count : 0 .. N2,
   t1_pending : BOOLEAN, t1_cb : Callbacks, t1_running : BOOLEAN,
   t2_pending : BOOLEAN, t2_cb : Callbacks, t2_running : BOOLEAN,
   write_queue : Seq(Data), write_queue_count : Nat,
   ack_queue : Seq(Data), ack_queue_count : Nat,
   up : {"none", "connected", "disconnected"}, crashed : BOOLEAN,
   out : Seq(Frame), rx : Seq(Data)]

-----------------------------------------------------------------------------
(* Counters modulo Modulus.                                                *)

\* (x + n) % modulus, for x and n below the modulus.
Plus(x, n) == IF x + n >= Modulus THEN x + n - Modulus ELSE x + n

\* The number of increments that lead from a to b.
Dist(a, b) == IF b >= a THEN b - a ELSE b - a + Modulus

Min2(m, n) == IF m <= n THEN m ELSE n

-----------------------------------------------------------------------------
(* x75_timer.c: starting and stopping.  osmo_timer_setup only stores the   *)
(* callback; osmo_timer_schedule makes the timer pending.                  *)

x75_start_t1timer(s) ==
  [s EXCEPT !.t1_cb = "x75_t1timer_expiry", !.t1_running = TRUE,
            !.t1_pending = TRUE]

\* The setup call names t1timer: it is T1's callback that changes.
x75_start_t2timer(s) ==
  [s EXCEPT !.t1_cb = "x75_t2timer_expiry", !.t2_running = TRUE,
            !.t2_pending = TRUE]

x75_stop_t1timer(s) == [s EXCEPT !.t1_running = FALSE, !.t1_pending = FALSE]

x75_stop_t2timer(s) == [s EXCEPT !.t2_running = FALSE, !.t2_pending = FALSE]

-----------------------------------------------------------------------------
(* x75_iface.c: the callbacks into the layer above.                        *)

x75_connect_confirmation(s) == [s EXCEPT !.up = "connected"]

x75_connect_indication(s) == [s EXCEPT !.up = "connected"]

x75_disconnect_confirmation(s) == [s EXCEPT !.up = "disconnected"]

x75_disconnect_indication(s) == [s EXCEPT !.up = "disconnected"]

x75_data_indication(s, d) == [s EXCEPT !.rx = Append(@, d)]

\* x75_transmit_buffer and x75_data_transmit: the frame goes to the driver.
x75_transmit_buffer(s, f) == [s EXCEPT !.out = Append(@, f)]

-----------------------------------------------------------------------------
(* x75_subr.c                                                              *)

\* S frames carry N(R), U frames do not.
x75_send_control(s, frametype, pf, cr) ==
  x75_transmit_buffer(s,
    [type |-> frametype, pf |-> pf, cr |-> cr, ns |-> 0,
     nr |-> IF frametype \in {"RR", "RNR", "REJ"} THEN s.vr ELSE 0,
     data |-> NoData])

\* The information field (frmr_data, frmr_type, vs, vr) only serves the
\* reader of a trace: no station looks at it.
x75_transmit_frmr(s) == x75_send_control(s, "FRMR", FALSE, "RESPONSE")

\* msgb_queue_free empties the two lists; the two counters keep their values.
x75_clear_queues(s) == [s EXCEPT !.write_queue = <<>>, !.ack_queue = <<>>]

\* while (ack_queue_count && va != nr) { dequeue; va = (va + 1) % modulus; }
\* The loop runs to nr, or until the counter is 0.  The counter goes down
\* only when a frame was in the list, so one that exceeds the length of the
\* list never stops the loop.
x75_frames_acked(s, nr) ==
  LET d    == Dist(s.va, nr)
      len  == Len(s.ack_queue)
      drop == Min2(d, len)
      adv  == IF s.ack_queue_count > len THEN d ELSE drop
  IN  [s EXCEPT !.va = Plus(@, adv),
                !.ack_queue = SubSeq(@, drop + 1, len),
                !.ack_queue_count = @ - drop]

\* Mutant: the counters do not follow the frames.
RequeueUncounted(s) ==
  [s EXCEPT !.write_queue = @ \o s.ack_queue, !.ack_queue = <<>>]

\* Mutant: the un-acked frames are freed.
RequeueFrees(s) == [s EXCEPT !.ack_queue = <<>>, !.ack_queue_count = 0]

\* The un-acked frames go to the END of the write queue.
x75_requeue_frames(s) ==
  [s EXCEPT !.write_queue = @ \o s.ack_queue,
            !.write_queue_count = @ + Len(s.ack_queue),
            !.ack_queue = <<>>,
            !.ack_queue_count = @ - Len(s.ack_queue)]

\* Mutant: the loop stops one short, as if nr = vs were invalid.
ValidateShort(s, nr) == Dist(s.va, nr) < Dist(s.va, s.vs)

\* Is nr one of va, va + 1, ..., vs?
x75_validate_nr(s, nr) == Dist(s.va, nr) <= Dist(s.va, s.vs)

-----------------------------------------------------------------------------
(* x75_out.c                                                               *)

IFrame(s, i, ns) ==
  [type |-> "I", pf |-> FALSE, cr |-> "COMMAND", ns |-> ns, nr |-> s.vr,
   data |-> s.write_queue[i]]

\* Mutant: T1 is not started with the burst.
BurstUntimed(s, start, n) ==
  [s EXCEPT
     !.vs = Plus(start, n),
     !.out = @ \o [i \in 1 .. n |-> IFrame(s, i, Plus(start, i - 1))],
     !.ack_queue = @ \o SubSeq(s.write_queue, 1, n),
     !.ack_queue_count = @ + n,
     !.write_queue = SubSeq(@, n + 1, Len(@)),
     !.write_queue_count = @ - n,
     !.condition = @ \ {"ACK_PENDING"}]

\* The do-while loop of x75_kick and the assignments after it: n frames,
\* numbered from start, are sent and moved to the ack queue.
SendBurst(s, start, n) ==
  LET sent == [s EXCEPT
        !.vs = Plus(start, n),
        !.out = @ \o [i \in 1 .. n |-> IFrame(s, i, Plus(start, i - 1))],
        !.ack_queue = @ \o SubSeq(s.write_queue, 1, n),
        !.ack_queue_count = @ + n,
        !.write_queue = SubSeq(@, n + 1, Len(@)),
        !.write_queue_count = @ - n,
        !.condition = @ \ {"ACK_PENDING"}]
  IN  IF s.t1_running THEN sent ELSE x75_start_t1timer(sent)

\* Mutant: the window is one too large.
KickPastWindow(s) ==
  LET start == IF s.ack_queue_count = 0 THEN s.va ELSE s.vs
      end   == Plus(s.va, Window + 1)
  IN  IF \/ "PEER_RX_BUSY" \in s.condition
         \/ start = end
         \/ s.write_queue = <<>>
      THEN s
      ELSE SendBurst(s, start, Min2(Len(s.write_queue), Dist(start, end)))

\* Mutant: a busy peer does not stop the burst.
KickWhenBusy(s) ==
  LET start == IF s.ack_queue_count = 0 THEN s.va ELSE s.vs
      end   == Plus(s.va, Window)
  IN  IF start = end \/ s.write_queue = <<>> THEN s
      ELSE SendBurst(s, start, Min2(Len(s.write_queue), Dist(start, end)))

\* The first frame is dequeued on the word of write_queue_count and copied
\* unchecked: with nothing in the list msgb_copy dereferences NULL.
x75_kick(s) ==
  LET start == IF s.ack_queue_count = 0 THEN s.va ELSE s.vs
      end   == Plus(s.va, Window)
  IN  IF \/ "PEER_RX_BUSY" \in s.condition
         \/ start = end
         \/ s.write_queue_count = 0
      THEN s
      ELSE IF s.write_queue = <<>>
      THEN [s EXCEPT !.crashed = TRUE]
      ELSE SendBurst(s, start, Min2(Len(s.write_queue), Dist(start, end)))

x75_establish_data_link(s) ==
  x75_stop_t2timer(x75_start_t1timer(
    x75_send_control([s EXCEPT !.condition = {}, !.n2count = 0],
                     IF Extended THEN "SABME" ELSE "SABM", TRUE, "COMMAND")))

ClearAckPending(s) == [s EXCEPT !.condition = @ \ {"ACK_PENDING"}]

x75_enquiry_response(s) ==
  ClearAckPending(x75_send_control(s, "RR", TRUE, "RESPONSE"))

x75_timeout_response(s) ==
  ClearAckPending(x75_send_control(s, "RR", FALSE, "RESPONSE"))

x75_check_iframes_acked(s, nr) ==
  IF s.vs = nr
  THEN [x75_stop_t1timer(x75_frames_acked(s, nr)) EXCEPT !.n2count = 0]
  ELSE IF s.va # nr
  THEN x75_start_t1timer(x75_frames_acked(s, nr))
  ELSE s

x75_check_need_response(s, cr, pf) ==
  IF cr = "COMMAND" /\ pf THEN x75_enquiry_response(s) ELSE s

-----------------------------------------------------------------------------
(* x75_in.c: the state machines.                                           *)

\* The SABM variant that the mode of the link accepts, and the other one.
SetMode   == IF Extended THEN "SABME" ELSE "SABM"
OtherMode == IF Extended THEN "SABM" ELSE "SABME"

Respond(s, frametype, f) == x75_send_control(s, frametype, f.pf, "RESPONSE")

\* Stop both timers and start numbering anew: the block every SABM(E) and
\* UA that (re)starts data transfer goes through.
ResetLink(s) ==
  [x75_stop_t2timer(x75_stop_t1timer(s)) EXCEPT
     !.condition = {}, !.n2count = 0, !.vs = 0, !.vr = 0, !.va = 0]

\* Leave for state 0 with T1 started: DMs will be sent when it expires.
Disconnected(s) ==
  x75_stop_t2timer(x75_start_t1timer([s EXCEPT !.state = 0]))

x75_state0_machine(s, f) ==
  CASE f.type = SetMode ->
         x75_connect_indication(
           [ResetLink(Respond(s, "UA", f)) EXCEPT !.state = 3])
    [] f.type = OtherMode -> Respond(s, "DM", f)
    [] f.type = "DISC"    -> Respond(s, "UA", f)
    [] OTHER              -> s

x75_state1_machine(s, f) ==
  CASE f.type = SetMode   -> Respond(s, "UA", f)
    [] f.type = OtherMode -> Respond(s, "DM", f)
    [] f.type = "DISC"    -> Respond(s, "DM", f)
    [] f.type = "UA" /\ f.pf ->
         x75_connect_confirmation([ResetLink(s) EXCEPT !.state = 3])
    [] f.type = "DM" /\ f.pf ->
         x75_disconnect_indication(Disconnected(x75_clear_queues(s)))
    [] OTHER -> s

x75_state2_machine(s, f) ==
  CASE f.type \in {"SABM", "SABME"} -> Respond(s, "DM", f)
    [] f.type = "DISC"              -> Respond(s, "UA", f)
    [] f.type \in {"UA", "DM"} /\ f.pf ->
         x75_disconnect_confirmation(Disconnected(s))
    [] f.type \in {"I", "REJ", "RNR", "RR"} /\ f.pf -> Respond(s, "DM", f)
    [] OTHER -> s

\* Mutant: state 4 without T1.
RejectUntimed(s) ==
  [x75_stop_t2timer(x75_transmit_frmr(s)) EXCEPT !.state = 4, !.n2count = 0]

\* The frame is one the link cannot recover from: FRMR, and state 4.
FrameReject(s) ==
  [x75_stop_t2timer(x75_start_t1timer(x75_transmit_frmr(s))) EXCEPT
     !.state = 4, !.n2count = 0]

\* RR and RNR in state 3.
ReceiveReady(s, f) ==
  LET c == IF f.type = "RNR" THEN s.condition \cup {"PEER_RX_BUSY"}
                             ELSE s.condition \ {"PEER_RX_BUSY"}
      r == x75_check_need_response([s EXCEPT !.condition = c], f.cr, f.pf)
  IN  IF x75_validate_nr(r, f.nr) THEN x75_check_iframes_acked(r, f.nr)
                                  ELSE FrameReject(r)

\* REJ in state 3: everything from nr on goes back to the write queue.
ReceiveReject(s, f) ==
  LET r == x75_check_need_response(
             [s EXCEPT !.condition = @ \ {"PEER_RX_BUSY"}], f.cr, f.pf)
  IN  IF x75_validate_nr(r, f.nr)
      THEN x75_requeue_frames(
             [x75_stop_t1timer(x75_frames_acked(r, f.nr)) EXCEPT
                !.n2count = 0])
      ELSE FrameReject(r)

\* An I frame in sequence is delivered and acknowledged, at once when it
\* polls, else when T2 expires or with the next frame sent.
AcceptIFrame(s, f) ==
  LET r == [x75_data_indication(s, f.data) EXCEPT
              !.vr = Plus(@, 1), !.condition = @ \ {"REJECT"}]
  IN  IF f.pf THEN x75_enquiry_response(r)
      ELSE IF "ACK_PENDING" \in r.condition THEN r
      ELSE x75_start_t2timer(
             [r EXCEPT !.condition = @ \cup {"ACK_PENDING"}])

\* One out of sequence is dropped; the first such asks for retransmission.
RefuseIFrame(s, f) ==
  IF "REJECT" \in s.condition
  THEN IF f.pf THEN x75_enquiry_response(s) ELSE s
  ELSE ClearAckPending(
         Respond([s EXCEPT !.condition = @ \cup {"REJECT"}], "REJ", f))

\* Mutant: N(S) is not compared with V(R).
ReceiveAnyIFrame(s, f) ==
  IF x75_validate_nr(s, f.nr)
  THEN AcceptIFrame(x75_check_iframes_acked(s, f.nr), f)
  ELSE FrameReject(s)

ReceiveIFrame(s, f) ==
  LET a == IF "PEER_RX_BUSY" \in s.condition
           THEN x75_frames_acked(s, f.nr)
           ELSE x75_check_iframes_acked(s, f.nr)
  IN  IF ~ x75_validate_nr(s, f.nr) THEN FrameReject(s)
      ELSE IF f.ns = a.vr THEN AcceptIFrame(a, f)
      ELSE RefuseIFrame(a, f)

x75_state3_machine(s, f) ==
  CASE f.type = SetMode ->
         x75_requeue_frames(ResetLink(Respond(s, "UA", f)))
    [] f.type = OtherMode -> Respond(s, "DM", f)
    [] f.type = "DISC" ->
         x75_disconnect_indication(Disconnected(
           Respond(x75_clear_queues(s), "UA", f)))
    [] f.type = "DM" ->
         x75_disconnect_indication(Disconnected(x75_clear_queues(s)))
    [] f.type \in {"RR", "RNR"} -> ReceiveReady(s, f)
    [] f.type = "REJ" -> ReceiveReject(s, f)
    [] f.type = "I" -> ReceiveIFrame(s, f)
    [] f.type = "FRMR" ->
         [x75_requeue_frames(x75_establish_data_link(s)) EXCEPT !.state = 1]
    [] f.type = "ILLEGAL" -> FrameReject(s)
    [] OTHER -> s

\* Data transfer restarts, but what is in the ack queue stays there.
x75_state4_machine(s, f) ==
  CASE f.type = SetMode ->
         x75_connect_indication(
           [ResetLink(Respond(s, "UA", f)) EXCEPT !.state = 3])
    [] f.type = OtherMode -> Respond(s, "DM", f)
    [] OTHER -> s

\* Mutant: the kick behind the state machines is missing.
InputNoKick(s, f) ==
  CASE s.state = 0 -> x75_state0_machine(s, f)
    [] s.state = 1 -> x75_state1_machine(s, f)
    [] s.state = 2 -> x75_state2_machine(s, f)
    [] s.state = 3 -> x75_state3_machine(s, f)
    [] s.state = 4 -> x75_state4_machine(s, f)

\* A frame that x75_decode accepts; whatever the state, a kick follows.
x75_data_input(s, f) ==
  x75_kick(CASE s.state = 0 -> x75_state0_machine(s, f)
             [] s.state = 1 -> x75_state1_machine(s, f)
             [] s.state = 2 -> x75_state2_machine(s, f)
             [] s.state = 3 -> x75_state3_machine(s, f)
             [] s.state = 4 -> x75_state4_machine(s, f))

-----------------------------------------------------------------------------
(* x75_timer.c: expiry.  The timer is no longer pending when the callback  *)
(* runs.                                                                   *)

x75_t2timer_expiry(s) ==
  IF s.t2_pending \/ ~ s.t2_running THEN s
  ELSE [(IF "ACK_PENDING" \in s.condition THEN x75_timeout_response(s)
                                          ELSE s)
        EXCEPT !.t2_running = FALSE]

\* T1 in state 0: DMs from a DCE, then an attempt to set up the link.
T1Disconnected(s) ==
  IF s.dce /\ s.n2count # N2
  THEN x75_send_control([s EXCEPT !.n2count = @ + 1], "DM", FALSE, "RESPONSE")
  ELSE x75_establish_data_link([s EXCEPT !.state = 1])

\* Mutant: leaving state 4 is not reported.
GiveUpSilently(s) ==
  LET c == [x75_clear_queues(s) EXCEPT !.state = 0, !.t1_running = FALSE]
  IN  IF s.state = 4 THEN c ELSE x75_disconnect_indication(c)

\* T1 after N2 retries: T1 is not restarted.
T1GiveUp(s) ==
  LET c == [x75_clear_queues(s) EXCEPT !.state = 0, !.t1_running = FALSE]
  IN  CASE s.state = 2 -> x75_disconnect_confirmation(c)
        [] s.state = 3 -> x75_disconnect_indication(x75_stop_t2timer(c))
        [] OTHER       -> x75_disconnect_indication(c)

\* Mutant: retries are not counted.
RetryUncounted(s) ==
  CASE s.state = 1 -> x75_send_control(s, SetMode, TRUE, "COMMAND")
    [] s.state = 2 -> x75_send_control(s, "DISC", TRUE, "COMMAND")
    [] s.state = 3 -> x75_kick(x75_requeue_frames(s))
    [] s.state = 4 -> x75_transmit_frmr(s)

\* T1 in states 1 to 4: repeat what was not answered.
T1Retry(s) ==
  LET c == [s EXCEPT !.n2count = @ + 1]
  IN  CASE s.state = 1 -> x75_send_control(c, SetMode, TRUE, "COMMAND")
        [] s.state = 2 -> x75_send_control(c, "DISC", TRUE, "COMMAND")
        [] s.state = 3 -> x75_kick(x75_requeue_frames(c))
        [] s.state = 4 -> x75_transmit_frmr(c)

\* Mutant: one retry too many.
T1ExpiryLate(s) ==
  IF s.t1_pending \/ ~ s.t1_running THEN s
  ELSE IF s.state = 0 THEN x75_start_t1timer(T1Disconnected(s))
  ELSE IF s.n2count > N2 THEN T1GiveUp(s)
  ELSE x75_start_t1timer(T1Retry(s))

\* Mutant: T1 is not started again behind a retry.
T1ExpiryOnce(s) ==
  IF s.t1_pending \/ ~ s.t1_running THEN s
  ELSE IF s.state = 0 THEN x75_start_t1timer(T1Disconnected(s))
  ELSE IF s.n2count = N2 THEN T1GiveUp(s)
  ELSE T1Retry(s)

x75_t1timer_expiry(s) ==
  IF s.t1_pending \/ ~ s.t1_running THEN s
  ELSE IF s.state = 0 THEN x75_start_t1timer(T1Disconnected(s))
  ELSE IF s.n2count = N2 THEN T1GiveUp(s)
  ELSE x75_start_t1timer(T1Retry(s))

RunCallback(s, cb) ==
  CASE cb = "x75_t1timer_expiry" -> x75_t1timer_expiry(s)
    [] cb = "x75_t2timer_expiry" -> x75_t2timer_expiry(s)
    [] OTHER -> s

T1Expires(s) == RunCallback([s EXCEPT !.t1_pending = FALSE], s.t1_cb)

T2Expires(s) == RunCallback([s EXCEPT !.t2_pending = FALSE], s.t2_cb)

-----------------------------------------------------------------------------
(* x75_iface.c: the requests of the layer above.                           *)

\* The control block is zeroed storage; T1 is started at once.  The code sets
\* X75_DCE and standard mode; x75_setparms can change both while in state 0,
\* so that a DTE or an extended station starts from here, too.
x75_register(dce) ==
  x75_start_t1timer(
    [state |-> 0, dce |-> dce, vs |-> 0, vr |-> 0, va |-> 0,
     condition |-> {}, n2count |-> 0,
     t1_pending |-> FALSE, t1_cb |-> "NULL", t1_running |-> FALSE,
     t2_pending |-> FALSE, t2_cb |-> "NULL", t2_running |-> FALSE,
     write_queue |-> <<>>, write_queue_count |-> 0,
     ack_queue |-> <<>>, ack_queue_count |-> 0,
     up |-> "none", crashed |-> FALSE, out |-> <<>>, rx |-> <<>>])

\* X75_OK at once in state 1, X75_CONNECTED in states 3 and 4.
x75_connect_request(s) ==
  IF s.state \in {1, 3, 4} THEN s
  ELSE [x75_establish_data_link(s) EXCEPT !.state = 1]

\* In states 0 and 1 the return code, X75_NOTCONNECTED, is all the caller
\* gets.
x75_disconnect_request(s) ==
  CASE s.state = 0 -> [s EXCEPT !.up = "disconnected"]
    [] s.state = 1 ->
         x75_start_t1timer(
           [x75_send_control(s, "DISC", TRUE, "COMMAND") EXCEPT
              !.state = 0, !.up = "disconnected"])
    [] s.state = 2 -> s
    [] OTHER ->
         [x75_stop_t2timer(x75_start_t1timer(
            x75_send_control([x75_clear_queues(s) EXCEPT !.n2count = 0],
                             "DISC", TRUE, "COMMAND")))
          EXCEPT !.state = 2]

x75_data_request(s, d) ==
  IF s.state \notin {3, 4} THEN s
  ELSE x75_kick([s EXCEPT !.write_queue = Append(@, d),
                          !.write_queue_count = @ + 1])

\* The driver has taken what the handler sent and delivered.
Flush(s) == [s EXCEPT !.out = <<>>, !.rx = <<>>]
=============================================================================
