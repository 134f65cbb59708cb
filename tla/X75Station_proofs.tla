-------------------------- MODULE X75Station_proofs -------------------------
(***************************************************************************)
(* What every function of the X.75 stack preserves, for every modulus,     *)
(* window, retry limit and set of payloads.  Inv is an invariant of the    *)
(* control block that every handler preserves; Core is the part of it that *)
(* holds between the calls inside a handler too, the other two conjuncts   *)
(* hold again when the handler returns.  The second half is about the two  *)
(* queues, as relations between the control block before a handler, s, and *)
(* after it, q: the state machines at most shorten the ack queue (Unsent), *)
(* x75_kick behind them moves frames from one queue to the other           *)
(* (KickEffect), and so every handler is Fine.  X75_proofs, X75Link_proofs *)
(* and YateX75_proofs use the lemmas for the station by itself, in a pair  *)
(* and in its process.                                                     *)
(***************************************************************************)
EXTENDS X75Station, SequenceTheorems, TLAPS

\* The queues and the sequence variables.
Numbers(s) ==
  /\ s.write_queue_count >= Len(s.write_queue)
  /\ s.ack_queue_count >= Len(s.ack_queue)
  /\ Dist(s.va, s.vs) <= Window

Core(s) == s \in Station /\ Numbers(s)

\* T1 supervises the states that wait for an answer; a pending T1 is always
\* flagged as running, so that its callback does not ignore the expiry.
T1Set(s) ==
  /\ s.t1_running = TRUE
  /\ s.t1_pending = TRUE
  /\ s.t1_cb = "x75_t1timer_expiry"

Supervised(s) ==
  /\ s.t1_pending = TRUE => s.t1_running = TRUE
  /\ s.state \in {1, 2, 4} => T1Set(s)

Informed(s) ==
  /\ s.state \in {3, 4} => s.up = "connected"
  /\ s.state = 0 => s.up # "connected"

Inv(s) == Core(s) /\ Supervised(s) /\ Informed(s)

\* What the functions that neither change the state nor report to the layer
\* above do to the control block s: they leave q.
Keeps(s, q) ==
  /\ Core(q)
  /\ Supervised(s) => Supervised(q)
  /\ q.state = s.state /\ q.up = s.up

-----------------------------------------------------------------------------
(* Counting modulo Modulus.                                                *)

\* Plus and Dist stay within the modulus, and Dist counts what Plus adds.
LEMMA PlusDist ==
  /\ \A x, n \in Seqno : Plus(x, n) \in Seqno /\ Dist(x, Plus(x, n)) = n
  /\ \A x \in Seqno : Plus(x, Modulus) = x
  /\ \A a, b \in Seqno :
       Dist(a, b) \in Seqno /\ Plus(a, Dist(a, b)) = b
  /\ \A a \in Seqno : Dist(a, a) = 0
  BY ModulusAssumption DEF Plus, Dist, Seqno

\* Moving the start of an interval forward, within it, shortens it.
LEMMA DistAdvance ==
  ASSUME NEW a \in Seqno, NEW b \in Seqno, NEW n \in Seqno, n <= Dist(a, b)
  PROVE  Dist(Plus(a, n), b) = Dist(a, b) - n
  BY ModulusAssumption DEF Plus, Dist, Seqno

\* Adding to a number at most what is missing to va + Window stays within
\* the window.
LEMMA WithinWindow ==
  ASSUME NEW va \in Seqno, NEW start \in Seqno, Dist(va, start) <= Window,
         NEW n \in Nat, n <= Dist(start, Plus(va, Window))
  PROVE  Plus(start, n) \in Seqno /\ Dist(va, Plus(start, n)) <= Window
  BY ModulusAssumption, WindowAssumption DEF Plus, Dist, Seqno

LEMMA Zeros == 0 \in Seqno /\ 0 \in 0 .. N2 /\ Dist(0, 0) = 0 /\ 0 <= Window
  BY ModulusAssumption, N2Assumption, WindowAssumption DEF Seqno, Dist

-----------------------------------------------------------------------------
(* What the single functions preserve.                                     *)

\* Sending a control frame changes nothing but the list of frames sent.
LEMMA SendControl ==
  ASSUME NEW s \in Station, NEW t \in FrameType, NEW pf \in BOOLEAN,
         NEW cr \in {"COMMAND", "RESPONSE"}
  PROVE  \E o \in Seq(Frame) :
           x75_send_control(s, t, pf, cr) = [s EXCEPT !.out = o]
<1> DEFINE f == [type |-> t, pf |-> pf, cr |-> cr, ns |-> 0,
                 nr |-> IF t \in {"RR", "RNR", "REJ"} THEN s.vr ELSE 0,
                 data |-> NoData]
<1>1. f \in Frame
  BY ModulusAssumption DEF Frame, Seqno, Station
<1>2. Append(s.out, f) \in Seq(Frame)
  BY <1>1 DEF Station
<1>3. x75_send_control(s, t, pf, cr) = [s EXCEPT !.out = Append(s.out, f)]
  BY DEF x75_send_control, x75_transmit_buffer
<1> QED
  BY <1>2, <1>3

\* The list of frames sent and the payloads delivered are not in Inv.
LEMMA OutRx ==
  ASSUME NEW s \in Station, NEW o \in Seq(Frame), NEW r \in Seq(Data)
  PROVE  LET q == [s EXCEPT !.out = o]
             p == [s EXCEPT !.rx = r]
         IN  /\ Core(s) => Core(q) /\ Core(p)
             /\ Supervised(s) => Supervised(q) /\ Supervised(p)
             /\ Informed(s) => Informed(q) /\ Informed(p)
             /\ q.state = s.state /\ p.state = s.state
             /\ q.up = s.up /\ p.up = s.up
  BY DEF Station, Core, Numbers, Supervised, T1Set, Informed

\* n frames move from the write queue, leaving w, to the ack queue, a.
Move(s, vs, o, a, w, n) ==
  [s EXCEPT !.vs = vs, !.out = o,
            !.ack_queue = a, !.ack_queue_count = @ + n,
            !.write_queue = w, !.write_queue_count = @ - n,
            !.condition = @ \ {"ACK_PENDING"}]

LEMMA Moved ==
  ASSUME NEW s \in Station, Numbers(s),
         NEW vs \in Seqno, Dist(s.va, vs) <= Window,
         NEW o \in Seq(Frame), NEW a \in Seq(Data), NEW w \in Seq(Data),
         NEW n \in Nat, n <= Len(s.write_queue),
         Len(a) = Len(s.ack_queue) + n, Len(w) = Len(s.write_queue) - n
  PROVE  Keeps(s, Move(s, vs, o, a, w, n))
<1> DEFINE q == Move(s, vs, o, a, w, n)
<1>1. /\ s.write_queue_count \in Nat /\ s.ack_queue_count \in Nat
      /\ s.write_queue \in Seq(Data) /\ s.ack_queue \in Seq(Data)
      /\ s.write_queue_count >= Len(s.write_queue)
      /\ s.ack_queue_count >= Len(s.ack_queue)
  BY DEF Numbers, Station
<1>2. /\ s.write_queue_count - n \in Nat
      /\ s.ack_queue_count + n \in Nat
      /\ s.write_queue_count - n >= Len(w)
      /\ s.ack_queue_count + n >= Len(a)
  <2> HIDE DEF q
  <2>1. s.write_queue_count - n \in Nat /\ s.ack_queue_count + n \in Nat
    BY <1>1
  <2>2. s.write_queue_count - n >= Len(w)
    BY <1>1
  <2>3. s.ack_queue_count + n >= Len(a)
    BY <1>1
  <2> QED
    BY <2>1, <2>2, <2>3
<1>3. q \in Station
  BY <1>2 DEF Station, Move
<1>4. Numbers(q)
  BY <1>1, <1>2 DEF Numbers, Station, Move
<1>5. /\ Supervised(s) => Supervised(q)
      /\ q.state = s.state /\ q.up = s.up
  BY DEF Station, Supervised, T1Set, Move
<1> QED
  BY <1>3, <1>4, <1>5 DEF Core, Keeps

\* Starting T1 disturbs nothing.
LEMMA StartT1 ==
  ASSUME NEW s \in Station
  PROVE  LET q == x75_start_t1timer(s)
         IN  /\ q \in Station
             /\ Core(s) => Core(q)
             /\ Supervised(q)
             /\ q.state = s.state /\ q.up = s.up
  BY DEF Core, Numbers, Station, Supervised, T1Set, x75_start_t1timer,
         Callbacks

\* A burst of n frames from the write queue, numbered from start.
LEMMA Burst ==
  ASSUME NEW s \in Station, Numbers(s), NEW start \in Seqno, NEW n \in Nat,
         n <= Len(s.write_queue), n < Modulus,
         Plus(start, n) \in Seqno, Dist(s.va, Plus(start, n)) <= Window
  PROVE  Keeps(s, SendBurst(s, start, n))
<1> DEFINE burst == [i \in 1 .. n |-> IFrame(s, i, Plus(start, i - 1))]
           out   == s.out \o burst
           acks  == s.ack_queue \o SubSeq(s.write_queue, 1, n)
           rest  == SubSeq(s.write_queue, n + 1, Len(s.write_queue))
           sent  == Move(s, Plus(start, n), out, acks, rest, n)
<1>1. /\ s.vr \in Seqno
      /\ s.write_queue \in Seq(Data) /\ s.ack_queue \in Seq(Data)
      /\ s.out \in Seq(Frame)
      /\ s.write_queue_count \in Nat /\ s.ack_queue_count \in Nat
      /\ s.condition \in SUBSET Conditions
      /\ s.write_queue_count >= Len(s.write_queue)
      /\ s.ack_queue_count >= Len(s.ack_queue)
  BY DEF Core, Numbers, Station
<1>2. out \in Seq(Frame)
  <2>1. ASSUME NEW i \in 1 .. n
        PROVE  IFrame(s, i, Plus(start, i - 1)) \in Frame
    <3>1. i - 1 \in Seqno
      BY ModulusAssumption DEF Seqno
    <3>2. Plus(start, i - 1) \in Seqno
      BY <3>1, PlusDist
    <3>3. s.write_queue[i] \in Data
      BY <1>1
    <3> QED
      BY <1>1, <3>2, <3>3 DEF IFrame, Frame, FrameType
  <2>2. burst \in Seq(Frame)
    BY <2>1
  <2> QED
    BY <1>1, <2>2, ConcatProperties
<1>3. /\ SubSeq(s.write_queue, 1, n) \in Seq(Data)
      /\ Len(SubSeq(s.write_queue, 1, n)) = n
  BY <1>1, SubSeqProperties
<1>4. /\ acks \in Seq(Data)
      /\ Len(acks) = Len(s.ack_queue) + n
  <2> DEFINE head == SubSeq(s.write_queue, 1, n)
  <2>1. head \in Seq(Data) /\ Len(head) = n
    BY <1>3
  <2> HIDE DEF head
  <2>2. /\ s.ack_queue \o head \in Seq(Data)
        /\ Len(s.ack_queue \o head) = Len(s.ack_queue) + Len(head)
    BY <1>1, <2>1, ConcatProperties
  <2> QED
    BY <2>1, <2>2 DEF head
<1>5. /\ rest \in Seq(Data)
      /\ Len(rest) = Len(s.write_queue) - n
  BY <1>1, SubSeqProperties
<1>6. SendBurst(s, start, n)
        = IF s.t1_running THEN sent ELSE x75_start_t1timer(sent)
  BY DEF SendBurst, Move
<1>7. /\ Core(sent)
      /\ Supervised(s) => Supervised(sent)
      /\ sent.state = s.state /\ sent.up = s.up
  <2> HIDE DEF out, acks, rest
  <2> QED
    BY <1>2, <1>4, <1>5, Moved DEF Keeps
<1> HIDE DEF sent
<1>8. LET q == x75_start_t1timer(sent)
      IN  /\ Core(q)
          /\ Supervised(q)
          /\ q.state = s.state /\ q.up = s.up
  BY <1>7, StartT1 DEF Core
<1> QED
  BY <1>6, <1>7, <1>8 DEF Keeps

\* x75_kick, in any state and at any point of a handler.
LEMMA Kick ==
  ASSUME NEW s \in Station, Numbers(s)
  PROVE  Keeps(s, x75_kick(s))
<1> DEFINE start == IF s.ack_queue_count = 0 THEN s.va ELSE s.vs
           end   == Plus(s.va, Window)
           n     == Min2(Len(s.write_queue), Dist(start, end))
<1>1. /\ s.va \in Seqno /\ s.vs \in Seqno /\ s.write_queue \in Seq(Data)
      /\ Dist(s.va, s.vs) <= Window
  BY DEF Numbers, Station
<1>2. start \in Seqno /\ Dist(s.va, start) <= Window
  BY <1>1, PlusDist, WindowAssumption
<1>3. Window \in Seqno
  BY WindowAssumption, ModulusAssumption DEF Seqno
<1>4. end \in Seqno
  BY <1>1, <1>3, PlusDist
<1> HIDE DEF start, end
<1>5. Dist(start, end) \in Seqno
  BY <1>2, <1>4, PlusDist
<1>6. /\ n \in Nat /\ n <= Len(s.write_queue) /\ n <= Dist(start, end)
      /\ n < Modulus
  BY <1>1, <1>5, ModulusAssumption DEF Min2, Seqno
<1> HIDE DEF n
<1>7. Plus(start, n) \in Seqno /\ Dist(s.va, Plus(start, n)) <= Window
  BY <1>1, <1>2, <1>6, WithinWindow DEF end
<1>8. CASE x75_kick(s) = s
  BY <1>8 DEF Core, Keeps
<1>9. CASE x75_kick(s) = [s EXCEPT !.crashed = TRUE]
  <2>1. LET q == [s EXCEPT !.crashed = TRUE]
        IN  /\ Core(q)
            /\ Supervised(s) => Supervised(q)
            /\ q.state = s.state /\ q.up = s.up
    BY DEF Core, Numbers, Station, Supervised, T1Set
  <2> QED
    BY <1>9, <2>1 DEF Keeps
<1>10. CASE x75_kick(s) = SendBurst(s, start, n)
  BY <1>2, <1>6, <1>7, <1>10, Burst
<1> QED
  BY <1>8, <1>9, <1>10 DEF x75_kick, start, end, n

\* The counters of x75_requeue_frames stay natural and cover the queues.
LEMMA CountsAfterRequeue ==
  \A lw, la, c, d \in Nat :
    c >= lw /\ d >= la => /\ c + la \in Nat /\ c + la >= lw + la
                         /\ d - la \in Nat
  OBVIOUS

LEMMA EmptyQueue == <<>> \in Seq(Data) /\ Len(<<>>) = 0
  OBVIOUS

\* Un-acked frames go back to the write queue.
LEMMA Requeue ==
  ASSUME NEW s \in Station, Numbers(s)
  PROVE  /\ Keeps(s, x75_requeue_frames(s))
         /\ T1Set(s) => T1Set(x75_requeue_frames(s))
<1> DEFINE q == x75_requeue_frames(s)
<1>1. /\ s.write_queue_count \in Nat /\ s.ack_queue_count \in Nat
      /\ s.write_queue \in Seq(Data) /\ s.ack_queue \in Seq(Data)
      /\ s.write_queue_count >= Len(s.write_queue)
      /\ s.ack_queue_count >= Len(s.ack_queue)
  BY DEF Numbers, Station
<1>2. PICK w \in Seq(Data) :
         /\ w = s.write_queue \o s.ack_queue
         /\ Len(w) = Len(s.write_queue) + Len(s.ack_queue)
  BY <1>1, ConcatProperties
<1>2a. /\ Len(s.write_queue) \in Nat /\ Len(s.ack_queue) \in Nat
  BY <1>1
<1>3. PICK wc \in Nat, ac \in Nat :
         /\ wc = s.write_queue_count + Len(s.ack_queue)
         /\ ac = s.ack_queue_count - Len(s.ack_queue)
         /\ wc >= Len(w)
  <2>1. /\ s.write_queue_count + Len(s.ack_queue) \in Nat
        /\ s.ack_queue_count - Len(s.ack_queue) \in Nat
    BY <1>1, <1>2a, CountsAfterRequeue
  <2>2. s.write_queue_count + Len(s.ack_queue)
          >= Len(s.write_queue) + Len(s.ack_queue)
    BY <1>1, <1>2a, CountsAfterRequeue
  <2>3. s.write_queue_count + Len(s.ack_queue) >= Len(w)
    BY <1>2, <2>2, Zenon
  <2> QED
    BY <2>1, <2>3, Zenon
<1>4. q = [s EXCEPT !.write_queue = w, !.write_queue_count = wc,
                    !.ack_queue = <<>>, !.ack_queue_count = ac]
  BY <1>2, <1>3 DEF x75_requeue_frames
<1> HIDE DEF q
<1>5. q \in Station
  BY <1>4, EmptyQueue DEF Station
<1>6. /\ q.va = s.va /\ q.vs = s.vs
      /\ q.write_queue = w /\ q.write_queue_count = wc
      /\ q.ack_queue = <<>> /\ q.ack_queue_count = ac
      /\ q.state = s.state /\ q.up = s.up
      /\ Supervised(s) => Supervised(q)
  BY <1>4 DEF Station, Supervised, T1Set
<1>6a. T1Set(s) => T1Set(q)
  BY <1>4 DEF Station, T1Set
<1>7. Numbers(q)
  BY <1>3, <1>6, EmptyQueue DEF Numbers
<1> QED
  BY <1>5, <1>6, <1>6a, <1>7 DEF Core, Keeps, q

\* A validated N(R) advances V(A), and the window shrinks accordingly.
LEMMA FramesAcked ==
  ASSUME NEW s \in Station, Numbers(s), NEW nr \in Seqno,
         x75_validate_nr(s, nr)
  PROVE  Keeps(s, x75_frames_acked(s, nr))
<1> DEFINE d    == Dist(s.va, nr)
           len  == Len(s.ack_queue)
           drop == Min2(d, len)
           adv  == IF s.ack_queue_count > len THEN d ELSE drop
           a    == SubSeq(s.ack_queue, drop + 1, len)
           q    == x75_frames_acked(s, nr)
<1>1. /\ s.va \in Seqno /\ s.vs \in Seqno /\ s.ack_queue \in Seq(Data)
      /\ s.ack_queue_count \in Nat
      /\ s.ack_queue_count >= Len(s.ack_queue)
      /\ Dist(s.va, s.vs) <= Window
  BY DEF Numbers, Station
<1>2. d \in Seqno /\ d <= Dist(s.va, s.vs) /\ Dist(s.va, s.vs) \in Seqno
  BY <1>1, PlusDist DEF x75_validate_nr
<1>3. /\ drop \in Nat /\ drop <= len /\ drop <= d
      /\ adv \in Seqno /\ adv <= Dist(s.va, s.vs)
  <2> HIDE DEF d
  <2> QED
    BY <1>1, <1>2, ModulusAssumption DEF Min2, Seqno
<1> HIDE DEF d, drop, adv
<1>4. /\ Plus(s.va, adv) \in Seqno
      /\ Dist(Plus(s.va, adv), s.vs) <= Window
  <2>1. Plus(s.va, adv) \in Seqno
    BY <1>1, <1>3, PlusDist
  <2>2. Dist(Plus(s.va, adv), s.vs) = Dist(s.va, s.vs) - adv
    BY <1>1, <1>3, DistAdvance
  <2> QED
    BY <1>1, <1>2, <1>3, <2>1, <2>2, WindowAssumption, ModulusAssumption
       DEF Seqno
<1>5. a \in Seq(Data) /\ Len(a) = len - drop
  BY <1>1, <1>3, SubSeqProperties
<1>6. s.ack_queue_count - drop \in Nat /\ s.ack_queue_count - drop >= Len(a)
  BY <1>1, <1>3, <1>5
<1> HIDE DEF a
<1>7. q = [s EXCEPT !.va = Plus(s.va, adv), !.ack_queue = a,
                    !.ack_queue_count = s.ack_queue_count - drop]
  BY DEF x75_frames_acked, d, drop, adv, a
<1> HIDE DEF q
<1>8. q \in Station
  BY <1>4, <1>5, <1>6, <1>7 DEF Station
<1>9. /\ q.va = Plus(s.va, adv) /\ q.vs = s.vs
      /\ q.ack_queue = a /\ q.ack_queue_count = s.ack_queue_count - drop
      /\ q.write_queue = s.write_queue
      /\ q.write_queue_count = s.write_queue_count
      /\ q.state = s.state /\ q.up = s.up
      /\ Supervised(s) => Supervised(q)
  BY <1>7 DEF Station, Supervised, T1Set
<1>10. Numbers(q)
  BY <1>4, <1>6, <1>9 DEF Numbers
<1> QED
  BY <1>8, <1>9, <1>10 DEF Core, Keeps, q

\* One call after another.
LEMMA KeepsKeeps ==
  ASSUME NEW s, NEW r, NEW q, Keeps(s, r), Keeps(r, q)
  PROVE  Keeps(s, q)
  BY DEF Keeps

LEMMA CoreFacts == \A s : Core(s) <=> s \in Station /\ Numbers(s)
  BY DEF Core

LEMMA KeepsCore == \A s, q : Keeps(s, q) => Core(q)
  BY DEF Keeps

\* Sending a control frame.
LEMMA SendKeeps ==
  ASSUME NEW s, Core(s), NEW t \in FrameType, NEW pf \in BOOLEAN,
         NEW cr \in {"COMMAND", "RESPONSE"}
  PROVE  Keeps(s, x75_send_control(s, t, pf, cr))
<1>1. s \in Station
  BY DEF Core
<1>2. PICK o \in Seq(Frame) :
         x75_send_control(s, t, pf, cr) = [s EXCEPT !.out = o]
  BY <1>1, SendControl
<1>3. /\ Core([s EXCEPT !.out = o])
      /\ Supervised(s) => Supervised([s EXCEPT !.out = o])
      /\ [s EXCEPT !.out = o].state = s.state
      /\ [s EXCEPT !.out = o].up = s.up
  BY <1>1, OutRx, EmptyQueue
<1> QED
  BY <1>2, <1>3 DEF Keeps

\* Changing conditions.
LEMMA ConditionKeeps ==
  ASSUME NEW s, Core(s), NEW c \in SUBSET Conditions
  PROVE  Keeps(s, [s EXCEPT !.condition = c])
<1>1. s \in Station
  BY DEF Core
<1> QED
  BY <1>1 DEF Core, Keeps, Numbers, Station, Supervised, T1Set

\* Answering a poll, and the delayed acknowledgement.
LEMMA ResponseKeeps ==
  ASSUME NEW s, Core(s)
  PROVE  /\ Keeps(s, ClearAckPending(s))
         /\ Keeps(s, x75_enquiry_response(s))
         /\ Keeps(s, x75_timeout_response(s))
<1>1. ASSUME NEW r, Core(r)
      PROVE  Keeps(r, ClearAckPending(r))
  <2>1. r.condition \ {"ACK_PENDING"} \in SUBSET Conditions
    BY <1>1 DEF Core, Station
  <2> QED
    BY <1>1, <2>1, ConditionKeeps DEF ClearAckPending
<1>2. ASSUME NEW pf \in BOOLEAN
      PROVE  Keeps(s, ClearAckPending(x75_send_control(s, "RR", pf, "RESPONSE")))
  <2>1. Keeps(s, x75_send_control(s, "RR", pf, "RESPONSE"))
    BY SendKeeps DEF FrameType
  <2> QED
    BY <1>1, <2>1, KeepsCore, KeepsKeeps
<1> QED
  BY <1>1, <1>2 DEF x75_enquiry_response, x75_timeout_response

\* The timers.  Only outside the waiting states may T1 be stopped, or its
\* callback be replaced as x75_start_t2timer does.
LEMMA TimersKeep ==
  ASSUME NEW s, Core(s)
  PROVE  /\ Keeps(s, x75_start_t1timer(s))
         /\ Supervised(x75_start_t1timer(s)) /\ T1Set(x75_start_t1timer(s))
         /\ Keeps(s, x75_stop_t2timer(s))
         /\ T1Set(s) => T1Set(x75_stop_t2timer(s))
         /\ s.state \notin {1, 2, 4} => Keeps(s, x75_stop_t1timer(s))
         /\ s.state \notin {1, 2, 4} => Keeps(s, x75_start_t2timer(s))
         /\ \A n \in 0 .. N2 : Keeps(s, [s EXCEPT !.n2count = n])
<1> SUFFICES ASSUME s \in Station, Numbers(s)
             PROVE  /\ Keeps(s, x75_start_t1timer(s))
                    /\ Supervised(x75_start_t1timer(s))
                    /\ T1Set(x75_start_t1timer(s))
                    /\ Keeps(s, x75_stop_t2timer(s))
                    /\ T1Set(s) => T1Set(x75_stop_t2timer(s))
                    /\ s.state \notin {1, 2, 4}
                         => Keeps(s, x75_stop_t1timer(s))
                    /\ s.state \notin {1, 2, 4}
                         => Keeps(s, x75_start_t2timer(s))
                    /\ \A n \in 0 .. N2 : Keeps(s, [s EXCEPT !.n2count = n])
  BY DEF Core
<1> USE DEF Core, Numbers, Station, Supervised, T1Set, Callbacks, Keeps
<1>1. /\ Keeps(s, x75_start_t1timer(s))
      /\ Supervised(x75_start_t1timer(s))
      /\ T1Set(x75_start_t1timer(s))
  BY DEF x75_start_t1timer
<1>2. /\ Keeps(s, x75_stop_t2timer(s))
      /\ T1Set(s) => T1Set(x75_stop_t2timer(s))
  BY DEF x75_stop_t2timer
<1>3. s.state \notin {1, 2, 4} => Keeps(s, x75_stop_t1timer(s))
  BY DEF x75_stop_t1timer
<1>4. s.state \notin {1, 2, 4} => Keeps(s, x75_start_t2timer(s))
  BY DEF x75_start_t2timer
<1>5. \A n \in 0 .. N2 : Keeps(s, [s EXCEPT !.n2count = n])
  OBVIOUS
<1> QED
  BY <1>1, <1>2, <1>3, <1>4, <1>5

\* Freeing the queues: the counters cover them all the more.
LEMMA ClearKeeps ==
  ASSUME NEW s, Core(s)
  PROVE  Keeps(s, x75_clear_queues(s))
<1>1. s \in Station /\ Numbers(s)
  BY DEF Core
<1>2. s.write_queue_count >= 0 /\ s.ack_queue_count >= 0
  BY <1>1 DEF Station
<1> DEFINE q == x75_clear_queues(s)
<1>3. /\ q \in Station
      /\ q.va = s.va /\ q.vs = s.vs
      /\ q.write_queue = <<>> /\ q.write_queue_count = s.write_queue_count
      /\ q.ack_queue = <<>> /\ q.ack_queue_count = s.ack_queue_count
      /\ q.state = s.state /\ q.up = s.up
      /\ Supervised(s) => Supervised(q)
  BY <1>1, EmptyQueue DEF x75_clear_queues, Station, Supervised, T1Set
<1> HIDE DEF q
<1>4. Numbers(q)
  BY <1>1, <1>2, <1>3, EmptyQueue DEF Numbers
<1> QED
  BY <1>3, <1>4 DEF Core, Keeps, q

-----------------------------------------------------------------------------
(* The blocks that change the state.                                       *)

LEMMA StateNumbers == {0, 1, 2, 3, 4} \subseteq 0 .. 4 /\ {0, 3} \cap {1, 2, 4} = {}
  OBVIOUS

\* The state alone.
LEMMA SetState ==
  ASSUME NEW s, Core(s), NEW k \in 0 .. 4
  PROVE  LET q == [s EXCEPT !.state = k]
         IN  /\ Core(q) /\ q.state = k /\ q.up = s.up
<1>1. s \in Station /\ Numbers(s)
  BY DEF Core
<1> QED
  BY <1>1 DEF Core, Numbers, Station

\* Entering state k, with T1 set or in states 0 and 3.
LEMMA EnterState ==
  ASSUME NEW s, Core(s), NEW k \in 0 .. 4,
         s.t1_pending = TRUE => s.t1_running = TRUE,
         k \in {1, 2, 4} => T1Set(s)
  PROVE  LET q == [s EXCEPT !.state = k]
         IN  /\ Core(q) /\ Supervised(q) /\ q.up = s.up /\ q.state = k
             /\ q.t1_pending = s.t1_pending /\ q.t1_running = s.t1_running
<1>1. s \in Station /\ Numbers(s)
  BY DEF Core
<1> QED
  BY <1>1 DEF Core, Numbers, Station, Supervised, T1Set

\* Telling the layer above.
LEMMA Tell ==
  ASSUME NEW s, Core(s), Supervised(s)
  PROVE  /\ s.state = 3 => Inv(x75_connect_indication(s))
         /\ s.state = 3 => Inv(x75_connect_confirmation(s))
         /\ s.state = 0 => Inv(x75_disconnect_indication(s))
         /\ s.state = 0 => Inv(x75_disconnect_confirmation(s))
<1>1. s \in Station /\ Numbers(s)
  BY DEF Core
<1>2. ASSUME NEW u \in {"connected", "disconnected"},
             s.state = IF u = "connected" THEN 3 ELSE 0
      PROVE  Inv([s EXCEPT !.up = u])
  <2> DEFINE q == [s EXCEPT !.up = u]
  <2>1. q \in Station
    BY <1>1 DEF Station
  <2>2. Numbers(q) /\ Supervised(q)
    BY <1>1 DEF Station, Numbers, Supervised, T1Set
  <2>3. q.up = u /\ q.state = s.state
    BY <1>1 DEF Station
  <2>4. Informed(q)
    <3> HIDE DEF q
    <3> QED
      BY <1>2, <2>3 DEF Informed
  <2> QED
    BY <2>1, <2>2, <2>4 DEF Inv, Core
<1> QED
  BY <1>2 DEF x75_connect_indication, x75_connect_confirmation,
              x75_disconnect_indication, x75_disconnect_confirmation

\* Numbering starts anew.
LEMMA Reset ==
  ASSUME NEW s, Core(s)
  PROVE  LET q == ResetLink(s)
         IN  /\ Core(q) /\ q.state = s.state /\ q.up = s.up
             /\ q.t1_pending = FALSE /\ q.t1_running = FALSE
<1>1. s \in Station /\ Numbers(s)
  BY DEF Core
<1> QED
  BY <1>1, Zeros DEF Core, Numbers, Station, ResetLink, x75_stop_t1timer,
                     x75_stop_t2timer

\* Data transfer begins.
LEMMA Connected ==
  ASSUME NEW s, Core(s)
  PROVE  /\ Inv(x75_connect_indication([ResetLink(s) EXCEPT !.state = 3]))
         /\ Inv(x75_connect_confirmation([ResetLink(s) EXCEPT !.state = 3]))
<1> DEFINE r == ResetLink(s)
           q == [r EXCEPT !.state = 3]
<1>1. Core(r) /\ r.t1_pending = FALSE
  BY Reset
<1> HIDE DEF r
<1>2. Core(q) /\ Supervised(q) /\ q.state = 3
  BY <1>1, EnterState, StateNumbers, Zenon
<1> HIDE DEF q
<1>3. Inv(x75_connect_indication(q)) /\ Inv(x75_connect_confirmation(q))
  BY <1>2, Tell
<1> QED
  BY <1>3 DEF q, r

\* The link is down: T1 started, T2 stopped.
LEMMA Down ==
  ASSUME NEW s, Core(s)
  PROVE  /\ Inv(x75_disconnect_indication(Disconnected(s)))
         /\ Inv(x75_disconnect_confirmation(Disconnected(s)))
<1> DEFINE r == [s EXCEPT !.state = 0]
<1>1. Core(r) /\ r.state = 0
  BY SetState, StateNumbers
<1> HIDE DEF r
<1>2. Keeps(r, x75_start_t1timer(r)) /\ Supervised(x75_start_t1timer(r))
  BY <1>1, TimersKeep
<1>3. Keeps(x75_start_t1timer(r), x75_stop_t2timer(x75_start_t1timer(r)))
  BY <1>2, KeepsCore, TimersKeep
<1>4. /\ Core(Disconnected(s)) /\ Supervised(Disconnected(s))
      /\ Disconnected(s).state = 0
  BY <1>1, <1>2, <1>3 DEF Keeps, Disconnected, r
<1> QED
  BY <1>4, Tell

\* Inv survives what keeps the state and what the layer above knows.
LEMMA KeepsInv ==
  ASSUME NEW s, NEW q, Inv(s), Keeps(s, q)
  PROVE  Inv(q)
  BY DEF Inv, Keeps, Informed

\* FRMR, and state 4 under T1.
LEMMA Rejected ==
  ASSUME NEW s, Core(s)
  PROVE  /\ Core(FrameReject(s))
         /\ s.up = "connected" => Inv(FrameReject(s))
<1> DEFINE a == x75_transmit_frmr(s)
           b == x75_start_t1timer(a)
           r == x75_stop_t2timer(b)
           q == [r EXCEPT !.state = 4, !.n2count = 0]
<1>1. Keeps(s, a)
  BY SendKeeps DEF x75_transmit_frmr, FrameType
<1>2. Keeps(a, b) /\ T1Set(b)
  <2> HIDE DEF a
  <2> QED
    BY <1>1, KeepsCore, TimersKeep
<1>3. Keeps(b, r) /\ T1Set(r)
  <2> HIDE DEF b
  <2> QED
    BY <1>2, KeepsCore, TimersKeep
<1> HIDE DEF a, b, r
<1>4. Core(r) /\ r.up = s.up
  BY <1>1, <1>2, <1>3 DEF Keeps
<1>5. ASSUME NEW k \in 0 .. 4, NEW n \in 0 .. N2, k = 4
      PROVE  LET p == [r EXCEPT !.state = k, !.n2count = n]
             IN  Core(p) /\ (s.up = "connected" => Inv(p))
  <2> DEFINE p == [r EXCEPT !.state = k, !.n2count = n]
  <2>1. r \in Station /\ Numbers(r)
    BY <1>4 DEF Core
  <2>2. p \in Station /\ p.state = k /\ p.up = r.up
    BY <2>1 DEF Station
  <2>3. Numbers(p)
    BY <2>1 DEF Station, Numbers
  <2>4. T1Set(p)
    BY <1>3, <2>1 DEF Station, T1Set
  <2> HIDE DEF p
  <2>5. s.up = "connected" => Informed(p)
    BY <1>4, <1>5, <2>2 DEF Informed
  <2>6. Supervised(p)
    BY <2>4 DEF Supervised, T1Set
  <2> QED
    BY <2>2, <2>3, <2>5, <2>6 DEF Inv, Core, p
<1> QED
  BY <1>5, Zeros, StateNumbers DEF FrameReject, a, b, r

\* Set-up begins: SABM(E) sent, T1 started; the state is the caller's affair.
LEMMA Establish ==
  ASSUME NEW s, Core(s)
  PROVE  LET q == x75_establish_data_link(s)
         IN  Core(q) /\ T1Set(q) /\ q.state = s.state /\ q.up = s.up
<1> DEFINE a == [s EXCEPT !.condition = {}, !.n2count = 0]
           t == IF Extended THEN "SABME" ELSE "SABM"
           b == x75_send_control(a, t, TRUE, "COMMAND")
           c == x75_start_t1timer(b)
<1>1. Core(a) /\ a.state = s.state /\ a.up = s.up
  <2>1. s \in Station /\ Numbers(s)
    BY DEF Core
  <2> QED
    BY <2>1, Zeros DEF Core, Numbers, Station
<1> HIDE DEF a
<1>2. Keeps(a, b)
  BY <1>1, SendKeeps DEF FrameType
<1> HIDE DEF b
<1>3. Keeps(b, c) /\ T1Set(c)
  BY <1>2, KeepsCore, TimersKeep
<1> HIDE DEF c
<1>4. Keeps(c, x75_stop_t2timer(c)) /\ T1Set(x75_stop_t2timer(c))
  BY <1>3, KeepsCore, TimersKeep
<1>5. x75_establish_data_link(s) = x75_stop_t2timer(c)
  BY DEF x75_establish_data_link, a, b, c
<1> QED
  BY <1>1, <1>2, <1>3, <1>4, <1>5 DEF Keeps

\* State 1 under T1.
LEMMA SettingUp ==
  ASSUME NEW s, Core(s), T1Set(s)
  PROVE  LET q == [s EXCEPT !.state = 1]
         IN  Inv(q)
<1>1. Core([s EXCEPT !.state = 1]) /\ Supervised([s EXCEPT !.state = 1])
      /\ [s EXCEPT !.state = 1].state = 1
  BY EnterState, StateNumbers DEF T1Set
<1> DEFINE q == [s EXCEPT !.state = 1]
<1>2. Core(q) /\ Supervised(q) /\ q.state = 1
  BY <1>1
<1> HIDE DEF q
<1>3. Inv(q)
  BY <1>2 DEF Inv, Informed
<1> QED
  BY <1>3 DEF q

-----------------------------------------------------------------------------
(* The state machines.                                                     *)

LEMMA Answer ==
  ASSUME NEW s, Core(s), NEW f \in Frame, NEW t \in FrameType
  PROVE  Keeps(s, Respond(s, t, f))
<1>1. f.pf \in BOOLEAN
  BY DEF Frame
<1> QED
  BY <1>1, SendKeeps DEF Respond

LEMMA State0 ==
  ASSUME NEW s, Inv(s), s.state = 0, NEW f \in Frame
  PROVE  Inv(x75_state0_machine(s, f))
<1>1. /\ Keeps(s, Respond(s, "UA", f))
      /\ Keeps(s, Respond(s, "DM", f))
  BY Answer DEF Inv, FrameType
<1>2. /\ Inv(Respond(s, "UA", f))
      /\ Inv(Respond(s, "DM", f))
  BY <1>1, KeepsInv
<1>3. Inv(x75_connect_indication(
            [ResetLink(Respond(s, "UA", f)) EXCEPT !.state = 3]))
  BY <1>1, KeepsCore, Connected
<1> QED
  BY <1>2, <1>3 DEF x75_state0_machine

LEMMA State1 ==
  ASSUME NEW s, Inv(s), s.state = 1, NEW f \in Frame
  PROVE  Inv(x75_state1_machine(s, f))
<1>1. /\ Keeps(s, Respond(s, "UA", f))
      /\ Keeps(s, Respond(s, "DM", f))
  BY Answer DEF Inv, FrameType
<1>2. /\ Inv(Respond(s, "UA", f))
      /\ Inv(Respond(s, "DM", f))
  BY <1>1, KeepsInv
<1>3. Inv(x75_connect_confirmation([ResetLink(s) EXCEPT !.state = 3]))
  BY Connected DEF Inv
<1>4. Inv(x75_disconnect_indication(Disconnected(x75_clear_queues(s))))
  BY ClearKeeps, KeepsCore, Down DEF Inv
<1> QED
  BY <1>2, <1>3, <1>4 DEF x75_state1_machine

LEMMA State2 ==
  ASSUME NEW s, Inv(s), s.state = 2, NEW f \in Frame
  PROVE  Inv(x75_state2_machine(s, f))
<1>1. /\ Keeps(s, Respond(s, "UA", f))
      /\ Keeps(s, Respond(s, "DM", f))
  BY Answer DEF Inv, FrameType
<1>2. /\ Inv(Respond(s, "UA", f))
      /\ Inv(Respond(s, "DM", f))
  BY <1>1, KeepsInv
<1>3. Inv(x75_disconnect_confirmation(Disconnected(s)))
  BY Down DEF Inv
<1> QED
  BY <1>2, <1>3 DEF x75_state2_machine

LEMMA State4 ==
  ASSUME NEW s, Inv(s), s.state = 4, NEW f \in Frame
  PROVE  Inv(x75_state4_machine(s, f))
<1>1. /\ Keeps(s, Respond(s, "UA", f))
      /\ Keeps(s, Respond(s, "DM", f))
  BY Answer DEF Inv, FrameType
<1>2. Inv(Respond(s, "DM", f))
  BY <1>1, KeepsInv
<1>3. Inv(x75_connect_indication(
            [ResetLink(Respond(s, "UA", f)) EXCEPT !.state = 3]))
  BY <1>1, KeepsCore, Connected
<1> QED
  BY <1>2, <1>3 DEF x75_state4_machine

\* An acknowledgement in state 3: T1 stopped, restarted or left alone.
LEMMA CheckAcked ==
  ASSUME NEW s, Core(s), s.state = 3, NEW nr \in Seqno,
         x75_validate_nr(s, nr)
  PROVE  Keeps(s, x75_check_iframes_acked(s, nr))
<1> DEFINE a == x75_frames_acked(s, nr)
           b == x75_stop_t1timer(a)
<1>1. Keeps(s, a)
  BY FramesAcked, CoreFacts
<1>2. Core(a) /\ a.state = 3
  BY <1>1 DEF Keeps
<1> HIDE DEF a
<1>3. Keeps(a, b) /\ Keeps(a, x75_start_t1timer(a))
  BY <1>2, TimersKeep
<1> HIDE DEF b
<1>4. Keeps(b, [b EXCEPT !.n2count = 0])
  BY <1>3, KeepsCore, TimersKeep, Zeros
<1>5. Keeps(s, [b EXCEPT !.n2count = 0]) /\ Keeps(s, x75_start_t1timer(a))
  BY <1>1, <1>3, <1>4, KeepsKeeps
<1>6. Keeps(s, s)
  BY DEF Keeps
<1> QED
  BY <1>5, <1>6 DEF x75_check_iframes_acked, a, b

\* A poll is answered.
LEMMA NeedResponse ==
  ASSUME NEW s, Core(s), NEW cr, NEW pf
  PROVE  Keeps(s, x75_check_need_response(s, cr, pf))
<1>1. Keeps(s, s)
  BY DEF Keeps
<1> QED
  BY <1>1, ResponseKeeps DEF x75_check_need_response

LEMMA Ready ==
  ASSUME NEW s, Inv(s), s.state = 3, NEW f \in Frame
  PROVE  Inv(ReceiveReady(s, f))
<1> DEFINE c == IF f.type = "RNR" THEN s.condition \cup {"PEER_RX_BUSY"}
                                  ELSE s.condition \ {"PEER_RX_BUSY"}
           b == [s EXCEPT !.condition = c]
           r == x75_check_need_response(b, f.cr, f.pf)
<1>1. c \in SUBSET Conditions
  BY DEF Inv, Core, Station, Conditions
<1> HIDE DEF c
<1>2. Keeps(s, b)
  BY <1>1, ConditionKeeps DEF Inv
<1> HIDE DEF b
<1>3. Keeps(b, r)
  BY <1>2, KeepsCore, NeedResponse
<1> HIDE DEF r
<1>4. Inv(r) /\ r.state = 3 /\ Core(r) /\ r.up = "connected"
  BY <1>2, <1>3, KeepsInv DEF Keeps, Inv, Informed
<1>5. f.nr \in Seqno
  BY DEF Frame
<1>6. x75_validate_nr(r, f.nr) => Inv(x75_check_iframes_acked(r, f.nr))
  BY <1>4, <1>5, CheckAcked, KeepsInv
<1>7. Inv(FrameReject(r))
  BY <1>4, Rejected
<1> QED
  BY <1>6, <1>7 DEF ReceiveReady, r, b, c

LEMMA Reject ==
  ASSUME NEW s, Inv(s), s.state = 3, NEW f \in Frame
  PROVE  Inv(ReceiveReject(s, f))
<1> DEFINE c == s.condition \ {"PEER_RX_BUSY"}
           b == [s EXCEPT !.condition = c]
           r == x75_check_need_response(b, f.cr, f.pf)
           a == x75_frames_acked(r, f.nr)
           t == x75_stop_t1timer(a)
           z == [t EXCEPT !.n2count = 0]
<1>1. c \in SUBSET Conditions
  BY DEF Inv, Core, Station, Conditions
<1>2. Keeps(s, b)
  <2> HIDE DEF c
  <2> QED
    BY <1>1, ConditionKeeps DEF Inv
<1> HIDE DEF b
<1>3. Keeps(b, r)
  BY <1>2, KeepsCore, NeedResponse
<1> HIDE DEF r
<1>4. Inv(r) /\ r.state = 3 /\ Core(r) /\ r.up = "connected"
  BY <1>2, <1>3, KeepsInv DEF Keeps, Inv, Informed
<1>5. f.nr \in Seqno
  BY DEF Frame
<1>6. ASSUME x75_validate_nr(r, f.nr)
      PROVE  Inv(x75_requeue_frames(z))
  <2>1. Keeps(r, a)
    BY <1>4, <1>5, <1>6, FramesAcked, CoreFacts
  <2>2. Core(a) /\ a.state = 3
    BY <1>4, <2>1 DEF Keeps
  <2> HIDE DEF a
  <2>3. Keeps(a, t)
    BY <2>2, TimersKeep
  <2> HIDE DEF t
  <2>4. Keeps(t, z)
    BY <2>3, KeepsCore, TimersKeep, Zeros
  <2> HIDE DEF z
  <2>5. Keeps(z, x75_requeue_frames(z))
    BY <2>4, KeepsCore, CoreFacts, Requeue
  <2> QED
    BY <1>4, <2>1, <2>3, <2>4, <2>5, KeepsInv
<1>7. Inv(FrameReject(r))
  BY <1>4, Rejected
<1> QED
  BY <1>6, <1>7 DEF ReceiveReject, r, b

\* Delivering the payload and counting it.
LEMMA Accept ==
  ASSUME NEW s, Core(s), s.state = 3, NEW f \in Frame, f.data \in Data
  PROVE  Keeps(s, AcceptIFrame(s, f))
<1> DEFINE x == Append(s.rx, f.data)
           v == Plus(s.vr, 1)
           c == s.condition \ {"REJECT"}
           r == [s EXCEPT !.rx = x, !.vr = v, !.condition = c]
           p == [r EXCEPT !.condition = @ \cup {"ACK_PENDING"}]
<1>1. s \in Station /\ Numbers(s)
  BY DEF Core
<1>2. x \in Seq(Data)
  BY <1>1 DEF Station
<1>3. v \in Seqno
  <2>1. 1 \in Seqno
    BY ModulusAssumption DEF Seqno
  <2>2. s.vr \in Seqno
    BY <1>1 DEF Station
  <2> QED
    BY <2>1, <2>2, PlusDist
<1>4. c \in SUBSET Conditions
  BY <1>1 DEF Station
<1> HIDE DEF x, v, c
<1>5. Keeps(s, r)
  BY <1>1, <1>2, <1>3, <1>4 DEF Keeps, Core, Numbers, Station, Supervised, T1Set
<1>6. [x75_data_indication(s, f.data) EXCEPT
         !.vr = Plus(@, 1), !.condition = @ \ {"REJECT"}] = r
  BY <1>1 DEF Station, x75_data_indication, x, v, c
<1> HIDE DEF r
<1>7. Core(r) /\ r.state = 3
  BY <1>5 DEF Keeps
<1>8. Keeps(r, x75_enquiry_response(r))
  BY <1>7, ResponseKeeps
<1>9. Keeps(r, p)
  <2>1. r.condition \cup {"ACK_PENDING"} \in SUBSET Conditions
    BY <1>7 DEF Core, Station, Conditions
  <2> QED
    BY <1>7, <2>1, ConditionKeeps
<1> HIDE DEF p
<1>10. Keeps(p, x75_start_t2timer(p))
  <2>1. Core(p) /\ p.state = 3
    BY <1>7, <1>9 DEF Keeps
  <2> QED
    BY <2>1, TimersKeep
<1>11. /\ Keeps(s, x75_enquiry_response(r))
       /\ Keeps(s, x75_start_t2timer(p))
  BY <1>5, <1>8, <1>9, <1>10, KeepsKeeps
<1> QED
  BY <1>5, <1>6, <1>11 DEF AcceptIFrame, p

LEMMA Refuse ==
  ASSUME NEW s, Core(s), NEW f \in Frame
  PROVE  Keeps(s, RefuseIFrame(s, f))
<1> DEFINE r == [s EXCEPT !.condition = @ \cup {"REJECT"}]
           q == Respond(r, "REJ", f)
<1>1. Keeps(s, s) /\ Keeps(s, x75_enquiry_response(s))
  BY ResponseKeeps DEF Keeps
<1>2. Keeps(s, r)
  <2>1. s.condition \cup {"REJECT"} \in SUBSET Conditions
    BY DEF Core, Station, Conditions
  <2> QED
    BY <2>1, ConditionKeeps
<1> HIDE DEF r
<1>3. Keeps(r, q)
  BY <1>2, KeepsCore, Answer DEF FrameType
<1> HIDE DEF q
<1>4. Keeps(q, ClearAckPending(q))
  BY <1>3, KeepsCore, ResponseKeeps
<1>5. Keeps(s, ClearAckPending(q))
  BY <1>2, <1>3, <1>4, KeepsKeeps
<1> QED
  BY <1>1, <1>5 DEF RefuseIFrame, r, q

LEMMA IFrameReceived ==
  ASSUME NEW s, Inv(s), s.state = 3, NEW f \in Frame, f.data \in Data
  PROVE  Inv(ReceiveIFrame(s, f))
<1> DEFINE a == IF "PEER_RX_BUSY" \in s.condition
                THEN x75_frames_acked(s, f.nr)
                ELSE x75_check_iframes_acked(s, f.nr)
<1>1. Core(s) /\ s.up = "connected" /\ f.nr \in Seqno
  BY DEF Inv, Informed, Frame
<1>2. ASSUME x75_validate_nr(s, f.nr)
      PROVE  Inv(AcceptIFrame(a, f)) /\ Inv(RefuseIFrame(a, f))
  <2>1. Keeps(s, a)
    <3>1. Keeps(s, x75_frames_acked(s, f.nr))
      BY <1>1, <1>2, FramesAcked, CoreFacts
    <3>2. Keeps(s, x75_check_iframes_acked(s, f.nr))
      BY <1>1, <1>2, CheckAcked
    <3> QED
      BY <3>1, <3>2
  <2> HIDE DEF a
  <2>2. Core(a) /\ a.state = 3
    BY <2>1 DEF Keeps
  <2>3. Keeps(a, AcceptIFrame(a, f)) /\ Keeps(a, RefuseIFrame(a, f))
    BY <2>2, Accept, Refuse
  <2> QED
    BY <2>1, <2>3, KeepsInv
<1>3. Inv(FrameReject(s))
  BY <1>1, Rejected
<1> QED
  BY <1>2, <1>3 DEF ReceiveIFrame

LEMMA State3 ==
  ASSUME NEW s, Inv(s), s.state = 3, NEW f \in Frame,
         f.type = "I" => f.data \in Data
  PROVE  Inv(x75_state3_machine(s, f))
<1>1. Core(s) /\ s.up = "connected"
  BY DEF Inv, Informed
<1>2. Keeps(s, Respond(s, "UA", f)) /\ Keeps(s, Respond(s, "DM", f))
  BY <1>1, Answer DEF FrameType
<1>3. Inv(Respond(s, "DM", f))
  BY <1>2, KeepsInv
<1>4. Inv(x75_requeue_frames(ResetLink(Respond(s, "UA", f))))
  <2> DEFINE u == Respond(s, "UA", f)
             r == ResetLink(u)
  <2>1. Core(u) /\ u.state = 3 /\ u.up = "connected"
    BY <1>1, <1>2 DEF Keeps
  <2> HIDE DEF u
  <2>2. /\ Core(r) /\ r.state = 3 /\ r.up = "connected"
        /\ r.t1_pending = FALSE
    BY <2>1, Reset
  <2> HIDE DEF r
  <2>3. Inv(r)
    BY <2>2 DEF Inv, Supervised, Informed
  <2>4. Inv(x75_requeue_frames(r))
    BY <2>2, <2>3, Requeue, CoreFacts, KeepsInv
  <2> QED
    BY <2>4 DEF r, u
<1>5. Keeps(s, x75_clear_queues(s))
  BY <1>1, ClearKeeps
<1>6. Inv(x75_disconnect_indication(Disconnected(x75_clear_queues(s))))
  BY <1>5, KeepsCore, Down
<1>7. Inv(x75_disconnect_indication(Disconnected(
            Respond(x75_clear_queues(s), "UA", f))))
  <2>1. Core(Respond(x75_clear_queues(s), "UA", f))
    BY <1>5, KeepsCore, Answer DEF FrameType
  <2> QED
    BY <2>1, Down
<1>8. Inv([x75_requeue_frames(x75_establish_data_link(s)) EXCEPT !.state = 1])
  <2>1. Core(x75_establish_data_link(s)) /\ T1Set(x75_establish_data_link(s))
    BY <1>1, Establish
  <2> DEFINE q == x75_requeue_frames(x75_establish_data_link(s))
  <2>2. Core(q) /\ T1Set(q)
    BY <2>1, Requeue, CoreFacts, KeepsCore
  <2> HIDE DEF q
  <2>3. Inv([q EXCEPT !.state = 1])
    BY <2>2, SettingUp
  <2> QED
    BY <2>3 DEF q
<1>9. Inv(ReceiveReady(s, f)) /\ Inv(ReceiveReject(s, f))
  BY Ready, Reject
<1>10. f.type = "I" => Inv(ReceiveIFrame(s, f))
  BY IFrameReceived
<1>11. Inv(FrameReject(s))
  BY <1>1, Rejected
<1> QED
  BY <1>3, <1>4, <1>6, <1>7, <1>8, <1>9, <1>10, <1>11 DEF x75_state3_machine

\* A decoded frame, in any state, and the kick that follows.
LEMMA DataInput ==
  ASSUME NEW s, Inv(s), NEW f \in Frame, f.type = "I" => f.data \in Data
  PROVE  Inv(x75_data_input(s, f))
<1>1. s.state \in {0, 1, 2, 3, 4}
  BY DEF Inv, Core, Station
<1>2. ASSUME NEW m, Inv(m) PROVE Inv(x75_kick(m))
  BY <1>2, Kick, KeepsInv DEF Inv, Core
<1>3. CASE s.state = 0
  BY <1>2, <1>3, State0 DEF x75_data_input
<1>4. CASE s.state = 1
  BY <1>2, <1>4, State1 DEF x75_data_input
<1>5. CASE s.state = 2
  BY <1>2, <1>5, State2 DEF x75_data_input
<1>6. CASE s.state = 3
  BY <1>2, <1>6, State3 DEF x75_data_input
<1>7. CASE s.state = 4
  BY <1>2, <1>7, State4 DEF x75_data_input
<1> QED
  BY <1>1, <1>3, <1>4, <1>5, <1>6, <1>7

-----------------------------------------------------------------------------
(* Timer expiry.                                                           *)

LEMMA T2Expiry ==
  ASSUME NEW s, Inv(s)
  PROVE  Inv(x75_t2timer_expiry(s))
<1>1. ASSUME NEW r, Inv(r) PROVE Inv([r EXCEPT !.t2_running = FALSE])
  <2>1. r \in Station /\ Numbers(r)
    BY <1>1 DEF Inv, Core
  <2>2. Keeps(r, [r EXCEPT !.t2_running = FALSE])
    BY <2>1 DEF Keeps, Core, Numbers, Station, Supervised, T1Set
  <2> QED
    BY <1>1, <2>2, KeepsInv
<1>2. Inv(x75_timeout_response(s))
  BY ResponseKeeps, KeepsInv DEF Inv
<1> DEFINE r == IF "ACK_PENDING" \in s.condition
                THEN x75_timeout_response(s) ELSE s
<1>3. Inv(r)
  BY <1>2
<1> HIDE DEF r
<1>4. Inv([r EXCEPT !.t2_running = FALSE])
  BY <1>1, <1>3
<1> QED
  BY <1>4 DEF x75_t2timer_expiry, r

\* T1 in state 0.
LEMMA T1InState0 ==
  ASSUME NEW s, Core(s), Informed(s), s.state = 0
  PROVE  Inv(x75_start_t1timer(T1Disconnected(s)))
<1>1. ASSUME NEW r, Core(r), r.state = 1 \/ (r.state = 0 /\ r.up = s.up)
      PROVE  Inv(x75_start_t1timer(r))
  <2>1. Keeps(r, x75_start_t1timer(r)) /\ Supervised(x75_start_t1timer(r))
    BY <1>1, TimersKeep
  <2> QED
    BY <1>1, <2>1 DEF Keeps, Inv, Informed
<1>2. CASE s.n2count # N2 /\ s.dce
  <2>1. s.n2count + 1 \in 0 .. N2
    BY <1>2, N2Assumption DEF Core, Station
  <2> DEFINE r == [s EXCEPT !.n2count = s.n2count + 1]
  <2>2. Keeps(s, r)
    BY <2>1, TimersKeep
  <2>3. T1Disconnected(s) = x75_send_control(r, "DM", FALSE, "RESPONSE")
    BY <1>2 DEF T1Disconnected
  <2> HIDE DEF r
  <2>4. Keeps(r, T1Disconnected(s))
    BY <2>2, <2>3, KeepsCore, SendKeeps DEF FrameType
  <2> QED
    BY <1>1, <2>2, <2>4 DEF Keeps
<1>3. CASE ~ (s.n2count # N2 /\ s.dce)
  <2> DEFINE r == [s EXCEPT !.state = 1]
  <2>1. Core(r) /\ r.state = 1
    BY SetState, StateNumbers
  <2>2. T1Disconnected(s) = x75_establish_data_link(r)
    BY <1>3 DEF T1Disconnected
  <2> HIDE DEF r
  <2> QED
    BY <1>1, <2>1, <2>2, Establish
<1> QED
  BY <1>2, <1>3

\* After N2 retries the link is down, and the layer above knows.
LEMMA GiveUp ==
  ASSUME NEW s, Core(s), s.t1_pending = FALSE, s.state # 0
  PROVE  Inv(T1GiveUp(s))
<1> DEFINE q == x75_clear_queues(s)
           c == [q EXCEPT !.state = 0, !.t1_running = FALSE]
<1>1. Keeps(s, q) /\ q.t1_pending = FALSE
  <2>1. s \in Station
    BY DEF Core
  <2>2. q.t1_pending = s.t1_pending
    BY <2>1 DEF Station, x75_clear_queues
  <2> QED
    BY <2>2, ClearKeeps
<1> HIDE DEF q
<1>2. Core(q)
  BY <1>1, KeepsCore
<1>3. ASSUME NEW k \in 0 .. 4, k = 0
      PROVE  LET p == [q EXCEPT !.state = k, !.t1_running = FALSE]
             IN  Core(p) /\ Supervised(p) /\ p.state = 0
  <2> DEFINE p == [q EXCEPT !.state = k, !.t1_running = FALSE]
  <2>1. q \in Station /\ Numbers(q)
    BY <1>2 DEF Core
  <2>2. p \in Station /\ p.state = k /\ p.t1_pending = q.t1_pending
    BY <2>1 DEF Station
  <2>3. Numbers(p)
    BY <2>1 DEF Numbers, Station
  <2> HIDE DEF p
  <2>4. Supervised(p)
    BY <1>1, <1>3, <2>2 DEF Supervised
  <2> QED
    BY <1>3, <2>2, <2>3, <2>4 DEF Core, p
<1>4. Core(c) /\ Supervised(c) /\ c.state = 0
  BY <1>3, StateNumbers
<1>5. T1GiveUp(s) = CASE s.state = 2 -> x75_disconnect_confirmation(c)
                      [] s.state = 3 ->
                           x75_disconnect_indication(x75_stop_t2timer(c))
                      [] OTHER -> x75_disconnect_indication(c)
  BY DEF T1GiveUp, q
<1> HIDE DEF c
<1>6. Keeps(c, x75_stop_t2timer(c))
  BY <1>4, TimersKeep
<1>7. /\ Core(x75_stop_t2timer(c)) /\ Supervised(x75_stop_t2timer(c))
      /\ x75_stop_t2timer(c).state = 0
  BY <1>4, <1>6 DEF Keeps
<1>8. /\ Inv(x75_disconnect_confirmation(c))
      /\ Inv(x75_disconnect_indication(c))
      /\ Inv(x75_disconnect_indication(x75_stop_t2timer(c)))
  BY <1>4, <1>7, Tell
<1> QED
  BY <1>5, <1>8

\* A retry keeps the state; T1 is started again.
LEMMA Retry ==
  ASSUME NEW s, Core(s), Informed(s), s.state \in {1, 2, 3, 4},
         s.n2count # N2
  PROVE  Inv(x75_start_t1timer(T1Retry(s)))
<1> DEFINE c == [s EXCEPT !.n2count = s.n2count + 1]
<1>1. s.n2count + 1 \in 0 .. N2
  BY N2Assumption DEF Core, Station
<1>2. Keeps(s, c)
  BY <1>1, TimersKeep
<1> HIDE DEF c
<1>3. Core(c)
  BY <1>2, KeepsCore
<1>4. /\ Keeps(c, x75_send_control(c, SetMode, TRUE, "COMMAND"))
      /\ Keeps(c, x75_send_control(c, "DISC", TRUE, "COMMAND"))
      /\ Keeps(c, x75_transmit_frmr(c))
  BY <1>3, SendKeeps DEF FrameType, SetMode, x75_transmit_frmr
<1>5. Keeps(c, x75_kick(x75_requeue_frames(c)))
  <2>1. Keeps(c, x75_requeue_frames(c))
    BY <1>3, Requeue, CoreFacts
  <2>2. Keeps(x75_requeue_frames(c), x75_kick(x75_requeue_frames(c)))
    BY <2>1, Kick, KeepsCore, CoreFacts
  <2> QED
    BY <2>1, <2>2, KeepsKeeps
<1>6. Keeps(c, T1Retry(s))
  BY <1>4, <1>5 DEF T1Retry, c
<1>7. Keeps(s, T1Retry(s))
  BY <1>2, <1>6, KeepsKeeps
<1> DEFINE r == T1Retry(s)
<1> HIDE DEF r
<1>8. Core(r) /\ r.state = s.state /\ r.up = s.up
  BY <1>7 DEF Keeps, r
<1>9. Keeps(r, x75_start_t1timer(r)) /\ Supervised(x75_start_t1timer(r))
  BY <1>8, TimersKeep
<1>10. Inv(x75_start_t1timer(r))
  BY <1>8, <1>9 DEF Keeps, Inv, Informed
<1> QED
  BY <1>10 DEF r

\* The callback of T1, called for the right timer or for the wrong one.
LEMMA T1Expiry ==
  ASSUME NEW s, Core(s), Informed(s),
         s.t1_pending = TRUE \/ s.t1_running = FALSE => Supervised(s)
  PROVE  Inv(x75_t1timer_expiry(s))
<1>1. /\ s.t1_pending \in BOOLEAN /\ s.t1_running \in BOOLEAN
      /\ s.state \in {0, 1, 2, 3, 4}
  BY DEF Core, Station
<1>2. CASE s.t1_pending \/ ~ s.t1_running
  BY <1>1, <1>2 DEF x75_t1timer_expiry, Inv
<1>3. CASE ~ (s.t1_pending \/ ~ s.t1_running)
  <2>1. s.t1_pending = FALSE
    BY <1>1, <1>3
  <2>2. CASE s.state = 0
    BY <1>3, <2>2, T1InState0 DEF x75_t1timer_expiry
  <2>3. CASE s.state # 0 /\ s.n2count = N2
    BY <1>3, <2>1, <2>3, GiveUp DEF x75_t1timer_expiry
  <2>4. CASE s.state # 0 /\ s.n2count # N2
    <3>1. s.state \in {1, 2, 3, 4}
      BY <1>1, <2>4
    <3> QED
      BY <1>3, <2>4, <3>1, Retry DEF x75_t1timer_expiry
  <2> QED
    BY <2>2, <2>3, <2>4
<1> QED
  BY <1>2, <1>3

LEMMA T1ExpiresInv ==
  ASSUME NEW s, Inv(s), s.t1_pending = TRUE
  PROVE  Inv(T1Expires(s))
<1> DEFINE r == [s EXCEPT !.t1_pending = FALSE]
<1>1. s \in Station /\ Numbers(s) /\ Supervised(s) /\ Informed(s)
  BY DEF Inv, Core
<1>2. /\ r \in Station /\ r.state = s.state /\ r.up = s.up
      /\ r.t1_pending = FALSE /\ r.t1_running = s.t1_running
  BY <1>1 DEF Station
<1>3. Numbers(r)
  BY <1>1 DEF Numbers, Station
<1> HIDE DEF r
<1>4. Core(r) /\ Informed(r)
  BY <1>1, <1>2, <1>3 DEF Core, Informed
<1>5. r.t1_running = TRUE
  BY <1>1, <1>2 DEF Supervised
<1>6. CASE s.t1_cb = "x75_t1timer_expiry"
  <2>1. Inv(x75_t1timer_expiry(r))
    BY <1>2, <1>4, <1>5, T1Expiry
  <2> QED
    BY <1>6, <2>1 DEF T1Expires, RunCallback, r
<1>7. CASE s.t1_cb # "x75_t1timer_expiry"
  <2>1. s.state \notin {1, 2, 4}
    BY <1>1, <1>7 DEF Supervised, T1Set
  <2>2. Inv(r)
    BY <1>2, <1>4, <2>1 DEF Inv, Supervised
  <2>3. Inv(x75_t2timer_expiry(r))
    BY <2>2, T2Expiry
  <2> QED
    BY <1>7, <2>2, <2>3 DEF T1Expires, RunCallback, r
<1> QED
  BY <1>6, <1>7

LEMMA T2ExpiresInv ==
  ASSUME NEW s, Inv(s)
  PROVE  Inv(T2Expires(s))
<1> DEFINE r == [s EXCEPT !.t2_pending = FALSE]
<1>1. s \in Station /\ Numbers(s)
  BY DEF Inv, Core
<1>2. Keeps(s, r)
  BY <1>1 DEF Keeps, Core, Numbers, Station, Supervised, T1Set
<1> HIDE DEF r
<1>3. Inv(r)
  BY <1>2, KeepsInv
<1>4. Inv(x75_t2timer_expiry(r))
  BY <1>3, T2Expiry
<1>5. Inv(x75_t1timer_expiry(r))
  BY <1>3, T1Expiry DEF Inv
<1> QED
  BY <1>3, <1>4, <1>5 DEF T2Expires, RunCallback, r

-----------------------------------------------------------------------------
(* The requests of the layer above.                                        *)

LEMMA ConnectInv ==
  ASSUME NEW s, Inv(s)
  PROVE  Inv(x75_connect_request(s))
<1> DEFINE q == x75_establish_data_link(s)
<1>1. Core(q) /\ T1Set(q)
  BY Establish DEF Inv
<1> HIDE DEF q
<1>2. Inv([q EXCEPT !.state = 1])
  BY <1>1, SettingUp
<1> QED
  BY <1>2 DEF x75_connect_request, q

LEMMA DisconnectInv ==
  ASSUME NEW s, Inv(s)
  PROVE  Inv(x75_disconnect_request(s))
<1>1. s \in Station /\ Numbers(s) /\ Core(s) /\ Supervised(s)
  BY DEF Inv, Core
<1>2. s.state \in {0, 1, 2, 3, 4}
  BY <1>1 DEF Station
<1>3. CASE s.state = 0
  <2>1. Inv(x75_disconnect_indication(s))
    BY <1>1, <1>3, Tell
  <2> QED
    BY <1>3, <2>1 DEF x75_disconnect_request, x75_disconnect_indication
<1>4. CASE s.state = 1
  <2> DEFINE a == x75_send_control(s, "DISC", TRUE, "COMMAND")
  <2>1. Core(a)
    BY <1>1, SendKeeps, KeepsCore DEF FrameType
  <2> HIDE DEF a
  <2>2. ASSUME NEW k \in 0 .. 4, k = 0
        PROVE  LET p == [a EXCEPT !.state = k, !.up = "disconnected"]
               IN  Core(p) /\ Informed(p)
    <3> DEFINE p == [a EXCEPT !.state = k, !.up = "disconnected"]
    <3>1. a \in Station /\ Numbers(a)
      BY <2>1 DEF Core
    <3>2. p \in Station /\ p.state = k /\ p.up = "disconnected"
      BY <3>1 DEF Station
    <3>3. Numbers(p)
      BY <3>1 DEF Numbers, Station
    <3> HIDE DEF p
    <3>4. Informed(p)
      BY <2>2, <3>2 DEF Informed
    <3> QED
      BY <3>2, <3>3, <3>4 DEF Core, p
  <2> DEFINE p == [a EXCEPT !.state = 0, !.up = "disconnected"]
  <2>3. Core(p) /\ Informed(p)
    BY <2>2, StateNumbers
  <2> HIDE DEF p
  <2>4. Keeps(p, x75_start_t1timer(p)) /\ Supervised(x75_start_t1timer(p))
    BY <2>3, TimersKeep
  <2>5. Inv(x75_start_t1timer(p))
    BY <2>3, <2>4 DEF Inv, Keeps, Informed
  <2> QED
    BY <1>4, <2>5 DEF x75_disconnect_request, p, a
<1>5. CASE s.state = 2
  BY <1>5 DEF x75_disconnect_request
<1>6. CASE s.state \in {3, 4}
  <2> DEFINE a == x75_clear_queues(s)
             b == [a EXCEPT !.n2count = 0]
             c == x75_send_control(b, "DISC", TRUE, "COMMAND")
             d == x75_start_t1timer(c)
             e == x75_stop_t2timer(d)
             q == [e EXCEPT !.state = 2]
  <2>1. Core(a)
    BY <1>1, ClearKeeps, KeepsCore
  <2> HIDE DEF a
  <2>2. Core(b)
    BY <2>1, TimersKeep, KeepsCore, Zeros
  <2> HIDE DEF b
  <2>3. Core(c)
    BY <2>2, SendKeeps, KeepsCore DEF FrameType
  <2> HIDE DEF c
  <2>4. Core(d) /\ T1Set(d)
    BY <2>3, TimersKeep, KeepsCore
  <2> HIDE DEF d
  <2>5. Core(e) /\ T1Set(e)
    BY <2>4, TimersKeep, KeepsCore
  <2> HIDE DEF e
  <2>6. Core(q) /\ Supervised(q) /\ q.state = 2
    BY <2>5, EnterState, StateNumbers DEF T1Set
  <2>7. x75_disconnect_request(s) = q
    BY <1>6 DEF x75_disconnect_request, a, b, c, d, e
  <2> HIDE DEF q
  <2> QED
    BY <2>6, <2>7 DEF Inv, Informed
<1> QED
  BY <1>2, <1>3, <1>4, <1>5, <1>6

LEMMA DataInv ==
  ASSUME NEW s, Inv(s), NEW d \in Data
  PROVE  Inv(x75_data_request(s, d))
<1> DEFINE w == Append(s.write_queue, d)
           n == s.write_queue_count + 1
           r == [s EXCEPT !.write_queue = w, !.write_queue_count = n]
<1>1. s \in Station /\ Numbers(s)
  BY DEF Inv, Core
<1>2. /\ s.write_queue \in Seq(Data) /\ s.write_queue_count \in Nat
      /\ s.write_queue_count >= Len(s.write_queue)
  BY <1>1 DEF Station, Numbers
<1>3. w \in Seq(Data) /\ Len(w) = Len(s.write_queue) + 1
  BY <1>2
<1>4. n \in Nat /\ n >= Len(w)
  BY <1>2, <1>3
<1> HIDE DEF w, n
<1>5. Keeps(s, r)
  <2>1. r \in Station
    BY <1>1, <1>3, <1>4 DEF Station
  <2>2. Numbers(r)
    BY <1>1, <1>4 DEF Station, Numbers
  <2>3. r.state = s.state /\ r.up = s.up /\ (Supervised(s) => Supervised(r))
    BY <1>1 DEF Station, Supervised, T1Set
  <2> QED
    BY <2>1, <2>2, <2>3 DEF Keeps, Core
<1>6. x75_data_request(s, d) = IF s.state \notin {3, 4} THEN s ELSE x75_kick(r)
  BY DEF x75_data_request, w, n
<1> HIDE DEF r
<1>7. Keeps(r, x75_kick(r))
  BY <1>5, Kick, KeepsCore, CoreFacts
<1> QED
  BY <1>5, <1>6, <1>7, KeepsInv

LEMMA FlushInv ==
  ASSUME NEW s, Inv(s)
  PROVE  Inv(Flush(s))
<1>1. s \in Station /\ Numbers(s)
  BY DEF Inv, Core
<1>2. <<>> \in Seq(Frame) /\ <<>> \in Seq(Data)
  OBVIOUS
<1>3. Keeps(s, Flush(s))
  BY <1>1, <1>2 DEF Flush, Keeps, Core, Numbers, Station, Supervised, T1Set
<1> QED
  BY <1>3, KeepsInv

-----------------------------------------------------------------------------
(* What a handler does to the queues.                                      *)

Queued(s) == Len(s.write_queue) + Len(s.ack_queue)

Count(s) == s.write_queue_count + s.ack_queue_count

\* The queues and their counters are the same.
SameQueues(s, q) ==
  /\ q.write_queue = s.write_queue
  /\ q.write_queue_count = s.write_queue_count
  /\ q.ack_queue = s.ack_queue
  /\ q.ack_queue_count = s.ack_queue_count

\* V(A), too.
Same(s, q) == SameQueues(s, q) /\ q.va = s.va

\* From s to q, unless the link is released, frames have left the queues by
\* acknowledgement only.
Acked(s, q) ==
  q.state \in {1, 3, 4} => Queued(s) - Queued(q) <= Dist(s.va, q.va)

\* From s to q nothing has been sent, nor counted that was not before.
Unsent(s, q) ==
  /\ Len(q.ack_queue) <= Len(s.ack_queue)
  /\ Acked(s, q)
  /\ Count(q) <= Count(s)

\* The same for a handler, at the end of which x75_kick may have sent.
Effect(s, q) ==
  /\ "PEER_RX_BUSY" \in q.condition => Len(q.ack_queue) <= Len(s.ack_queue)
  /\ Acked(s, q)

LEMMA CoreTypes ==
  ASSUME NEW s, Core(s)
  PROVE  /\ s \in Station /\ Numbers(s)
         /\ s.va \in Seqno /\ s.vs \in Seqno
         /\ s.write_queue \in Seq(Data) /\ s.ack_queue \in Seq(Data)
         /\ Len(s.write_queue) \in Nat /\ Len(s.ack_queue) \in Nat
         /\ Queued(s) \in Nat /\ Count(s) \in Nat
         /\ s.write_queue_count \in Nat /\ s.ack_queue_count \in Nat
         /\ s.state \in {0, 1, 2, 3, 4}
<1>1. s \in Station /\ Numbers(s)
  BY DEF Core
<1>2. /\ s.va \in Seqno /\ s.vs \in Seqno
      /\ s.write_queue \in Seq(Data) /\ s.ack_queue \in Seq(Data)
      /\ s.write_queue_count \in Nat /\ s.ack_queue_count \in Nat
      /\ s.state \in {0, 1, 2, 3, 4}
  BY <1>1 DEF Station
<1>3. Len(s.write_queue) \in Nat /\ Len(s.ack_queue) \in Nat
  BY <1>2
<1>4. \A m, n \in Nat : m + n \in Nat
  OBVIOUS
<1>5. Queued(s) \in Nat /\ Count(s) \in Nat
  BY <1>2, <1>3, <1>4 DEF Queued, Count
<1> QED
  BY <1>1, <1>2, <1>3, <1>5

LEMMA DistNat == \A a, b \in Seqno : Dist(a, b) \in Nat /\ Dist(a, a) = 0
  BY PlusDist DEF Seqno

\* Nothing happened to the queues.
LEMMA SameUnsent ==
  ASSUME NEW s, NEW q, Core(s), Same(s, q)
  PROVE  Unsent(s, q)
<1>1. /\ s.va \in Seqno /\ Len(s.ack_queue) \in Nat
      /\ Queued(s) \in Nat /\ Count(s) \in Nat
  BY CoreTypes
<1>2. /\ Queued(q) = Queued(s) /\ Count(q) = Count(s)
      /\ q.va = s.va /\ q.ack_queue = s.ack_queue
  BY DEF Same, SameQueues, Queued, Count
<1> QED
  BY <1>1, <1>2, DistNat DEF Unsent, Acked

\* One call after another.
LEMMA SameThen ==
  ASSUME NEW s, NEW r, NEW q, Same(s, r), Unsent(r, q)
  PROVE  Unsent(s, q)
  BY DEF Same, SameQueues, Unsent, Acked, Queued, Count

LEMMA ThenSame ==
  ASSUME NEW s, NEW r, NEW q, Unsent(s, r), Same(r, q),
         q.state \in {1, 3, 4} => r.state \in {1, 3, 4}
  PROVE  Unsent(s, q)
  BY DEF Same, SameQueues, Unsent, Acked, Queued, Count

LEMMA SameSame ==
  ASSUME NEW s, NEW r, NEW q, Same(s, r), Same(r, q)
  PROVE  Same(s, q)
  BY DEF Same, SameQueues

\* The link is released.
LEMMA Released ==
  ASSUME NEW s, Core(s), NEW q, q.state \in {0, 2},
         q.ack_queue = s.ack_queue \/ q.ack_queue = <<>>,
         q.write_queue_count = s.write_queue_count,
         q.ack_queue_count = s.ack_queue_count
  PROVE  Unsent(s, q)
<1>1. Len(s.ack_queue) \in Nat /\ Count(s) \in Nat
  BY CoreTypes
<1>2. Len(q.ack_queue) <= Len(s.ack_queue)
  BY <1>1, EmptyQueue
<1>3. Count(q) = Count(s)
  BY DEF Count
<1> QED
  BY <1>1, <1>2, <1>3 DEF Unsent, Acked

\* The functions that leave the queues alone.
LEMMA SameFields ==
  ASSUME NEW s \in Station
  PROVE  /\ Same(s, x75_start_t1timer(s)) /\ Same(s, x75_stop_t1timer(s))
         /\ Same(s, x75_start_t2timer(s)) /\ Same(s, x75_stop_t2timer(s))
         /\ \A u : Same(s, [s EXCEPT !.up = u])
         /\ \A k : Same(s, [s EXCEPT !.state = k])
         /\ \A c : Same(s, [s EXCEPT !.condition = c])
         /\ \A n : Same(s, [s EXCEPT !.n2count = n])
         /\ \A x : Same(s, [s EXCEPT !.t1_pending = x])
         /\ \A x : Same(s, [s EXCEPT !.t2_pending = x])
         /\ \A x : Same(s, [s EXCEPT !.t2_running = x])
  BY DEF Station, Same, SameQueues, x75_start_t1timer, x75_stop_t1timer,
         x75_start_t2timer, x75_stop_t2timer

LEMMA SameSent ==
  ASSUME NEW s \in Station, NEW t, NEW pf, NEW cr
  PROVE  Same(s, x75_send_control(s, t, pf, cr))
  BY DEF Station, Same, SameQueues, x75_send_control, x75_transmit_buffer

LEMMA SameBlocks ==
  ASSUME NEW s \in Station, NEW f
  PROVE  /\ Same(s, FrameReject(s))
         /\ Same(s, x75_establish_data_link(s))
         /\ Same(s, AcceptIFrame(s, f)) /\ AcceptIFrame(s, f).state = s.state
         /\ Same(s, RefuseIFrame(s, f)) /\ RefuseIFrame(s, f).state = s.state
         /\ Same(s, x75_timeout_response(s))
<1> USE DEF Station, Same, SameQueues, x75_send_control, x75_transmit_buffer
<1>1. Same(s, FrameReject(s))
  BY DEF FrameReject, x75_stop_t2timer, x75_start_t1timer, x75_transmit_frmr
<1>2. Same(s, x75_establish_data_link(s))
  BY DEF x75_establish_data_link, x75_stop_t2timer, x75_start_t1timer
<1>3. Same(s, AcceptIFrame(s, f)) /\ AcceptIFrame(s, f).state = s.state
  BY DEF AcceptIFrame, x75_enquiry_response, x75_data_indication,
         ClearAckPending, x75_start_t2timer
<1>4. Same(s, RefuseIFrame(s, f)) /\ RefuseIFrame(s, f).state = s.state
  BY DEF RefuseIFrame, x75_enquiry_response, Respond, ClearAckPending
<1>5. Same(s, x75_timeout_response(s))
  BY DEF x75_timeout_response, ClearAckPending
<1> QED
  BY <1>1, <1>2, <1>3, <1>4, <1>5

LEMMA SameResponse ==
  ASSUME NEW s \in Station, NEW cr, NEW pf
  PROVE  LET q == x75_check_need_response(s, cr, pf)
         IN  Same(s, q) /\ q.state = s.state
  BY DEF Station, Same, SameQueues, x75_check_need_response, x75_enquiry_response,
         ClearAckPending, x75_send_control, x75_transmit_buffer

\* V(A) starts anew at 0, the frames stay.
LEMMA ResetUnsent ==
  ASSUME NEW s, Core(s), NEW q, q.va = 0, SameQueues(s, q)
  PROVE  Unsent(s, q)
<1>1. /\ s.va \in Seqno /\ Len(s.ack_queue) \in Nat
      /\ Queued(s) \in Nat /\ Count(s) \in Nat
  BY CoreTypes
<1>2. /\ Queued(q) = Queued(s) /\ Count(q) = Count(s)
      /\ q.va = 0 /\ q.ack_queue = s.ack_queue
  BY DEF SameQueues, Queued, Count
<1>3. Dist(s.va, 0) \in Nat
  BY <1>1, Zeros, DistNat
<1> QED
  BY <1>1, <1>2, <1>3 DEF Unsent, Acked

\* Frames leave the ack queue one by one as V(A) advances.
LEMMA AckedUnsent ==
  ASSUME NEW s, Core(s), NEW nr \in Seqno
  PROVE  LET q == x75_frames_acked(s, nr)
         IN  Unsent(s, q) /\ q.state = s.state
<1> DEFINE d    == Dist(s.va, nr)
           len  == Len(s.ack_queue)
           drop == Min2(d, len)
           adv  == IF s.ack_queue_count > len THEN d ELSE drop
           a    == SubSeq(s.ack_queue, drop + 1, len)
           q    == x75_frames_acked(s, nr)
<1>1. /\ s \in Station /\ s.va \in Seqno /\ s.ack_queue \in Seq(Data)
      /\ len \in Nat /\ Len(s.write_queue) \in Nat
      /\ s.write_queue_count \in Nat /\ s.ack_queue_count \in Nat
  BY CoreTypes
<1>2. d \in Seqno
  BY <1>1, PlusDist
<1>3. /\ drop \in Nat /\ drop <= len /\ drop <= adv /\ adv \in Seqno
  <2> HIDE DEF d
  <2> QED
    BY <1>1, <1>2, ModulusAssumption DEF Min2, Seqno
<1> HIDE DEF d, drop, adv
<1>4. Dist(s.va, Plus(s.va, adv)) = adv
  BY <1>1, <1>3, PlusDist
<1>5. Len(a) = len - drop
  BY <1>1, <1>3, SubSeqProperties
<1> HIDE DEF a
<1>6. q = [s EXCEPT !.va = Plus(s.va, adv), !.ack_queue = a,
                    !.ack_queue_count = s.ack_queue_count - drop]
  BY DEF x75_frames_acked, d, drop, adv, a
<1> HIDE DEF q
<1>7. /\ q.va = Plus(s.va, adv) /\ q.ack_queue = a
      /\ q.write_queue = s.write_queue /\ q.state = s.state
      /\ q.write_queue_count = s.write_queue_count
      /\ q.ack_queue_count = s.ack_queue_count - drop
  BY <1>1, <1>6 DEF Station
<1>8. adv \in Nat
  BY <1>3 DEF Seqno
<1>9. Queued(s) - Queued(q) <= Dist(s.va, q.va) /\ Len(q.ack_queue) <= len
  <2>1. Queued(q) = Len(s.write_queue) + (len - drop)
    BY <1>5, <1>7 DEF Queued
  <2>2. Queued(s) = Len(s.write_queue) + len
    BY DEF Queued
  <2> HIDE DEF len
  <2> QED
    BY <1>1, <1>3, <1>4, <1>5, <1>7, <1>8, <2>1, <2>2
<1>10. Count(q) <= Count(s)
  BY <1>1, <1>3, <1>7 DEF Count
<1> QED
  BY <1>7, <1>9, <1>10 DEF Unsent, Acked, q

LEMMA CheckedUnsent ==
  ASSUME NEW s, Core(s), NEW nr \in Seqno, s.state = 3, x75_validate_nr(s, nr)
  PROVE  LET q == x75_check_iframes_acked(s, nr)
         IN  Unsent(s, q) /\ q.state = 3
<1> DEFINE a == x75_frames_acked(s, nr)
           b == x75_stop_t1timer(a)
<1>1. Unsent(s, a) /\ a.state = 3
  BY AckedUnsent
<1>2. a \in Station
  BY FramesAcked, CoreFacts DEF Keeps
<1> HIDE DEF a
<1>3. /\ Same(a, x75_start_t1timer(a)) /\ x75_start_t1timer(a).state = 3
      /\ Same(a, b) /\ b \in Station /\ b.state = 3
  <2>1. Same(a, x75_start_t1timer(a)) /\ Same(a, b)
    BY <1>2, SameFields
  <2>2. x75_start_t1timer(a).state = 3 /\ b.state = 3 /\ b \in Station
    BY <1>1, <1>2 DEF Station, x75_start_t1timer, x75_stop_t1timer
  <2> QED
    BY <2>1, <2>2
<1> HIDE DEF b
<1>4. Same(a, [b EXCEPT !.n2count = 0]) /\ [b EXCEPT !.n2count = 0].state = 3
  <2>1. Same(b, [b EXCEPT !.n2count = 0])
    BY <1>3, SameFields
  <2>2. [b EXCEPT !.n2count = 0].state = 3
    BY <1>3 DEF Station
  <2> QED
    BY <1>3, <2>1, <2>2, SameSame
<1>5. Unsent(s, s)
  BY SameUnsent DEF Same, SameQueues
<1> QED
  BY <1>1, <1>3, <1>4, <1>5, ThenSame DEF x75_check_iframes_acked, a, b

\* Going back to the write queue is not leaving.
LEMMA RequeueUnsent ==
  ASSUME NEW s, Core(s)
  PROVE  LET q == x75_requeue_frames(s)
         IN  /\ q.va = s.va /\ q.state = s.state
             /\ Queued(q) = Queued(s) /\ Count(q) = Count(s)
             /\ Len(q.ack_queue) <= Len(s.ack_queue)
<1> DEFINE q == x75_requeue_frames(s)
<1>1. /\ s \in Station
      /\ s.write_queue \in Seq(Data) /\ s.ack_queue \in Seq(Data)
      /\ Len(s.write_queue) \in Nat /\ Len(s.ack_queue) \in Nat
      /\ s.write_queue_count \in Nat /\ s.ack_queue_count \in Nat
  BY CoreTypes
<1>2. Len(s.write_queue \o s.ack_queue)
        = Len(s.write_queue) + Len(s.ack_queue)
  BY <1>1, ConcatProperties
<1>3. /\ q.va = s.va /\ q.state = s.state
      /\ q.write_queue = s.write_queue \o s.ack_queue /\ q.ack_queue = <<>>
      /\ q.write_queue_count = s.write_queue_count + Len(s.ack_queue)
      /\ q.ack_queue_count = s.ack_queue_count - Len(s.ack_queue)
  BY <1>1 DEF Station, x75_requeue_frames
<1> HIDE DEF q
<1>4. Len(q.ack_queue) = 0
  BY <1>3, EmptyQueue
<1>5. Queued(q) = Queued(s)
  BY <1>1, <1>2, <1>3, <1>4 DEF Queued
<1>6. \A w, c, l \in Nat : (w + l) + (c - l) = w + c
  OBVIOUS
<1>7. Count(q) = Count(s)
  BY <1>1, <1>3, <1>6 DEF Count
<1> QED
  BY <1>1, <1>3, <1>4, <1>5, <1>7 DEF q

LEMMA ThenRequeue ==
  ASSUME NEW s, NEW r, Unsent(s, r), Core(s), Core(r)
  PROVE  Unsent(s, x75_requeue_frames(r))
<1> DEFINE q == x75_requeue_frames(r)
<1>1. /\ q.va = r.va /\ q.state = r.state
      /\ Queued(q) = Queued(r) /\ Count(q) = Count(r)
      /\ Len(q.ack_queue) <= Len(r.ack_queue)
  BY RequeueUnsent
<1>2. Len(s.ack_queue) \in Nat /\ Len(r.ack_queue) \in Nat
  BY CoreTypes
<1>3. q.ack_queue = <<>>
  BY CoreTypes DEF Station, x75_requeue_frames
<1> HIDE DEF q
<1> QED
  BY <1>1, <1>2, <1>3, EmptyQueue DEF Unsent, Acked, q

-----------------------------------------------------------------------------
(* x75_kick.                                                               *)

\* In data transfer nothing waits but for the peer (WaitsForPeer).
Waits(s) ==
  s.state = 3 /\ ~ s.crashed /\ s.write_queue # <<>> =>
    \/ "PEER_RX_BUSY" \in s.condition
    \/ s.ack_queue_count > 0 /\ Dist(s.va, s.vs) = Window

LEMMA BurstFields ==
  ASSUME NEW s \in Station, NEW start \in Seqno, NEW n \in Nat
  PROVE  LET q == SendBurst(s, start, n)
         IN  /\ q.state = s.state /\ q.va = s.va /\ q.vs = Plus(start, n)
             /\ q.condition = s.condition \ {"ACK_PENDING"}
             /\ q.ack_queue = s.ack_queue \o SubSeq(s.write_queue, 1, n)
             /\ q.ack_queue_count = s.ack_queue_count + n
             /\ q.write_queue_count = s.write_queue_count - n
             /\ q.write_queue
                  = SubSeq(s.write_queue, n + 1, Len(s.write_queue))
  BY DEF Station, SendBurst, x75_start_t1timer

\* A burst moves n frames from one queue to the other.
LEMMA BurstMoves ==
  ASSUME NEW s, Core(s), NEW start \in Seqno, NEW n \in Nat,
         n <= Len(s.write_queue)
  PROVE  LET q == SendBurst(s, start, n)
         IN  /\ Queued(q) = Queued(s) /\ Count(q) = Count(s)
             /\ n = Len(s.write_queue) => q.write_queue = <<>>
<1> DEFINE q    == SendBurst(s, start, n)
           head == SubSeq(s.write_queue, 1, n)
           rest == SubSeq(s.write_queue, n + 1, Len(s.write_queue))
<1>1. /\ s \in Station
      /\ s.write_queue \in Seq(Data) /\ s.ack_queue \in Seq(Data)
      /\ Len(s.write_queue) \in Nat /\ Len(s.ack_queue) \in Nat
      /\ s.write_queue_count \in Nat /\ s.ack_queue_count \in Nat
  BY CoreTypes
<1>2. head \in Seq(Data) /\ Len(head) = n
  BY <1>1, SubSeqProperties
<1>3. rest \in Seq(Data) /\ Len(rest) = Len(s.write_queue) - n
  BY <1>1, SubSeqProperties
<1>4. /\ q.ack_queue = s.ack_queue \o head /\ q.write_queue = rest
      /\ q.write_queue_count = s.write_queue_count - n
      /\ q.ack_queue_count = s.ack_queue_count + n
  BY <1>1, BurstFields
<1> HIDE DEF q, head, rest
<1>5. Len(s.ack_queue \o head) = Len(s.ack_queue) + n
  BY <1>1, <1>2, ConcatProperties
<1>6. Queued(q) = (Len(s.write_queue) - n) + (Len(s.ack_queue) + n)
  BY <1>3, <1>4, <1>5 DEF Queued
<1>7. \A w, a, m \in Nat : (w - m) + (a + m) = w + a
  OBVIOUS
<1>8. Queued(q) = Queued(s) /\ Count(q) = Count(s)
  <2>1. Queued(q) = Queued(s)
    BY <1>1, <1>6, <1>7 DEF Queued
  <2>2. Count(q) = Count(s)
    BY <1>1, <1>4 DEF Count
  <2> QED
    BY <2>1, <2>2
<1>9. ASSUME n = Len(s.write_queue) PROVE q.write_queue = <<>>
  <2>1. Len(rest) = 0
    BY <1>1, <1>3, <1>9
  <2> QED
    BY <1>3, <1>4, <2>1, EmptySeq
<1> QED
  BY <1>8, <1>9 DEF q

\* The number of frames of a burst: all there are, or up to the window.
LEMMA BurstSize ==
  ASSUME NEW va \in Seqno, NEW start \in Seqno, NEW len \in Nat, len # 0,
         start # Plus(va, Window)
  PROVE  LET end == Plus(va, Window)
             n   == Min2(len, Dist(start, end))
         IN  /\ n \in Nat /\ n > 0 /\ n <= len
             /\ n = len \/ Dist(va, Plus(start, n)) = Window
  BY ModulusAssumption, WindowAssumption DEF Plus, Dist, Min2, Seqno

LEMMA KickEffect ==
  ASSUME NEW s, Core(s)
  PROVE  LET q == x75_kick(s)
         IN  /\ q.state = s.state /\ q.va = s.va
             /\ Queued(q) = Queued(s) /\ Count(q) = Count(s)
             /\ "PEER_RX_BUSY" \in q.condition
                  => "PEER_RX_BUSY" \in s.condition /\ q.ack_queue = s.ack_queue
             /\ Waits(q)
<1> DEFINE start == IF s.ack_queue_count = 0 THEN s.va ELSE s.vs
           end   == Plus(s.va, Window)
           len   == Len(s.write_queue)
           n     == Min2(len, Dist(start, end))
           q     == x75_kick(s)
<1>1. /\ s \in Station /\ s.va \in Seqno /\ s.vs \in Seqno
      /\ s.write_queue \in Seq(Data) /\ len \in Nat
      /\ s.ack_queue_count \in Nat /\ s.write_queue_count \in Nat
      /\ s.write_queue_count >= len
  BY CoreTypes DEF Numbers
<1>2. start \in Seqno
  BY <1>1
<1>3. Dist(s.va, end) = Window /\ s.va # end
  BY <1>1, ModulusAssumption, WindowAssumption DEF Plus, Dist, Seqno
<1>4. CASE \/ "PEER_RX_BUSY" \in s.condition
           \/ start = end
           \/ s.write_queue_count = 0
  <2>1. q = s
    BY <1>4 DEF x75_kick
  <2>2. CASE "PEER_RX_BUSY" \in s.condition
    BY <2>1, <2>2 DEF Waits
  <2>3. CASE start = end
    <3>1. s.ack_queue_count # 0 /\ s.vs = end
      BY <1>3, <2>3
    <3>2. s.ack_queue_count > 0 /\ Dist(s.va, s.vs) = Window
      BY <1>1, <1>3, <3>1
    <3> HIDE DEF q, end
    <3> QED
      BY <2>1, <3>2 DEF Waits, q
  <2>4. CASE s.write_queue_count = 0
    <3>1. len = 0
      BY <1>1, <2>4
    <3>2. s.write_queue = <<>>
      BY <1>1, <3>1, EmptySeq
    <3> HIDE DEF q
    <3> QED
      BY <2>1, <3>2 DEF Waits, q
  <2> QED
    BY <1>4, <2>2, <2>3, <2>4
<1>5. CASE ~ (\/ "PEER_RX_BUSY" \in s.condition
              \/ start = end
              \/ s.write_queue_count = 0)
  <2>1. CASE s.write_queue = <<>>
    <3>1. q = [s EXCEPT !.crashed = TRUE]
      BY <1>5, <2>1 DEF x75_kick
    <3> HIDE DEF q
    <3>2. /\ q.state = s.state /\ q.va = s.va /\ q.condition = s.condition
          /\ SameQueues(s, q) /\ q.crashed = TRUE
      BY <1>1, <3>1 DEF Station, SameQueues
    <3> QED
      BY <3>2 DEF SameQueues, Waits, Queued, Count, q
  <2>2. CASE s.write_queue # <<>>
    <3>1. q = SendBurst(s, start, n)
      BY <1>5, <2>2 DEF x75_kick
    <3>2. len # 0
      BY <1>1, <2>2, EmptySeq
    <3>3. /\ n \in Nat /\ n > 0 /\ n <= len
          /\ n = len \/ Dist(s.va, Plus(start, n)) = Window
      <4> HIDE DEF start, len
      <4> QED
        BY <1>1, <1>2, <1>5, <3>2, BurstSize
    <3> HIDE DEF q, n, start
    <3>4. /\ Queued(q) = Queued(s) /\ Count(q) = Count(s)
          /\ n = len => q.write_queue = <<>>
      BY <1>2, <3>1, <3>3, BurstMoves
    <3>5. /\ q.state = s.state /\ q.va = s.va /\ q.vs = Plus(start, n)
          /\ q.condition = s.condition \ {"ACK_PENDING"}
          /\ q.ack_queue_count = s.ack_queue_count + n
      <4>1. s \in Station /\ n \in Nat
        BY <1>1, <3>3
      <4> QED
        BY <1>2, <3>1, <4>1, BurstFields, Zenon
    <3>6. q.ack_queue_count > 0
      BY <1>1, <3>3, <3>5
    <3>7. Waits(q)
      BY <3>3, <3>4, <3>5, <3>6 DEF Waits
    <3>8. "PEER_RX_BUSY" \notin q.condition
      BY <1>5, <3>5
    <3> QED
      BY <3>4, <3>5, <3>7, <3>8 DEF q
  <2> QED
    BY <2>1, <2>2
<1> QED
  BY <1>4, <1>5

-----------------------------------------------------------------------------
(* The state machines leave the queues to x75_kick.                        *)

\* The paths to state 3 on which the numbering starts anew.
LEMMA ResetFields ==
  ASSUME NEW s \in Station
  PROVE  LET r == ResetLink(s)
             q == [r EXCEPT !.state = 3]
         IN  /\ r.va = 0 /\ SameQueues(s, r) /\ r.state = s.state
             /\ x75_connect_indication(q).va = 0
             /\ SameQueues(s, x75_connect_indication(q))
             /\ x75_connect_confirmation(q).va = 0
             /\ SameQueues(s, x75_connect_confirmation(q))
  BY DEF Station, SameQueues, ResetLink, x75_stop_t1timer, x75_stop_t2timer,
         x75_connect_indication, x75_connect_confirmation

\* The paths to state 0.
LEMMA DisconnectedFields ==
  ASSUME NEW s \in Station
  PROVE  LET q == Disconnected(s)
         IN  /\ x75_disconnect_indication(q).state = 0
             /\ SameQueues(s, x75_disconnect_indication(q))
             /\ x75_disconnect_confirmation(q).state = 0
             /\ SameQueues(s, x75_disconnect_confirmation(q))
  BY DEF Station, SameQueues, Disconnected, x75_start_t1timer, x75_stop_t2timer,
         x75_disconnect_indication, x75_disconnect_confirmation

\* Released, with the queues emptied or not.
LEMMA DisconnectedUnsent ==
  ASSUME NEW s, Core(s), NEW r, Core(r),
         r.ack_queue = s.ack_queue \/ r.ack_queue = <<>>,
         r.write_queue_count = s.write_queue_count,
         r.ack_queue_count = s.ack_queue_count
  PROVE  /\ Unsent(s, x75_disconnect_indication(Disconnected(r)))
         /\ Unsent(s, x75_disconnect_confirmation(Disconnected(r)))
<1> DEFINE i == x75_disconnect_indication(Disconnected(r))
           c == x75_disconnect_confirmation(Disconnected(r))
<1>1. /\ i.state = 0 /\ SameQueues(r, i)
      /\ c.state = 0 /\ SameQueues(r, c)
  BY CoreFacts, DisconnectedFields
<1> HIDE DEF i, c
<1>2. Unsent(s, i) /\ Unsent(s, c)
  BY <1>1, Released DEF SameQueues
<1> QED
  BY <1>2 DEF i, c

LEMMA SameAnswer ==
  ASSUME NEW s, Core(s), NEW t, NEW f
  PROVE  /\ Same(s, Respond(s, t, f)) /\ Unsent(s, Respond(s, t, f))
<1>1. Same(s, Respond(s, t, f))
  BY CoreFacts, SameSent DEF Respond
<1> QED
  BY <1>1, SameUnsent

\* A new connection keeps what the queues hold.
LEMMA ConnectedUnsent ==
  ASSUME NEW s, Core(s), NEW r, Core(r), Same(s, r)
  PROVE  LET q == [ResetLink(r) EXCEPT !.state = 3]
         IN  /\ Unsent(s, x75_connect_indication(q))
             /\ Unsent(s, x75_connect_confirmation(q))
<1> DEFINE q == [ResetLink(r) EXCEPT !.state = 3]
           i == x75_connect_indication(q)
           c == x75_connect_confirmation(q)
<1>1. /\ i.va = 0 /\ SameQueues(r, i)
      /\ c.va = 0 /\ SameQueues(r, c)
  BY CoreFacts, ResetFields
<1> HIDE DEF i, c
<1>2. SameQueues(s, i) /\ SameQueues(s, c)
  BY <1>1 DEF Same, SameQueues
<1> QED
  BY <1>1, <1>2, ResetUnsent DEF i, c

LEMMA Cleared ==
  ASSUME NEW s, Core(s)
  PROVE  LET q == x75_clear_queues(s)
         IN  /\ Core(q) /\ q.ack_queue = <<>>
             /\ q.write_queue_count = s.write_queue_count
             /\ q.ack_queue_count = s.ack_queue_count
<1>1. LET q == x75_clear_queues(s)
      IN  /\ q.ack_queue = <<>>
          /\ q.write_queue_count = s.write_queue_count
          /\ q.ack_queue_count = s.ack_queue_count
  BY CoreFacts DEF Station, x75_clear_queues
<1> QED
  BY <1>1, ClearKeeps, KeepsCore

LEMMA State0Unsent ==
  ASSUME NEW s, Core(s), NEW f \in Frame
  PROVE  /\ Unsent(s, x75_state0_machine(s, f))
         /\ Unsent(s, x75_state4_machine(s, f))
<1> DEFINE u == Respond(s, "UA", f)
           q == x75_connect_indication([ResetLink(u) EXCEPT !.state = 3])
<1>1. Core(u) /\ Same(s, u) /\ Unsent(s, u)
  BY SameAnswer, Answer, KeepsCore DEF FrameType
<1>2. Unsent(s, q)
  BY <1>1, ConnectedUnsent
<1>3. Unsent(s, Respond(s, "DM", f)) /\ Unsent(s, s)
  BY SameAnswer, SameUnsent DEF Same, SameQueues
<1> HIDE DEF q
<1> QED
  BY <1>1, <1>2, <1>3 DEF x75_state0_machine, x75_state4_machine, q

LEMMA State1Unsent ==
  ASSUME NEW s, Core(s), NEW f \in Frame
  PROVE  Unsent(s, x75_state1_machine(s, f))
<1> DEFINE c == x75_connect_confirmation([ResetLink(s) EXCEPT !.state = 3])
           d == x75_disconnect_indication(Disconnected(x75_clear_queues(s)))
<1>1. Unsent(s, Respond(s, "UA", f)) /\ Unsent(s, Respond(s, "DM", f))
  BY SameAnswer
<1>2. Unsent(s, s) /\ Same(s, s)
  BY SameUnsent DEF Same, SameQueues
<1>3. Unsent(s, c)
  BY <1>2, ConnectedUnsent
<1>4. Unsent(s, d)
  BY Cleared, DisconnectedUnsent
<1> HIDE DEF c, d
<1> QED
  BY <1>1, <1>2, <1>3, <1>4 DEF x75_state1_machine, c, d

LEMMA State2Unsent ==
  ASSUME NEW s, Core(s), NEW f \in Frame
  PROVE  Unsent(s, x75_state2_machine(s, f))
<1>1. Unsent(s, Respond(s, "UA", f)) /\ Unsent(s, Respond(s, "DM", f))
  BY SameAnswer
<1>2. Unsent(s, s)
  BY SameUnsent DEF Same, SameQueues
<1>3. Unsent(s, x75_disconnect_confirmation(Disconnected(s)))
  BY DisconnectedUnsent
<1> QED
  BY <1>1, <1>2, <1>3 DEF x75_state2_machine

\* RR, RNR, REJ and I frames in state 3, after the response they ask for.
LEMMA ReadyUnsent ==
  ASSUME NEW s, Core(s), s.state = 3, NEW f \in Frame
  PROVE  Unsent(s, ReceiveReady(s, f)) /\ Unsent(s, ReceiveReject(s, f))
<1> DEFINE Cond == IF f.type = "RNR" THEN s.condition \cup {"PEER_RX_BUSY"}
                                     ELSE s.condition \ {"PEER_RX_BUSY"}
           Ans(c) == x75_check_need_response([s EXCEPT !.condition = c],
                                             f.cr, f.pf)
           Rej(r) == [x75_stop_t1timer(x75_frames_acked(r, f.nr)) EXCEPT
                        !.n2count = 0]
<1>1. s.condition \in SUBSET Conditions /\ f.nr \in Seqno
  BY CoreTypes DEF Station, Frame
<1>2. /\ Cond \in SUBSET Conditions
      /\ s.condition \ {"PEER_RX_BUSY"} \in SUBSET Conditions
  BY <1>1 DEF Conditions
<1>3. ASSUME NEW c \in SUBSET Conditions
      PROVE  Core(Ans(c)) /\ Same(s, Ans(c)) /\ Ans(c).state = 3
  <2> DEFINE a == [s EXCEPT !.condition = c]
  <2>1. Core(a) /\ a.state = 3
    BY ConditionKeeps DEF Keeps
  <2>2. Same(s, a)
    BY CoreFacts, SameFields
  <2> HIDE DEF a
  <2>3. Keeps(a, x75_check_need_response(a, f.cr, f.pf))
    BY <2>1, NeedResponse
  <2>4. Same(a, x75_check_need_response(a, f.cr, f.pf))
    BY <2>1, CoreFacts, SameResponse
  <2> QED
    BY <2>1, <2>2, <2>3, <2>4, SameSame DEF Keeps, a
<1>4. ASSUME NEW r, Core(r), Same(s, r), r.state = 3
      PROVE  /\ Unsent(s, FrameReject(r))
             /\ x75_validate_nr(r, f.nr)
                  => /\ Unsent(s, x75_check_iframes_acked(r, f.nr))
                     /\ Unsent(s, x75_requeue_frames(Rej(r)))
  <2>1. Unsent(s, FrameReject(r))
    BY <1>4, CoreFacts, SameBlocks, SameSame, SameUnsent
  <2>2. ASSUME x75_validate_nr(r, f.nr)
        PROVE  /\ Unsent(s, x75_check_iframes_acked(r, f.nr))
               /\ Unsent(s, x75_requeue_frames(Rej(r)))
    <3>1. Unsent(s, x75_check_iframes_acked(r, f.nr))
      BY <1>1, <1>4, <2>2, CheckedUnsent, SameThen
    <3> DEFINE a == x75_frames_acked(r, f.nr)
               b == x75_stop_t1timer(a)
               d == [b EXCEPT !.n2count = 0]
    <3>2. Unsent(s, a) /\ a.state = 3
      BY <1>1, <1>4, AckedUnsent, SameThen
    <3>3. Core(a)
      BY <1>1, <1>4, <2>2, FramesAcked, CoreFacts, KeepsCore
    <3> HIDE DEF a
    <3>4. Core(b) /\ Same(a, b) /\ b.state = 3
      <4>1. Keeps(a, b)
        BY <3>2, <3>3, TimersKeep
      <4>2. Same(a, b)
        BY <3>3, CoreFacts, SameFields
      <4> QED
        BY <3>2, <4>1, <4>2 DEF Keeps
    <3> HIDE DEF b
    <3>5. Core(d) /\ Same(b, d) /\ d.state = 3
      BY <3>4, CoreFacts, SameFields, TimersKeep, Zeros DEF Keeps
    <3> HIDE DEF d
    <3>6. Unsent(s, d)
      BY <3>2, <3>4, <3>5, ThenSame
    <3>7. Unsent(s, x75_requeue_frames(d))
      BY <3>5, <3>6, ThenRequeue
    <3> QED
      BY <3>1, <3>7 DEF d, b, a
  <2> QED
    BY <2>1, <2>2
<1> HIDE DEF Cond, Ans, Rej
<1>5. Unsent(s, ReceiveReady(s, f))
  <2>1. ReceiveReady(s, f)
          = IF x75_validate_nr(Ans(Cond), f.nr)
            THEN x75_check_iframes_acked(Ans(Cond), f.nr)
            ELSE FrameReject(Ans(Cond))
    BY DEF ReceiveReady, Ans, Cond
  <2> QED
    BY <1>2, <1>3, <1>4, <2>1
<1>6. Unsent(s, ReceiveReject(s, f))
  <2> DEFINE r == Ans(s.condition \ {"PEER_RX_BUSY"})
  <2>1. ReceiveReject(s, f)
          = IF x75_validate_nr(r, f.nr) THEN x75_requeue_frames(Rej(r))
                                        ELSE FrameReject(r)
    BY DEF ReceiveReject, Ans, Rej
  <2> QED
    BY <1>2, <1>3, <1>4, <2>1
<1> QED
  BY <1>5, <1>6

LEMMA IFrameUnsent ==
  ASSUME NEW s, Core(s), s.state = 3, NEW f \in Frame
  PROVE  Unsent(s, ReceiveIFrame(s, f))
<1> DEFINE a == IF "PEER_RX_BUSY" \in s.condition
                THEN x75_frames_acked(s, f.nr)
                ELSE x75_check_iframes_acked(s, f.nr)
<1>1. f.nr \in Seqno
  BY DEF Frame
<1>2. Unsent(s, FrameReject(s))
  BY CoreFacts, SameBlocks, SameUnsent
<1>3. ASSUME x75_validate_nr(s, f.nr)
      PROVE  Unsent(s, AcceptIFrame(a, f)) /\ Unsent(s, RefuseIFrame(a, f))
  <2>1. /\ Unsent(s, x75_frames_acked(s, f.nr))
        /\ Unsent(s, x75_check_iframes_acked(s, f.nr))
    BY <1>1, <1>3, AckedUnsent, CheckedUnsent
  <2>2. /\ Keeps(s, x75_frames_acked(s, f.nr))
        /\ Keeps(s, x75_check_iframes_acked(s, f.nr))
    BY <1>1, <1>3, FramesAcked, CheckAcked, CoreFacts
  <2>3. Unsent(s, a) /\ Keeps(s, a)
    BY <2>1, <2>2
  <2> HIDE DEF a
  <2>4. a \in Station
    BY <2>3, CoreFacts DEF Keeps
  <2> QED
    BY <2>3, <2>4, SameBlocks, ThenSame
<1> QED
  BY <1>2, <1>3 DEF ReceiveIFrame

LEMMA State3Unsent ==
  ASSUME NEW s, Core(s), s.state = 3, NEW f \in Frame
  PROVE  Unsent(s, x75_state3_machine(s, f))
<1> DEFINE u == Respond(s, "UA", f)
           r == ResetLink(u)
           e == x75_establish_data_link(s)
           q == x75_requeue_frames(e)
           c == x75_clear_queues(s)
<1>1. Unsent(s, Respond(s, "DM", f)) /\ Unsent(s, s)
  BY SameAnswer, SameUnsent DEF Same, SameQueues
<1>2. Unsent(s, x75_requeue_frames(r))
  <2>1. Core(u) /\ Same(s, u)
    BY SameAnswer, Answer, KeepsCore DEF FrameType
  <2> HIDE DEF u
  <2>2. Core(r)
    BY <2>1, Reset
  <2>3. Unsent(s, r)
    <3>1. u \in Station
      BY <2>1, CoreFacts
    <3>2. r.va = 0 /\ SameQueues(u, r)
      BY <3>1, ResetFields
    <3> HIDE DEF r
    <3> QED
      BY <2>1, <3>2, ResetUnsent DEF Same, SameQueues
  <2> QED
    BY <2>2, <2>3, ThenRequeue
<1>3. /\ Unsent(s, x75_disconnect_indication(Disconnected(c)))
      /\ Unsent(s, x75_disconnect_indication(
                     Disconnected(Respond(c, "UA", f))))
  <2>1. /\ Core(c) /\ c.ack_queue = <<>>
        /\ c.write_queue_count = s.write_queue_count
        /\ c.ack_queue_count = s.ack_queue_count
    BY Cleared
  <2> HIDE DEF c
  <2> DEFINE d == Respond(c, "UA", f)
  <2>2. /\ Core(d) /\ d.ack_queue = <<>>
        /\ d.write_queue_count = s.write_queue_count
        /\ d.ack_queue_count = s.ack_queue_count
    <3>1. Core(d)
      BY <2>1, Answer, KeepsCore DEF FrameType
    <3>2. Same(c, d)
      BY <2>1, SameAnswer
    <3> QED
      BY <2>1, <3>1, <3>2 DEF Same, SameQueues
  <2> HIDE DEF d
  <2> QED
    BY <2>1, <2>2, DisconnectedUnsent DEF d
<1>4. Unsent(s, [q EXCEPT !.state = 1])
  <2>1. Core(e) /\ Same(s, e)
    BY Establish, CoreFacts, SameBlocks
  <2>2. e.state = 3
    BY CoreFacts DEF Station, x75_establish_data_link, x75_stop_t2timer,
                     x75_start_t1timer, x75_send_control, x75_transmit_buffer
  <2> HIDE DEF e
  <2>3. Unsent(s, q)
    BY <2>1, SameUnsent, ThenRequeue
  <2>4. q \in Station /\ q.state = 3
    BY <2>1, <2>2, CoreFacts, Requeue DEF Keeps
  <2> HIDE DEF q
  <2>5. Same(q, [q EXCEPT !.state = 1])
    BY <2>4, SameFields
  <2> QED
    BY <2>3, <2>4, <2>5, ThenSame
<1>5. Unsent(s, ReceiveReady(s, f)) /\ Unsent(s, ReceiveReject(s, f))
  BY ReadyUnsent
<1>6. Unsent(s, ReceiveIFrame(s, f))
  BY IFrameUnsent
<1>7. Unsent(s, FrameReject(s))
  BY CoreFacts, SameBlocks, SameUnsent
<1> HIDE DEF q
<1> QED
  BY <1>1, <1>2, <1>3, <1>4, <1>5, <1>6, <1>7 DEF x75_state3_machine, q

-----------------------------------------------------------------------------
(* The handlers.                                                           *)

\* What every handler does: it sends no I frame to a busy peer, drops
\* nothing, and leaves nothing waiting but for the peer.
Handled(s, q) == Effect(s, q) /\ (Waits(s) => Waits(q))

\* All but a data request: the frames that the counters count were counted
\* before.
Fine(s, q) == Handled(s, q) /\ Count(q) <= Count(s)

\* Nothing that the data waits for has changed.
Idle(s, q) ==
  /\ Same(s, q) /\ q.state = s.state /\ q.vs = s.vs
  /\ q.crashed = s.crashed
  /\ "PEER_RX_BUSY" \in q.condition <=> "PEER_RX_BUSY" \in s.condition

LEMMA IdleFine ==
  ASSUME NEW s, NEW q, Core(s), Idle(s, q)
  PROVE  Fine(s, q)
<1>1. Unsent(s, q)
  BY SameUnsent DEF Idle
<1>2. Waits(s) => Waits(q)
  BY DEF Idle, Same, SameQueues, Waits
<1> QED
  BY <1>1, <1>2 DEF Unsent, Effect, Handled, Fine

\* Outside data transfer nothing waits.
LEMMA UnsentFine ==
  ASSUME NEW s, NEW q, Unsent(s, q), q.state # 3
  PROVE  Fine(s, q)
  BY DEF Handled, Fine, Effect, Unsent, Waits

LEMMA ThenIdle ==
  ASSUME NEW s, NEW r, NEW q, Idle(r, q)
  PROVE  /\ Handled(s, r) => Handled(s, q)
         /\ Fine(s, r) => Fine(s, q)
<1>1. Effect(s, r) => Effect(s, q)
  BY DEF Effect, Acked, Idle, Same, SameQueues, Queued
<1>2. (Waits(r) => Waits(q)) /\ Count(q) = Count(r)
  BY DEF Idle, Same, SameQueues, Waits, Count
<1> QED
  BY <1>1, <1>2 DEF Handled, Fine

LEMMA IdleThen ==
  ASSUME NEW s, NEW r, NEW q, Idle(s, r), Fine(r, q)
  PROVE  Fine(s, q)
<1>1. Effect(s, q)
  BY DEF Handled, Fine, Effect, Acked, Idle, Same, SameQueues, Queued
<1>2. (Waits(s) => Waits(r)) /\ Count(r) = Count(s)
  BY DEF Idle, Same, SameQueues, Waits, Count
<1> QED
  BY <1>1, <1>2 DEF Handled, Fine

LEMMA ThenKick ==
  ASSUME NEW s, NEW m, Core(s), Core(m), Unsent(s, m)
  PROVE  Fine(s, x75_kick(m))
<1> DEFINE q == x75_kick(m)
<1>1. /\ q.state = m.state /\ q.va = m.va
      /\ Queued(q) = Queued(m) /\ Count(q) = Count(m)
      /\ "PEER_RX_BUSY" \in q.condition => q.ack_queue = m.ack_queue
      /\ Waits(q)
  BY KickEffect
<1> HIDE DEF q
<1> QED
  BY <1>1 DEF Unsent, Acked, Effect, Handled, Fine, q

\* The functions that change none of it.
LEMMA IdleFields ==
  ASSUME NEW s \in Station
  PROVE  /\ Idle(s, Flush(s)) /\ Idle(s, x75_start_t1timer(s))
         /\ Idle(s, [s EXCEPT !.t1_pending = FALSE])
         /\ Idle(s, [s EXCEPT !.t2_pending = FALSE])
         /\ Idle(s, [s EXCEPT !.t2_running = FALSE])
         /\ Idle(s, [x75_timeout_response(s) EXCEPT !.t2_running = FALSE])
  BY DEF Station, Idle, Same, SameQueues, Flush, x75_start_t1timer, x75_timeout_response,
         ClearAckPending, x75_send_control, x75_transmit_buffer

LEMMA DataInputFine ==
  ASSUME NEW s, Inv(s), NEW f \in Frame, f.type = "I" => f.data \in Data
  PROVE  Fine(s, x75_data_input(s, f))
<1>1. Core(s) /\ s.state \in {0, 1, 2, 3, 4}
  BY CoreTypes DEF Inv
<1>2. CASE s.state = 0
  <2>1. Core(x75_state0_machine(s, f)) /\ Unsent(s, x75_state0_machine(s, f))
    BY <1>1, <1>2, State0, State0Unsent DEF Inv
  <2> QED
    BY <1>1, <1>2, <2>1, ThenKick DEF x75_data_input
<1>3. CASE s.state = 1
  <2>1. Core(x75_state1_machine(s, f)) /\ Unsent(s, x75_state1_machine(s, f))
    BY <1>1, <1>3, State1, State1Unsent DEF Inv
  <2> QED
    BY <1>1, <1>3, <2>1, ThenKick DEF x75_data_input
<1>4. CASE s.state = 2
  <2>1. Core(x75_state2_machine(s, f)) /\ Unsent(s, x75_state2_machine(s, f))
    BY <1>1, <1>4, State2, State2Unsent DEF Inv
  <2> QED
    BY <1>1, <1>4, <2>1, ThenKick DEF x75_data_input
<1>5. CASE s.state = 3
  <2>1. Core(x75_state3_machine(s, f)) /\ Unsent(s, x75_state3_machine(s, f))
    BY <1>1, <1>5, State3, State3Unsent DEF Inv
  <2> QED
    BY <1>1, <1>5, <2>1, ThenKick DEF x75_data_input
<1>6. CASE s.state = 4
  <2>1. Core(x75_state4_machine(s, f)) /\ Unsent(s, x75_state4_machine(s, f))
    BY <1>1, <1>6, State4, State0Unsent DEF Inv
  <2> QED
    BY <1>1, <1>6, <2>1, ThenKick DEF x75_data_input
<1> QED
  BY <1>1, <1>2, <1>3, <1>4, <1>5, <1>6

LEMMA T2ExpiryFine ==
  ASSUME NEW s, Core(s)
  PROVE  Fine(s, x75_t2timer_expiry(s))
<1>1. s \in Station
  BY CoreFacts
<1>2. Idle(s, s)
  BY DEF Idle, Same, SameQueues
<1>3. Idle(s, x75_t2timer_expiry(s))
  BY <1>1, <1>2, IdleFields DEF x75_t2timer_expiry
<1> QED
  BY <1>3, IdleFine

\* T1 in state 0, and giving up.
LEMMA T1DownFine ==
  ASSUME NEW s, Core(s)
  PROVE  /\ s.state = 0 => Fine(s, x75_start_t1timer(T1Disconnected(s)))
         /\ Fine(s, T1GiveUp(s))
<1>1. s \in Station /\ Len(s.ack_queue) \in Nat
  BY CoreTypes
<1>2. ASSUME s.state = 0
      PROVE  Fine(s, x75_start_t1timer(T1Disconnected(s)))
  <2> DEFINE q == x75_start_t1timer(T1Disconnected(s))
  <2>1. Same(s, q) /\ q.state \in {0, 1}
    BY <1>1, <1>2 DEF Station, Same, SameQueues, T1Disconnected, x75_start_t1timer,
       x75_establish_data_link, x75_stop_t2timer, x75_send_control,
       x75_transmit_buffer
  <2> HIDE DEF q
  <2>2. Unsent(s, q) /\ q.state # 3
    BY <2>1, SameUnsent
  <2> QED
    BY <2>2, UnsentFine DEF q
<1>3. Fine(s, T1GiveUp(s))
  <2> DEFINE q == T1GiveUp(s)
  <2>1. /\ q.ack_queue = <<>> /\ q.state = 0
        /\ q.write_queue_count = s.write_queue_count
        /\ q.ack_queue_count = s.ack_queue_count
    BY <1>1 DEF Station, T1GiveUp, x75_clear_queues,
       x75_disconnect_confirmation, x75_disconnect_indication,
       x75_stop_t2timer
  <2> HIDE DEF q
  <2>2. Unsent(s, q) /\ q.state # 3
    BY <2>1, Released
  <2> QED
    BY <2>2, UnsentFine DEF q
<1> QED
  BY <1>2, <1>3

LEMMA RetryFine ==
  ASSUME NEW s, Core(s), s.state \in {1, 2, 3, 4}, s.n2count # N2
  PROVE  Fine(s, x75_start_t1timer(T1Retry(s)))
<1>1. s \in Station
  BY CoreFacts
<1>2. CASE s.state \in {1, 2, 4}
  <2> DEFINE q == x75_start_t1timer(T1Retry(s))
  <2>1. Same(s, q) /\ q.state = s.state
    BY <1>1, <1>2 DEF Station, Same, SameQueues, T1Retry, x75_start_t1timer,
       x75_transmit_frmr, x75_send_control, x75_transmit_buffer
  <2> HIDE DEF q
  <2>2. Unsent(s, q) /\ q.state # 3
    BY <1>2, <2>1, SameUnsent
  <2> QED
    BY <2>2, UnsentFine DEF q
<1>3. CASE s.state = 3
  <2> DEFINE c == [s EXCEPT !.n2count = s.n2count + 1]
             m == x75_requeue_frames(c)
             k == x75_kick(m)
  <2>1. s.n2count + 1 \in 0 .. N2
    BY <1>1, N2Assumption DEF Station
  <2>2. Core(c) /\ Same(s, c)
    BY <1>1, <2>1, TimersKeep, KeepsCore, SameFields
  <2>3. T1Retry(s) = k
    BY <1>3 DEF T1Retry
  <2> HIDE DEF c
  <2>4. Core(m) /\ Unsent(s, m)
    BY <2>2, SameUnsent, ThenRequeue, Requeue, CoreFacts, KeepsCore
  <2> HIDE DEF m
  <2>5. Fine(s, k)
    BY <2>4, ThenKick
  <2>6. k \in Station
    BY <2>4, Kick, CoreFacts, KeepsCore
  <2> HIDE DEF k
  <2> QED
    BY <2>3, <2>5, <2>6, IdleFields, ThenIdle
<1> QED
  BY <1>2, <1>3

LEMMA T1ExpiryFine ==
  ASSUME NEW s, Core(s)
  PROVE  Fine(s, x75_t1timer_expiry(s))
<1>1. s.state \in {0, 1, 2, 3, 4}
  BY CoreTypes
<1>2. Fine(s, s)
  BY IdleFine DEF Idle, Same, SameQueues
<1>3. s.state # 0 => s.state \in {1, 2, 3, 4}
  BY <1>1
<1> QED
  BY <1>2, <1>3, T1DownFine, RetryFine DEF x75_t1timer_expiry

LEMMA TimersFine ==
  ASSUME NEW s, Core(s)
  PROVE  Fine(s, T1Expires(s)) /\ Fine(s, T2Expires(s))
<1>1. s \in Station /\ Numbers(s)
  BY CoreFacts
<1>2. ASSUME NEW r, Core(r), Idle(s, r), NEW cb
      PROVE  Fine(s, RunCallback(r, cb))
  <2>1. Fine(r, x75_t1timer_expiry(r)) /\ Fine(r, x75_t2timer_expiry(r))
    BY <1>2, T1ExpiryFine, T2ExpiryFine
  <2>2. Fine(s, r)
    BY <1>2, IdleFine
  <2> QED
    BY <1>2, <2>1, <2>2, IdleThen DEF RunCallback
<1>3. /\ Core([s EXCEPT !.t1_pending = FALSE])
      /\ Core([s EXCEPT !.t2_pending = FALSE])
  BY <1>1 DEF Core, Numbers, Station
<1> QED
  BY <1>1, <1>2, <1>3, IdleFields DEF T1Expires, T2Expires

LEMMA RequestsFine ==
  ASSUME NEW s, Core(s)
  PROVE  Fine(s, x75_connect_request(s)) /\ Fine(s, x75_disconnect_request(s))
<1>1. /\ s \in Station /\ Len(s.ack_queue) \in Nat
      /\ s.state \in {0, 1, 2, 3, 4}
  BY CoreTypes
<1>2. Fine(s, s)
  BY IdleFine DEF Idle, Same, SameQueues
<1>3. Fine(s, x75_connect_request(s))
  <2> DEFINE q == [x75_establish_data_link(s) EXCEPT !.state = 1]
  <2>1. Same(s, q) /\ q.state = 1
    BY <1>1 DEF Station, Same, SameQueues, x75_establish_data_link, x75_stop_t2timer,
       x75_start_t1timer, x75_send_control, x75_transmit_buffer
  <2> HIDE DEF q
  <2>2. Fine(s, q)
    BY <2>1, SameUnsent, UnsentFine
  <2> QED
    BY <1>2, <2>2 DEF x75_connect_request, q
<1>4. Fine(s, x75_disconnect_request(s))
  <2> DEFINE q == x75_disconnect_request(s)
  <2>1. CASE s.state \in {0, 1}
    <3>1. Same(s, q) /\ q.state = 0
      BY <1>1, <2>1 DEF Station, Same, SameQueues, x75_disconnect_request,
         x75_start_t1timer, x75_send_control, x75_transmit_buffer
    <3> HIDE DEF q
    <3> QED
      BY <3>1, SameUnsent, UnsentFine DEF q
  <2>2. CASE s.state = 2
    BY <1>2, <2>2 DEF x75_disconnect_request
  <2>3. CASE s.state \in {3, 4}
    <3>1. /\ q.ack_queue = <<>> /\ q.state = 2
          /\ q.write_queue_count = s.write_queue_count
          /\ q.ack_queue_count = s.ack_queue_count
      BY <1>1, <2>3 DEF Station, x75_disconnect_request, x75_stop_t2timer,
         x75_start_t1timer, x75_send_control, x75_transmit_buffer,
         x75_clear_queues
    <3> HIDE DEF q
    <3>2. Unsent(s, q) /\ q.state # 3
      BY <3>1, Released
    <3> QED
      BY <3>2, UnsentFine DEF q
  <2> QED
    BY <1>1, <2>1, <2>2, <2>3
<1> QED
  BY <1>3, <1>4

\* A data request, which counts one frame more.
LEMMA DataFine ==
  ASSUME NEW s, Core(s), NEW d \in Data
  PROVE  LET q == x75_data_request(s, d)
         IN  Handled(s, q) /\ Count(q) <= Count(s) + 1
<1> DEFINE w == Append(s.write_queue, d)
           n == s.write_queue_count + 1
           r == [s EXCEPT !.write_queue = w, !.write_queue_count = n]
           k == x75_kick(r)
<1>1. /\ s \in Station /\ s.va \in Seqno /\ s.write_queue \in Seq(Data)
      /\ Len(s.write_queue) \in Nat /\ Len(s.ack_queue) \in Nat
      /\ s.write_queue_count \in Nat /\ s.ack_queue_count \in Nat
      /\ Numbers(s)
  BY CoreTypes
<1>2. w \in Seq(Data) /\ Len(w) = Len(s.write_queue) + 1
  BY <1>1
<1>3. n \in Nat /\ n >= Len(w)
  BY <1>1, <1>2 DEF Numbers
<1>4. x75_data_request(s, d) = IF s.state \notin {3, 4} THEN s ELSE k
  BY DEF x75_data_request
<1>5. n + s.ack_queue_count = Count(s) + 1
  BY <1>1 DEF Count
<1> HIDE DEF w, n
<1>6. /\ Core(r) /\ r.va = s.va /\ r.write_queue = w
      /\ r.ack_queue = s.ack_queue
      /\ r.write_queue_count = n /\ r.ack_queue_count = s.ack_queue_count
  <2>1. /\ r \in Station /\ r.va = s.va /\ r.write_queue = w
        /\ r.ack_queue = s.ack_queue
        /\ r.write_queue_count = n /\ r.ack_queue_count = s.ack_queue_count
    BY <1>1, <1>2, <1>3 DEF Station
  <2>2. Numbers(r)
    BY <1>1, <1>3 DEF Station, Numbers
  <2> QED
    BY <2>1, <2>2 DEF Core
<1> HIDE DEF r
<1>7. \A a, b \in Nat : (a + b) - ((a + 1) + b) <= 0
  OBVIOUS
<1>8. Queued(s) - Queued(r) <= 0
  BY <1>1, <1>2, <1>6, <1>7 DEF Queued
<1>9. Dist(s.va, r.va) = 0
  BY <1>1, <1>6, DistNat
<1>10. /\ k.state = r.state /\ k.va = r.va
       /\ Queued(k) = Queued(r) /\ Count(k) = Count(r)
       /\ "PEER_RX_BUSY" \in k.condition => k.ack_queue = r.ack_queue
       /\ Waits(k)
  BY <1>6, KickEffect
<1> HIDE DEF k
<1>11. Effect(s, k)
  BY <1>1, <1>6, <1>8, <1>9, <1>10 DEF Effect, Acked
<1>12. Count(k) <= Count(s) + 1
  <2>1. Count(k) = Count(s) + 1 /\ Count(s) \in Nat
    BY <1>5, <1>6, <1>10, CoreTypes DEF Count
  <2> HIDE DEF k
  <2> QED
    BY <2>1
<1>13. Fine(s, s) /\ Count(s) \in Nat
  BY IdleFine, CoreTypes DEF Idle, Same, SameQueues
<1>14. Count(s) <= Count(s) + 1
  BY <1>13
<1> QED
  BY <1>4, <1>10, <1>11, <1>12, <1>13, <1>14 DEF Handled, Fine
=============================================================================
