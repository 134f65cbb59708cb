----------------------------- MODULE YateHdlcPpp ----------------------------
(***************************************************************************)
(* The process yate_hdlc_ppp: pppd behind a pseudo terminal, the read      *)
(* callback that cuts its octet stream into packets, the queue of packets  *)
(* for the line, the transmit half of handle_sample_buffer, and the main   *)
(* loop that watches whether pppd still lives.                             *)
(*                                                                         *)
(* The process is single-threaded.  at is where it is: at the top of the   *)
(* loop, behind which callback osmo_select_main has come (they run in the  *)
(* order of registration, each at most once in a pass), or inside one of   *)
(* the two that loop themselves.  The receive half of handle_sample_buffer *)
(* keeps no state: each frame is stuffed and written to the terminal.      *)
(***************************************************************************)
EXTENDS Rfc1662

CONSTANTS
  Packets,     \* packets pppd may send, as sequences of octets
  Fcs,         \* frame check sequences, as pairs of octets
  Dsize,       \* sizeof(temp_pack_buf), 2048
  NumSamples,  \* octets in a sample buffer, 160
  CheckEvery,  \* passes of the loop from one waitpid to the next, 100
  MaxSent      \* bound: packets that pppd sends

\* Every frame of pppd, FCS included, fits into temp_pack_buf (mtu 1500).
ASSUME PppAssumption ==
  /\ Packets \subseteq Seq(Octet) /\ Fcs \subseteq Octet \X Octet
  /\ \A p \in Packets : Len(p) > 0 /\ Len(p) + 2 <= Dsize
  /\ Dsize \in Nat /\ NumSamples \in Nat \ {0} /\ CheckEvery \in Nat \ {0}
  /\ MaxSent \in Nat

VARIABLES
  child,              \* "alive", "exited" (a zombie) or "none"
  pppd,               \* the pid: positive, 0 or -1
  pty,                \* octets pppd has written and nobody has read
  sent,               \* history: the packets pppd has sent
  pppd_rx_buf,        \* what one read returned, from bytes_read on
  ppp_rfc1662_state,  \* the decoder
  isdn_hdlc_tx_queue, \* packets for the line
  hdlc_tx_buf,        \* what is left of the packet being transmitted
  part,               \* history: what the encoder has taken of it
  line,               \* history: packets the encoder has taken
  room,               \* samples of out_buf still to be filled
  loop_cycles,        \* modulo CheckEvery
  at,                 \* where the process is
  skipped             \* history: a read of a single octet was ignored

hdlc == <<isdn_hdlc_tx_queue, hdlc_tx_buf, part, line, room>>
tty  == <<pty, sent, pppd_rx_buf, ppp_rfc1662_state, skipped>>
vars == <<child, pppd, hdlc, tty, loop_cycles, at>>

\* at: the stages of a pass, and the loops inside two of the callbacks.
Top == 0
Select == 1
Stdin == 2
Samples == 3
Encoding == 4
Pty == 5
Decoding == 6
Ended == 7

\* osmo_select_main calls back, and is behind that callback, or in it.
Calls(stage, next) ==
  at \in Select .. stage - 1 /\ at \notin {Encoding, Decoding} /\ at' = next

\* What start_pppd leaves in pppd, whose return code main ignores: a pid;
\* 0 when there is no pseudo terminal; -1 when fork failed.
start_pppd ==
  {[pid |-> 1, child |-> "alive"], [pid |-> 0, child |-> "none"],
   [pid |-> -1, child |-> "none"]}

Init ==
  /\ \E started \in start_pppd :
       pppd = started.pid /\ child = started.child
  /\ pty = <<>> /\ sent = <<>> /\ pppd_rx_buf = <<>> /\ skipped = FALSE
  /\ ppp_rfc1662_state = NewDecoder
  /\ isdn_hdlc_tx_queue = <<>> /\ hdlc_tx_buf = <<>> /\ part = <<>>
  /\ line = <<>> /\ room = 0
  /\ loop_cycles = 0 /\ at = Top

-----------------------------------------------------------------------------
(* pppd, outside this process.                                             *)

\* A packet reaches the pseudo terminal.  Right behind another frame the
\* opening flag may be left out.
PppdSends ==
  /\ child = "alive" /\ Len(sent) < MaxSent
  /\ \E p \in Packets, fcs \in Fcs :
       LET frame == pppd_rfc1662_encode(p, fcs)
       IN  /\ sent' = Append(sent, p)
           /\ \/ pty' = pty \o frame
              \/ pty # <<>> /\ pty' = pty \o Tail(frame)
  /\ UNCHANGED <<child, pppd, hdlc, pppd_rx_buf, ppp_rfc1662_state, skipped,
                 loop_cycles, at>>

PppdExits ==
  /\ child = "alive" /\ child' = "exited"
  /\ UNCHANGED <<pppd, hdlc, tty, loop_cycles, at>>

-----------------------------------------------------------------------------
(* The main loop.                                                          *)

\* waitpid with WNOHANG: the pid once pppd is a zombie, else 0 or -1.
waitpid == IF pppd > 0 /\ child = "exited" THEN pppd ELSE 0

\* Mutant: nobody waits for pppd.
LoopTopNeverChecks ==
  /\ at \in {Top, Stdin, Samples, Pty}
  /\ IF pppd = 0
     THEN at' = Ended /\ UNCHANGED loop_cycles
     ELSE at' = Select /\ loop_cycles' = (loop_cycles + 1) % CheckEvery
  /\ UNCHANGED <<child, pppd, hdlc, tty>>

\* while (pppd): count the pass, look after pppd in every hundredth, select.
LoopTop ==
  /\ at \in {Top, Stdin, Samples, Pty}
  /\ IF pppd = 0
     THEN at' = Ended /\ UNCHANGED <<pppd, loop_cycles>>
     ELSE /\ at' = Select
          /\ loop_cycles' = (loop_cycles + 1) % CheckEvery
          /\ pppd' = IF loop_cycles' = 0 /\ waitpid > 0 THEN 0 ELSE pppd
  /\ UNCHANGED <<child, hdlc, tty>>

\* yate_message_read_cb: no handler is registered for calls.
Message ==
  /\ Calls(Stdin, Stdin)
  /\ UNCHANGED <<child, pppd, hdlc, tty, loop_cycles>>

-----------------------------------------------------------------------------
(* pppd_input_cb.                                                          *)

\* read returns what is there or, whatever the reason, only its beginning.
\* while (bytes_read != len - 1): a single octet is not looked at.
PtyRead ==
  /\ pty # <<>>
  /\ \E n \in 1 .. Len(pty) :
       /\ pty' = SubSeq(pty, n + 1, Len(pty))
       /\ IF n = 1
          THEN Calls(Pty, Pty) /\ skipped' = TRUE /\ UNCHANGED pppd_rx_buf
          ELSE /\ Calls(Pty, Decoding) /\ pppd_rx_buf' = SubSeq(pty, 1, n)
               /\ UNCHANGED skipped
  /\ UNCHANGED <<child, pppd, hdlc, sent, ppp_rfc1662_state, loop_cycles>>

\* read fails: the other side of the pseudo terminal is closed.
PtyError ==
  /\ pty = <<>> /\ child # "alive" /\ Calls(Pty, Pty)
  /\ UNCHANGED <<child, pppd, hdlc, tty, loop_cycles>>

\* *count is the octet the decoder stopped at: it is looked at once more.
NextOctet(d) == IF d.returns THEN pppd_rx_buf ELSE Tail(pppd_rx_buf)

\* One octet in pppd_rfc1662_decode.  When it returns, with a packet that
\* handle_incoming_ppp_packet queues unless it is empty, at the end of src
\* or for want of room, the loop ends if that was at the last octet.
DecodeStep ==
  /\ at = Decoding
  /\ LET d == DecodeOctet(ppp_rfc1662_state, Head(pppd_rx_buf), Dsize)
     IN  /\ ppp_rfc1662_state' = d.state
         /\ isdn_hdlc_tx_queue' = IF d.packet = <<>> THEN isdn_hdlc_tx_queue
                                  ELSE Append(isdn_hdlc_tx_queue, d.packet)
         /\ IF Len(pppd_rx_buf) = 1
            THEN at' = Pty /\ pppd_rx_buf' = <<>>
            ELSE at' = at /\ pppd_rx_buf' = NextOctet(d)
  /\ UNCHANGED <<child, pppd, hdlc_tx_buf, part, line, room, pty, sent, skipped,
                 loop_cycles>>

-----------------------------------------------------------------------------
(* The transmit half of handle_sample_buffer.                              *)

\* Mutant: only the receive half runs.
SampleBufferNoTx ==
  /\ Calls(Samples, Samples) /\ room' = 0
  /\ UNCHANGED <<child, pppd, isdn_hdlc_tx_queue, hdlc_tx_buf, part, line, tty,
                 loop_cycles>>

SampleBuffer ==
  /\ Calls(Samples, Encoding) /\ room' = NumSamples
  /\ UNCHANGED <<child, pppd, isdn_hdlc_tx_queue, hdlc_tx_buf, part, line, tty,
                 loop_cycles>>

\* osmo_isdnhdlc_encode, of the library: it fills at least one sample, and
\* takes a beginning of what it is offered.
osmo_isdnhdlc_encode(offered, space) ==
  [rv : 1 .. space, count : 0 .. Len(offered)]

\* The packet being transmitted: the rest of one, or the next of the queue.
Transmitting ==
  IF hdlc_tx_buf # <<>> \/ isdn_hdlc_tx_queue = <<>> THEN hdlc_tx_buf
  ELSE Head(isdn_hdlc_tx_queue)

\* Mutant: the packet stays in the queue while it is transmitted.
QueueAfterLate == isdn_hdlc_tx_queue

QueueAfter ==
  IF hdlc_tx_buf # <<>> \/ isdn_hdlc_tx_queue = <<>> THEN isdn_hdlc_tx_queue
  ELSE Tail(isdn_hdlc_tx_queue)

\* One turn of the loop in which the encoder takes count octets.
EncodeCall(rv, count) ==
  /\ at = Encoding
  /\ isdn_hdlc_tx_queue' = QueueAfter
  /\ hdlc_tx_buf' = SubSeq(Transmitting, count + 1, Len(Transmitting))
  /\ LET taken == part \o SubSeq(Transmitting, 1, count)
     IN  IF Transmitting # <<>> /\ count = Len(Transmitting)
         THEN line' = Append(line, taken) /\ part' = <<>>
         ELSE part' = taken /\ UNCHANGED line
  /\ room' = room - rv
  /\ at' = IF room' = 0 THEN Samples ELSE Encoding
  /\ UNCHANGED <<child, pppd, tty, loop_cycles>>

EncodeSome ==
  \E r \in osmo_isdnhdlc_encode(Transmitting, room) :
    r.count > 0 /\ EncodeCall(r.rv, r.count)

\* The encoder still has flags, a CRC or the octet before to put out.
EncodeNone ==
  \E r \in osmo_isdnhdlc_encode(Transmitting, room) :
    r.count = 0 /\ EncodeCall(r.rv, r.count)

Next ==
  \/ PppdSends
  \/ PppdExits
  \/ LoopTop
  \/ Message
  \/ PtyRead
  \/ PtyError
  \/ DecodeStep
  \/ SampleBuffer
  \/ EncodeSome
  \/ EncodeNone

Spec == Init /\ [][Next]_vars

\* The process runs; Yate delivers a sample buffer every 20 ms and takes the
\* answer; a readable pseudo terminal is read; the encoder, called again and
\* again, takes what it is offered.  Neither pppd nor Yate's messages need do
\* anything.
Fairness ==
  /\ WF_vars(LoopTop) /\ WF_vars(DecodeStep)
  /\ WF_vars(EncodeSome \/ EncodeNone) /\ SF_vars(EncodeSome)
  /\ SF_vars(SampleBuffer) /\ SF_vars(PtyRead)

FairSpec == Spec /\ Fairness

-----------------------------------------------------------------------------

\* What has left, is leaving and will leave for the line.
Forwarded ==
  line \o (IF hdlc_tx_buf = <<>> THEN <<>> ELSE <<part \o hdlc_tx_buf>>)
       \o isdn_hdlc_tx_queue

\* README: pppd is started "on the local machine and forward any frames
\* to/from the ISDN line".  However the reads cut the stream of pppd, and
\* wherever the encoder stops in a packet, the line gets the packets of
\* pppd unchanged, in order, each once, and none is left behind; only a
\* read of a single octet spoils that.
FramesForwarded ==
  ~ skipped =>
    /\ IsPrefix(Forwarded, sent)
    /\ pty = <<>> /\ at # Decoding => Forwarded = sent

\* The read loop always comes to its end, however long the stream: it can
\* only hang once a flag has been lost and two frames have become one.
ReadLoopEnds == at = Decoding ~> (at # Decoding \/ skipped)

\* When pppd has exited the process ends too, although it looks only now
\* and then: yate_hdlc_ppp.c says "if the pppd process has exited, end our
\* call too".
PppdExitEndsCall == child = "exited" ~> (at = Ended \/ skipped)

\* A packet that is queued leaves for the line while the call lasts.
PacketsLeave ==
  \A k \in 0 .. MaxSent :
    Len(line) = k /\ Len(Forwarded) > k ~>
      (Len(line) > k \/ at = Ended \/ skipped)
=============================================================================
