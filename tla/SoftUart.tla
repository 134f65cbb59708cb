------------------------------- MODULE SoftUart -----------------------------
(***************************************************************************)
(* The receiver of the software UART, v110/soft_uart.c: bits in, messages  *)
(* of characters to the receive call-back out, when the buffer is full,    *)
(* when a character had an error, or when the timer runs out.              *)
(*                                                                         *)
(* The transmitter is a stub in the code and is left out.  What the UART   *)
(* is told after osmo_soft_uart_alloc and a first configuration, with a    *)
(* call-back, is modelled; so is a peer that sends characters in the       *)
(* format configured at the time, and now and then a bad stop bit.         *)
(***************************************************************************)
EXTENDS Integers, Sequences, SequencesExt

CONSTANTS
  Configs,       \* the configurations that a user may try
  FramingErrors, \* the values OSMO_SUART_F_FRAMING_ERROR may have: soft_uart.c
                 \* takes it from libosmocore, the header beside it numbers the
                 \* flags from 0, so that this one would never show in a mask
  Width,         \* bit_count is a uint8_t: 2^8
  MaxChars,      \* bound: characters that the peer sends
  MaxChanges     \* bound: calls of configure and enable

ASSUME UartAssumption ==
  /\ Configs \subseteq [num_data_bits : Nat, num_stop_bits : Nat, parity : {0, 1},
                        rx_buf_size : Nat, rx_timeout_ms : Nat]
  /\ \A c \in Configs : 2 + c.num_data_bits + c.num_stop_bits < Width
  /\ Width \in Nat \ {0}
  /\ FramingErrors \subseteq Nat /\ MaxChars \in Nat /\ MaxChanges \in Nat

VARIABLES
  sua,      \* struct osmo_soft_uart: cfg and the fields of rx; size is the
            \* room msg was allocated with, aborted the end in msgb_put_u8,
            \* bad (history) that a stop bit of the character was not 1, stops
            \* (history) the most stop bits configured in its course
  out,      \* history: the calls of rx_cb
  wire,     \* bits of a character the peer is sending
  heard,    \* history: characters that went by while the receiver was ready
  left,     \* bound: characters still to be sent
  changes,  \* bound: calls still to be made
  spoiled   \* history: a call came in the middle of a character

uartVars == <<sua, out, wire, heard, left, changes, spoiled>>

-----------------------------------------------------------------------------
(* The functions of soft_uart.c.  s is the UART, c the call-backs so far.  *)

\* Nothing is in the buffer and no error is pending.
NothingToFlush(s) == s.msg = <<>> /\ s.flags = 0

\* The call-back owns the message; the new one has the size of the
\* configuration at this moment.
FlushedUart(s) ==
  IF NothingToFlush(s) THEN s
  ELSE [s EXCEPT !.timer = FALSE, !.msg = <<>>, !.size = s.cfg.rx_buf_size]

CallBacks(s) ==
  IF NothingToFlush(s) THEN <<>>
  ELSE <<[chars |-> s.msg, flags |-> s.flags, stops |-> s.stops]>>

suart_flush_rx(s) == [uart |-> FlushedUart(s), called |-> CallBacks(s)]

Quietly(s) == [uart |-> s, called |-> <<>>]

\* Mutant: the timer is started for each character but the first.
RxChNoTimer(s, ch) ==
  LET put == [s EXCEPT !.msg = Append(@, [ch |-> ch, bad |-> s.bad])]
  IN  CASE Len(s.msg) >= s.size -> Quietly([s EXCEPT !.aborted = TRUE])
        [] Len(s.msg) < s.size /\ s.msg = <<>> -> Quietly(put)
        [] Len(s.msg) < s.size /\ s.msg # <<>> ->
             IF Len(put.msg) >= s.cfg.rx_buf_size \/ s.flags # 0
             THEN suart_flush_rx(put) ELSE Quietly(put)

\* Mutant: the buffer is flushed when it is more than full.
RxChLate(s, ch) ==
  LET put == [s EXCEPT !.msg = Append(@, [ch |-> ch, bad |-> s.bad])]
  IN  CASE Len(s.msg) >= s.size -> Quietly([s EXCEPT !.aborted = TRUE])
        [] Len(s.msg) < s.size /\ s.msg = <<>> -> Quietly([put EXCEPT !.timer = TRUE])
        [] Len(s.msg) < s.size /\ s.msg # <<>> ->
             IF Len(put.msg) > s.cfg.rx_buf_size \/ s.flags # 0
             THEN suart_flush_rx(put) ELSE Quietly(put)

\* The first character only starts the timer.  msgb_put_u8 aborts when the
\* message is full.
suart_rx_ch(s, ch) ==
  LET put == [s EXCEPT !.msg = Append(@, [ch |-> ch, bad |-> s.bad])]
  IN  CASE Len(s.msg) >= s.size -> Quietly([s EXCEPT !.aborted = TRUE])
        [] Len(s.msg) < s.size /\ s.msg = <<>> -> Quietly([put EXCEPT !.timer = TRUE])
        [] Len(s.msg) < s.size /\ s.msg # <<>> ->
             IF Len(put.msg) >= s.cfg.rx_buf_size \/ s.flags # 0
             THEN suart_flush_rx(put) ELSE Quietly(put)

LastBit(cfg) == 1 + cfg.num_data_bits + cfg.parity + cfg.num_stop_bits

\* Mutant: the flags of the character before are kept.
StartBitKeepsFlags(s, bit) ==
  IF bit = 1 THEN s
  ELSE [s EXCEPT !.shift_reg = 0, !.bit_count = 1, !.bad = FALSE,
                 !.stops = s.cfg.num_stop_bits]

\* Mutant: the bits of the character before stay in the register.
StartBitKeepsBits(s, bit) ==
  IF bit = 1 THEN s
  ELSE [s EXCEPT !.flags = 0, !.bit_count = 1, !.bad = FALSE,
                 !.stops = s.cfg.num_stop_bits]

\* Wait for a start bit.
StartBit(s, bit) ==
  IF bit = 1 THEN s
  ELSE [s EXCEPT !.flags = 0, !.shift_reg = 0, !.bit_count = 1, !.bad = FALSE,
                 !.stops = s.cfg.num_stop_bits]

\* The bits are shifted in from the left: fewer than eight stay there.
DataBit(s, bit) == [s EXCEPT !.shift_reg = (@ \div 2) + 128 * bit]

StopBit(s, bit) ==
  LET flagged == IF bit = 1 THEN s
                 ELSE [s EXCEPT !.flags = s.framing_error, !.bad = TRUE]
      r       == suart_rx_ch(flagged, s.shift_reg)
  IN  IF s.bit_count = LastBit(s.cfg)
      THEN [r EXCEPT !.uart.bit_count = 0]
      ELSE Quietly(flagged)

\* Mutant: bits behind the last one are not counted.
RxBitStops(s, bit) ==
  LET n == (s.bit_count + 1) % Width
      t == [s EXCEPT !.bit_count = n]
  IN  CASE ~ s.running -> Quietly(s)
        [] s.running /\ s.bit_count = 0 -> Quietly(StartBit(s, bit))
        [] s.running /\ s.bit_count # 0 ->
             CASE n <= 1 + s.cfg.num_data_bits -> Quietly(DataBit(t, bit))
               [] s.cfg.parity = 1 /\ n = 2 + s.cfg.num_data_bits -> Quietly(t)
               [] n > 1 + s.cfg.num_data_bits + s.cfg.parity /\ n <= LastBit(s.cfg) ->
                    StopBit(t, bit)
               [] n > LastBit(s.cfg) -> Quietly(s)

\* A bit behind the last one of the format is only counted: it can only be
\* there when the format was changed in the middle of a character.
osmo_uart_rx_bit(s, bit) ==
  LET n == (s.bit_count + 1) % Width
      t == [s EXCEPT !.bit_count = n]
  IN  CASE ~ s.running -> Quietly(s)
        [] s.running /\ s.bit_count = 0 -> Quietly(StartBit(s, bit))
        [] s.running /\ s.bit_count # 0 ->
             CASE n <= 1 + s.cfg.num_data_bits -> Quietly(DataBit(t, bit))
               [] s.cfg.parity = 1 /\ n = 2 + s.cfg.num_data_bits -> Quietly(t)
               [] n > 1 + s.cfg.num_data_bits + s.cfg.parity /\ n <= LastBit(s.cfg) ->
                    StopBit(t, bit)
               [] n > LastBit(s.cfg) -> Quietly(t)

Valid(cfg) ==
  cfg.num_data_bits \in 1 .. 8 /\ cfg.num_stop_bits > 0 /\ cfg.rx_buf_size > 0

\* A configuration that passes the checks is taken over, whatever the
\* receiver is doing; another one is refused.
osmo_soft_uart_configure(s, cfg) ==
  LET shrinks == \/ s.cfg.rx_buf_size > cfg.rx_buf_size
                 \/ s.cfg.rx_timeout_ms > cfg.rx_timeout_ms
      r       == IF shrinks THEN suart_flush_rx(s) ELSE Quietly(s)
      more    == s.bit_count # 0 /\ s.stops < cfg.num_stop_bits
  IN  IF Valid(cfg)
      THEN [r EXCEPT !.uart.cfg = cfg,
                     !.uart.stops = IF more THEN cfg.num_stop_bits ELSE @]
      ELSE Quietly(s)

osmo_soft_uart_enable(s, rx) ==
  LET off == suart_flush_rx(s)
  IN  CASE ~ rx /\ s.running -> [off EXCEPT !.uart.running = FALSE]
        [] rx /\ ~ s.running ->
             Quietly([s EXCEPT !.running = TRUE,
                               !.size = IF @ = 0 THEN s.cfg.rx_buf_size ELSE @])
        [] rx = s.running -> Quietly(s)

-----------------------------------------------------------------------------

\* Allocated and configured, not yet enabled: there is no message yet.
UartInit ==
  /\ \E cfg \in {c \in Configs : Valid(c)}, err \in FramingErrors :
       sua = [cfg |-> cfg, framing_error |-> err, running |-> FALSE,
              bit_count |-> 0, shift_reg |-> 0,
              msg |-> <<>>, size |-> 0, flags |-> 0, bad |-> FALSE,
              stops |-> 0, timer |-> FALSE, aborted |-> FALSE]
  /\ out = <<>> /\ wire = <<>> /\ heard = <<>> /\ spoiled = FALSE
  /\ left = MaxChars /\ changes = MaxChanges

Does(r) ==
  /\ ~ sua.aborted
  /\ sua' = r.uart /\ out' = out \o r.called

\* The bits of character c, the lowest first, parity unchecked, and a stop
\* bit that is 1 or not.
Framed(cfg, c, good) ==
  <<0>> \o [n \in 1 .. cfg.num_data_bits |-> (c \div 2^(n - 1)) % 2]
        \o [n \in 1 .. cfg.parity |-> 1]
        \o [n \in 1 .. cfg.num_stop_bits |-> IF good THEN 1 ELSE 0]

PeerSends ==
  /\ ~ sua.aborted /\ wire = <<>> /\ left > 0
  /\ left' = left - 1
  /\ \E c \in {0, 2^sua.cfg.num_data_bits - 1}, good \in BOOLEAN :
       /\ wire' = Framed(sua.cfg, c, good)
       /\ heard' = IF sua.running /\ sua.bit_count = 0
                   THEN Append(heard, c * 2^(8 - sua.cfg.num_data_bits))
                   ELSE heard
       /\ spoiled' = (spoiled \/ (sua.running /\ sua.bit_count # 0))
  /\ UNCHANGED <<sua, out, changes>>

\* osmo_soft_uart_rx_ubits, a bit at a time.
RxBit ==
  /\ wire # <<>>
  /\ Does(osmo_uart_rx_bit(sua, Head(wire)))
  /\ wire' = Tail(wire)
  /\ UNCHANGED <<heard, left, changes, spoiled>>

\* The line is idle.
IdleBit ==
  /\ wire = <<>> /\ sua.bit_count # 0
  /\ Does(osmo_uart_rx_bit(sua, 1))
  /\ UNCHANGED <<wire, heard, left, changes, spoiled>>

suart_rx_timer_cb ==
  /\ sua.timer
  /\ Does(suart_flush_rx([sua EXCEPT !.timer = FALSE]))
  /\ UNCHANGED <<wire, heard, left, changes, spoiled>>

Configure ==
  /\ changes > 0 /\ changes' = changes - 1
  /\ \E cfg \in Configs \ {sua.cfg} : Does(osmo_soft_uart_configure(sua, cfg))
  /\ spoiled' = (spoiled \/ wire # <<>> \/ sua.bit_count # 0)
  /\ UNCHANGED <<wire, heard, left>>

Enable ==
  /\ changes > 0 /\ changes' = changes - 1
  /\ \E rx \in BOOLEAN : Does(osmo_soft_uart_enable(sua, rx))
  /\ spoiled' = (spoiled \/ wire # <<>> \/ sua.bit_count # 0)
  /\ UNCHANGED <<wire, heard, left>>

UartNext ==
  PeerSends \/ RxBit \/ IdleBit \/ suart_rx_timer_cb \/ Configure \/ Enable

\* Bits keep coming while the channel is up, and a running timer expires.
UartFairness ==
  WF_uartVars(RxBit) /\ WF_uartVars(IdleBit) /\ WF_uartVars(suart_rx_timer_cb)

UartSpec == UartInit /\ [][UartNext]_uartVars /\ UartFairness

-----------------------------------------------------------------------------

Octets(chars) == [n \in DOMAIN chars |-> chars[n].ch]

\* Every character that went by while the receiver was ready reaches the
\* call-back, in order and once, however timer, errors, full buffers and
\* changes of the configuration between two characters cut the stream.
CharsDelivered ==
  ~ spoiled /\ ~ sua.aborted /\ wire = <<>> =>
    FlattenSeq([n \in DOMAIN out |-> Octets(out[n].chars)]) \o Octets(sua.msg)
      = heard

\* A message of at least two characters that is as large as the
\* configuration says has room for the next one: only a size of one, or a
\* size raised while the old message is in use, aborts the process.
RoomForNext ==
  2 <= sua.cfg.rx_buf_size /\ sua.cfg.rx_buf_size <= sua.size =>
    ~ sua.aborted /\ Len(sua.msg) < sua.size

\* soft_uart.h: an error flag is "related to last byte received".  With one
\* stop bit the flags that the call-back gets with characters are those of
\* the last of them, never of a character that is still coming in, whatever
\* else is configured in its course.
FlagsOfLast ==
  \A n \in DOMAIN out :
    out[n].stops <= 1 /\ out[n].chars # <<>> /\ out[n].flags # 0 =>
      out[n].chars[Len(out[n].chars)].bad

\* soft_uart.h: the UART "will flush receive buffer via the receive call-
\* back after indicated number of milli-seconds even if it is not full".
BufferFlushed == sua.msg # <<>> ~> (sua.msg = <<>> \/ sua.aborted)

\* Whatever happened in the middle of a character, a running receiver waits
\* for a start bit again.
Resynchronises ==
  sua.bit_count # 0 ~> (sua.bit_count = 0 \/ ~ sua.running \/ sua.aborted)
=============================================================================
