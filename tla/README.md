# A TLA+ model of `ras`

`ras` is a set of remote access servers that the Yate telephony engine starts
as external modules: each process gets the samples of one ISDN B channel on
file descriptors 3 and 4 and turns them into a data connection.  The largest
part of the program's own logic is the X.75 (LAPB) stack in `src/x75/`, ported
from the Linux LAPB driver, and the process around it, `yate_x75.c`, which joins
an X.75 link to a TCP socket.  Beside it there are processes for PPP over HDLC,
for text telephones (TTY/TDD) and for V.110.  This project models the stack and
these processes, checks them with TLC, and proves with TLAPS, for every size,
window and limit, what holds of a single X.75 station, of two stations joined by
a line that loses frames, of the process around a station, of the frame codec and
of the smaller components.

Paths below are relative to the repository's `src/` directory.

## Inventory

| Component | State | Operations | Interacts with |
|---|---|---|---|
| X.75 receive state machines, `x75/x75_in.c` | `state` 0 to 4, `vs`, `vr`, `va`, `condition`, `n2count` | `x75_data_input`: decode, the machine of the current state, then always `x75_kick` | the peer's frames; calls every other X.75 file |
| X.75 transmit side, `x75/x75_out.c` | `write_queue`, `ack_queue` and their counters | `x75_kick`, `x75_establish_data_link`, `x75_check_iframes_acked`, responses | the driver's `data_transmit` callback |
| X.75 queues and codec, `x75/x75_subr.c` | the same queues | clear, requeue, acknowledge, validate N(R), decode, encode S, U and FRMR frames | |
| X.75 timers, `x75/x75_timer.c` | T1 and T2: pending, callback, `*_running` | start, stop, expiry | libosmocore timers, run by the main loop |
| X.75 service interface, `x75/x75_iface.c` | the control block as a whole | register, connect, disconnect and data requests; callbacks upwards | `yate_x75.c` |
| TCP bridge, `yate_x75.c` | `state`, TCP descriptor flags, timers of the shutdown | callbacks of X.75, of the HDLC codec, of the socket; main loop | X.75 service, HDLC codec (libosmocore), `telnet.c`, Yate |
| Yate samples, `yate.c`, `a2s.h` | the inverse A-law table | samples to octets and back, around `handle_sample_buffer` | Yate |
| Yate messages, `yate_message.c` | line buffer, the numbers of the call | read, cut into lines and fields, answer, `call_initialize` | Yate, the process |
| PPP process, `yate_hdlc_ppp.c` | HDLC transmit queue and the packet being sent, pid of pppd, pass counter | packets from pppd to the line, frames from the line to pppd, watch over pppd | pppd, HDLC codec |
| PPP framing, `ppp/pppd.c`, `ppp/pty.c` | RFC 1662 decoder (fill, escape) | encode, decode, the read loop, start pppd | pppd, through a pseudo terminal |
| TTY process, `yate_tty.c`, `ttytdd/minimodem.c` | descriptors, `tcp_disconnected`, exit timer | text from TCP to minimodem, samples to and from minimodem, text to TCP | two minimodem processes, through pipes; `telnet.c` |
| soft UART, `v110/soft_uart.c` | bit counter, shift register, message, flags, timer | receive a bit, flush, configure, enable | the receive call-back |
| V.110, `yate_v110.c` | RLP assembly buffer | sub-frames in, RLP frames out | libosmocore |
| fax test, `fax_test.c` | sync position, block, mode | D bits in, blocks to T.4 out | spandsp, through `fax_decode.c` |
| GSMTAP, offline tools | none | tracing, decoding of a file | |

Each process has one thread: `osmo_select_main` runs callbacks to completion.
What is hard is therefore not shared memory but order.  Frames, the two timers,
requests from TCP and the peer's own timers interleave freely; frames are lost
(the HDLC decoder drops what has a bad checksum); T1 may expire while the answer
is on its way; the two ends set up and release the link at the same time; and
the counters of a control block outlive the connection they were counted in.
A read may end at any octet, so every parser carries its state from one read to
the next; and a write to a pipe or a socket blocks the whole process, while the
process at its other end may be waiting for this one.

What makes the parts correct:

- *Receive and transmit side*: at most a window of I frames is unacknowledged;
  frames leave the queues by acknowledgement or release only; a busy peer gets
  nothing; two ends never disagree about an N(R); payloads arrive in order,
  once, without gap.
- *Queues*: the counters and the lists agree well enough that no frame is
  stranded and none is taken from an empty list.
- *Timers*: every state that waits is supervised by T1 and ends.
- *Service interface*: the layer above always knows whether there is a link.
- *Codec*: every frame sent is read as sent; every octet string is read as some
  frame of the protocol or refused.
- *Bridge*: TCP is read while the link takes data and no longer; a process whose
  call or connection ended exits.
- *PPP*: the line gets the packets of pppd, once, in order and unchanged, however
  the octets were cut; the read loop ends; the end of pppd is noticed.
- *Messages*: lines and call parameters do not depend on how the text was cut;
  an overflow costs the line that is too long.
- *TTY*: no text is lost; the process comes back from its writes.
- *UART*: characters are delivered once, in time, and the buffer is never
  overrun; a change of format does not put the receiver out of step for ever.
- *Conversions*: A-law is lossless both ways, the FCS is what the receiver
  expects, each bit of a V.110 frame is used once.

`PROJECT.json` lists every component, and under "hazards" each place where one
of these could fail in a way a test would hardly reach.

## Modules

| Module | Models | Kind |
|---|---|---|
| `X75Station` | `struct x75_cb` and all functions of the five X.75 files on it | constant level: operators from control block to control block |
| `X75` | one station with an arbitrary peer and an arbitrary layer above | specification, safety, liveness |
| `X75Link` | two stations that run this code, joined by lossy FIFO channels | composition; implements `X75Service` |
| `X75Service` | what a link layer promises its users | abstract specification |
| `X75Codec` | the octets of frames: both encoders, `x75_decode` | specification of one frame at a time |
| `YateX75` | the process `yate_x75`: main loop, TCP bridge, flow control, shutdown; `telnet_init` | composition of the bridge with one station; implements `X75` |
| `Rfc1662` | the framing of `ppp/pppd.c` | constant level |
| `YateHdlcPpp` | the process `yate_hdlc_ppp`, with pppd and the HDLC encoder as environment | specification, safety, liveness |
| `SoftUart` | the receiver of `v110/soft_uart.c` | specification, safety, liveness |
| `YateMessage` | `yate_message.c` | actions, used by `YateTty` |
| `YateTty` | the process `yate_tty` with both minimodems and the TCP peer | composition with `YateMessage` |
| `Codecs` | A-law, FCS | specification of one conversion at a time |
| `V110` | the bits of a V.110 frame, the assembly of RLP frames | specification, one V.110 frame per step |
| `FaxTest` | the synchroniser of `fax_test.c` | specification, one D bit per step |
| `X75Station_proofs`, `Flattening_proofs` | lemmas about the functions of `X75Station`, about `FlattenSeq` | TLAPS |
| `X75_proofs`, `X75Link_proofs`, `YateX75_proofs`, `Codecs_proofs`, `YateHdlcPpp_proofs`, `YateTty_proofs` | the theorems; `Codecs_proofs` is about `X75Codec`, `V110`, `FaxTest` and `SoftUart`, `YateTty_proofs` about `YateMessage`, too | TLAPS |
| `MC_X75`, `MC_X75Link`, `MC_Codecs`, `MC_YateX75`, `MC_YateHdlcPpp`, `MC_SoftUart`, `MC_YateTty` | values of constants for TLC | |

### X75Station

A control block is a record with the fields of `struct x75_cb`.  The mode is
split into the constants `Extended` and `Modulus` and the field `dce`.  A timer
is three fields: pending in libosmocore, the callback `osmo_timer_setup` stored,
and the code's own `t1timer_running` or `t2timer_running`.  Keeping the three
apart matters, because `x75_start_t2timer` stores its callback in **T1**
(`x75/x75_timer.c:31`) and leaves T2's NULL.  A queue is a sequence of payloads
and the code's counter, again kept apart, because `x75_clear_queues` empties
the lists only.

Each C function is an operator of the same name.  A handler is their
composition in the order of the code, its trailing `x75_kick` included.  Loops
are in closed form:

- `x75_validate_nr` walks from V(A) to V(S): N(R) is valid iff it is no farther
  from V(A) than V(S) is (`Dist`).
- `x75_frames_acked` walks from V(A) to N(R) while the counter is positive.  The
  counter is decremented only when a frame was dequeued, so a counter above the
  length of the list lets V(A) run on to N(R).
- `x75_kick` sends from `start` to `end = va + window`, where `start` is V(A)
  when the ack counter is 0 and V(S) otherwise; it sends the smaller of what is
  queued and what the window leaves.  It dequeues first and tests later: with a
  positive counter and an empty list it dereferences NULL, which sets `crashed`.

Three fields are not in the code.  `up` is what the last callback or return code
told the layer above.  `out` and `rx` collect what one handler sent and
delivered, until the enclosing specification takes them (`Flush`).

Abstracted: payload contents (model values), the information field of FRMR
(nobody reads it; `X75Codec` has its octets), logging, memory allocation.

### X75

One variable, the control block.  `Receive(f)` takes any frame that `x75_decode`
can produce (`PeerFrame`), so the peer need not run this code or any protocol.
The fields that no state machine reads are fixed.  An address of neither side
leaves `cr` uninitialised in the code; both values are in the set.
`T1Fires`, `T2Fires`, `ConnectRequest`, `DisconnectRequest` and `DataRequest`
are the other entry points.  A crashed process does nothing more.

### X75Link

Two control blocks, a DCE and a DTE.  A handler appends what it sent to the
channel of the other side.  `Lose` drops the oldest frame of a channel; HDLC on
a B channel neither duplicates nor reorders.  Payloads are numbered 1, 2, 3, ...
per side so that order, gaps and duplicates can be seen.  `broken` records that
a layer above has been told of a disconnection.

`Loads` has the amounts of work: how many payloads each side hands over, how many
frames are lost, and `patient`, whether T1 outlasts the exchange it waits for.
TRUE lets it expire only when both channels are empty, as its default of 5 s
suggests for a B channel that carries a 128 octet frame in 16 ms; FALSE lets it
expire at any time.

`X75Service` knows no frames and no timers: payloads arrive in order and once, and
an end forgets one only when it has arrived, until a disconnection is reported.
The mapping takes `sent`, `got` and `broken` as they are, and what an end has
forgotten is what it was handed minus what its two queues hold.

### X75Codec

One frame at a time goes from one side to the other: an I frame, an S or U frame
or an FRMR that the code encodes, or noise that passed the checksum.  Here
sequence numbers have their real range, 0 to 7 or 0 to 127, and the initial
states are the four modes (standard or extended, single or multi link) with
either side as sender.

### YateX75

One control block and the variables of `yate_x75.c`: `state`, the pointer
`telnet_ofd` and its read flag, and the two shutdown timers.  A pass of the main
loop is a call of `osmo_select_main`, which runs the timers that are due and then
the callbacks of the ready descriptors in the order of their registration
(standard input, samples, TCP), and the code after the call.  Each callback is
an action, `LoopTail` is the code after the call, and `at` keeps their order.
Several callbacks can run in one pass, and one buffer of samples can complete
several frames.

`Handle` takes what a handler of the stack left and sets `state` the way the
registered callbacks do.  `handle_sample_buffer(f)` takes any frame of `X75!PeerFrame`.
Samples, messages and timers may come before the call: `LoopTail` then uses
`telnet_ofd` while it is NULL and the process is "crashed".  The TCP server is
external: it sends blocks and closes or resets the connection, or only its sending
half, at any time; a write to a closed connection may raise SIGPIPE.

`yate_x75_data_indication` writes what the peer sent to TCP (`yate_x75.c:214`), and
the socket is a blocking one (`telnet.c:18`).  A write may therefore find the send
buffer full: the process is then "writing", no callback and no end of a pass
happens, while time passes and the server may close.  `WriteReturns` ends it, or
SIGPIPE does; nothing makes either happen, because the server need not read.  The
handler's effects are those of the whole handler although it is cut by the wait:
nothing else of the process runs in between that could see the difference.  Time is counted for the shutdown
timers only, in ticks; T1 and T2 expire whenever they are pending.  Yate is
assumed to send one `call.execute` to a process, as it starts one per call.

### YateHdlcPpp and Rfc1662

`at` is where the process is: at the top of the main loop, behind one of the
callbacks of a pass (in the order of registration), in the read loop of
`pppd_input_cb`, or in the transmit loop of `handle_sample_buffer`.  One octet of
`pppd_rfc1662_decode` is one step, and so is one call of `osmo_isdnhdlc_encode`,
which may fill any number of samples and take any beginning of the packet.
pppd sends packets with or without the flag between two of them, and exits at
any time; a read returns any beginning of what is there.  `start_pppd` has three
outcomes, because `main` goes on after each: a pid, 0, and -1.

The decoder reports the *index* of the octet it stopped at, so that octet is
decoded again: a closing flag is then taken for an opening one, which does no
harm.  But the loop ends by comparing with the last index, and a read of one
octet is not decoded at all.  `skipped` records that, and the properties promise
nothing behind it: a lost flag merges two frames.

### SoftUart

The record `sua` is `struct osmo_soft_uart`, as far as the receiver goes, with
`size` for the room that the current message was allocated with, and `aborted`
for the abort in `msgb_put_u8`.  A peer sends characters in the format configured
when it begins; `Configure` and `Enable` may come at any bit.  `bad`, `stops` (the
most stop bits configured in the course of the character), `heard` and `spoiled`
are history.  The value of the framing flag is either of two: the header
beside the code numbers the flags from 0, the library's, which the code includes,
need not.

### YateMessage and YateTty

Text is a sequence of pieces: the marks `:` and the end of line, the keys the code
looks for, and others.  The reader is translated octet by octet; the reference in
`CallsAsSent` is stated over the whole text by positions.

`YateTty` adds the pipes and the socket, each with room for so many units.  The
process is in a callback while it has something left to write (`writing`); all
writes block, and only minimodem's samples are read without blocking, as
`minimodem_run_tty_tx` arranges it.  The two minimodems are external: the sender
takes text when the sound of the text before is written, the receiver goes on
when what it decoded is written.

### Codecs, V110 and FaxTest

Conversions against what they are for; a behaviour of the run is about one of
them.  A-law is checked for every octet; `s2a` is in closed form: the code fills its
table by walking up the codes, and `Opens` is where each code begins.  A packet grows
an octet at a time, up to four of five octets.  `frame_bits_cb` keeps the quarters of
an RLP frame and sends it with the last one; the synchroniser (`Miss`) may miss any
of the V.110 frames of three RLP frames (in `V110`, which has no bitwise operators, so
that it can be proved about).  `v110_bits_cb` of `fax_test.c` takes every
sequence of up to twelve bits with a word of three.

## Runs

All bounds are constants and named in the module that uses them.

| Run | States | Shows |
|---|---|---|
| `x75` | 63 thousand | One station with an arbitrary peer: the invariants, the action properties, and that every wait for an answer ends. |
| `x75_crash` | violation | `NoCrash`: finding 1. |
| `link_safety` | 434 thousand | Two stations: two payloads each way and three losses with a patient T1, one payload each way and one loss with an impatient one.  The pair implements `X75Service`: in order, no gap, no duplicate, nothing forgotten that was not delivered.  No frame reject (patient). |
| `link_live` | 1.7 thousand | The link comes up by itself or is given up, and one-way data is delivered or the disconnection reported, with three lost frames. |
| `link_order` | violation | `NoGap` with more than a window of data: finding 2. |
| `link_stall` | violation | `NoSilentStall` with data both ways: finding 3. |
| `codec` | 673 thousand | X.75 frames in the four modes; A-law, FCS, V.110, RLP and fax conversions. |
| `bridge` | 38 thousand | The process `yate_x75`: a link that is up is served, the station is used as `X75` allows, TCP is read while the link takes data, the end of TCP ends the process, unless a write to TCP never returns. |
| `bridge_lostdata` | violation | `NoLostData`: finding 4. |
| `ppp` | 161 thousand | `yate_hdlc_ppp`: packets forwarded, the read loop ends, packets leave, the end of pppd ends the call. |
| `uart` | 771 thousand | The soft UART with errors, timer, and reconfiguration at any bit. |
| `tty` | 122 thousand | `yate_tty` with its message reader: lines, calls, text, blocking writes, exit. |

**Why the bounds are enough.**  The code's arithmetic is uniform in the modulus:
it only adds and compares modulo it.  Modulus 4 with window 2 has numbers
outside the window on both sides (so that N(R) can be invalid, equal to V(A),
between, or equal to V(S)) and wraps after four frames.  `MaxQueue = 3` holds a
full window outstanding and a frame waiting.  A DCE goes through everything a DTE
does, after some DMs, and the extended mode of `X75` only exchanges the roles of
SABM and SABME.  In `X75` all payloads are the
same value: its properties count them.  `N2 = 1` or 2 has a first try, a retry
and a give-up.  The theorems remove these bounds for the invariants of one
station and of the link.  In `X75Link`, `MaxChan` is chosen so that a handler is never kept from
running for lack of room for long enough to hide a behaviour: an I-frame burst,
a response and a retransmission fit.  In `YateX75` the station is as small as it
can be (modulus 2, window 1), because its properties are about the bridge;
`MaxWriteQueue = 0` with one block lets a busy peer or a retransmission close the
flow control, and 1 and 2 ticks keep the order of the two shutdown timers.

In `link_live` three losses with `N2 = 2` are enough to lose every answer to a
set-up, or an I frame together with the REJ for it.  In `ppp` one packet and the
FCS have octets that are escaped, two packets fit back to back, the larger of
them fills the buffer of four octets to the last one, and two calls of the encoder fill a
sample buffer.  In `uart` three characters are one more than the smaller of the
buffers hold; a counter that wraps at 8 is longer than every format, as 256 is.
In `tty` every channel has room for one unit, so that each can be full; the line
buffer is one longer than a call and shorter than one of the lines; a read takes
any part of up to 20 pieces.

**Deadlock.**  All runs say `CHECK_DEADLOCK FALSE`: a process that crashed or ended
has stopped, a link that has delivered everything is idle, a conversion is done.
Where a process can wait for ever is stated as liveness.

**Fairness.**  The main loop calls `osmo_select_main` for ever, which runs every
expired timer and every readable descriptor.  Hence weak fairness of `T1Fires`
and `T2Fires` in `X75`, and of `Receive`, `T1Fires`, `T2Fires` and of `Submit`
(the socket is readable and the station takes data) in `X75Link`.  Nothing is
assumed of the peer and the layer above in `X75`, and nothing of losses.  In
`YateX75` the loop comes round (`LoopTail`), time passes (`Tick`), due shutdown
timers run and a readable socket is served; T1, T2, the peer and Yate need not
act, and the server need not even read: `WriteReturns` is not fair.  A blocking
write that returns interrupts a pass, so the end of a pass and the callback of the
socket need strong fairness: a buffer of samples holds finitely many frames, hence
a pass with writes that return comes to its end, and a descriptor that was found
readable is called in that pass.  With weak fairness of either, TLC finds the
behaviour that writes, returns and writes again for ever.  Time and the shutdown
timers need weak fairness only, since timers run before any write of a pass.

The samples that every process sends to Yate go out with a blocking write, too
(`yate.c:128`), to FD 4, and messages to standard output.  All liveness takes for
granted that Yate reads both; a Yate that does not stops any of the three
processes.  `X75Link` takes for granted that `yate_x75_data_indication` returns, that
is that the TCP servers of both ends read.  The pseudo terminal of
`yate_hdlc_ppp` is non-blocking (`ppp/pppd.c:240`), so pppd need not read.

In `YateHdlcPpp` the process runs on (weak fairness of `LoopTop`, `DecodeStep` and
of the transmit loop); Yate delivers samples every 20 ms for the length of the
call and a readable pseudo terminal is read (strong fairness, because each is
ready in some passes only); the encoder, called again and again, takes the octets
it is offered at last.  pppd need not do anything.  In `SoftUart` bits keep coming
while the channel is up, and a running timer expires.  In `YateTty` the process
and the minimodems run; `osmo_select_main` serves every ready descriptor, so the
connection and the timer are served in spite of others (strong fairness of
`Serving`).  Of Yate only the reading of FD 4 and standard output is asked,
of the TCP peer nothing.

**Properties.**

- `QueueCountsCover`: the counters never claim less than the lists hold.  They
  may claim more (finding 1); if they claimed less, `x75_kick` would leave
  frames in the list for ever.
- `WindowRespected`: V(S) - V(A) is at most the window, whatever an arbitrary
  peer acknowledges or rejects.
- `AwaitingSupervised`: states 1, 2 and 4 have T1 pending with its own callback.
  It is not obvious: every start of T2 replaces T1's callback, and is harmless
  only because no state that starts T2 waits for an answer to anything but
  I frames.  For state 3 the property is false (finding 3).
- `UpperLayerInformed`: states 3 and 4 were reported, and so was leaving them.
- `NoSilentLoss`: resets, rejects and retries drop nothing.
- `PeerBusyHolds`: nothing is sent between RNR and the RR or REJ that ends it.
- `WaitsForPeer`: in data transfer frames wait in the queue only for the peer, that
  is while it is busy or a full window is outstanding.
- `WaitsEnd`: T1 gives up after N2 retries.
- `NoFrameReject`: the ends never disagree about an N(R).
- `IsService`: `X75Link` implements `X75Service`, step by step.  It implies `NoGap`,
  the part of it that finding 2 is about.  The run's loads are a window each way or
  less; beyond a window neither is true.
- `EventuallyEstablished`, `NoSilentStall`: progress of the link.
- `RoundTrip`, `DecodesWithinModulus`: the codec.
- `ServedOrClosing`: `state` is assigned by four callbacks and the loop, and the
  last one wins; still a link that is up is bridged, or the exit is scheduled.
- `UsesX75`: `YateX75` implements `X75`; with `x75` as the mapping every step of
  the process is a step of the station or none.  The theorems about `X75` are
  therefore about the process.
- `TcpServed`, `EndOfTcpExits`: progress of the bridge.  Both have one exception,
  `<>[]PeerJam`: a write to TCP that never returns, because the server does not
  read.  After it nothing happens any more: not even the force-exit timer ends the
  process, if the server has shut down its sending half and does not read on the
  other.  A write that returns late is no exception.  The second
  has another one: a peer that sets up the link again makes the process read the
  end of TCP again and schedule the exit anew.
- `FramesForwarded`: `yate_hdlc_ppp` neither loses, doubles, cuts nor reorders a
  packet, and leaves none behind in the decoder when everything is read.
- `ReadLoopEnds`, `PppdExitEndsCall`, `PacketsLeave`: its progress.  The second is
  about a pppd that was started and exited.  After a failed fork `pppd` is -1
  (see `start_pppd`): there is no child whose exit could be promised to be noticed,
  and the process runs on; the property says nothing about it.
- `CharsDelivered`: the stream of characters survives timer, errors, full buffers
  and reconfiguration between characters.  `RoomForNext`: `msgb_put_u8` aborts only
  with a size of one or a size raised while the old message is in use.
- `FlagsOfLast`: flags belong to the last character of the message, if no more than
  one stop bit was configured in the course of the character that is coming in.
  With two, the timer can fire between the stop bits and report the error of a
  character that has not arrived; nor does it help to configure one stop bit then.
- `BufferFlushed`, `Resynchronises`: progress of the UART.  The second rests on the
  wrap of the eight-bit counter: a format that got shorter in the middle of a
  character leaves the counter past every case.
- `LinesWhole`: the line buffer holds the current line from its beginning, unless
  an octet of this very line was dropped by an overflow.
- `CallsAsSent`: which calls are set up and with which numbers, over the whole text.
- `TextKept`: every octet between TCP and minimodem is accounted for.
- `LoopReturns`, `ClosedEnds`: a callback returns, and the end of TCP ends the
  process, unless it is in one of three waits.  `TextJam` and `SoundJam` are
  deadlocks with a minimodem, `PeerJam` is a TCP peer that does not read.  That
  there are no more rests on Yate, which is taken to read the samples on FD 4 and
  the messages on standard output.
- `Lossless`, `FcsAccepted`, `EveryBitOnce`, `OnlyMissedAreOld`, `BlocksAligned`: the
  conversions.

Each has a mutant of the code in `PROJECT.json` that breaks it; the operators
are marked `Mutant:` in the modules, before the definition they replace.

## Findings

1. **Dequeue from an empty list** (`x75/x75_out.c:64`).  `x75_clear_queues`
   empties the lists and keeps the counters.  After a release with frames
   waiting, `x75_kick` finds a positive count and copies a NULL frame.
2. **Reordering** (`x75/x75_subr.c:56`).  Frames to be retransmitted go behind
   those still waiting.  One loss with more than a window of data reorders the
   stream under correct sequence numbers.
3. **T1 disarmed by T2** (`x75/x75_timer.c:31`).  An I frame received while own
   I frames are outstanding turns T1 into an expiry that does nothing.  If the
   acknowledgement is lost, nothing is retransmitted or reported.
4. **Data lost at the end of TCP** (`yate_x75.c:312`).  Three seconds after the
   end of TCP the process releases the link, and the release clears both queues.
   What a busy peer has not taken, or what was lost on the line (T1 needs five
   seconds), is dropped; the README promises "No lost data at TCP RST".

Further observations, which no run singles out:

- A SABM in state 4 restarts numbering without the `x75_requeue_frames` that state 3
  has at the same place (`x75/x75_in.c:466`): the ack queue then holds frames that
  no number from V(A) to V(S) stands for.
- After a reconnection the surviving `ack_queue_count` makes `x75_kick` number a
  retransmission from V(S) instead of V(A): a new N(S), delivered a second time.
  This is why `X75Service` promises nothing once the link was down.
- With N2 + 1 lost UAs one side gives up set-up and is told; the other stays in data
  transfer with nobody, and nothing polls.
- A busy peer whose RR is lost is never polled when nothing is outstanding.
- In `yate_tty`, more text than minimodem's pipes hold deadlocks process and
  minimodem (`TextJam`); so does text decoded before the call, or while `telnet_ofd`
  is NULL (`SoundJam`).
- A `call.execute` that lacks a number is set up with the one an earlier message had.
- `pppd_input_cb` drops a read of a single octet.
- `pppd_tx_buf` has `MAX_MTU` octets for a packet that escaping can double
  (`ppp/pppd.c:200`), and a packet of one octet is traced with the second octet of
  the packet before (`yate_hdlc_ppp.c:46`).
- A read of an odd number of octets of samples shifts every later sample by half
  (`yate.c:113`), and at the end of the samples the loop spins (`yate.c:110`).
- `yate_message_parse_parameters` lets `memchr` look one octet too far per colon; no
  field can begin there.
- A second `call.execute` would register the descriptor of `telnet.c` twice.
- With the flags of `v110/soft_uart.h`, numbered from 0, a framing error is never
  reported.  On the first character of a message it only starts the timer.
- The matcher of `fax_test.c` can miss a word that begins inside a failed match.
- `NoFrameReject` is claimed for a patient T1 only.  When T1 gives up early and
  the link is set up again, frames of the old connection still in flight can
  carry an N(R) outside the new window.
- When the single REJ is lost, the REJECT condition discards every
  retransmission (they carry P = 0), and T2, whose callback is NULL, never
  acknowledges: the link times out instead of recovering.
- The `X75_ILLEGAL` cases of the state machines are unreachable:
  `DecodesWithinModulus`.
- `x75_can_write` refuses when the count is *greater* than the "maximum number of
  packets waiting" of `config.h`: the write queue holds one block more, and
  retransmitted frames on top of it.
- Until the call message has arrived, any event makes the main loop use a NULL
  `telnet_ofd`.

## Proofs

Every theorem holds for all values of the constants that the `ASSUME`s of its
modules allow; each is a property that a run checks on a small instance, except
`PackBufferKept`, `EachPacketOnce` and `NothingMissing`, the property of which a run
refutes where the theorem's hypothesis fails.

| Module | Theorem | States |
|---|---|---|
| `X75_proofs` | `TypeCorrect` | `TypeOK` |
| | `CountsCover` | `QueueCountsCover` |
| | `WindowKept` | `WindowRespected` |
| | `WaitsSupervised` | `AwaitingSupervised` |
| | `LayerAboveInformed` | `UpperLayerInformed` |
| | `DataWaitsForPeer` | `WaitsForPeer` |
| | `NothingLost` | `NoSilentLoss`, an action property |
| | `BusyPeerSpared` | `PeerBusyHolds`, an action property |
| `X75Link_proofs` | `NeverFrameReject` | `NoFrameReject` |
| | `LinkIsService` | `IsService`, a refinement, for loads within a window |
| | `NothingMissing` | `NoGap`, for loads within a window |
| `YateX75_proofs` | `TypeCorrect` | `TypeOK` |
| | `LinkServedOrClosing` | `ServedOrClosing` |
| | `ImplementsX75` | `UsesX75`, a refinement |
| `Codecs_proofs` | `ReadAsMeant` | `RoundTrip` |
| | `AcceptedLegal` | `DecodesWithinModulus` |
| | `OldExactlyIfMissed` | `OnlyMissedAreOld` |
| | `BlocksOnGrid` | `BlocksAligned` |
| | `RoomAlways` | `RoomForNext` |
| | `FlagsBelong` | `FlagsOfLast` |
| | `CharsArrive` | `CharsDelivered` |
| `YateTty_proofs` | `TypeCorrect` | `TypeOK` |
| | `LinesKeptWhole` | `LinesWhole` |
| | `NoTextLost` | `TextKept` |
| | `CallsArrive` | `CallsAsSent` |
| `YateHdlcPpp_proofs` | `PackBufferKept` | the deframer holds no more than its buffer has room for |
| | `EachPacketOnce` | a step appends the packet it deframed to what is forwarded, or forwards the same packets as before; an action property |
| | `PacketsForwarded` | `FramesForwarded` |

**Assumptions.**  For the station: a modulus above 1, a window from 1 to
modulus - 1, an N2 of at least 1 (what `x75_setparms` enforces), either mode, either
side, any payloads, any bound on the queues.  For the link: any loads, any number of
losses, any bound on the channels; `LinkIsService` and `NothingMissing` have the
hypothesis `InWindow`, that no side hands over more than a window of payloads.  That
is a limit of the code and not of the proof: with one payload more, `link_order` shows
the gap (finding 2).  For `yate_x75`: any flow-control limit,
and a release that comes before the exit, as 3 and 10 seconds do.  For the codec: any set of
payloads, any foreign octets.  For the fax synchroniser: any word that is not empty
and a training pattern as long as the word.  For the UART: characters shorter than
its counter.  For `yate_tty` and its messages: sizes of at least 1, a line buffer of
at least 2, and any text.  For PPP: packets that fit the buffer with their FCS.

**One station.**  The inductive invariant is
`Inv(s) == Core(s) /\ Supervised(s) /\ Informed(s)`, a predicate of a control block
rather than of the variable, so that it can be carried through the functions a
handler is composed of:

- `Core`: the types, the counters cover the lists, and the window.  The three
  need one another: the burst of `x75_kick` stays in the window only because of
  how `start` depends on the ack counter, and the counters stay natural numbers
  only because they cover the lists.
- `Supervised` adds to `AwaitingSupervised` that a pending T1 is flagged as
  running.  Without it an expiry in a state that waits could be ignored
  (`x75_t1timer_expiry` returns early) and leave the state without a timer.
- `Informed` is `UpperLayerInformed`.

`Keeps(s, q)` says that a function that leaves the state alone and reports
nothing preserves `Core` and `Supervised`.  There is a lemma per function, a
lemma per state machine and per entry point, and `NextInv` joins them.  The
arithmetic is in `PlusDist`, `DistAdvance` and `WithinWindow`.

What a handler does to the queues is a relation between the control block before
and after (the second half of `X75Station_proofs`).  The state machines at most shorten the ack queue, by
what V(A) advances, or put frames back (`Unsent`); the `x75_kick` behind them is the
only thing that fills the ack queue, never for a busy peer, and it leaves the write
queue empty or the window full (`KickEffect`).  Both together are `Handled`, and the
three properties of the queues follow.  `WaitsForPeer` needs `Inv`: that the burst
ends at the window and not before rests on the counters.

**The link.**  `NeverFrameReject` rests on `Link`, an invariant of both stations and
both channels, stated once for a station as sender and its peer as receiver and used
in both directions.  The link is in one of three phases: nobody is connected
(`Calm`), one side has asked and its SABM or the answer to it may be on the way
(`Asked`), or the UA is on its way and everything behind it already counts from 0
(`Granted`).  While both transfer data, `Fits` is the argument for go-back-N: V(A) of
the sender, V(R) of the receiver and V(S) of the sender follow each other within a
window; the N(R) on the way back lie between the first two and never decrease
(`AcksFit`); an I frame on its way is at most a window behind what was sent before
it (`IFramesFit`).  The last part is needed because retransmission sends old numbers
again: without it a late duplicate could look like the next frame.  There is a
lemma for what each handler sends (`Moves`), from the lemmas about one station, and one
for each way in which the phase changes.

Neither `Fits` nor any other statement about numbers gives `IsService`, because the
code can put the wrong payload under the right number (finding 2).
Within a window it cannot: no number wraps, `x75_kick` leaves nothing waiting when a
handler ends (`Settled`), a burst sends again exactly what is not acknowledged, and so
payload k always travels as I frame k - 1 (`Counted`).  V(R) is then the number of
payloads delivered and V(A) the number forgotten (`Half`), which is the mapping.  No
patience of T1 is needed for this.

**The process.**  `ImplementsX75` goes step by step: a callback of the stack is the
station's step with the bridge's own copy of what the layer above was told, a data
request is within `MaxQueue` because the blocks that the counters count and those
still in TCP are together at most `MaxTcp`, and every other step leaves the station
alone.  `ServedOrClosing` looks at the end of a pass; `Served` is what holds between
two callbacks of a pass: the link is bridged, or the exit is scheduled, or the end of
TCP has been read and `LoopTail` will see it.  It is kept because a handler that
leaves the link up has reported it, or found it up and reported nothing (`Agrees`).
It holds in a write that waits, too (`Alive`), so that the pass can go on after it.

**The codec.**  `OnTheWire` says that the octets carry what was meant already before
anybody decodes them, in the mode of the sender.  The rest is arithmetic: a lemma for
I frames, S and U frames and FRMR each, and `AcceptedIsLegal` for any octets.

**RLP and fax.**  `Quarters` is `OnlyMissedAreOld` for the buffer as it is, whether or
not a frame goes out now.  `FaxInv` relates the state to all bits so far: the bits
matched of the word are the last that came (`Matched`), the block being filled
lies on the grid of the word found last (`Filled`), the decoder synchronised on the
word itself (`Synchronised`), and the blocks handed on are as promised and lie before
the one being filled (`Delivered`).

**yate_tty.**  The invariant is the types, `LinesWhole`, `TextKept` and `ParsedInv`.  The
work is in the parser: that what it stores are texts needs that the n-th colon of a line
exists, which is proved by counting instead of by induction.

`ParsedInv` relates the parser to the reference of `CallsAsSent`: the buffer is the
last line of the text taken so far, `params` are the values that the reference finds
up to the beginning of that line, and `calls` are the calls it finds in the text so
far.  Two facts carry it.  The fields of a line are the same whether they are found
by the rank of a colon in the line or by counting the colons before a place in the
text; and text that comes later changes nothing about complete lines.  Once a line
is longer than the buffer nothing is claimed any more, as in the property.

**The UART.**  `Roomy` and `Flagged` strengthen the two properties to all
configurations and to the middle of a character.  The attempt showed that
`FlagsOfLast`, as it was stated first (for the configured stop bits at the time of the
call-back), is false in general: a character with two stop bits is flagged after the
first, one stop bit is configured, and the timer fires.  The run had no such pair of
configurations; it has now, and the property speaks of the stop bits configured in the
course of the character.

`Stream` is for `CharsDelivered`.  As long as no call came in the middle of a
character, the receiver is either between two of them, and what it put away is what
was heard, or it is `bit_count` bits into one: the bits still to come are the rest of
the frame, the register holds the data bits so far (`Shifted`), and what was heard is
what it put away and this character (`Coming`).  The timer may then empty the message
at any bit.  That a function loses nothing between message and call-back is `Keeps`,
that it puts one character behind the others `Gains`.  `bit_count` does not wrap, because a
character is shorter than its range.  The powers of two up to 2^8 are tabulated
(`Power`).  The peer sends the characters that the model gives it, all zeros and all
ones, in every format.

**PPP.**  `QueueInv` says that every queued packet is a non-empty sequence and that
nothing is partly sent when no packet is; `Forwarded`, everything that has left, is leaving
or waits, is then untouched by every call of the encoder.  Nothing is assumed about
the octets.

`StreamInv` adds the other half, between pppd and the deframer: what pppd has sent is
what is forwarded and then the packets `r`, which are still in the stream, that is in
the buffer of the read loop and in the pseudo terminal.  `Cut(u, state, r)` says how:
the decoder is between two frames, in one, or behind an escape in one, and the octets
it holds with the octets to come are the next packet and its FCS.  `OneOctet` says
what the decoder makes of the next octet in each case, the flag that it looks at twice
included.  The stream is a `FlattenSeq`, which the library defines by a recursive
function that is chosen; `Flattening_proofs` has the lemmas, for the UART's calls, too.
`FlatAppend` and `FlatCons` are all that is needed of it; they
come from a function that satisfies the recursion and agrees with the chosen one
everywhere.  Where that needs an induction, over places of a sequence, the least
counterexample does (`Least`, `Reaches`): the well-foundedness of the natural numbers
is in the library as a theorem without an operator parameter.

**Only model-checked**, and why:

- `FcsAccepted`: bitwise operators and induction over the packet.
- `Lossless` and `EveryBitOnce` have no parameter: TLC tries every octet and every bit.
- All liveness (`WaitsEnd`, `EventuallyEstablished`, `NoSilentStall`, `TcpServed`,
  `EndOfTcpExits`, `ReadLoopEnds`, `PppdExitEndsCall`, `PacketsLeave`, `BufferFlushed`,
  `Resynchronises`, `LoopReturns`, `ClosedEnds`), which is beyond the prover.

## Not modelled

- `x75_unregister`, `x75_getparms` and `x75_setparms`: nothing in the repository
  calls them, so no state of a program depends on them.
- The transmit half of `handle_sample_buffer` in `yate_x75.c`: the same loop as in
  `yate_hdlc_ppp.c`, which `YateHdlcPpp` has.
- Odd reads, short writes and the end of the samples in `yate.c`, and its conversion
  to floating point: floating point is out of TLC's reach, the rest is reported and
  otherwise ignored by the code.
- Memory: allocations succeed; the leak of `x75_transmit_buffer` is not seen.
- `gsmtap.c`: trace packets, no state.  `ppp/pty.c`, and starting pppd and minimodem:
  one system call after another, modelled by the outcome.
- HDLC, V.110 synchronisation and I.460 of libosmocore, modem signal processing of
  spandsp and minimodem: not part of this repository.
- `fax_decode.c`: a program of spandsp, with the handlers that print what the library
  found.  `file_hdlc_decoder.c`, `test.c`: a library run over a file.
- The transmitter of the soft UART: a stub in the code.

## What could come next

1. A peer that becomes busy in `X75Link`, which this code never does.
2. `NoFrameReject` with an impatient T1: which N(R) of an old connection can survive.
