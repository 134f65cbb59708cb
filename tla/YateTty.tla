------------------------------ MODULE YateTty -------------------------------
(***************************************************************************)
(* The process yate_tty: text between a TCP connection and two minimodem   *)
(* processes, which turn it into sound and back (yate_tty.c,               *)
(* ttytdd/minimodem.c, telnet.c), with Yate's messages as in YateMessage.  *)
(*                                                                         *)
(* Everything between the processes is a pipe or a socket with room for so *)
(* many units: octets of text, or buffers of samples.  write blocks the    *)
(* whole process while there is no room; writing is what it has left to    *)
(* write, and where to.  Only minimodem's samples are read without         *)
(* blocking.                                                               *)
(***************************************************************************)
EXTENDS YateMessage

CONSTANTS
  Room,      \* the room of each channel
  TextSize,  \* sizeof(text_buf)
  Tone,      \* buffers of samples that one octet of text is turned into
  MaxSent,   \* bound: octets of text that the TCP peer sends
  MaxHeard   \* bound: octets of text that the caller sends

Channels == {"tcp_in", "data_in", "sample_out", "sample_in", "data_out", "tcp_out"}

ASSUME TtyAssumption ==
  /\ Room \in [Channels -> Nat \ {0}]
  /\ TextSize \in Nat \ {0} /\ Tone \in Nat \ {0} /\ MaxSent \in Nat /\ MaxHeard \in Nat

VARIABLES
  held,              \* what each channel holds
  writing,           \* the write that the process is in: where to, how much
  telnet,            \* the socket: "none", "up", or "eof" when it is not read;
                     \* ofd: telnet_ofd points to it
  tcp_disconnected,
  force_exit_timer,  \* running
  exited,
  tone,              \* buffers the sending minimodem has yet to write
  peer,              \* octets the TCP peer has sent, and whether it has closed
  ear,               \* octets the receiving minimodem has yet to write
  spoken,            \* history: octets the sending minimodem has taken
  decoded,           \* history: octets the receiving minimodem has heard
  printed            \* history: octets the TCP peer has got

ttyVars ==
  <<held, writing, telnet, tcp_disconnected, force_exit_timer, exited, tone,
    ear, peer, spoken, decoded, printed>>
vars == <<msgVars, ttyVars>>

Writes(channel, n) == [to |-> channel, n |-> n]
Nothing == Writes("data_in", 0)

\* The process is in osmo_select_main and not in a callback.
Waiting == ~ exited /\ chunk = <<>> /\ writing.n = 0

Init ==
  /\ MessageInit
  /\ held = [c \in Channels |-> 0] /\ writing = Nothing
  /\ telnet = [sock |-> "none", ofd |-> FALSE] /\ tcp_disconnected = FALSE
  /\ force_exit_timer = FALSE /\ exited = FALSE /\ tone = 0 /\ ear = 0
  /\ peer = [sent |-> 0, closed |-> FALSE]
  /\ spoken = 0 /\ decoded = 0 /\ printed = 0

-----------------------------------------------------------------------------
(* The callbacks of the process.                                           *)

Reading ==
  /\ Waiting /\ (ReadStdin \/ StdinEnds)
  /\ UNCHANGED ttyVars

Scanning ==
  /\ ~ exited /\ (DropRead \/ TakeOctet)
  /\ UNCHANGED ttyVars

\* call_initialize: telnet_init connects, or the process ends.  When it has
\* connected and TCP_NODELAY is refused, telnet_ofd stays NULL.
call_initialize ==
  /\ \/ /\ telnet' \in [sock : {"up"}, ofd : BOOLEAN]
        /\ UNCHANGED exited
     \/ exited' = TRUE /\ UNCHANGED telnet
  /\ UNCHANGED <<held, writing, tcp_disconnected, force_exit_timer, tone, peer,
                 ear, spoken, decoded, printed>>

Message ==
  /\ ~ exited /\ TakeLine
  /\ IF calls' # calls THEN call_initialize ELSE UNCHANGED ttyVars

\* Mutant: what does not fit into the pipe is forgotten.
TelnetRxDrops ==
  /\ Waiting /\ telnet.sock = "up"
  /\ LET n    == Min({TextSize, held["tcp_in"]})
         fits == Min({n, Room["data_in"] - held["data_in"]})
     IN  /\ n > 0
         /\ held' = [held EXCEPT !["tcp_in"] = @ - n, !["data_in"] = @ + fits]
  /\ UNCHANGED <<msgVars, telnet, tcp_disconnected, force_exit_timer, exited,
                 tone, peer, ear, spoken, decoded, printed, writing>>

telnet_rx_cb ==
  /\ Waiting /\ telnet.sock = "up"
  /\ LET n == Min({TextSize, held["tcp_in"]})
     IN  /\ n > 0
         /\ writing' = Writes("data_in", n)
         /\ held' = [held EXCEPT !["tcp_in"] = @ - n]
  /\ UNCHANGED <<msgVars, telnet, tcp_disconnected, force_exit_timer, exited,
                 tone, peer, ear, spoken, decoded, printed>>

\* read finds the end of the connection, or fails.
telnet_rx_eof ==
  /\ Waiting /\ telnet.sock = "up" /\ peer.closed /\ held["tcp_in"] = 0
  /\ telnet' = [telnet EXCEPT !.sock = "eof"] /\ tcp_disconnected' = TRUE
  /\ UNCHANGED <<msgVars, held, writing, force_exit_timer, exited, tone, peer,
                 ear, spoken, decoded, printed>>

\* Without telnet_ofd the text stays in the pipe: the callback only returns.
minimodem_rx_cb ==
  /\ Waiting /\ telnet.ofd
  /\ LET n == Min({TextSize, held["data_out"]})
     IN  /\ n > 0
         /\ writing' = Writes("tcp_out", n)
         /\ held' = [held EXCEPT !["data_out"] = @ - n]
  /\ UNCHANGED <<msgVars, telnet, tcp_disconnected, force_exit_timer, exited,
                 tone, peer, ear, spoken, decoded, printed>>

\* A buffer of samples from Yate is on its way to the receiving minimodem.
handle_sample_buffer ==
  /\ Waiting
  /\ writing' = Writes("sample_in", 1)
  /\ UNCHANGED <<msgVars, held, telnet, tcp_disconnected, force_exit_timer,
                 exited, tone, peer, ear, spoken, decoded, printed>>

\* Mutant: the samples of minimodem are read as the others, blocking.
WriteOnBlocking ==
  /\ ~ exited /\ writing.n > 0 /\ held[writing.to] < Room[writing.to]
  /\ writing.to = "sample_in" => held["sample_out"] > 0
  /\ writing' = [writing EXCEPT !.n = @ - 1]
  /\ held' = [held EXCEPT ![writing.to] = @ + 1,
                ![IF writing.to = "sample_in" THEN "sample_out" ELSE "tcp_in"] =
                   IF writing.to = "sample_in" THEN @ - 1 ELSE @]
  /\ UNCHANGED <<msgVars, telnet, tcp_disconnected, force_exit_timer, exited,
                 tone, peer, ear, spoken, decoded, printed>>

\* The kernel takes one unit of a write.  Behind the write of the samples
\* handle_sample_buffer reads as many of minimodem's, if there are any.
WriteOn ==
  /\ ~ exited /\ writing.n > 0 /\ held[writing.to] < Room[writing.to]
  /\ writing' = [writing EXCEPT !.n = @ - 1]
  /\ LET read == IF writing.to = "sample_in" THEN Min({1, held["sample_out"]}) ELSE 0
     IN  held' = [held EXCEPT ![writing.to] = @ + 1, !["sample_out"] = @ - read]
  /\ UNCHANGED <<msgVars, telnet, tcp_disconnected, force_exit_timer, exited,
                 tone, peer, ear, spoken, decoded, printed>>

\* A write to a connection that the peer has closed goes nowhere; when the
\* peer has reset it, SIGPIPE ends the process.
WriteToClosed ==
  /\ ~ exited /\ writing.n > 0 /\ writing.to = "tcp_out" /\ peer.closed
  /\ \/ writing' = Nothing /\ UNCHANGED exited
     \/ exited' = TRUE /\ UNCHANGED writing
  /\ UNCHANGED <<msgVars, held, telnet, tcp_disconnected, force_exit_timer, tone,
                 peer, ear, spoken, decoded, printed>>

\* Mutant: the flag is taken back and the timer not scheduled.
AfterSelectLost ==
  /\ Waiting /\ tcp_disconnected
  /\ tcp_disconnected' = FALSE /\ UNCHANGED force_exit_timer
  /\ UNCHANGED <<msgVars, held, writing, telnet, exited, tone, peer, ear, spoken,
                 decoded, printed>>

\* What main does behind osmo_select_main.
AfterSelect ==
  /\ Waiting /\ tcp_disconnected
  /\ tcp_disconnected' = FALSE /\ force_exit_timer' = TRUE
  /\ UNCHANGED <<msgVars, held, writing, telnet, exited, tone, peer, ear, spoken,
                 decoded, printed>>

force_exit_cb ==
  /\ Waiting /\ force_exit_timer /\ exited' = TRUE
  /\ UNCHANGED <<msgVars, held, writing, telnet, tcp_disconnected,
                 force_exit_timer, tone, peer, ear, spoken, decoded, printed>>

-----------------------------------------------------------------------------
(* The other processes.                                                    *)

\* The TCP peer.
PeerSends ==
  /\ telnet.sock # "none" /\ ~ peer.closed /\ peer.sent < MaxSent
  /\ held["tcp_in"] < Room["tcp_in"]
  /\ peer' = [peer EXCEPT !.sent = @ + 1]
  /\ held' = [held EXCEPT !["tcp_in"] = @ + 1]
  /\ UNCHANGED <<msgVars, writing, telnet, tcp_disconnected, force_exit_timer,
                 exited, tone, ear, spoken, decoded, printed>>

PeerReads ==
  /\ ~ peer.closed /\ held["tcp_out"] > 0
  /\ held' = [held EXCEPT !["tcp_out"] = @ - 1] /\ printed' = printed + 1
  /\ UNCHANGED <<msgVars, writing, telnet, tcp_disconnected, force_exit_timer,
                 exited, tone, peer, ear, spoken, decoded>>

PeerCloses ==
  /\ telnet.sock # "none" /\ ~ peer.closed
  /\ peer' = [peer EXCEPT !.closed = TRUE]
  /\ UNCHANGED <<msgVars, held, writing, telnet, tcp_disconnected,
                 force_exit_timer, exited, tone, ear, spoken, decoded, printed>>

\* The sending minimodem takes an octet of text when it has written the
\* sound of the one before; its samples wait while their pipe is full.
TxTakes ==
  /\ tone = 0 /\ held["data_in"] > 0
  /\ tone' = Tone /\ spoken' = spoken + 1
  /\ held' = [held EXCEPT !["data_in"] = @ - 1]
  /\ UNCHANGED <<msgVars, writing, telnet, tcp_disconnected, force_exit_timer,
                 exited, peer, ear, decoded, printed>>

TxSounds ==
  /\ tone > 0 /\ held["sample_out"] < Room["sample_out"]
  /\ tone' = tone - 1
  /\ held' = [held EXCEPT !["sample_out"] = @ + 1]
  /\ UNCHANGED <<msgVars, writing, telnet, tcp_disconnected, force_exit_timer,
                 exited, peer, ear, spoken, decoded, printed>>

\* The receiving minimodem hears nothing, or an octet of text, which it has
\* to write before it goes on.
RxHears ==
  /\ ear = 0 /\ held["sample_in"] > 0
  /\ held' = [held EXCEPT !["sample_in"] = @ - 1]
  /\ \/ UNCHANGED <<ear, decoded>>
     \/ decoded < MaxHeard /\ ear' = 1 /\ decoded' = decoded + 1
  /\ UNCHANGED <<msgVars, writing, telnet, tcp_disconnected, force_exit_timer,
                 exited, tone, peer, spoken, printed>>

RxWrites ==
  /\ ear = 1 /\ held["data_out"] < Room["data_out"]
  /\ ear' = 0 /\ held' = [held EXCEPT !["data_out"] = @ + 1]
  /\ UNCHANGED <<msgVars, writing, telnet, tcp_disconnected, force_exit_timer,
                 exited, tone, peer, spoken, decoded, printed>>

\* What goes on inside a callback.
InCallback == Scanning \/ Message \/ WriteOn \/ WriteToClosed

\* What main and osmo_select_main do for the TCP connection and the timer.
Serving == telnet_rx_cb \/ telnet_rx_eof \/ AfterSelect \/ force_exit_cb

Process ==
  InCallback \/ Serving \/ Reading \/ minimodem_rx_cb \/ handle_sample_buffer

Minimodems == TxTakes \/ TxSounds \/ RxHears \/ RxWrites

Next == Process \/ Minimodems \/ PeerSends \/ PeerReads \/ PeerCloses

\* The process runs, and so do the minimodems.  osmo_select_main serves each
\* descriptor that is ready in a pass, so samples and messages that keep
\* coming do not keep it from the connection and the timer.  Nothing is
\* asked of Yate and of the TCP peer.
Fairness ==
  /\ WF_vars(InCallback) /\ SF_vars(Serving)
  /\ WF_vars(TxTakes \/ TxSounds) /\ WF_vars(RxHears \/ RxWrites)

Spec == Init /\ [][Next]_vars /\ Fairness

-----------------------------------------------------------------------------

\* The variables have their types.
TypeOK ==
  /\ MessageTypeOK
  /\ \A c \in Channels : held[c] \in 0 .. Room[c]
  /\ writing \in [to : Channels, n : 0 .. TextSize]
  /\ telnet \in [sock : {"none", "up", "eof"}, ofd : BOOLEAN]
  /\ tcp_disconnected \in BOOLEAN /\ force_exit_timer \in BOOLEAN
  /\ exited \in BOOLEAN /\ tone \in 0 .. Tone /\ ear \in {0, 1}
  /\ peer \in [sent : 0 .. MaxSent, closed : BOOLEAN]

WritingTo(channel) == IF writing.to = channel THEN writing.n ELSE 0

\* The writes have no queue ("FIXME: write queueing"), but they block, so no
\* octet is lost or doubled between the TCP peer and the sending minimodem,
\* nor, while the connection is open, from the receiving minimodem to the
\* peer: what is decoded before the call has come waits in the pipe.
TextKept ==
  /\ peer.sent = held["tcp_in"] + WritingTo("data_in") + held["data_in"] + spoken
  /\ ~ peer.closed =>
       decoded = ear + held["data_out"] + WritingTo("tcp_out") + held["tcp_out"] + printed

Full(channel) == held[channel] = Room[channel]

\* More text than the pipe and minimodem's samples have room for: minimodem
\* waits for the process to read samples, the process for minimodem.
TextJam == writing.n > 0 /\ writing.to = "data_in" /\ Full("data_in") /\ Full("sample_out")

\* Decoded text has filled its pipe (before the call nobody takes it): the
\* receiving minimodem waits for the process, which waits for minimodem.
SoundJam ==
  /\ writing.n > 0 /\ writing.to = "sample_in" /\ Full("sample_in")
  /\ ear = 1 /\ Full("data_out")

\* The TCP peer does not read.
PeerJam == writing.n > 0 /\ writing.to = "tcp_out" /\ Full("tcp_out")

\* A callback comes back to osmo_select_main, except from exactly three
\* waits; in the first two the process waits for a minimodem that waits for
\* the process.  Yate reads its samples and messages (FD 4, stdout), a wait
\* for it is not among them.
LoopReturns == ~ Waiting ~> (Waiting \/ exited \/ TextJam \/ SoundJam \/ PeerJam)

\* When the TCP peer has closed, the process ends, unless it is in one of
\* these waits.
ClosedEnds ==
  telnet.sock # "none" /\ peer.closed ~> (exited \/ TextJam \/ SoundJam \/ PeerJam)
=============================================================================
