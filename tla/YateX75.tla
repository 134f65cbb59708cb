------------------------------- MODULE YateX75 ------------------------------
(***************************************************************************)
(* The process yate_x75: one X.75 station, the TCP connection it is        *)
(* bridged to, the two timers of the shutdown, and the main loop.          *)
(*                                                                         *)
(* One pass of the loop is a call of osmo_select_main, which runs the      *)
(* timers that are due and then the callbacks of the ready descriptors in  *)
(* the order they were registered (standard input, samples, TCP), followed *)
(* by the code after the call, LoopTail.  Each callback is an action; the  *)
(* variable at is how far the pass has come.  The TCP socket is blocking:  *)
(* a write to a server that does not read stops the process until it does, *)
(* or for ever.  Yate takes the samples it is sent (yate.c:128 blocks,     *)
(* too).  Time is counted in ticks, for the shutdown timers only: T1 and   *)
(* T2 may expire whenever they are pending.                                *)
(***************************************************************************)
EXTENDS X75Station

CONSTANTS
  MaxWriteQueue,   \* X75_FLOW_CONTROL_MAX_WRITE_QUEUE
  CloseDelay,      \* ticks of disconnect_close_timer, 3 seconds
  ExitDelay,       \* ticks of force_exit_timer, 10 seconds
  MaxTcp           \* bound: blocks that arrive on the TCP connection

ASSUME BridgeAssumption ==
  /\ MaxWriteQueue \in Nat /\ MaxTcp \in Nat
  /\ CloseDelay \in Nat \ {0} /\ ExitDelay \in Nat /\ CloseDelay < ExitDelay

VARIABLES
  x75,         \* x75_instance
  state,       \* the bridge's own state
  telnet_ofd,  \* "NULL" until the TCP connection is there
  reading,     \* OSMO_FD_READ in telnet_ofd->when
  tcp,         \* blocks of X75_TCP_READ_BLOCK_SIZE that read() will return
  closed,      \* has the TCP server closed or reset the connection?
  close_timer, \* ticks left until disconnect_close_cb, or Off
  exit_timer,  \* ticks left until force_exit_cb, or Off
  at,          \* the stage of this pass of the main loop
  process      \* "running", "writing" in a write to TCP that has not
               \* returned, "exited" or "crashed"

vars == <<x75, state, telnet_ofd, reading, tcp, closed, close_timer,
          exit_timer, at, process>>

BridgeState == {"IDLE", "TCPCONNECTED", "X75CONNECTED", "TCPDISCONNECTED",
                "X75DISCONNECTED"}

Off == -1

Select == 0
Timers == 1
Stdin == 2
Samples == 3
Telnet == 4

\* The station by itself: any peer, any requests.
X75Spec == INSTANCE X75 WITH Dce <- TRUE, MaxQueue <- MaxTcp

Running == process = "running" /\ ~ x75.crashed

Alive == process \in {"running", "writing"} /\ ~ x75.crashed

Due == close_timer = 0 \/ exit_timer = 0

\* Timers that are due run before any descriptor of the same pass.
Reaches(stage) ==
  /\ Running
  /\ at <= stage
  /\ at <= Timers /\ stage > Timers => ~ Due
  /\ at' = stage

-----------------------------------------------------------------------------

\* x75_can_write: may another block be read from TCP?
x75_can_write ==
  x75.state \in {3, 4} /\ x75.write_queue_count <= MaxWriteQueue

Init ==
  /\ x75 = x75_register(TRUE)
  /\ state = "IDLE"
  /\ telnet_ofd = "NULL" /\ reading = FALSE
  /\ tcp = MaxTcp /\ closed = FALSE
  /\ close_timer = Off /\ exit_timer = Off
  /\ at = Select
  /\ process = "running"

\* The control block before it has told anything: whether a handler runs
\* one of the callbacks shows in what it leaves in up, started from here.
Silent == [x75 EXCEPT !.up = "none"]

\* yate_x75_connected and yate_x75_disconnected.
StateAfter(told) ==
  CASE told = "connected"    -> "X75CONNECTED"
    [] told = "disconnected" -> "X75DISCONNECTED"
    [] OTHER                 -> state

\* A handler of the X.75 stack leaves the control block s, after the
\* callback told, if any.
Handle(s, told) == x75' = Flush(s) /\ state' = StateAfter(told)

T1Fires ==
  /\ Reaches(Timers) /\ x75.t1_pending
  /\ Handle(T1Expires(x75), T1Expires(Silent).up)
  /\ UNCHANGED <<telnet_ofd, reading, tcp, closed, close_timer, exit_timer,
                 process>>

T2Fires ==
  /\ Reaches(Timers) /\ x75.t2_pending
  /\ Handle(T2Expires(x75), T2Expires(Silent).up)
  /\ UNCHANGED <<telnet_ofd, reading, tcp, closed, close_timer, exit_timer,
                 process>>

\* The return code of the request is ignored.
disconnect_close_cb ==
  /\ Reaches(Timers) /\ close_timer = 0
  /\ close_timer' = Off
  /\ x75' = Flush(x75_disconnect_request(x75))
  /\ UNCHANGED <<state, telnet_ofd, reading, tcp, closed, exit_timer, process>>

force_exit_cb ==
  /\ Reaches(Timers) /\ exit_timer = 0
  /\ process' = "exited"
  /\ UNCHANGED <<x75, state, telnet_ofd, reading, tcp, closed, close_timer,
                 exit_timer>>

\* Mutant: the X.75 instance is registered when the call arrives.
CallRegisters ==
  /\ Reaches(Stdin) /\ state = "IDLE" /\ telnet_ofd = "NULL"
  /\ x75' = x75_register(TRUE)
  /\ telnet_ofd' = "open" /\ reading' = TRUE /\ state' = "TCPCONNECTED"
  /\ UNCHANGED <<tcp, closed, close_timer, exit_timer, process>>

\* telnet_init: the connection is there; it failed; or it is there and
\* TCP_NODELAY was refused, so that it is registered but *ofd stays NULL.
telnet_init ==
  {[rc |-> 0, ofd |-> "open"], [rc |-> -1, ofd |-> "NULL"],
   [rc |-> 0, ofd |-> "NULL"]}

\* Yate starts one process for each call and sends one call.execute.  The
\* connection is opened with OSMO_FD_READ set; a failure ends the process.
call_initialize ==
  /\ Reaches(Stdin) /\ state = "IDLE" /\ telnet_ofd = "NULL"
  /\ \E result \in telnet_init :
       IF result.rc < 0
       THEN /\ process' = "exited"
            /\ UNCHANGED <<state, telnet_ofd, reading>>
       ELSE /\ telnet_ofd' = result.ofd /\ reading' = TRUE
            /\ state' = "TCPCONNECTED"
            /\ UNCHANGED process
  /\ UNCHANGED <<x75, tcp, closed, close_timer, exit_timer>>

\* A write to TCP, from a handler.  It may find the send buffer full and
\* wait; when the server has closed the connection it may raise SIGPIPE,
\* which ends the process.
Write == process' \in {"running", "writing"} \cup IF closed THEN {"exited"} ELSE {}

\* handle_sample_buffer when the samples complete the frame f; one that the
\* HDLC decoder finds in error is none.  What the stack delivers is written
\* to TCP.  While the write waits nothing else of the process runs, so that
\* what the handler does after it is done at once.  What the stack sends is
\* queued for the HDLC encoder, the second half of the function: the peer
\* takes it.
handle_sample_buffer(f) ==
  /\ Reaches(Samples)
  /\ Handle(x75_data_input(x75, f), x75_data_input(Silent, f).up)
  /\ IF telnet_ofd = "open" /\ x75_data_input(x75, f).rx # <<>>
     THEN Write
     ELSE UNCHANGED process
  /\ UNCHANGED <<telnet_ofd, reading, tcp, closed, close_timer, exit_timer>>

\* The server has read, or the connection is gone: yate_x75_data_indication
\* returns, whatever write said, or SIGPIPE ends the process.
WriteReturns ==
  /\ process = "writing" /\ ~ x75.crashed
  /\ Write /\ process' # "writing"
  /\ UNCHANGED <<x75, state, telnet_ofd, reading, tcp, closed, close_timer,
                 exit_timer, at>>

\* handle_sample_buffer when they complete none.
SamplesOnly ==
  /\ Reaches(Samples)
  /\ UNCHANGED <<x75, state, telnet_ofd, reading, tcp, closed, close_timer,
                 exit_timer, process>>

\* The descriptor is readable.  Nothing registers it before call_initialize.
Readable ==
  telnet_ofd = "open" /\ reading /\ at < Telnet /\ (tcp > 0 \/ closed)

\* telnet_rx_cb
TelnetRefused ==
  /\ Readable /\ Reaches(Telnet) /\ ~ x75_can_write
  /\ UNCHANGED <<x75, state, telnet_ofd, reading, tcp, closed, close_timer,
                 exit_timer, process>>

TelnetData ==
  /\ Readable /\ Reaches(Telnet) /\ x75_can_write
  /\ tcp > 0 /\ tcp' = tcp - 1
  /\ \E d \in Data : x75' = Flush(x75_data_request(x75, d))
  /\ UNCHANGED <<state, telnet_ofd, reading, closed, close_timer, exit_timer,
                 process>>

\* read returns 0 or -1; a reset may overtake what was not read.
TelnetEnd ==
  /\ Readable /\ Reaches(Telnet) /\ x75_can_write
  /\ closed
  /\ state' = "TCPDISCONNECTED"
  /\ UNCHANGED <<x75, telnet_ofd, reading, tcp, closed, close_timer,
                 exit_timer, process>>

telnet_rx_cb == TelnetRefused \/ TelnetData \/ TelnetEnd

\* Mutant: the force-exit timer is not scheduled.
TailWithoutExit ==
  /\ Running /\ at # Select /\ at' = Select
  /\ reading' = (x75_can_write /\ state = "X75CONNECTED")
  /\ state' = IF state = "TCPDISCONNECTED" THEN "X75DISCONNECTED" ELSE state
  /\ close_timer' = IF state = "TCPDISCONNECTED" THEN CloseDelay ELSE close_timer
  /\ UNCHANGED <<x75, telnet_ofd, tcp, closed, exit_timer, process>>

\* Mutant: reading is disabled, and never enabled again.
TailStaysDisabled ==
  /\ Running /\ at # Select /\ at' = Select
  /\ reading' = (reading /\ x75_can_write /\ state = "X75CONNECTED")
  /\ UNCHANGED <<x75, state, telnet_ofd, tcp, closed, close_timer, exit_timer,
                 process>>

\* The code after osmo_select_main uses telnet_ofd unchecked.
LoopTail ==
  /\ Running /\ at # Select /\ at' = Select
  /\ IF telnet_ofd = "NULL"
     THEN /\ process' = "crashed"
          /\ UNCHANGED <<state, reading, close_timer, exit_timer>>
     ELSE /\ reading' = (x75_can_write /\ state = "X75CONNECTED")
          /\ IF state = "TCPDISCONNECTED"
             THEN /\ state' = "X75DISCONNECTED"
                  /\ close_timer' = CloseDelay /\ exit_timer' = ExitDelay
             ELSE UNCHANGED <<state, close_timer, exit_timer>>
          /\ UNCHANGED process
  /\ UNCHANGED <<x75, telnet_ofd, tcp, closed>>

\* Time passes while a shutdown timer is pending and none is due, in a write
\* that waits, too.
Tick ==
  /\ Alive /\ ~ Due
  /\ close_timer > 0 \/ exit_timer > 0
  /\ close_timer' = IF close_timer > 0 THEN close_timer - 1 ELSE close_timer
  /\ exit_timer' = IF exit_timer > 0 THEN exit_timer - 1 ELSE exit_timer
  /\ UNCHANGED <<x75, state, telnet_ofd, reading, tcp, closed, at, process>>

ServerCloses ==
  /\ Alive /\ telnet_ofd = "open" /\ ~ closed
  /\ closed' = TRUE
  /\ UNCHANGED <<x75, state, telnet_ofd, reading, tcp, close_timer, exit_timer,
                 at, process>>

Next ==
  \/ T1Fires
  \/ T2Fires
  \/ disconnect_close_cb
  \/ force_exit_cb
  \/ call_initialize
  \/ \E f \in X75Spec!PeerFrame : handle_sample_buffer(f)
  \/ WriteReturns
  \/ SamplesOnly
  \/ telnet_rx_cb
  \/ LoopTail
  \/ Tick
  \/ ServerCloses

Spec == Init /\ [][Next]_vars

\* Time passes and timers that are due run: nothing comes between the two.
\* A write that waits now and then, and returns, keeps the loop from nothing:
\* a pass has finitely many frames, so it comes to its end, and a descriptor
\* that poll found readable is called in that very pass.  The peer and Yate
\* need not do anything, and the server need not even read: nothing makes
\* WriteReturns happen.
Fairness ==
  /\ WF_vars(Tick) /\ WF_vars(disconnect_close_cb) /\ WF_vars(force_exit_cb)
  /\ SF_vars(LoopTail) /\ SF_vars(telnet_rx_cb)

FairSpec == Spec /\ Fairness

-----------------------------------------------------------------------------

\* The variables have their types.
TypeOK ==
  /\ x75 \in Station
  /\ state \in BridgeState
  /\ telnet_ofd \in {"NULL", "open"} /\ reading \in BOOLEAN
  /\ tcp \in 0 .. MaxTcp /\ closed \in BOOLEAN
  /\ close_timer \in Off .. CloseDelay /\ exit_timer \in Off .. ExitDelay
  /\ at \in Select .. Telnet
  /\ process \in {"running", "writing", "exited", "crashed"}

\* Between two passes of the loop a connected X.75 link is bridged, or the
\* process is about to exit: whatever order the call, the peer, the timers
\* and the end of the TCP connection come in, yate_x75's state never says
\* disconnected about a link that is up and will stay up.
ServedOrClosing ==
  Running /\ at = Select /\ x75.state \in {3, 4} =>
    state = "X75CONNECTED" \/ exit_timer # Off

\* Every step of the process is, for x75_instance, a step that X75 has, or
\* none: the bridge makes no request that X75 does not allow, and what is
\* proved of X75 holds in the process.
UsesX75 == X75Spec!Spec

\* A write to TCP waits for a server that does not read.
PeerJam == process = "writing" /\ ~ x75.crashed

Bridging == Alive /\ state = "X75CONNECTED" /\ x75_can_write

\* While the link is up and takes data, what waits on the TCP connection is
\* read, its end included: turning the read flag off for flow control never
\* leaves it off.  A write that never returns is the one exception, one that
\* returns late is none.
TcpServed ==
  \/ <>[]PeerJam
  \/ \A k \in 0 .. MaxTcp :
       Bridging /\ tcp = k /\ (k > 0 \/ closed) ~> (tcp # k \/ ~ Bridging)

\* When the end of the TCP connection has been read the process exits,
\* unless the peer sets up the X.75 link anew, or what the peer sent since
\* is in a write that never returns: the force-exit timer cannot run in it.
EndOfTcpExits ==
  \/ <>[]PeerJam
  \/ state = "TCPDISCONNECTED" ~> (~ Alive \/ state = "X75CONNECTED")

\* README: "No lost data at TCP RST (last few bytes will get lost, "Goodbye"
\* messages from BBSes, clean protocol shutdown, etc.)" among the advantages.
\* When the process itself releases the link, nothing it had read from TCP
\* still waits to be sent or acknowledged.
NoLostData ==
  [][ x75.state \in {3, 4} /\ x75'.state = 2
        => x75.write_queue = <<>> /\ x75.ack_queue = <<>> ]_vars
=============================================================================
