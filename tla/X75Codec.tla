------------------------------- MODULE X75Codec -----------------------------
(***************************************************************************)
(* The octets of X.75 frames: what x75_transmit_buffer, x75_send_iframe,   *)
(* x75_send_control and x75_transmit_frmr write, and what x75_decode reads *)
(* at the other end.  X75Station exchanges decoded frames; this module     *)
(* shows that the octets carry them, and that whatever else comes out of   *)
(* the HDLC decoder is decoded into one of the frames that X75 lets a peer *)
(* send.  Bit operations are arithmetic: x << 1 is 2 * x, an OR of fields  *)
(* that do not overlap is their sum.                                       *)
(***************************************************************************)
EXTENDS Integers, Sequences

CONSTANTS
  Foreign,   \* octets to make noise with
  Payloads   \* what I frames carry

Octet == 0 .. 255

ASSUME CodecAssumption == Foreign \subseteq Octet /\ Payloads \subseteq Seq(Octet)

\* x75_cb.mode, the same at both ends except for X75_DCE.
VARIABLES
  extended,  \* X75_EXTENDED: two-octet control fields, modulus 128
  mlp        \* X75_MLP: addresses C and D instead of A and B

Seqno == IF extended THEN 0 .. 127 ELSE 0 .. 7

CommandResponse == {"COMMAND", "RESPONSE"}

\* The control field templates of x75_int.h.
X75_I    == 0
X75_S    == 1
X75_U    == 3
SFrames  == [RR |-> 1, RNR |-> 5, REJ |-> 9]
UFrames  == [SABM |-> 47, SABME |-> 111, DISC |-> 67, DM |-> 15, UA |-> 99]
X75_FRMR == 135
X75_ILLEGAL == 256

\* The frame types a state machine has a case for.
SCodes == {SFrames[t] : t \in DOMAIN SFrames}
UCodes == {UFrames[t] : t \in DOMAIN UFrames} \cup {X75_FRMR}

-----------------------------------------------------------------------------
(* Encoding.                                                               *)

Bit(b, value) == IF b THEN value ELSE 0

\* The address octet of x75_transmit_buffer.
Address(dce, type) ==
  LET fromDce == dce = (type = "COMMAND")
  IN  IF mlp THEN (IF fromDce THEN 15 ELSE 7) ELSE (IF fromDce THEN 3 ELSE 1)

x75_transmit_buffer(dce, type, octets) == <<Address(dce, type)>> \o octets

x75_send_iframe(dce, vs, vr, pf, payload) ==
  x75_transmit_buffer(dce, "COMMAND",
    (IF extended THEN <<2 * vs, 2 * vr + Bit(pf, 1)>>
                 ELSE <<2 * vs + Bit(pf, 16) + 32 * vr>>) \o payload)

\* Mutant: the extended S frame puts V(R) where standard mode has it.
SendControlUnshifted(dce, frametype, pf, type, vr) ==
  x75_transmit_buffer(dce, type,
    IF frametype % 4 = X75_U THEN <<frametype + Bit(pf, 16)>>
    ELSE IF extended THEN <<frametype, vr + Bit(pf, 1)>>
    ELSE <<frametype + Bit(pf, 16) + 16 * vr>>)

x75_send_control(dce, frametype, pf, type, vr) ==
  x75_transmit_buffer(dce, type,
    IF frametype % 4 = X75_U THEN <<frametype + Bit(pf, 16)>>
    ELSE IF extended THEN <<frametype, 2 * vr + Bit(pf, 1)>>
    ELSE <<frametype + Bit(pf, 16) + 32 * vr>>)

\* control is the control field of the frame refused, frmr_type the reason.
x75_transmit_frmr(dce, control, cr, frmr_type, vs, vr) ==
  x75_transmit_buffer(dce, "RESPONSE",
    IF extended
    THEN <<X75_FRMR, control[1], control[2], 2 * vs,
           2 * vr + Bit(cr = "RESPONSE", 1), frmr_type>>
    ELSE <<X75_FRMR, control[1],
           2 * vs + 32 * vr + Bit(cr = "RESPONSE", 16), frmr_type>>)

-----------------------------------------------------------------------------
(* Decoding.                                                               *)

\* An address of neither side leaves frame->cr as it was: uninitialised.
DecodeAddress(dce, octet) ==
  IF \E type \in CommandResponse : octet = Address(~ dce, type)
  THEN CHOOSE type \in CommandResponse : octet = Address(~ dce, type)
  ELSE "UNSET"

\* The result when x75_decode returns -1.
Refused == [rc |-> -1, type |-> X75_ILLEGAL]

\* The poll/final bit of an octet: X75_SPF is bit 4, X75_EPF bit 0.
SPF(octet) == (octet \div 16) % 2 = 1
EPF(octet) == octet % 2 = 1

\* An S or I frame carries N(R), a U frame does not: 0 stands for what the
\* fields held before.  rest is what msgb_pull leaves.
DecodeExtended(cr, o) ==
  LET two == Len(o) >= 2
      nr  == (o[2] \div 2) % 128
  IN  CASE o[1] % 2 = 0 ->
             IF ~ two THEN Refused
             ELSE [rc |-> 0, type |-> X75_I, cr |-> cr, pf |-> EPF(o[2]),
                   ns |-> (o[1] \div 2) % 128, nr |-> nr,
                   rest |-> SubSeq(o, 3, Len(o))]
        [] o[1] % 4 = X75_S ->
             IF ~ two THEN Refused
             ELSE [rc |-> 0, type |-> o[1] % 16, cr |-> cr, pf |-> EPF(o[2]),
                   ns |-> 0, nr |-> nr, rest |-> SubSeq(o, 3, Len(o))]
        [] o[1] % 4 = X75_U ->
             [rc |-> 0, type |-> o[1] - Bit(SPF(o[1]), 16), cr |-> cr,
              pf |-> SPF(o[1]), ns |-> 0, nr |-> 0, rest |-> Tail(o)]

DecodeStandard(cr, o) ==
  LET c    == o[1]
      kind == IF c % 2 = 0 THEN X75_I ELSE c % 4
  IN  [rc |-> 0, cr |-> cr, pf |-> SPF(c), rest |-> Tail(o),
       type |-> CASE kind = X75_I -> X75_I
                  [] kind = X75_S -> c % 16
                  [] kind = X75_U -> c - Bit(SPF(c), 16),
       ns |-> IF kind = X75_I THEN (c \div 2) % 8 ELSE 0,
       nr |-> IF kind # X75_U THEN (c \div 32) % 8 ELSE 0]

\* Mutant: U frames have no branch, so that type stays X75_ILLEGAL.
DecodeWithoutU(dce, octets) ==
  IF Len(octets) < 2 THEN Refused
  ELSE IF octets[2] % 4 = X75_U
  THEN [rc |-> 0, type |-> X75_ILLEGAL, ns |-> 0, nr |-> 0]
  ELSE IF extended
  THEN DecodeExtended(DecodeAddress(dce, octets[1]), Tail(octets))
  ELSE DecodeStandard(DecodeAddress(dce, octets[1]), Tail(octets))

x75_decode(dce, octets) ==
  IF Len(octets) < 2 THEN Refused
  ELSE LET cr == DecodeAddress(dce, octets[1])
       IN  IF extended THEN DecodeExtended(cr, Tail(octets))
                       ELSE DecodeStandard(cr, Tail(octets))

-----------------------------------------------------------------------------
(* One frame at a time goes from the station with X75_DCE = dce to the     *)
(* other one.                                                              *)

VARIABLES
  dce,     \* the sender
  sent,    \* what the sender meant, or Nothing when the octets are noise
  octets,  \* what is on the wire
  frame    \* what the receiver made of it, or Nothing yet

mode == <<extended, mlp, dce>>

vars == <<mode, sent, octets, frame>>

Nothing == [type |-> -1]

Init ==
  /\ extended \in BOOLEAN /\ mlp \in BOOLEAN /\ dce \in BOOLEAN
  /\ sent = Nothing /\ octets = <<>> /\ frame = Nothing

Idle == octets = <<>>

Transmit(meaning, wire) ==
  /\ sent' = meaning
  /\ octets' = wire
  /\ UNCHANGED <<mode, frame>>

SendIFrame ==
  /\ Idle
  /\ \E vs, vr \in Seqno, pf \in BOOLEAN, p \in Payloads :
       Transmit([type |-> X75_I, cr |-> "COMMAND", pf |-> pf, ns |-> vs,
                 nr |-> vr, rest |-> p],
                x75_send_iframe(dce, vs, vr, pf, p))

SendControl ==
  /\ Idle
  /\ \E t \in SCodes \cup (UCodes \ {X75_FRMR}), pf \in BOOLEAN,
        cr \in CommandResponse, vr \in Seqno :
       Transmit([type |-> t, cr |-> cr, pf |-> pf, ns |-> 0,
                 nr |-> IF t \in SCodes THEN vr ELSE 0, rest |-> <<>>],
                x75_send_control(dce, t, pf, cr, vr))

\* What an FRMR says of the refused frame: as many octets as the control
\* field, V(S) and V(R), and the reason, X75_FRMR_W or X75_FRMR_Z.
SendFrmr ==
  /\ Idle
  /\ \E cr \in CommandResponse, vs, vr \in {0, 1, 7}, reason \in {1, 8} :
       LET wire == x75_transmit_frmr(dce, <<5, 6>>, cr, reason, vs, vr)
       IN  Transmit([type |-> X75_FRMR, cr |-> "RESPONSE", pf |-> FALSE,
                     ns |-> 0, nr |-> 0, rest |-> SubSeq(wire, 3, Len(wire))],
                    wire)

\* Anything with a good checksum, down to a single octet.
Noise ==
  /\ Idle
  /\ \E a \in {1, 3, 7, 15} \cup Foreign, c \in 0 .. 255 :
       \/ Transmit(Nothing, <<a>>)
       \/ Transmit(Nothing, <<a, c>>)
       \/ \E x \in Foreign : Transmit(Nothing, <<a, c, x>>)

Receive ==
  /\ octets # <<>> /\ frame = Nothing
  /\ frame' = x75_decode(~ dce, octets)
  /\ UNCHANGED <<mode, sent, octets>>

\* The state machine is done with the frame and x75_data_input returns.
Consume ==
  /\ frame # Nothing
  /\ sent' = Nothing /\ octets' = <<>> /\ frame' = Nothing
  /\ UNCHANGED mode

Next ==
  SendIFrame \/ SendControl \/ SendFrmr \/ Noise \/ Receive \/ Consume

Spec == Init /\ [][Next]_vars

-----------------------------------------------------------------------------

\* Whatever a station sends, x75_decode at the other end reads the same
\* type, P/F bit, command/response bit and numbers, and leaves exactly the
\* payload: the two halves agree on the addresses of both sides, on header
\* lengths and on the place of every bit.
RoundTrip ==
  sent # Nothing /\ frame # Nothing =>
    /\ frame.rc = 0
    /\ \A field \in DOMAIN sent : frame[field] = sent[field]

\* Whatever arrives, a frame that x75_decode accepts is one that X75 lets a
\* peer send: it has a real type (X75_ILLEGAL is "Impossible to be a real
\* frame type", so that no state machine ever reaches its case) and its
\* numbers are below the modulus, where x75_validate_nr and the modulo
\* counters expect them.
DecodesWithinModulus ==
  frame # Nothing /\ frame.rc = 0 =>
    /\ frame.type \in {X75_I} \cup {b \in 0 .. 255 : b % 2 = 1}
    /\ frame.ns \in Seqno /\ frame.nr \in Seqno
=============================================================================
