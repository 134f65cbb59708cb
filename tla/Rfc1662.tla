------------------------------- MODULE Rfc1662 ------------------------------
(***************************************************************************)
(* The octet-stuffed framing of ppp/pppd.c between this process and pppd:  *)
(* pppd_rfc1662_encode and pppd_rfc1662_decode.  Octets are numbers.  The  *)
(* frame check sequence is an argument here (Codecs computes it): nothing  *)
(* in the process looks at it, the decoder drops the last two octets.      *)
(***************************************************************************)
EXTENDS Integers, Sequences, SequencesExt

PPP_FLAG   == 126
PPP_ESCAPE == 125
PPP_TRANS  == 32

Octet == 0 .. 255

\* o ^ PPP_TRANS
Transposed(o) ==
  IF (o \div PPP_TRANS) % 2 = 0 THEN o + PPP_TRANS ELSE o - PPP_TRANS

\* One octet of the packet or its FCS on the line.
Stuffed(e) ==
  IF e < 32 \/ e \in {PPP_ESCAPE, PPP_FLAG}
  THEN <<PPP_ESCAPE, Transposed(e)>>
  ELSE <<e>>

pppd_rfc1662_encode(raw, fcs) ==
  LET body == raw \o fcs
  IN  <<PPP_FLAG>> \o FlattenSeq([x \in DOMAIN body |-> Stuffed(body[x])])
                   \o <<PPP_FLAG>>

\* struct rfc1662_vars, with the deframed_bytes octets of dst they count.
NewDecoder == [dst |-> <<>>, escape |-> FALSE]

\* What the switch of pppd_rfc1662_decode makes of one octet: the decoder
\* goes on to the next octet, or returns with a packet or with -EINVAL.
GoesOn(dst, escape) ==
  [state |-> [dst |-> dst, escape |-> escape], returns |-> FALSE, packet |-> <<>>]

Returns(dst, packet) ==
  [state |-> [dst |-> dst, escape |-> FALSE], returns |-> TRUE, packet |-> packet]

\* A flag ends a frame of at least its FCS, which is dropped, and otherwise
\* starts one; behind an escape it is ignored.
DecodeFlag(state) ==
  CASE state.escape -> GoesOn(state.dst, TRUE)
    [] ~ state.escape /\ Len(state.dst) < 2 -> GoesOn(<<>>, FALSE)
    [] ~ state.escape /\ Len(state.dst) >= 2 ->
         Returns(<<>>, SubSeq(state.dst, 1, Len(state.dst) - 2))

\* Mutant: the buffer counts as full one octet early.
DecodeOtherTight(state, ch, dsize) ==
  LET octet == IF state.escape THEN Transposed(ch) ELSE ch
  IN  IF Len(state.dst) < dsize - 1 THEN GoesOn(Append(state.dst, octet), FALSE)
      ELSE Returns(state.dst, <<>>)

\* A frame that does not fit into dst stays there, and the octet is lost.
DecodeOther(state, ch, dsize) ==
  LET octet == IF state.escape THEN Transposed(ch) ELSE ch
  IN  IF Len(state.dst) < dsize THEN GoesOn(Append(state.dst, octet), FALSE)
      ELSE Returns(state.dst, <<>>)

DecodeOctet(state, ch, dsize) ==
  CASE ch = PPP_FLAG   -> DecodeFlag(state)
    [] ch = PPP_ESCAPE -> GoesOn(state.dst, TRUE)
    [] OTHER           -> DecodeOther(state, ch, dsize)
=============================================================================
