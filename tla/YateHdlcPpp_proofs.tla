-------------------------- MODULE YateHdlcPpp_proofs ------------------------
(***************************************************************************)
(* Proofs about yate_hdlc_ppp: the deframing buffer is never overrun, and  *)
(* between the deframer and the line no packet is lost, doubled, reordered *)
(* or changed, wherever the HDLC encoder stops in one.  And, as long as no *)
(* read returns a single octet, the deframer gets back every packet of     *)
(* pppd from the stream, however the reads cut it (FramesForwarded).       *)
(*                                                                         *)
(* Stuffing is a FlattenSeq over the octets, about which there are the     *)
(* lemmas of Flattening_proofs.                                            *)
(***************************************************************************)
EXTENDS YateHdlcPpp, Flattening_proofs, SequenceTheorems, TLAPS

-----------------------------------------------------------------------------
(* Sequences of whatever: nothing here depends on what an octet is.        *)

Sequence(s) == \E S : s \in Seq(S)

\* Two sequences, and three, are sequences over one set.
LEMMA Joint ==
  ASSUME NEW a, NEW b, NEW c, Sequence(a), Sequence(b), Sequence(c)
  PROVE  \E S : a \in Seq(S) /\ b \in Seq(S) /\ c \in Seq(S)
<1>1. PICK A : a \in Seq(A)
  BY DEF Sequence
<1>2. PICK B : b \in Seq(B)
  BY DEF Sequence
<1>3. PICK C : c \in Seq(C)
  BY DEF Sequence
<1>4. a \in Seq(A \cup B \cup C) /\ b \in Seq(A \cup B \cup C) /\ c \in Seq(A \cup B \cup C)
  BY <1>1, <1>2, <1>3
<1> QED
  BY <1>4

LEMMA Joined ==
  ASSUME NEW a, NEW b, NEW c, Sequence(a), Sequence(b), Sequence(c)
  PROVE  Sequence(a \o b) /\ (a \o b) \o c = a \o (b \o c)
<1>1. PICK S : a \in Seq(S) /\ b \in Seq(S) /\ c \in Seq(S)
  BY Joint
<1> QED
  BY <1>1, ConcatProperties, ConcatAssociative DEF Sequence

LEMMA Empty ==
  /\ Sequence(<<>>) /\ Len(<<>>) = 0
  /\ \A s : Sequence(s) => s \o <<>> = s /\ <<>> \o s = s
<1>1. Sequence(<<>>) /\ Len(<<>>) = 0
  BY DEF Sequence
<1>2. ASSUME NEW s, Sequence(s) PROVE s \o <<>> = s /\ <<>> \o s = s
  <2>1. PICK S : s \in Seq(S)
    BY <1>2 DEF Sequence
  <2> QED
    BY <2>1, ConcatEmptySeq
<1> QED
  BY <1>1, <1>2

LEMMA Appended ==
  ASSUME NEW s, Sequence(s), NEW x
  PROVE  /\ Sequence(<<x>>) /\ <<x>> # <<>> /\ Append(s, x) = s \o <<x>> /\ Sequence(Append(s, x))
         /\ Len(s) \in Nat /\ Len(Append(s, x)) = Len(s) + 1
         /\ \A i \in 1 .. Len(s) : Append(s, x)[i] = s[i]
         /\ Append(s, x)[Len(s) + 1] = x
<1>1. PICK A : s \in Seq(A)
  BY DEF Sequence
<1> DEFINE S == A \cup {x}
<1>2. s \in Seq(S) /\ x \in S /\ <<x>> \in Seq(S) /\ <<x>> # <<>>
  BY <1>1
<1> HIDE DEF S
<1>3. Append(s, x) \in Seq(S) /\ Append(s, x) = s \o <<x>>
  BY <1>2, AppendProperties, AppendIsConcat
<1>4. /\ Len(s) \in Nat /\ Len(Append(s, x)) = Len(s) + 1
      /\ \A i \in 1 .. Len(s) : Append(s, x)[i] = s[i]
      /\ Append(s, x)[Len(s) + 1] = x
  BY <1>2, AppendProperties
<1> QED
  BY <1>2, <1>3, <1>4 DEF Sequence

LEMMA Split ==
  ASSUME NEW s, Sequence(s), NEW count \in 0 .. Len(s)
  PROVE  LET before == SubSeq(s, 1, count)
             behind == SubSeq(s, count + 1, Len(s))
         IN  /\ Sequence(before) /\ Sequence(behind) /\ before \o behind = s
             /\ behind = <<>> <=> count = Len(s)
<1>1. PICK S : s \in Seq(S)
  BY DEF Sequence
<1> DEFINE before == SubSeq(s, 1, count)
           behind == SubSeq(s, count + 1, Len(s))
<1>2. Len(s) \in Nat /\ count \in Int /\ count + 1 \in Int /\ 1 \in Int
  BY <1>1
<1>3. \A i \in 1 .. Len(s) : s[i] \in S
  BY <1>1
<1>4. before \in Seq(S)
  BY <1>1, <1>2, <1>3, SubSeqProperties
<1>5. behind \in Seq(S) /\ Len(behind) = IF count + 1 <= Len(s) THEN Len(s) - (count + 1) + 1 ELSE 0
  <2> DEFINE first == count + 1
  <2>1. first \in Int /\ \A i \in first .. Len(s) : s[i] \in S
    BY <1>2, <1>3
  <2> HIDE DEF first
  <2>2. SubSeq(s, first, Len(s)) \in Seq(S)
        /\ Len(SubSeq(s, first, Len(s))) = IF first <= Len(s) THEN Len(s) - first + 1 ELSE 0
    BY <1>1, <1>2, <2>1, SubSeqProperties
  <2> QED
    BY <2>2 DEF first
<1>6. behind = <<>> <=> count = Len(s)
  <2>1. Len(behind) = 0 <=> count = Len(s)
    BY <1>2, <1>5
  <2>2. behind = <<>> <=> Len(behind) = 0
    BY <1>5, EmptySeq
  <2> QED
    BY <2>1, <2>2
<1>7. before \o behind = s
  <2>1. SubSeq(s, 1, count) \o SubSeq(s, count + 1, Len(s)) = SubSeq(s, 1, Len(s))
    <3> DEFINE all == Len(s)
               front == SubSeq(s, 1, count)
    <3>1. all \in Nat /\ count \in 1 - 1 .. all /\ 1 \in 1 .. all + 1 /\ all \in count .. all
      BY <1>2
    <3> HIDE DEF all, front
    <3> QED
      BY <1>1, <3>1, ConcatAdjacentSubSeq DEF all
  <2>2. SubSeq(s, 1, Len(s)) = s
    BY <1>1, SubSeqFull
  <2> QED
    BY <2>1, <2>2
<1> QED
  BY <1>4, <1>5, <1>6, <1>7 DEF Sequence

LEMMA First ==
  ASSUME NEW s, Sequence(s), s # <<>>
  PROVE  /\ s = <<Head(s)>> \o Tail(s) /\ Sequence(Tail(s)) /\ Head(s) = s[1] /\ 1 \in 1 .. Len(s)
         /\ \A i \in 1 .. Len(Tail(s)) : i + 1 \in 1 .. Len(s) /\ Tail(s)[i] = s[i + 1]
<1>1. PICK S : s \in Seq(S)
  BY DEF Sequence
<1>2. Len(s) \in Nat /\ Len(s) > 0
  BY <1>1
<1>3. /\ Head(s) \in S /\ Head(s) = s[1] /\ Tail(s) \in Seq(S) /\ Len(Tail(s)) = Len(s) - 1
      /\ \A i \in 1 .. Len(Tail(s)) : Tail(s)[i] = s[i + 1]
  BY <1>1, <1>2, HeadTailProperties
<1> DEFINE h == Head(s)
           t == Tail(s)
<1>4. <<h>> \in Seq(S) /\ Len(<<h>>) = 1 /\ <<h>>[1] = h
  BY <1>3
<1> HIDE DEF h, t
<1>5. /\ <<h>> \o t \in Seq(S) /\ Len(<<h>> \o t) = Len(s)
      /\ \A i \in 1 .. Len(s) : (<<h>> \o t)[i] = IF i <= 1 THEN <<h>>[i] ELSE t[i - 1]
  <2>1. t \in Seq(S) /\ 1 + Len(t) = Len(s)
    BY <1>2, <1>3 DEF t
  <2> QED
    BY <1>4, <2>1, ConcatProperties
<1>6. \A i \in 1 .. Len(s) : (<<h>> \o t)[i] = s[i]
  <2> TAKE i \in 1 .. Len(s)
  <2>1. CASE i = 1
    BY <1>3, <1>4, <1>5, <2>1 DEF h
  <2>2. CASE i # 1
    <3>1. ~ (i <= 1) /\ i - 1 \in 1 .. Len(Tail(s)) /\ (i - 1) + 1 = i
      BY <1>2, <1>3, <2>2
    <3> QED
      BY <1>3, <1>5, <3>1 DEF t
  <2> QED
    BY <2>1, <2>2
<1>7. s = <<h>> \o t
  BY <1>1, <1>5, <1>6, SeqEqual
<1> QED
  BY <1>2, <1>3, <1>7 DEF Sequence, h, t

-----------------------------------------------------------------------------

\* Nothing of a packet was taken when none is being transmitted; no packet
\* of the queue is empty; the deframed octets fit into temp_pack_buf.
QueueInv ==
  /\ Sequence(line) /\ Sequence(isdn_hdlc_tx_queue)
  /\ \A i \in 1 .. Len(isdn_hdlc_tx_queue) :
       Sequence(isdn_hdlc_tx_queue[i]) /\ isdn_hdlc_tx_queue[i] # <<>>
  /\ Sequence(hdlc_tx_buf) /\ Sequence(part)
  /\ hdlc_tx_buf = <<>> => part = <<>>

DecoderFits(state) ==
  /\ state \in [dst : {state.dst}, escape : BOOLEAN]
  /\ Sequence(state.dst) /\ Len(state.dst) <= Dsize

\* What the deframer makes of an octet fits, and is no packet or a real one.
LEMMA DecodeFits ==
  ASSUME NEW state, DecoderFits(state), NEW ch
  PROVE  LET d == DecodeOctet(state, ch, Dsize)
         IN  DecoderFits(d.state) /\ Sequence(d.packet)
<1>0. Dsize \in Nat
  BY PppAssumption
<1>1. ASSUME NEW dst, NEW escape \in BOOLEAN, Sequence(dst), Len(dst) <= Dsize
      PROVE  DecoderFits(GoesOn(dst, escape).state) /\ Sequence(GoesOn(dst, escape).packet)
  BY <1>1, Empty DEF DecoderFits, GoesOn
<1>2. ASSUME NEW dst, NEW packet, Sequence(dst), Len(dst) <= Dsize, Sequence(packet)
      PROVE  DecoderFits(Returns(dst, packet).state) /\ Sequence(Returns(dst, packet).packet)
  BY <1>2 DEF DecoderFits, Returns
<1>3. state.escape \in BOOLEAN /\ Sequence(state.dst) /\ Len(state.dst) <= Dsize
      /\ Len(state.dst) \in Nat
  BY DEF DecoderFits, Sequence
<1>4. CASE ch = PPP_FLAG
  <2>1. DecodeOctet(state, ch, Dsize) = DecodeFlag(state)
    BY <1>4 DEF DecodeOctet, PPP_FLAG, PPP_ESCAPE
  <2>2. CASE state.escape
    <3>1. DecodeFlag(state) = GoesOn(state.dst, TRUE)
      BY <2>2 DEF DecodeFlag
    <3> QED
      BY <1>1, <1>3, <2>1, <3>1
  <2>3. CASE ~ state.escape /\ Len(state.dst) < 2
    <3>1. DecodeFlag(state) = GoesOn(<<>>, FALSE)
      <4>1. ~ (Len(state.dst) >= 2)
        BY <1>3, <2>3
      <4> QED
        BY <2>3, <4>1, Zenon DEF DecodeFlag
    <3>2. Sequence(<<>>) /\ Len(<<>>) <= Dsize
      BY <1>0, Empty
    <3>3. DecoderFits(GoesOn(<<>>, FALSE).state) /\ Sequence(GoesOn(<<>>, FALSE).packet)
      BY <1>1, <3>2
    <3> QED
      BY <2>1, <3>1, <3>3
  <2>4. CASE ~ state.escape /\ ~ (Len(state.dst) < 2)
    <3> DEFINE packet == SubSeq(state.dst, 1, Len(state.dst) - 2)
    <3>1. DecodeFlag(state) = Returns(<<>>, packet)
      BY <1>3, <2>4 DEF DecodeFlag
    <3>2. Sequence(packet)
      <4>1. Len(state.dst) - 2 \in 0 .. Len(state.dst)
        BY <1>3, <2>4
      <4> QED
        BY <1>3, <4>1, Split
    <3> QED
      BY <1>0, <1>2, <2>1, <3>1, <3>2, Empty
  <2> QED
    BY <2>2, <2>3, <2>4
<1>5. CASE ch = PPP_ESCAPE
  <2>1. DecodeOctet(state, ch, Dsize) = GoesOn(state.dst, TRUE)
    BY <1>5 DEF DecodeOctet, PPP_FLAG, PPP_ESCAPE
  <2> QED
    BY <1>1, <1>3, <2>1
<1>6. CASE ch # PPP_FLAG /\ ch # PPP_ESCAPE
  <2> DEFINE octet == IF state.escape THEN Transposed(ch) ELSE ch
             more  == Append(state.dst, octet)
  <2>1. DecodeOctet(state, ch, Dsize) =
          IF Len(state.dst) < Dsize THEN GoesOn(more, FALSE) ELSE Returns(state.dst, <<>>)
    BY <1>6 DEF DecodeOctet, DecodeOther
  <2> HIDE DEF octet
  <2>2. Sequence(more) /\ (Len(state.dst) < Dsize => Len(more) <= Dsize)
    <3>1. Sequence(more) /\ Len(more) = Len(state.dst) + 1
      BY <1>3, Appended
    <3> QED
      BY <1>0, <1>3, <3>1
  <2> HIDE DEF more
  <2> QED
    BY <1>1, <1>2, <1>3, <2>1, <2>2, Empty
<1> QED
  BY <1>4, <1>5, <1>6

-----------------------------------------------------------------------------
(* From the queue to the line.                                             *)

\* Forwarded, of the four variables it is made of.
View(taken, rest, begun, queue) ==
  taken \o (IF rest = <<>> THEN <<>> ELSE <<begun \o rest>>) \o queue

\* A packet that is queued is the last one to leave.
LEMMA Queued ==
  ASSUME NEW taken, NEW rest, NEW begun, NEW queue, Sequence(taken), Sequence(queue), NEW packet
  PROVE  View(taken, rest, begun, Append(queue, packet)) =
           Append(View(taken, rest, begun, queue), packet)
<1> DEFINE now == IF rest = <<>> THEN <<>> ELSE <<begun \o rest>>
<1>1. Sequence(now) /\ Sequence(<<packet>>)
  BY Empty, Appended
<1> HIDE DEF now
<1>2. Sequence(taken \o now) /\ Sequence((taken \o now) \o queue)
  BY <1>1, Joined
<1>3. (taken \o now) \o Append(queue, packet) = ((taken \o now) \o queue) \o <<packet>>
  <2> DEFINE front == taken \o now
  <2>1. Sequence(front)
    BY <1>2
  <2> HIDE DEF front
  <2>2. (front \o queue) \o <<packet>> = front \o (queue \o <<packet>>)
    BY <1>1, <2>1, Joined
  <2>3. Append(queue, packet) = queue \o <<packet>>
    BY Appended
  <2> QED
    BY <2>2, <2>3 DEF front
<1>4. ((taken \o now) \o queue) \o <<packet>> = Append((taken \o now) \o queue, packet)
  BY <1>2, Appended
<1> QED
  BY <1>3, <1>4 DEF View, now

\* The next packet is taken out of the queue when none is being transmitted.
LEMMA Dequeued ==
  ASSUME NEW taken, NEW queue, Sequence(taken), Sequence(queue), queue # <<>>,
         Sequence(Head(queue)), Head(queue) # <<>>
  PROVE  View(taken, Head(queue), <<>>, Tail(queue)) = View(taken, <<>>, <<>>, queue)
<1> DEFINE h == Head(queue)
           t == Tail(queue)
<1>1. queue = <<h>> \o t /\ Sequence(t) /\ Sequence(<<h>>)
  BY First, Appended, Empty
<1>2. <<>> \o h = h /\ h # <<>>
  BY Empty
<1> HIDE DEF h, t
<1>3. (taken \o <<h>>) \o t = taken \o (<<h>> \o t)
  BY <1>1, Joined
<1>4. taken \o <<>> = taken
  BY Empty
<1> QED
  BY <1>1, <1>2, <1>3, <1>4 DEF View, h, t

\* Two ways to go on with the packet being transmitted: it is done, or not.
LEMMA Done ==
  ASSUME NEW taken, NEW rest, NEW begun, NEW queue, Sequence(taken), Sequence(queue), rest # <<>>
  PROVE  View(Append(taken, begun \o rest), <<>>, <<>>, queue) = View(taken, rest, begun, queue)
<1> DEFINE packet == begun \o rest
<1>1. Append(taken, packet) = taken \o <<packet>> /\ Sequence(Append(taken, packet))
  BY Appended
<1>2. Append(taken, packet) \o <<>> = Append(taken, packet)
  BY <1>1, Empty
<1> HIDE DEF packet
<1> QED
  BY <1>1, <1>2 DEF View, packet

LEMMA GoesOnWith ==
  ASSUME NEW taken, NEW rest, NEW begun, NEW queue, Sequence(rest), Sequence(begun),
         NEW count \in 0 .. Len(rest), count # Len(rest)
  PROVE  LET before == SubSeq(rest, 1, count)
             behind == SubSeq(rest, count + 1, Len(rest))
         IN  View(taken, behind, begun \o before, queue) = View(taken, rest, begun, queue)
<1> DEFINE before == SubSeq(rest, 1, count)
           behind == SubSeq(rest, count + 1, Len(rest))
<1>1. Sequence(before) /\ Sequence(behind) /\ before \o behind = rest /\ behind # <<>>
  BY Split
<1> HIDE DEF before, behind
<1>2. (begun \o before) \o behind = begun \o rest
  <2>1. ASSUME NEW b, NEW c, Sequence(b), Sequence(c)
        PROVE  (begun \o b) \o c = begun \o (b \o c)
    BY <2>1, Joined
  <2>2. (begun \o before) \o behind = begun \o (before \o behind)
    BY <1>1, <2>1
  <2> QED
    BY <1>1, <2>2
<1>3. rest # <<>>
  <2>1. Len(rest) # 0
    <3>1. Len(rest) \in Nat
      BY DEF Sequence
    <3> QED
      BY <3>1
  <2> QED
    BY <2>1
<1> QED
  BY <1>1, <1>2, <1>3 DEF View, before, behind

\* One call of the encoder, whatever it takes.
LEMMA EncodeKeeps ==
  ASSUME QueueInv, NEW rv, NEW count \in 0 .. Len(Transmitting), EncodeCall(rv, count)
  PROVE  QueueInv' /\ Forwarded' = Forwarded
<1> DEFINE rest == Transmitting
           queue == QueueAfter
           before == SubSeq(rest, 1, count)
           behind == SubSeq(rest, count + 1, Len(rest))
<1>1. /\ Sequence(rest) /\ Sequence(queue)
      /\ \A i \in 1 .. Len(queue) : Sequence(queue[i]) /\ queue[i] # <<>>
      /\ rest = <<>> => part = <<>>
      /\ View(line, rest, part, queue) = Forwarded
  <2>1. CASE hdlc_tx_buf # <<>> \/ isdn_hdlc_tx_queue = <<>>
    BY <2>1 DEF QueueInv, Transmitting, QueueAfter, View, Forwarded
  <2>2. CASE hdlc_tx_buf = <<>> /\ isdn_hdlc_tx_queue # <<>>
    <3> DEFINE q == isdn_hdlc_tx_queue
    <3>1. rest = Head(q) /\ queue = Tail(q) /\ part = <<>>
      BY <2>2 DEF Transmitting, QueueAfter, QueueInv
    <3>2. /\ Sequence(Tail(q)) /\ Head(q) = q[1] /\ 1 \in 1 .. Len(q)
          /\ \A i \in 1 .. Len(Tail(q)) : i + 1 \in 1 .. Len(q) /\ Tail(q)[i] = q[i + 1]
      BY <2>2, First DEF QueueInv
    <3>3. Sequence(Head(q)) /\ Head(q) # <<>>
      BY <3>2 DEF QueueInv
    <3>4. \A i \in 1 .. Len(Tail(q)) : Sequence(Tail(q)[i]) /\ Tail(q)[i] # <<>>
      BY <3>2 DEF QueueInv
    <3>5. View(line, Head(q), <<>>, Tail(q)) = View(line, <<>>, <<>>, q)
      BY <2>2, <3>3, Dequeued DEF QueueInv
    <3>6. View(line, <<>>, <<>>, q) = Forwarded
      BY <2>2 DEF View, Forwarded
    <3> QED
      BY <3>1, <3>2, <3>3, <3>4, <3>5, <3>6
  <2> QED
    BY <2>1, <2>2
<1>2. /\ isdn_hdlc_tx_queue' = queue /\ hdlc_tx_buf' = behind
      /\ IF rest # <<>> /\ count = Len(rest)
         THEN line' = Append(line, part \o before) /\ part' = <<>>
         ELSE part' = part \o before /\ line' = line
  BY DEF EncodeCall
<1> HIDE DEF rest, queue
<1>3. /\ Sequence(before) /\ Sequence(behind) /\ before \o behind = rest
      /\ behind = <<>> <=> count = Len(rest)
  <2>1. count \in 0 .. Len(rest)
    BY DEF rest
  <2> QED
    BY <1>1, <2>1, Split
<1>4. Sequence(line) /\ Sequence(part)
  BY DEF QueueInv
<1>5. Forwarded' = View(line', hdlc_tx_buf', part', isdn_hdlc_tx_queue')
  BY DEF Forwarded, View
<1>6. CASE rest # <<>> /\ count = Len(rest)
  <2>1. behind = <<>> /\ before = rest
    <3>1. before \o <<>> = before
      BY <1>3, Empty
    <3> QED
      BY <1>3, <1>6, <3>1
  <2> HIDE DEF before, behind
  <2>2. line' = Append(line, part \o rest) /\ part' = <<>> /\ hdlc_tx_buf' = <<>>
    BY <1>2, <1>6, <2>1
  <2>3. Sequence(line')
    BY <1>4, <2>2, Appended
  <2>4. Forwarded' = Forwarded
    BY <1>1, <1>2, <1>4, <1>5, <1>6, <2>2, Done
  <2> QED
    BY <1>1, <1>2, <2>2, <2>3, <2>4, Empty DEF QueueInv
<1>7. CASE rest = <<>>
  <2>1. count = Len(rest) /\ before = <<>> /\ behind = <<>> /\ part = <<>>
    <3>1. count = Len(rest)
      <4>1. Len(rest) = 0 /\ count \in 0 .. Len(rest)
        BY <1>7, Empty DEF rest
      <4> QED
        BY <4>1
    <3>2. behind = <<>> /\ before \o <<>> = before
      BY <1>3, <3>1, Empty
    <3> QED
      BY <1>1, <1>3, <1>7, <3>1, <3>2
  <2> HIDE DEF before, behind
  <2>2. part' = <<>> /\ line' = line /\ hdlc_tx_buf' = <<>>
    BY <1>2, <1>7, <2>1, Empty
  <2>3. Forwarded' = Forwarded
    BY <1>1, <1>2, <1>5, <1>7, <2>1, <2>2
  <2> QED
    BY <1>1, <1>2, <1>4, <2>2, <2>3, Empty DEF QueueInv
<1>8. CASE rest # <<>> /\ count # Len(rest)
  <2>1. part' = part \o before /\ line' = line /\ hdlc_tx_buf' = behind /\ behind # <<>>
    BY <1>2, <1>3, <1>8
  <2>2. View(line, behind, part \o before, queue) = View(line, rest, part, queue)
    <3>1. count \in 0 .. Len(rest)
      BY DEF rest
    <3> QED
      BY <1>1, <1>4, <1>8, <3>1, GoesOnWith
  <2> HIDE DEF before, behind
  <2>3. Forwarded' = Forwarded
    BY <1>1, <1>2, <1>5, <2>1, <2>2
  <2>4. Sequence(part')
    BY <1>3, <1>4, <2>1, Joined
  <2> QED
    BY <1>1, <1>2, <1>3, <1>4, <2>1, <2>3, <2>4 DEF QueueInv
<1> QED
  BY <1>6, <1>7, <1>8

-----------------------------------------------------------------------------

IInv == QueueInv /\ DecoderFits(ppp_rfc1662_state)

\* What DecodeStep adds to the packets for the line.
Deframed ==
  LET d == DecodeOctet(ppp_rfc1662_state, Head(pppd_rx_buf), Dsize)
  IN  IF d.packet = <<>> THEN Forwarded ELSE Append(Forwarded, d.packet)

Step == Forwarded' = IF DecodeStep THEN Deframed ELSE Forwarded

LEMMA InitIInv == Init => IInv
<1> SUFFICES ASSUME Init PROVE IInv
  OBVIOUS
<1>1. /\ line = <<>> /\ isdn_hdlc_tx_queue = <<>> /\ hdlc_tx_buf = <<>> /\ part = <<>>
      /\ ppp_rfc1662_state = NewDecoder
  BY DEF Init
<1>2. Dsize \in Nat
  BY PppAssumption
<1>3. QueueInv
  BY <1>1, Empty DEF QueueInv
<1>4. DecoderFits(NewDecoder)
  BY <1>2, Empty DEF DecoderFits, NewDecoder
<1> QED
  BY <1>1, <1>3, <1>4 DEF IInv

LEMMA NextIInv == IInv /\ [Next]_vars => IInv' /\ Step
<1> SUFFICES ASSUME IInv, [Next]_vars PROVE IInv' /\ Step
  OBVIOUS
<1>0. QueueInv /\ DecoderFits(ppp_rfc1662_state)
  BY DEF IInv
<1>1. ASSUME UNCHANGED <<hdlc, ppp_rfc1662_state>>, ~ DecodeStep PROVE IInv' /\ Step
  BY <1>0, <1>1 DEF IInv, QueueInv, DecoderFits, Step, Forwarded, hdlc
<1>2. CASE DecodeStep
  <2> DEFINE d == DecodeOctet(ppp_rfc1662_state, Head(pppd_rx_buf), Dsize)
             q == isdn_hdlc_tx_queue
  <2>1. /\ ppp_rfc1662_state' = d.state
        /\ isdn_hdlc_tx_queue' = IF d.packet = <<>> THEN q ELSE Append(q, d.packet)
        /\ UNCHANGED <<line, part, hdlc_tx_buf>>
    BY <1>2 DEF DecodeStep
  <2>2. DecoderFits(d.state) /\ Sequence(d.packet)
    BY <1>0, DecodeFits
  <2>3. Deframed = IF d.packet = <<>> THEN Forwarded ELSE Append(Forwarded, d.packet)
    BY DEF Deframed
  <2> HIDE DEF d
  <2>4. Forwarded = View(line, hdlc_tx_buf, part, q)
        /\ Forwarded' = View(line, hdlc_tx_buf, part, isdn_hdlc_tx_queue')
    BY <2>1 DEF Forwarded, View
  <2>5. DecoderFits(ppp_rfc1662_state)'
    BY <2>1, <2>2 DEF DecoderFits
  <2>6. CASE d.packet = <<>>
    BY <1>0, <1>2, <2>1, <2>3, <2>4, <2>5, <2>6 DEF IInv, QueueInv, Step
  <2>7. CASE d.packet # <<>>
    <3>1. isdn_hdlc_tx_queue' = Append(q, d.packet)
      BY <2>1, <2>7
    <3>2. Sequence(q)
      BY <1>0 DEF QueueInv
    <3>3. /\ Sequence(isdn_hdlc_tx_queue') /\ Len(isdn_hdlc_tx_queue') = Len(q) + 1
          /\ Len(q) \in Nat /\ \A i \in 1 .. Len(q) : isdn_hdlc_tx_queue'[i] = q[i]
          /\ isdn_hdlc_tx_queue'[Len(q) + 1] = d.packet
      BY <3>1, <3>2, Appended
    <3>4. ASSUME NEW i \in 1 .. Len(isdn_hdlc_tx_queue')
          PROVE  Sequence(isdn_hdlc_tx_queue'[i]) /\ isdn_hdlc_tx_queue'[i] # <<>>
      <4>1. i \in 1 .. Len(q) \/ i = Len(q) + 1
        BY <3>3
      <4> QED
        BY <1>0, <2>2, <2>7, <3>3, <4>1 DEF QueueInv
    <3>5. QueueInv'
      BY <1>0, <2>1, <3>3, <3>4 DEF QueueInv
    <3>6. Forwarded' = Append(Forwarded, d.packet)
      BY <1>0, <2>4, <3>1, <3>2, Queued DEF QueueInv
    <3> QED
      BY <1>2, <2>3, <2>5, <2>7, <3>5, <3>6 DEF IInv, Step
  <2> QED
    BY <2>6, <2>7
<1>3. CASE EncodeSome \/ EncodeNone
  <2>1. PICK r \in osmo_isdnhdlc_encode(Transmitting, room) : EncodeCall(r.rv, r.count)
    BY <1>3 DEF EncodeSome, EncodeNone
  <2>2. r.count \in 0 .. Len(Transmitting)
    BY DEF osmo_isdnhdlc_encode
  <2>3. QueueInv' /\ Forwarded' = Forwarded
    BY <1>0, <2>1, <2>2, EncodeKeeps
  <2>4. ~ DecodeStep /\ UNCHANGED ppp_rfc1662_state
    BY <2>1 DEF EncodeCall, DecodeStep, Encoding, Decoding, tty
  <2>5. DecoderFits(ppp_rfc1662_state)'
    BY <1>0, <2>4 DEF DecoderFits
  <2> QED
    BY <2>3, <2>4, <2>5 DEF IInv, Step
<1>4. CASE SampleBuffer
  <2>1. ~ DecodeStep /\ UNCHANGED <<line, part, hdlc_tx_buf, isdn_hdlc_tx_queue, ppp_rfc1662_state>>
    BY <1>4 DEF SampleBuffer, DecodeStep, Calls, tty, Decoding
  <2> QED
    BY <1>0, <2>1 DEF IInv, QueueInv, DecoderFits, Step, Forwarded
<1>5. CASE ~ DecodeStep /\ (PppdSends \/ PppdExits \/ LoopTop \/ Message \/ PtyRead \/ PtyError \/ UNCHANGED vars)
  <2>1. UNCHANGED <<hdlc, ppp_rfc1662_state>>
    BY <1>5 DEF PppdSends, PppdExits, LoopTop, Message, PtyRead, PtyError, vars, tty
  <2> QED
    BY <1>1, <1>5, <2>1
<1> QED
  BY <1>2, <1>3, <1>4, <1>5 DEF Next

LEMMA AlwaysIInv == Spec => []IInv
  BY InitIInv, NextIInv, PTL DEF Spec

\* However reads cut the stream of pppd, and whatever frames run together
\* when a flag between them is dropped: pppd_rfc1662_decode never writes
\* behind the end of temp_pack_buf.
THEOREM PackBufferKept == Spec => [](Len(ppp_rfc1662_state.dst) <= Dsize)
<1>1. IInv => Len(ppp_rfc1662_state.dst) <= Dsize
  BY DEF IInv, DecoderFits
<1> QED
  BY <1>1, AlwaysIInv, PTL

\* For every size of packet and sample buffer, and whatever the encoder
\* takes in each call: the packets that have left, are leaving or wait for
\* the line change only when the deframer has another one, which becomes
\* the last of them.  No packet is lost, doubled, changed or overtaken.
THEOREM EachPacketOnce ==
  Spec => [][Forwarded' = IF DecodeStep THEN Deframed ELSE Forwarded]_vars
<1>1. IInv /\ [Next]_vars => [Forwarded' = IF DecodeStep THEN Deframed ELSE Forwarded]_vars
  BY NextIInv DEF Step
<1> QED
  BY <1>1, AlwaysIInv, PTL DEF Spec

-----------------------------------------------------------------------------
(* Stuffing.                                                               *)

\* What a sequence is whose first element is x.
LEMMA ConsIs ==
  ASSUME NEW S, NEW x \in S, NEW s \in Seq(S)
  PROVE  LET c == <<x>> \o s
         IN  /\ c \in Seq(S) /\ Len(c) = Len(s) + 1 /\ c # <<>> /\ c[1] = x
             /\ \A i \in 1 .. Len(c) : i # 1 => c[i] = s[i - 1]
             /\ Head(c) = x /\ Tail(c) = s
<1> DEFINE h == <<x>>
           c == h \o s
           n == Len(s)
<1>1. h \in Seq(S) /\ Len(h) = 1 /\ h[1] = x /\ n \in Nat
  OBVIOUS
<1> HIDE DEF h
<1>2. /\ c \in Seq(S) /\ Len(c) = Len(h) + n
      /\ \A i \in 1 .. Len(h) + n : c[i] = IF i <= Len(h) THEN h[i] ELSE s[i - Len(h)]
  BY ConcatProperties, <1>1
<1> HIDE DEF c, n
<1>3. Len(c) = n + 1 /\ Len(c) > 0 /\ \A i \in 1 .. Len(c) : c[i] = IF i <= 1 THEN h[i] ELSE s[i - 1]
  BY <1>1, <1>2
<1>4. c[1] = x
  BY <1>1, <1>3
<1>5. \A i \in 1 .. Len(c) : i # 1 => c[i] = s[i - 1]
  BY <1>1, <1>3
<1>6. c # <<>>
  BY <1>3, EmptySeq
<1>7. /\ Head(c) = c[1] /\ Tail(c) \in Seq(S) /\ Len(Tail(c)) = Len(c) - 1
      /\ \A i \in 1 .. Len(Tail(c)) : Tail(c)[i] = c[i + 1]
  BY <1>2, <1>3, HeadTailProperties
<1> DEFINE t == Tail(c)
<1>8. t \in Seq(S) /\ Len(t) = n /\ \A i \in 1 .. n : t[i] = c[i + 1]
  BY <1>1, <1>3, <1>7
<1> HIDE DEF t
<1>9. \A i \in 1 .. n : t[i] = s[i]
  <2> TAKE i \in 1 .. n
  <2>1. i + 1 \in 1 .. Len(c) /\ i + 1 # 1 /\ (i + 1) - 1 = i
    BY <1>1, <1>3
  <2> QED
    BY <1>5, <1>8, <2>1
<1>10. t = s
  <2>1. Len(s) = n
    BY DEF n
  <2> QED
    BY <1>8, <1>9, <2>1, SeqEqual
<1> QED
  BY <1>2, <1>3, <1>4, <1>5, <1>6, <1>7, <1>10 DEF t, c, h, n

\* The octets of a frame between its flags.
Stuffing(b) == FlattenSeq([x \in DOMAIN b |-> Stuffed(b[x])])

\* An octet that the line does not carry as it is.
Special(e) == e < 32 \/ e \in {PPP_ESCAPE, PPP_FLAG}

\* An octet that is not sent as it is comes back from behind the escape.
LEMMA Escapes ==
  ASSUME NEW e \in Octet, Special(e)
  PROVE  /\ Stuffed(e) = <<PPP_ESCAPE, Transposed(e)>>
         /\ Transposed(e) \in Octet \ {PPP_ESCAPE, PPP_FLAG}
         /\ Transposed(Transposed(e)) = e
<1>1. CASE e < 32
  <2>1. e \in 0 .. 31
    BY <1>1 DEF Octet
  <2>2. (e \div 32) % 2 = 0
    BY <2>1
  <2>3. Transposed(e) = e + 32
    BY <2>2 DEF Transposed, PPP_TRANS
  <2>4. (e + 32) \div 32 = 1
    BY <2>1
  <2>5. Transposed(e + 32) = e
    BY <2>1, <2>4 DEF Transposed, PPP_TRANS
  <2> QED
    BY <1>1, <2>1, <2>3, <2>5 DEF Stuffed, Octet, PPP_ESCAPE, PPP_FLAG
<1>2. CASE e = 125
  BY <1>2 DEF Stuffed, Transposed, Octet, PPP_ESCAPE, PPP_FLAG, PPP_TRANS
<1>3. CASE e = 126
  BY <1>3 DEF Stuffed, Transposed, Octet, PPP_ESCAPE, PPP_FLAG, PPP_TRANS
<1> QED
  BY <1>1, <1>2, <1>3 DEF Special, PPP_ESCAPE, PPP_FLAG

LEMMA Plain ==
  ASSUME NEW e \in Octet, ~ Special(e)
  PROVE  Stuffed(e) = <<e>> /\ e # PPP_ESCAPE /\ e # PPP_FLAG
BY DEF Special, Stuffed

LEMMA StuffedType ==
  ASSUME NEW e \in Octet
  PROVE  Stuffed(e) \in Seq(Octet)
<1>1. CASE Special(e)
  <2>1. Stuffed(e) = <<PPP_ESCAPE, Transposed(e)>> /\ Transposed(e) \in Octet
    BY <1>1, Escapes
  <2>2. PPP_ESCAPE \in Octet
    BY DEF PPP_ESCAPE, Octet
  <2> QED
    BY <2>1, <2>2
<1>2. CASE ~ Special(e)
  <2>1. Stuffed(e) = <<e>>
    BY <1>2, Plain
  <2> QED
    BY <2>1
<1> QED
  BY <1>1, <1>2

\* The octets of a frame, each by itself on the line.
LEMMA StuffingIs ==
  ASSUME NEW b \in Seq(Octet)
  PROVE  LET m == [x \in DOMAIN b |-> Stuffed(b[x])]
         IN  m \in Seq(Seq(Octet)) /\ Len(m) = Len(b) /\ \A i \in 1 .. Len(b) : m[i] = Stuffed(b[i])
<1>1. Len(b) \in Nat /\ DOMAIN b = 1 .. Len(b) /\ \A i \in 1 .. Len(b) : b[i] \in Octet
  OBVIOUS
<1>2. \A i \in 1 .. Len(b) : Stuffed(b[i]) \in Seq(Octet)
  BY <1>1, StuffedType
<1> DEFINE f(i) == Stuffed(b[i])
           m == [x \in 1 .. Len(b) |-> f(x)]
<1>3. \A i \in 1 .. Len(b) : f(i) \in Seq(Octet)
  BY <1>2
<1> HIDE DEF f
<1>4. m \in Seq(Seq(Octet)) /\ Len(m) = Len(b)
  BY <1>1, <1>3
<1>5. \A i \in 1 .. Len(b) : m[i] = f(i)
  OBVIOUS
<1> QED
  BY <1>1, <1>4, <1>5 DEF f

LEMMA StuffingType ==
  ASSUME NEW b \in Seq(Octet)
  PROVE  Stuffing(b) \in Seq(Octet)
BY StuffingIs, FlatType DEF Stuffing

LEMMA StuffingNone == Stuffing(<<>>) = <<>>
<1> DEFINE m == [x \in DOMAIN <<>> |-> Stuffed(<<>>[x])]
<1>1. <<>> \in Seq(Octet) /\ Len(<<>>) = 0
  OBVIOUS
<1>2. m \in Seq(Seq(Octet)) /\ Len(m) = 0
  BY <1>1, StuffingIs
<1> HIDE DEF m
<1>3. m = <<>>
  BY <1>2, EmptySeq
<1> QED
  BY <1>3, FlatNone DEF m, Stuffing

\* The first octet of a frame is the first on the line.
LEMMA StuffingCons ==
  ASSUME NEW e \in Octet, NEW b \in Seq(Octet)
  PROVE  Stuffing(<<e>> \o b) = Stuffed(e) \o Stuffing(b)
<1> DEFINE c == <<e>> \o b
           m == [x \in DOMAIN b |-> Stuffed(b[x])]
           k == [x \in DOMAIN c |-> Stuffed(c[x])]
           l == <<Stuffed(e)>> \o m
<1>1. /\ c \in Seq(Octet) /\ Len(c) = Len(b) + 1 /\ c[1] = e
      /\ \A i \in 1 .. Len(c) : i # 1 => c[i] = b[i - 1]
  BY ConsIs
<1>2. m \in Seq(Seq(Octet)) /\ Len(m) = Len(b) /\ \A i \in 1 .. Len(b) : m[i] = Stuffed(b[i])
  BY StuffingIs
<1> HIDE DEF c, m
<1>3. k \in Seq(Seq(Octet)) /\ Len(k) = Len(c) /\ \A i \in 1 .. Len(c) : k[i] = Stuffed(c[i])
  BY <1>1, StuffingIs
<1>4. Stuffed(e) \in Seq(Octet)
  BY StuffedType
<1>5. /\ l \in Seq(Seq(Octet)) /\ Len(l) = Len(b) + 1 /\ l[1] = Stuffed(e)
      /\ \A i \in 1 .. Len(l) : i # 1 => l[i] = m[i - 1]
  <2> DEFINE y == Stuffed(e)
  <2>1. y \in Seq(Octet)
    BY <1>4
  <2> HIDE DEF y
  <2>2. /\ <<y>> \o m \in Seq(Seq(Octet)) /\ Len(<<y>> \o m) = Len(m) + 1
        /\ (<<y>> \o m)[1] = y
        /\ \A i \in 1 .. Len(<<y>> \o m) : i # 1 => (<<y>> \o m)[i] = m[i - 1]
    BY <1>2, <2>1, ConsIs
  <2> QED
    BY <1>2, <2>2 DEF y
<1> HIDE DEF k, l
<1>6. ASSUME NEW i \in 1 .. Len(k) PROVE k[i] = l[i]
  <2>1. CASE i = 1
    BY <1>1, <1>3, <1>5, <2>1
  <2>2. CASE i # 1
    <3>1. i \in 1 .. Len(c) /\ i \in 1 .. Len(l) /\ i - 1 \in 1 .. Len(b)
      BY <1>1, <1>3, <1>5, <2>2
    <3>2. k[i] = Stuffed(c[i]) /\ c[i] = b[i - 1] /\ l[i] = m[i - 1] /\ m[i - 1] = Stuffed(b[i - 1])
      BY <1>1, <1>2, <1>3, <1>5, <2>2, <3>1
    <3> QED
      BY <3>2
  <2> QED
    BY <2>1, <2>2
<1>7. k = l
  BY <1>1, <1>3, <1>5, <1>6, SeqEqual
<1>8. FlattenSeq(l) = Stuffed(e) \o FlattenSeq(m)
  BY <1>2, <1>4, FlatCons DEF l
<1> QED
  BY <1>7, <1>8 DEF Stuffing, c, k, m

-----------------------------------------------------------------------------
(* The stream of pppd: frames, the first of which may be begun.            *)

\* What pppd writes for the packet p: the opening flag may be left out.
IsFrame(f, p) ==
  \E fcs \in Fcs :
    LET framed == Stuffing(p \o fcs) \o <<PPP_FLAG>>
    IN  f = framed \/ f = <<PPP_FLAG>> \o framed

\* The frames of the packets r, one behind the other.
Frames(w, r) ==
  \E rest \in Seq(Seq(Octet)) :
    /\ Len(rest) = Len(r) /\ \A k \in 1 .. Len(r) : IsFrame(rest[k], r[k])
    /\ w = FlattenSeq(rest)

\* What is left of a frame of which the octets b are to come, and all after it.
Ahead(b, v) == Stuffing(b) \o (<<PPP_FLAG>> \o v)

\* The decoder is between two frames, in one, or behind an escape in one.
Between(u, dst, r) ==
  dst = <<>> /\ \E v : Frames(v, r) /\ (u = v \/ u = <<PPP_FLAG>> \o v)

Inside(u, dst, r) ==
  /\ r # <<>>
  /\ \E b \in Seq(Octet), fcs \in Fcs, v \in Seq(Octet) :
       dst \o b = Head(r) \o fcs /\ Frames(v, Tail(r)) /\ u = Ahead(b, v)

Escaped(u, dst, r) ==
  /\ r # <<>>
  /\ \E e \in Octet, b \in Seq(Octet), fcs \in Fcs, v \in Seq(Octet) :
       /\ Special(e) /\ dst \o (<<e>> \o b) = Head(r) \o fcs
       /\ Frames(v, Tail(r)) /\ u = <<Transposed(e)>> \o Ahead(b, v)

\* u is still to be decoded, state is the decoder's, and r are the packets
\* of which it has not come to the end yet.
Cut(u, state, r) ==
  /\ state.dst \in Seq(Octet)
  /\ \/ ~ state.escape /\ Between(u, state.dst, r)
     \/ ~ state.escape /\ Inside(u, state.dst, r)
     \/ state.escape /\ Escaped(u, state.dst, r)

LEMMA FlagOctet == PPP_FLAG \in Octet /\ PPP_ESCAPE \in Octet /\ PPP_FLAG # PPP_ESCAPE
                   /\ <<PPP_FLAG>> \in Seq(Octet)
  BY DEF PPP_FLAG, PPP_ESCAPE, Octet

\* The octets between the flags, and how the decoder gets the packet back.
LEMMA Body ==
  ASSUME NEW p \in Packets, NEW fcs \in Fcs
  PROVE  LET body == p \o fcs
         IN  /\ p \in Seq(Octet) /\ p # <<>>
             /\ body \in Seq(Octet) /\ Len(body) >= 2 /\ Len(body) <= Dsize
             /\ SubSeq(body, 1, Len(body) - 2) = p
<1> DEFINE body == p \o fcs
           n == Len(p)
<1>1. p \in Seq(Octet) /\ n \in Nat /\ n > 0 /\ n + 2 <= Dsize /\ Dsize \in Nat
  BY PppAssumption
<1>2. fcs \in Octet \X Octet
  BY PppAssumption
<1>3. fcs \in Seq(Octet) /\ Len(fcs) = 2
  <2>1. PICK a \in Octet, b \in Octet : fcs = <<a, b>>
    BY <1>2
  <2>2. <<a, b>> \in Seq(Octet) /\ Len(<<a, b>>) = 2
    OBVIOUS
  <2> QED
    BY <2>1, <2>2
<1>4. body \in Seq(Octet) /\ Len(body) = n + 2
      /\ \A i \in 1 .. n + 2 : body[i] = IF i <= n THEN p[i] ELSE fcs[i - n]
  <2>1. /\ p \o fcs \in Seq(Octet) /\ Len(p \o fcs) = Len(p) + Len(fcs)
        /\ \A i \in 1 .. Len(p) + Len(fcs) :
             (p \o fcs)[i] = IF i <= Len(p) THEN p[i] ELSE fcs[i - Len(p)]
    BY <1>1, <1>3, ConcatProperties
  <2> HIDE DEF body
  <2> QED
    BY <1>3, <2>1 DEF body
<1> DEFINE q == SubSeq(body, 1, n)
<1> HIDE DEF body
<1>5. q \in Seq(Octet) /\ Len(q) = n /\ \A i \in 1 .. n : q[i] = body[i]
  <2>1. \A i \in 1 .. n : body[i] \in Octet
    BY <1>1, <1>4
  <2>2. 1 \in Int /\ n \in Int /\ \A i \in 1 .. n : (1 + i) - 1 = i
    BY <1>1
  <2>3. /\ SubSeq(body, 1, n) \in Seq(Octet)
        /\ Len(SubSeq(body, 1, n)) = IF 1 <= n THEN n - 1 + 1 ELSE 0
        /\ \A i \in 1 .. n - 1 + 1 : SubSeq(body, 1, n)[i] = body[1 + i - 1]
    BY <1>4, <2>1, <2>2, SubSeqProperties
  <2> HIDE DEF n
  <2> QED
    BY <1>1, <2>2, <2>3
<1>6. \A i \in 1 .. Len(q) : q[i] = p[i]
  BY <1>1, <1>4, <1>5
<1> HIDE DEF q
<1>7. q = p
  <2>1. Len(q) = Len(p)
    BY <1>5
  <2> QED
    BY <1>1, <1>5, <1>6, <2>1, SeqEqual
<1>8. Len(body) - 2 = n
  BY <1>1, <1>4
<1>9. p # <<>>
  BY <1>1
<1> QED
  BY <1>1, <1>4, <1>7, <1>8, <1>9 DEF q, body

LEMMA FrameType ==
  ASSUME NEW p \in Packets, NEW f, IsFrame(f, p)
  PROVE  f \in Seq(Octet) /\ f # <<>>
<1>1. PICK fcs \in Fcs : \/ f = Stuffing(p \o fcs) \o <<PPP_FLAG>>
                         \/ f = <<PPP_FLAG>> \o (Stuffing(p \o fcs) \o <<PPP_FLAG>>)
  BY DEF IsFrame
<1> DEFINE s == Stuffing(p \o fcs)
           t == s \o <<PPP_FLAG>>
<1>2. s \in Seq(Octet)
  BY Body, StuffingType
<1> HIDE DEF s
<1>3. t \in Seq(Octet) /\ Len(t) = Len(s) + 1 /\ Len(s) \in Nat
  BY <1>2, FlagOctet, ConcatProperties
<1> HIDE DEF t
<1>4. t # <<>>
  BY <1>3, EmptySeq
<1>5. <<PPP_FLAG>> \o t \in Seq(Octet) /\ <<PPP_FLAG>> \o t # <<>>
  BY <1>3, FlagOctet, ConsIs
<1> QED
  BY <1>1, <1>3, <1>4, <1>5 DEF s, t

LEMMA FramesType ==
  ASSUME NEW w, NEW r, Frames(w, r)
  PROVE  w \in Seq(Octet)
BY FlatType DEF Frames

\* No packets, no octets; the first of the packets; one more packet.
LEMMA FramesNone ==
  /\ Frames(<<>>, <<>>)
  /\ \A w : Frames(w, <<>>) => w = <<>>
<1>1. Frames(<<>>, <<>>)
  <2>1. <<>> \in Seq(Seq(Octet)) /\ Len(<<>>) = 0
    OBVIOUS
  <2>2. \A k \in 1 .. Len(<<>>) : FALSE
    BY <2>1
  <2> QED
    BY <2>1, <2>2, FlatNone, Zenon DEF Frames
<1>2. ASSUME NEW w, Frames(w, <<>>) PROVE w = <<>>
  <2>1. PICK rest \in Seq(Seq(Octet)) : Len(rest) = Len(<<>>) /\ w = FlattenSeq(rest)
    BY <1>2 DEF Frames
  <2>2. rest = <<>>
    BY <2>1, EmptySeq
  <2> QED
    BY <2>1, <2>2, FlatNone
<1> QED
  BY <1>1, <1>2

\* The first frame of w is that of the first packet.
Begins(w, r) == \E f, v : IsFrame(f, Head(r)) /\ Frames(v, Tail(r)) /\ w = f \o v

LEMMA FirstFrame ==
  ASSUME NEW r \in Seq(Packets), r # <<>>, NEW w, Frames(w, r)
  PROVE  Begins(w, r)
<1>1. PICK rest \in Seq(Seq(Octet)) :
         /\ Len(rest) = Len(r) /\ \A k \in 1 .. Len(r) : IsFrame(rest[k], r[k])
         /\ w = FlattenSeq(rest)
  BY DEF Frames
<1>2. Len(r) \in Nat /\ Len(r) > 0
  BY EmptySeq
<1>3. rest # <<>>
  BY <1>1, <1>2, EmptySeq
<1> DEFINE f == Head(rest)
           t == Tail(rest)
<1>4. /\ f = rest[1] /\ f \in Seq(Octet) /\ t \in Seq(Seq(Octet)) /\ Len(t) = Len(r) - 1
      /\ \A i \in 1 .. Len(t) : t[i] = rest[i + 1]
  BY <1>1, <1>2, <1>3, HeadTailProperties
<1>5. rest = <<f>> \o t
  BY <1>3, First DEF Sequence
<1>6. /\ Head(r) = r[1] /\ Len(Tail(r)) = Len(r) - 1
      /\ \A i \in 1 .. Len(Tail(r)) : Tail(r)[i] = r[i + 1]
  BY <1>2, HeadTailProperties
<1> HIDE DEF f, t
<1>7. w = f \o FlattenSeq(t)
  BY <1>1, <1>4, <1>5, FlatCons
<1>8. IsFrame(f, Head(r))
  BY <1>1, <1>2, <1>4, <1>6
<1>9. Frames(FlattenSeq(t), Tail(r))
  <2>1. ASSUME NEW i \in 1 .. Len(Tail(r)) PROVE IsFrame(t[i], Tail(r)[i])
    <3>1. i + 1 \in 1 .. Len(r)
      BY <1>2, <1>6
    <3> QED
      BY <1>1, <1>4, <1>6, <3>1
  <2> QED
    BY <1>4, <1>6, <2>1 DEF Frames
<1> QED
  BY <1>7, <1>8, <1>9 DEF Begins

LEMMA LastFrame ==
  ASSUME NEW r \in Seq(Packets), NEW w, Frames(w, r),
         NEW p \in Packets, NEW f, IsFrame(f, p)
  PROVE  Frames(w \o f, Append(r, p))
<1>1. PICK rest \in Seq(Seq(Octet)) :
         /\ Len(rest) = Len(r) /\ \A k \in 1 .. Len(r) : IsFrame(rest[k], r[k])
         /\ w = FlattenSeq(rest)
  BY DEF Frames
<1>2. f \in Seq(Octet)
  BY FrameType
<1> DEFINE n == Len(r)
           more == Append(rest, f)
           all == Append(r, p)
<1>3. /\ more \in Seq(Seq(Octet)) /\ Len(more) = Len(rest) + 1
      /\ (\A i \in 1 .. Len(rest) : more[i] = rest[i]) /\ more[Len(rest) + 1] = f
  BY <1>2, AppendProperties
<1>4. /\ Len(all) = n + 1 /\ n \in Nat
      /\ (\A i \in 1 .. n : all[i] = r[i]) /\ all[n + 1] = p
  BY AppendProperties
<1>5. FlattenSeq(more) = w \o f
  BY <1>1, <1>2, FlatAppend
<1> HIDE DEF more, all, n
<1>6. ASSUME NEW k \in 1 .. n + 1 PROVE IsFrame(more[k], all[k])
  <2>1. CASE k = n + 1
    BY <1>1, <1>3, <1>4, <2>1 DEF n
  <2>2. CASE k # n + 1
    <3>1. k \in 1 .. n
      BY <1>4, <2>2
    <3> QED
      BY <1>1, <1>3, <1>4, <3>1 DEF n
  <2> QED
    BY <2>1, <2>2
<1>7. Len(more) = Len(all)
  BY <1>1, <1>3, <1>4 DEF n
<1>8. Frames(FlattenSeq(more), all)
  <2>1. \A k \in 1 .. Len(all) : IsFrame(more[k], all[k])
    BY <1>4, <1>6
  <2> QED
    BY <1>3, <1>7, <2>1 DEF Frames
<1> QED
  BY <1>5, <1>8 DEF all

LEMMA Octets ==
  ASSUME NEW a \in Seq(Octet), NEW b \in Seq(Octet)
  PROVE  a \o b \in Seq(Octet)
BY ConcatProperties

LEMMA AheadType ==
  ASSUME NEW b \in Seq(Octet), NEW v \in Seq(Octet)
  PROVE  /\ Ahead(b, v) \in Seq(Octet) /\ <<PPP_FLAG>> \o v \in Seq(Octet)
         /\ Stuffing(b) \in Seq(Octet)
<1>1. Stuffing(b) \in Seq(Octet) /\ <<PPP_FLAG>> \o v \in Seq(Octet)
  BY StuffingType, FlagOctet, Octets
<1> QED
  BY <1>1, Octets DEF Ahead

\* What is behind the frame stays behind it.
LEMMA AheadMore ==
  ASSUME NEW b \in Seq(Octet), NEW v \in Seq(Octet), NEW f \in Seq(Octet)
  PROVE  Ahead(b, v) \o f = Ahead(b, v \o f)
<1> DEFINE s == Stuffing(b)
           h == <<PPP_FLAG>>
<1>1. s \in Seq(Octet) /\ h \in Seq(Octet) /\ h \o v \in Seq(Octet)
  BY AheadType, FlagOctet
<1> HIDE DEF s, h
<1>2. (s \o (h \o v)) \o f = s \o ((h \o v) \o f)
  <2> DEFINE t == h \o v
  <2>1. t \in Seq(Octet)
    BY <1>1
  <2> HIDE DEF t
  <2>2. (s \o t) \o f = s \o (t \o f)
    <3>1. Associates(s, t, f)
      BY <1>1, <2>1, Regroup
    <3> QED
      BY <3>1 DEF Associates
  <2> QED
    BY <2>2 DEF t
<1>3. (h \o v) \o f = h \o (v \o f)
  <2>1. Associates(h, v, f)
    BY <1>1, Regroup
  <2> QED
    BY <2>1 DEF Associates
<1> QED
  BY <1>2, <1>3 DEF Ahead, s, h

\* pppd_rfc1662_encode writes a frame, and so does pppd without the first flag.
LEMMA Encoded ==
  ASSUME NEW p \in Packets, NEW fcs \in Fcs
  PROVE  LET f == pppd_rfc1662_encode(p, fcs)
         IN  IsFrame(f, p) /\ IsFrame(Tail(f), p)
<1> DEFINE s == Stuffing(p \o fcs)
           h == <<PPP_FLAG>>
<1>1. s \in Seq(Octet) /\ h \in Seq(Octet) /\ s \o h \in Seq(Octet)
  BY Body, StuffingType, FlagOctet, Octets
<1>2. pppd_rfc1662_encode(p, fcs) = (h \o s) \o h
  BY DEF pppd_rfc1662_encode, Stuffing
<1>3. Tail(h \o (s \o h)) = s \o h
  BY <1>1, FlagOctet, ConsIs
<1> HIDE DEF s, h
<1>4. (h \o s) \o h = h \o (s \o h)
  <2>1. Associates(h, s, h)
    BY <1>1, Regroup
  <2> QED
    BY <2>1 DEF Associates
<1>5. IsFrame(h \o (s \o h), p) /\ IsFrame(s \o h, p)
  BY DEF IsFrame, s, h
<1> QED
  BY <1>2, <1>3, <1>4, <1>5

\* w is a frame of p and then v, from its flag or its first octet on.
Opens(w, p, v) ==
  \E fcs \in Fcs : w = Ahead(p \o fcs, v) \/ w = <<PPP_FLAG>> \o Ahead(p \o fcs, v)

LEMMA FrameAhead ==
  ASSUME NEW p \in Packets, NEW f, IsFrame(f, p), NEW v \in Seq(Octet)
  PROVE  Opens(f \o v, p, v)
<1>1. PICK fcs \in Fcs : \/ f = Stuffing(p \o fcs) \o <<PPP_FLAG>>
                         \/ f = <<PPP_FLAG>> \o (Stuffing(p \o fcs) \o <<PPP_FLAG>>)
  BY DEF IsFrame
<1> DEFINE s == Stuffing(p \o fcs)
           h == <<PPP_FLAG>>
<1>2. s \in Seq(Octet) /\ h \in Seq(Octet) /\ s \o h \in Seq(Octet)
  BY Body, StuffingType, FlagOctet, Octets
<1> HIDE DEF s, h
<1>3. (s \o h) \o v = s \o (h \o v)
  <2>1. Associates(s, h, v)
    BY <1>2, Regroup
  <2> QED
    BY <2>1 DEF Associates
<1>4. (h \o (s \o h)) \o v = h \o ((s \o h) \o v)
  <2>1. Associates(h, s \o h, v)
    BY <1>2, Regroup
  <2> QED
    BY <2>1 DEF Associates
<1>5. Ahead(p \o fcs, v) = s \o (h \o v)
  BY DEF Ahead, s, h
<1> DEFINE w == f \o v
           k == p \o fcs
<1>6. w = Ahead(k, v) \/ w = <<PPP_FLAG>> \o Ahead(k, v)
  BY <1>1, <1>3, <1>4, <1>5 DEF s, h
<1> HIDE DEF w
<1>7. Opens(w, p, v)
  BY <1>6 DEF Opens
<1> QED
  BY <1>7 DEF w

\* A packet at the end leaves the first of them where it is.
LEMMA TailOfAppend ==
  ASSUME NEW r \in Seq(Packets), NEW p \in Packets
  PROVE  LET q == Append(r, p)
         IN  /\ q \in Seq(Packets) /\ q # <<>>
             /\ r # <<>> => Head(q) = Head(r) /\ Tail(q) = Append(Tail(r), p)
             /\ r # <<>> => Head(r) \in Packets /\ Tail(r) \in Seq(Packets)
<1>1. Append(r, p) \in Seq(Packets) /\ Append(r, p) # <<>> /\ Append(r, p) = r \o <<p>>
  BY AppendProperties, AppendIsConcat
<1>2. CASE r # <<>>
  <2> DEFINE h == Head(r)
             t == Tail(r)
  <2>1. Len(r) \in Nat /\ Len(r) > 0
    BY <1>2, EmptySeq
  <2>2. h \in Packets /\ t \in Seq(Packets)
    BY <2>1, HeadTailProperties
  <2>3. r = <<h>> \o t
    BY <1>2, First DEF Sequence
  <2> HIDE DEF h, t
  <2>4. <<h>> \in Seq(Packets) /\ <<p>> \in Seq(Packets)
    BY <2>2
  <2>5. r \o <<p>> = <<h>> \o (t \o <<p>>)
    BY <2>2, <2>3, <2>4, ConcatAssociative
  <2>6. t \o <<p>> = Append(t, p) /\ Append(t, p) \in Seq(Packets)
    BY <2>2, AppendProperties, AppendIsConcat
  <2>7. Head(<<h>> \o Append(t, p)) = h /\ Tail(<<h>> \o Append(t, p)) = Append(t, p)
    BY <2>2, <2>6, ConsIs
  <2> QED
    BY <1>1, <2>2, <2>5, <2>6, <2>7 DEF h, t
<1> QED
  BY <1>1, <1>2

\* pppd writes another packet.
LEMMA CutSends ==
  ASSUME NEW r \in Seq(Packets), NEW u, NEW state, Cut(u, state, r),
         NEW p \in Packets, NEW f, IsFrame(f, p)
  PROVE  Cut(u \o f, state, Append(r, p))
<1> DEFINE q == Append(r, p)
<1>1. f \in Seq(Octet)
  BY FrameType
<1>2. /\ q \in Seq(Packets) /\ q # <<>>
      /\ r # <<>> => Head(q) = Head(r) /\ Tail(q) = Append(Tail(r), p)
      /\ r # <<>> => Tail(r) \in Seq(Packets)
  BY TailOfAppend
<1>3. ASSUME Between(u, state.dst, r) PROVE Between(u \o f, state.dst, q)
  <2>1. PICK v : Frames(v, r) /\ (u = v \/ u = <<PPP_FLAG>> \o v)
    BY <1>3 DEF Between
  <2>2. v \in Seq(Octet)
    BY <2>1, FramesType
  <2>3. Frames(v \o f, q)
    BY <2>1, LastFrame
  <2>4. (<<PPP_FLAG>> \o v) \o f = <<PPP_FLAG>> \o (v \o f)
    <3>1. Associates(<<PPP_FLAG>>, v, f)
      BY <1>1, <2>2, FlagOctet, Regroup
    <3> QED
      BY <3>1 DEF Associates
  <2> QED
    BY <1>3, <2>1, <2>3, <2>4 DEF Between
<1> HIDE DEF q
<1>4. ASSUME NEW v, Frames(v, Tail(r)), r # <<>>
      PROVE  v \in Seq(Octet) /\ v \o f \in Seq(Octet) /\ Frames(v \o f, Tail(q))
  BY <1>2, <1>4, LastFrame, FramesType
<1>5. ASSUME Inside(u, state.dst, r) PROVE Inside(u \o f, state.dst, q)
  <2>1. PICK b \in Seq(Octet), fcs \in Fcs, v \in Seq(Octet) :
          state.dst \o b = Head(r) \o fcs /\ Frames(v, Tail(r)) /\ u = Ahead(b, v)
    BY <1>5 DEF Inside
  <2>2. r # <<>>
    BY <1>5 DEF Inside
  <2>3. u \o f = Ahead(b, v \o f)
    BY <1>1, <2>1, AheadMore
  <2>4. v \o f \in Seq(Octet) /\ Frames(v \o f, Tail(q))
    BY <1>4, <2>1, <2>2
  <2> QED
    BY <1>2, <2>1, <2>2, <2>3, <2>4 DEF Inside
<1>6. ASSUME Escaped(u, state.dst, r) PROVE Escaped(u \o f, state.dst, q)
  <2>1. PICK e \in Octet, b \in Seq(Octet), fcs \in Fcs, v \in Seq(Octet) :
          /\ Special(e) /\ state.dst \o (<<e>> \o b) = Head(r) \o fcs
          /\ Frames(v, Tail(r)) /\ u = <<Transposed(e)>> \o Ahead(b, v)
    BY <1>6 DEF Escaped
  <2>2. r # <<>>
    BY <1>6 DEF Escaped
  <2>3. v \o f \in Seq(Octet) /\ Frames(v \o f, Tail(q))
    BY <1>4, <2>1, <2>2
  <2>4. Ahead(b, v) \o f = Ahead(b, v \o f)
    BY <1>1, <2>1, AheadMore
  <2>5. <<Transposed(e)>> \in Seq(Octet)
    <3>1. Transposed(e) \in Octet
      BY <2>1, Escapes
    <3> QED
      BY <3>1
  <2>6. u \o f = <<Transposed(e)>> \o Ahead(b, v \o f)
    <3> DEFINE a == Ahead(b, v)
               t == <<Transposed(e)>>
    <3>1. a \in Seq(Octet) /\ t \in Seq(Octet)
      BY <2>1, <2>5, AheadType
    <3> HIDE DEF a, t
    <3>2. (t \o a) \o f = t \o (a \o f)
      <4>1. Associates(t, a, f)
        BY <1>1, <3>1, Regroup
      <4> QED
        BY <4>1 DEF Associates
    <3> QED
      BY <2>1, <2>4, <3>2 DEF a, t
  <2> QED
    BY <1>2, <2>1, <2>2, <2>3, <2>6 DEF Escaped
<1> QED
  BY <1>3, <1>5, <1>6 DEF Cut, q

-----------------------------------------------------------------------------
(* The decoder, octet by octet.                                            *)

\* What the decoder must make of the octet it is at.
Right(u, d, r) ==
  \/ ~ d.returns /\ d.packet = <<>> /\ Cut(Tail(u), d.state, r)
  \/ /\ d.returns /\ r # <<>> /\ d.packet = Head(r) /\ d.packet # <<>>
     /\ Cut(u, d.state, Tail(r)) /\ Cut(Tail(u), d.state, Tail(r))

\* The fields of what DecodeOctet returns.
LEMMA GoesOnFields ==
  ASSUME NEW dst, NEW escape
  PROVE  LET d == GoesOn(dst, escape)
         IN  ~ d.returns /\ d.packet = <<>> /\ d.state.dst = dst /\ d.state.escape = escape
BY DEF GoesOn

LEMMA ReturnsFields ==
  ASSUME NEW dst, NEW packet
  PROVE  LET d == Returns(dst, packet)
         IN  d.returns /\ d.packet = packet /\ d.state.dst = dst /\ d.state.escape = FALSE
BY DEF Returns

\* A packet is given back, or its end has not come: both are right.
LEMMA GoesOnRight ==
  ASSUME NEW u, NEW r, NEW dst \in Seq(Octet), NEW escape \in BOOLEAN,
         \/ ~ escape /\ Between(Tail(u), dst, r)
         \/ ~ escape /\ Inside(Tail(u), dst, r)
         \/ escape /\ Escaped(Tail(u), dst, r)
  PROVE  Right(u, GoesOn(dst, escape), r)
<1> DEFINE d == GoesOn(dst, escape)
<1>1. ~ d.returns /\ d.packet = <<>> /\ d.state.dst = dst /\ d.state.escape = escape
  BY GoesOnFields
<1> HIDE DEF d
<1>2. Cut(Tail(u), d.state, r)
  BY <1>1, Zenon DEF Cut
<1>3. Right(u, d, r)
  BY <1>1, <1>2 DEF Right
<1> QED
  BY <1>3 DEF d

LEMMA ReturnsRight ==
  ASSUME NEW u, NEW r, r # <<>>, Head(r) # <<>>,
         Between(u, <<>>, Tail(r)), Between(Tail(u), <<>>, Tail(r))
  PROVE  Right(u, Returns(<<>>, Head(r)), r)
<1> DEFINE d == Returns(<<>>, Head(r))
<1>1. d.returns /\ d.packet = Head(r) /\ d.state.dst = <<>> /\ d.state.escape = FALSE
  <2> DEFINE p == Head(r)
  <2> HIDE DEF p
  <2>1. LET x == Returns(<<>>, p)
        IN  x.returns /\ x.packet = p /\ x.state.dst = <<>> /\ x.state.escape = FALSE
    BY DEF Returns
  <2> QED
    BY <2>1 DEF p
<1>2. <<>> \in Seq(Octet)
  OBVIOUS
<1> HIDE DEF d
<1>3. Cut(u, d.state, Tail(r)) /\ Cut(Tail(u), d.state, Tail(r))
  BY <1>1, <1>2, Zenon DEF Cut
<1>4. Right(u, d, r)
  BY <1>1, <1>3 DEF Right
<1> QED
  BY <1>4 DEF d

\* The three kinds of octets.
LEMMA DecodeIs ==
  ASSUME NEW state
  PROVE  /\ DecodeOctet(state, PPP_FLAG, Dsize) = DecodeFlag(state)
         /\ DecodeOctet(state, PPP_ESCAPE, Dsize) = GoesOn(state.dst, TRUE)
         /\ \A ch : ch # PPP_FLAG /\ ch # PPP_ESCAPE =>
              DecodeOctet(state, ch, Dsize) = DecodeOther(state, ch, Dsize)
BY DEF DecodeOctet, PPP_FLAG, PPP_ESCAPE

\* A flag where no frame is begun.
LEMMA OpeningFlag ==
  ASSUME NEW state, ~ state.escape, state.dst = <<>>
  PROVE  DecodeOctet(state, PPP_FLAG, Dsize) = GoesOn(<<>>, FALSE)
<1>1. Len(state.dst) < 2 /\ ~ (Len(state.dst) >= 2)
  OBVIOUS
<1>2. DecodeFlag(state) = GoesOn(<<>>, FALSE)
  BY <1>1, Zenon DEF DecodeFlag
<1> QED
  BY <1>2, DecodeIs

\* The flag behind a frame gives back the packet without the FCS.
LEMMA ClosingFlag ==
  ASSUME NEW state, ~ state.escape, NEW p \in Packets, NEW fcs \in Fcs,
         state.dst = p \o fcs
  PROVE  DecodeOctet(state, PPP_FLAG, Dsize) = Returns(<<>>, p)
<1> DEFINE body == p \o fcs
<1>1. Len(body) >= 2 /\ body \in Seq(Octet) /\ SubSeq(body, 1, Len(body) - 2) = p
  BY Body
<1> HIDE DEF body
<1>2. state.dst = body /\ ~ (Len(body) < 2)
  BY <1>1 DEF body
<1>3. DecodeFlag(state) = Returns(<<>>, SubSeq(body, 1, Len(body) - 2))
  BY <1>1, <1>2, Zenon DEF DecodeFlag
<1> QED
  BY <1>1, <1>3, DecodeIs

\* An octet that is no flag and no escape has room.
LEMMA OtherOctet ==
  ASSUME NEW state, NEW ch, ch # PPP_FLAG, ch # PPP_ESCAPE,
         Len(state.dst) < Dsize
  PROVE  DecodeOctet(state, ch, Dsize) =
           GoesOn(Append(state.dst, IF state.escape THEN Transposed(ch) ELSE ch), FALSE)
<1>1. DecodeOctet(state, ch, Dsize) = DecodeOther(state, ch, Dsize)
  BY DecodeIs
<1> QED
  BY <1>1, Zenon DEF DecodeOther

\* An octet of the body moves from k, to come, to a, taken; there is room.
Moves(a, k, body) ==
  /\ Append(a, Head(k)) \in Seq(Octet) /\ Append(a, Head(k)) \o Tail(k) = body
  /\ Len(a) < Dsize

LEMMA NextOfBody ==
  ASSUME NEW p \in Packets, NEW fcs \in Fcs, NEW a \in Seq(Octet),
         NEW k \in Seq(Octet), k # <<>>, a \o k = p \o fcs
  PROVE  Moves(a, k, p \o fcs)
<1> DEFINE e == Head(k)
           b == Tail(k)
           h == <<e>>
           body == p \o fcs
<1>1. /\ e \in Octet /\ b \in Seq(Octet) /\ h \in Seq(Octet)
      /\ Len(k) \in Nat /\ Len(k) > 0
  BY HeadTailProperties, EmptySeq
<1>2. body \in Seq(Octet) /\ Len(body) <= Dsize /\ Dsize \in Nat
  BY Body, PppAssumption
<1>3. k = h \o b
  BY First DEF Sequence
<1> HIDE DEF e
<1>4. Append(a, e) \in Seq(Octet) /\ Append(a, e) = a \o h
  BY <1>1, AppendProperties, AppendIsConcat
<1> HIDE DEF h, b, body
<1>5. (a \o h) \o b = a \o (h \o b)
  <2>1. Associates(a, h, b)
    BY <1>1, Regroup
  <2> QED
    BY <2>1 DEF Associates
<1>6. Len(a \o k) = Len(a) + Len(k) /\ Len(a) \in Nat
  BY ConcatProperties
<1>7. a \o k = body
  BY DEF body
<1>8. Len(a) < Dsize
  BY <1>1, <1>2, <1>6, <1>7
<1> QED
  BY <1>3, <1>4, <1>5, <1>7, <1>8 DEF e, b, body, Moves

\* An escape is two octets.
LEMMA TwoFirst ==
  ASSUME NEW x \in Octet, NEW y \in Octet, NEW s \in Seq(Octet)
  PROVE  <<x, y>> \o s = <<x>> \o (<<y>> \o s)
<1> DEFINE m == <<x>>
           n == <<y>>
           d == <<x, y>>
<1>1. /\ m \in Seq(Octet) /\ Len(m) = 1 /\ m[1] = x
      /\ n \in Seq(Octet) /\ Len(n) = 1 /\ n[1] = y
      /\ d \in Seq(Octet) /\ Len(d) = 2 /\ d[1] = x /\ d[2] = y
  OBVIOUS
<1> HIDE DEF m, n, d
<1>2. /\ m \o n \in Seq(Octet) /\ Len(m \o n) = 2
      /\ \A i \in 1 .. 2 : (m \o n)[i] = IF i <= 1 THEN m[i] ELSE n[i - 1]
  BY <1>1, ConcatProperties
<1>3. \A i \in 1 .. 2 : d[i] = (m \o n)[i]
  <2>1. \A i \in 1 .. 2 : i = 1 \/ (i = 2 /\ i - 1 = 1)
    OBVIOUS
  <2> QED
    BY <1>1, <1>2, <2>1
<1>4. d = m \o n
  BY <1>1, <1>2, <1>3, SeqEqual
<1>5. (m \o n) \o s = m \o (n \o s)
  <2>1. Associates(m, n, s)
    BY <1>1, Regroup
  <2> QED
    BY <2>1 DEF Associates
<1> QED
  BY <1>4, <1>5 DEF m, n, d

\* The octet behind an escape.
LEMMA EscapedOctet ==
  ASSUME NEW r \in Seq(Packets), NEW u, NEW state, NEW dst \in Seq(Octet), state.dst = dst,
         state.escape, Escaped(u, dst, r)
  PROVE  Right(u, DecodeOctet(state, Head(u), Dsize), r)
<1>1. PICK e \in Octet, b \in Seq(Octet), fcs \in Fcs, v \in Seq(Octet) :
        /\ Special(e) /\ dst \o (<<e>> \o b) = Head(r) \o fcs
        /\ Frames(v, Tail(r)) /\ u = <<Transposed(e)>> \o Ahead(b, v)
  BY DEF Escaped
<1>2. r # <<>> /\ Head(r) \in Packets /\ Tail(r) \in Seq(Packets)
  BY HeadTailProperties, EmptySeq DEF Escaped
<1> DEFINE t == Transposed(e)
           w == Ahead(b, v)
           a == Append(dst, e)
<1>3. t \in Octet /\ t # PPP_FLAG /\ t # PPP_ESCAPE /\ Transposed(t) = e
  BY <1>1, Escapes
<1>4. w \in Seq(Octet)
  BY <1>1, FramesType, AheadType
<1>5. Head(<<t>> \o w) = t /\ Tail(<<t>> \o w) = w
  <2> HIDE DEF t, w
  <2> QED
    BY <1>3, <1>4, ConsIs
<1>6. a \in Seq(Octet) /\ a \o b = Head(r) \o fcs /\ Len(dst) < Dsize
  <2> DEFINE p == Head(r)
             k == <<e>> \o b
  <2>1. p \in Packets /\ dst \o k = p \o fcs
    BY <1>1, <1>2
  <2>2. k \in Seq(Octet) /\ k # <<>> /\ Head(k) = e /\ Tail(k) = b
    BY ConsIs
  <2> HIDE DEF p, k
  <2>3. Moves(dst, k, p \o fcs)
    BY <2>1, <2>2, NextOfBody
  <2> QED
    BY <2>2, <2>3 DEF p, Moves
<1>7. DecodeOctet(state, Head(u), Dsize) = GoesOn(a, FALSE)
  <2>1. Head(u) = t
    BY <1>1, <1>5
  <2> HIDE DEF t
  <2>2. DecodeOctet(state, t, Dsize) =
          GoesOn(Append(dst, IF state.escape THEN Transposed(t) ELSE t), FALSE)
    BY <1>3, <1>6, OtherOctet
  <2> QED
    BY <1>3, <2>1, <2>2
<1>8. Inside(Tail(u), a, r)
  BY <1>1, <1>2, <1>5, <1>6 DEF Inside
<1> HIDE DEF a
<1>9. Right(u, GoesOn(a, FALSE), r)
  BY <1>6, <1>8, GoesOnRight
<1> QED
  BY <1>7, <1>9

\* An octet of a frame, or the flag at its end, which is looked at again.
LEMMA InsideOctet ==
  ASSUME NEW r \in Seq(Packets), NEW u, NEW state, NEW dst \in Seq(Octet), state.dst = dst,
         ~ state.escape, Inside(u, dst, r)
  PROVE  u # <<>> /\ Right(u, DecodeOctet(state, Head(u), Dsize), r)
<1>1. PICK b \in Seq(Octet), fcs \in Fcs, v \in Seq(Octet) :
         dst \o b = Head(r) \o fcs /\ Frames(v, Tail(r)) /\ u = Ahead(b, v)
  BY DEF Inside
<1>2. r # <<>> /\ Head(r) \in Packets /\ Tail(r) \in Seq(Packets)
  BY HeadTailProperties, EmptySeq DEF Inside
<1>3. v \in Seq(Octet)
  BY <1>1, FramesType
<1>4. CASE b = <<>>
  <2>1. u = <<PPP_FLAG>> \o v
    <3>1. <<PPP_FLAG>> \o v \in Seq(Octet)
      BY <1>3, AheadType
    <3> HIDE DEF Ahead
    <3>2. Ahead(<<>>, v) = <<PPP_FLAG>> \o v
      BY <3>1, StuffingNone, ConcatEmptySeq DEF Ahead
    <3> QED
      BY <1>1, <1>4, <3>2
  <2>2. u # <<>> /\ Head(u) = PPP_FLAG /\ Tail(u) = v
    BY <1>3, <2>1, FlagOctet, ConsIs
  <2>3. dst = Head(r) \o fcs
    BY <1>1, <1>4, ConcatEmptySeq
  <2>4. DecodeOctet(state, PPP_FLAG, Dsize) = Returns(<<>>, Head(r)) /\ Head(r) # <<>>
    BY <1>2, <2>3, ClosingFlag, Body
  <2>5. Between(u, <<>>, Tail(r)) /\ Between(Tail(u), <<>>, Tail(r))
    <3>1. Frames(v, Tail(r)) /\ u = <<PPP_FLAG>> \o v /\ Tail(u) = v
      BY <1>1, <2>1, <2>2
    <3> QED
      BY <3>1, Zenon DEF Between
  <2>6. Right(u, Returns(<<>>, Head(r)), r)
    BY <1>2, <2>4, <2>5, ReturnsRight
  <2> QED
    BY <2>2, <2>4, <2>6
<1>5. CASE b # <<>>
  <2> DEFINE e == Head(b)
             c == Tail(b)
             w == Ahead(c, v)
             a == Append(dst, e)
  <2>1. e \in Octet /\ c \in Seq(Octet)
    BY <1>5, HeadTailProperties, EmptySeq
  <2>2. b = <<e>> \o c
    BY <1>5, First DEF Sequence
  <2>3. w \in Seq(Octet) /\ Stuffing(c) \in Seq(Octet) /\ <<PPP_FLAG>> \o v \in Seq(Octet)
    BY <1>3, <2>1, AheadType
  <2> HIDE DEF e, c
  <2>4. u = Stuffed(e) \o w
    <3> DEFINE x == Stuffed(e)
               y == Stuffing(c)
               z == <<PPP_FLAG>> \o v
    <3>1. x \in Seq(Octet) /\ y \in Seq(Octet) /\ z \in Seq(Octet)
      BY <2>1, <2>3, StuffedType
    <3>2. Stuffing(b) = x \o y
      BY <2>1, <2>2, StuffingCons
    <3>3. u = (x \o y) \o z /\ w = y \o z
      BY <1>1, <3>2 DEF Ahead
    <3> HIDE DEF x, y, z, w
    <3>4. (x \o y) \o z = x \o (y \o z)
      <4>1. Associates(x, y, z)
        BY <3>1, Regroup
      <4> QED
        BY <4>1 DEF Associates
    <3> QED
      BY <3>3, <3>4 DEF x
  <2>5. dst \o (<<e>> \o c) = Head(r) \o fcs
    BY <1>1, <2>2
  <2>6. CASE Special(e)
    <3> DEFINE t == Transposed(e)
               k == <<t>> \o w
    <3>1. t \in Octet /\ Stuffed(e) = <<PPP_ESCAPE, t>>
      BY <2>1, <2>6, Escapes
    <3> HIDE DEF t, w
    <3>2. k \in Seq(Octet)
      BY <2>3, <3>1, ConsIs
    <3>3. u = <<PPP_ESCAPE>> \o k
      <4>1. <<PPP_ESCAPE, t>> \o w = <<PPP_ESCAPE>> \o (<<t>> \o w)
        BY <2>3, <3>1, FlagOctet, TwoFirst
      <4> QED
        BY <2>4, <3>1, <4>1
    <3> HIDE DEF k
    <3>4. u # <<>> /\ Head(u) = PPP_ESCAPE /\ Tail(u) = k
      BY <3>2, <3>3, FlagOctet, ConsIs
    <3>5. DecodeOctet(state, PPP_ESCAPE, Dsize) = GoesOn(dst, TRUE)
      BY DecodeIs
    <3>6. Escaped(Tail(u), dst, r)
      BY <1>1, <1>2, <2>1, <2>5, <2>6, <3>4 DEF Escaped, k, t, w
    <3>7. Right(u, GoesOn(dst, TRUE), r)
      BY <3>6, GoesOnRight
    <3> QED
      BY <3>4, <3>5, <3>7
  <2>7. CASE ~ Special(e)
    <3>1. Stuffed(e) = <<e>> /\ e # PPP_FLAG /\ e # PPP_ESCAPE
      BY <2>1, <2>7, Plain
    <3>2. a \in Seq(Octet) /\ a \o c = Head(r) \o fcs /\ Len(dst) < Dsize
      <4> DEFINE p == Head(r)
      <4>1. p \in Packets /\ dst \o b = p \o fcs
        BY <1>1, <1>2
      <4> HIDE DEF p
      <4>2. Moves(dst, b, p \o fcs)
        BY <1>5, <4>1, NextOfBody
      <4> QED
        BY <4>2 DEF p, e, c, Moves
    <3> HIDE DEF w
    <3>3. u # <<>> /\ Head(u) = e /\ Tail(u) = w
      BY <2>1, <2>3, <2>4, <3>1, ConsIs
    <3>4. DecodeOctet(state, e, Dsize) = GoesOn(a, FALSE)
      <4>1. DecodeOctet(state, e, Dsize) =
              GoesOn(Append(dst, IF state.escape THEN Transposed(e) ELSE e), FALSE)
        BY <3>1, <3>2, OtherOctet
      <4> QED
        BY <4>1
    <3> HIDE DEF a
    <3>5. Inside(Tail(u), a, r)
      BY <1>1, <1>2, <2>1, <3>2, <3>3 DEF Inside, w
    <3>6. Right(u, GoesOn(a, FALSE), r)
      <4>1. a \in Seq(Octet)
        BY <3>2
      <4> QED
        BY <3>5, <4>1, GoesOnRight
    <3> QED
      BY <3>3, <3>4, <3>6
  <2> QED
    BY <2>6, <2>7
<1> QED
  BY <1>4, <1>5

\* That flag once more, the flag at a beginning, or an octet without one.
LEMMA BetweenOctet ==
  ASSUME NEW r \in Seq(Packets), NEW u, u # <<>>, NEW state, NEW dst \in Seq(Octet), state.dst = dst,
         ~ state.escape, Between(u, dst, r)
  PROVE  Right(u, DecodeOctet(state, Head(u), Dsize), r)
<1>1. PICK x : Frames(x, r) /\ (u = x \/ u = <<PPP_FLAG>> \o x)
  BY DEF Between
<1>2. dst = <<>>
  BY DEF Between
<1>3. ASSUME NEW w \in Seq(Octet), u = <<PPP_FLAG>> \o w
      PROVE  DecodeOctet(state, Head(u), Dsize) = GoesOn(<<>>, FALSE) /\ Tail(u) = w
  <2>1. Head(u) = PPP_FLAG /\ Tail(u) = w
    BY <1>3, FlagOctet, ConsIs
  <2> QED
    BY <1>2, <2>1, OpeningFlag
<1>4. CASE u = <<PPP_FLAG>> \o x
  <2>1. x \in Seq(Octet)
    BY <1>1, FramesType
  <2>2. DecodeOctet(state, Head(u), Dsize) = GoesOn(<<>>, FALSE) /\ Tail(u) = x
    BY <1>3, <1>4, <2>1
  <2>3. Between(Tail(u), <<>>, r)
    BY <1>1, <2>2 DEF Between
  <2>4. Right(u, GoesOn(<<>>, FALSE), r)
    BY <1>2, <2>3, GoesOnRight
  <2> QED
    BY <2>2, <2>4
<1>5. CASE u = x
  <2>1. r # <<>>
    BY <1>1, <1>5, FramesNone
  <2>2. Head(r) \in Packets
    BY <2>1, HeadTailProperties, EmptySeq
  <2>3. PICK f, v : IsFrame(f, Head(r)) /\ Frames(v, Tail(r)) /\ u = f \o v
    <3>1. Begins(u, r)
      BY <1>1, <1>5, <2>1, FirstFrame
    <3> QED
      BY <3>1 DEF Begins
  <2>4. v \in Seq(Octet)
    BY <2>3, FramesType
  <2>5. PICK fcs \in Fcs : \/ u = Ahead(Head(r) \o fcs, v)
                           \/ u = <<PPP_FLAG>> \o Ahead(Head(r) \o fcs, v)
    <3> DEFINE p == Head(r)
    <3>1. p \in Packets /\ IsFrame(f, p)
      BY <2>2, <2>3
    <3> HIDE DEF p
    <3>2. Opens(f \o v, p, v)
      BY <2>4, <3>1, FrameAhead
    <3>3. Opens(u, p, v)
      BY <2>3, <3>2
    <3> QED
      BY <3>3 DEF Opens, p
  <2> DEFINE body == Head(r) \o fcs
  <2>6. body \in Seq(Octet)
    BY <2>2, Body
  <2>7. Inside(Ahead(body, v), <<>>, r)
    <3>1. <<>> \o body = body
      BY <2>6, ConcatEmptySeq
    <3> QED
      BY <2>1, <2>3, <2>4, <2>6, <3>1 DEF Inside
  <2>8. CASE u = Ahead(body, v)
    BY <1>2, <2>7, <2>8, InsideOctet
  <2>9. CASE u = <<PPP_FLAG>> \o Ahead(body, v)
    <3>1. Ahead(body, v) \in Seq(Octet)
      BY <2>4, <2>6, AheadType
    <3>2. DecodeOctet(state, Head(u), Dsize) = GoesOn(<<>>, FALSE) /\ Tail(u) = Ahead(body, v)
      <4> DEFINE k == Ahead(body, v)
      <4> HIDE DEF k
      <4>1. k \in Seq(Octet) /\ u = <<PPP_FLAG>> \o k
        BY <2>9, <3>1 DEF k
      <4> QED
        BY <1>3, <4>1 DEF k
    <3>3. Right(u, GoesOn(<<>>, FALSE), r)
      BY <1>2, <2>7, <3>2, GoesOnRight
    <3> QED
      BY <3>2, <3>3
  <2> QED
    BY <2>5, <2>8, <2>9
<1> QED
  BY <1>1, <1>4, <1>5

\* Whatever the octet, and wherever the decoder is in the stream of pppd.
LEMMA OneOctet ==
  ASSUME NEW r \in Seq(Packets), NEW u, u # <<>>, NEW state, Cut(u, state, r)
  PROVE  Right(u, DecodeOctet(state, Head(u), Dsize), r)
BY BetweenOctet, InsideOctet, EscapedOctet DEF Cut

-----------------------------------------------------------------------------
(* The process.                                                            *)

\* The first octet of the stream is that of what was read.
LEMMA FirstOfTwo ==
  ASSUME NEW a \in Seq(Octet), a # <<>>, NEW b \in Seq(Octet)
  PROVE  /\ a \o b # <<>> /\ Head(a \o b) = Head(a) /\ Tail(a \o b) = Tail(a) \o b
         /\ Tail(a) \in Seq(Octet) /\ a \o b \in Seq(Octet)
         /\ Len(a) = 1 <=> Tail(a) = <<>>
<1> DEFINE h == Head(a)
           t == Tail(a)
<1>1. /\ h \in Octet /\ t \in Seq(Octet) /\ Len(t) = Len(a) - 1
      /\ Len(a) \in Nat /\ Len(a) > 0
  <2>1. Len(a) \in Nat /\ Len(a) > 0
    BY EmptySeq
  <2> QED
    BY <2>1, HeadTailProperties
<1>2. a = <<h>> \o t
  BY First DEF Sequence
<1> HIDE DEF h, t
<1>3. Len(a) = 1 <=> t = <<>>
  <2>1. t = <<>> <=> Len(t) = 0
    BY <1>1, EmptySeq
  <2> QED
    BY <1>1, <2>1
<1>4. <<h>> \in Seq(Octet) /\ t \o b \in Seq(Octet)
  BY <1>1, Octets
<1>5. (<<h>> \o t) \o b = <<h>> \o (t \o b)
  <2>1. Associates(<<h>>, t, b)
    BY <1>1, <1>4, Regroup
  <2> QED
    BY <2>1 DEF Associates
<1> DEFINE k == t \o b
<1>6. k \in Seq(Octet)
  BY <1>4
<1> HIDE DEF k
<1>7. <<h>> \o k \in Seq(Octet) /\ <<h>> \o k # <<>> /\ Head(<<h>> \o k) = h /\ Tail(<<h>> \o k) = k
  BY <1>1, <1>6, ConsIs
<1> QED
  BY <1>1, <1>2, <1>3, <1>5, <1>7 DEF h, t, k

\* The packets of pppd are those for the line and those of which the
\* decoder has not come to the end, which are still in its stream.
Undecoded(forwarded, u, state, of) ==
  \E r \in Seq(Packets) : of = forwarded \o r /\ Cut(u, state, r)

\* What pppd has written and the decoder has not looked at.
Stream == pppd_rx_buf \o pty

\* Outside the read loop nothing that was read is left; and the packets of
\* pppd are the forwarded ones, then those that are still in its stream.
StreamInv ==
  /\ sent \in Seq(Packets)
  /\ pty \in Seq(Octet) /\ pppd_rx_buf \in Seq(Octet)
  /\ at = Decoding <=> pppd_rx_buf # <<>>
  /\ ~ skipped => Undecoded(Forwarded, Stream, ppp_rfc1662_state, sent)

LEMMA ForwardedType == QueueInv => Sequence(Forwarded)
<1> SUFFICES ASSUME QueueInv PROVE Sequence(Forwarded)
  OBVIOUS
<1> DEFINE now == IF hdlc_tx_buf = <<>> THEN <<>> ELSE <<part \o hdlc_tx_buf>>
<1>1. Sequence(now)
  BY Empty, Appended
<1> HIDE DEF now
<1>2. Sequence(line \o now) /\ Sequence((line \o now) \o isdn_hdlc_tx_queue)
  BY <1>1, Joined DEF QueueInv
<1> QED
  BY <1>2 DEF Forwarded, now

LEMMA InitStream == Init => StreamInv
<1> SUFFICES ASSUME Init PROVE StreamInv
  OBVIOUS
<1>1. /\ pty = <<>> /\ pppd_rx_buf = <<>> /\ sent = <<>> /\ ppp_rfc1662_state = NewDecoder
      /\ at = Top /\ line = <<>> /\ hdlc_tx_buf = <<>> /\ isdn_hdlc_tx_queue = <<>>
  BY DEF Init
<1>2. <<>> \in Seq(Octet) /\ <<>> \in Seq(Packets) /\ <<>> \o <<>> = <<>>
  BY Empty
<1>3. Forwarded = <<>> /\ Stream = <<>>
  BY <1>1, <1>2 DEF Forwarded, Stream
<1>4. Between(<<>>, <<>>, <<>>)
  BY FramesNone DEF Between
<1>5. Cut(<<>>, NewDecoder, <<>>)
  <2>1. NewDecoder.dst = <<>> /\ NewDecoder.escape = FALSE
    BY DEF NewDecoder
  <2> QED
    BY <1>2, <1>4, <2>1, Zenon DEF Cut
<1>6. Undecoded(<<>>, <<>>, NewDecoder, <<>>)
  BY <1>2, <1>5 DEF Undecoded
<1>7. at # Decoding
  BY <1>1 DEF Top, Decoding
<1> QED
  BY <1>1, <1>2, <1>3, <1>6, <1>7 DEF StreamInv

\* pppd writes a frame; a read takes a beginning of the stream; one octet.
LEMMA SendsStream ==
  ASSUME StreamInv, QueueInv, PppdSends, Forwarded' = Forwarded
  PROVE  StreamInv'
<1>1. PICK p \in Packets, fcs \in Fcs :
        LET frame == pppd_rfc1662_encode(p, fcs)
        IN  /\ sent' = Append(sent, p)
            /\ pty' = pty \o frame \/ pty' = pty \o Tail(frame)
  BY DEF PppdSends
<1>2. UNCHANGED <<pppd_rx_buf, ppp_rfc1662_state, skipped, at>>
  BY DEF PppdSends
<1>3. PICK f : IsFrame(f, p) /\ pty' = pty \o f
  BY <1>1, Encoded
<1>4. f \in Seq(Octet)
  BY <1>3, FrameType
<1>5. sent \in Seq(Packets) /\ pty \in Seq(Octet) /\ pppd_rx_buf \in Seq(Octet)
  BY DEF StreamInv
<1>6. sent' \in Seq(Packets)
  BY <1>1, <1>5, AppendProperties
<1>7. pty' \in Seq(Octet) /\ Stream' = Stream \o f
  <2>1. Associates(pppd_rx_buf, pty, f)
    BY <1>4, <1>5, Regroup
  <2>2. pty \o f \in Seq(Octet)
    BY <1>4, <1>5, Octets
  <2> QED
    BY <1>2, <1>3, <2>1, <2>2 DEF Stream, Associates
<1>8. ASSUME ~ skipped
      PROVE  Undecoded(Forwarded, Stream \o f, ppp_rfc1662_state, sent')
  <2>1. PICK r \in Seq(Packets) :
           sent = Forwarded \o r /\ Cut(Stream, ppp_rfc1662_state, r)
    BY <1>8 DEF StreamInv, Undecoded
  <2>2. Cut(Stream \o f, ppp_rfc1662_state, Append(r, p))
    BY <1>3, <2>1, CutSends
  <2>3. Append(r, p) \in Seq(Packets)
    BY AppendProperties
  <2>4. sent' = Forwarded \o Append(r, p)
    <3>1. Sequence(r) /\ Sequence(Forwarded) /\ Sequence(<<p>>) /\ Sequence(sent)
      BY <1>5, ForwardedType, Appended, Empty DEF Sequence
    <3>2. (Forwarded \o r) \o <<p>> = Forwarded \o (r \o <<p>>)
      BY <3>1, Joined
    <3>3. Append(r, p) = r \o <<p>> /\ Append(sent, p) = sent \o <<p>>
      BY <3>1, Appended
    <3> QED
      BY <1>1, <2>1, <3>2, <3>3
  <2> QED
    BY <2>2, <2>3, <2>4 DEF Undecoded
<1> QED
  BY <1>2, <1>5, <1>6, <1>7, <1>8 DEF StreamInv

LEMMA ReadStream ==
  ASSUME StreamInv, PtyRead, Forwarded' = Forwarded
  PROVE  StreamInv'
<1>1. PICK n \in 1 .. Len(pty) :
        /\ pty' = SubSeq(pty, n + 1, Len(pty))
        /\ IF n = 1 THEN Calls(Pty, Pty) /\ skipped' = TRUE /\ UNCHANGED pppd_rx_buf
           ELSE /\ Calls(Pty, Decoding) /\ pppd_rx_buf' = SubSeq(pty, 1, n)
                /\ UNCHANGED skipped
  BY DEF PtyRead
<1>2. UNCHANGED <<sent, ppp_rfc1662_state>>
  BY DEF PtyRead
<1>3. sent \in Seq(Packets) /\ pty \in Seq(Octet) /\ Len(pty) \in Nat
  BY DEF StreamInv
<1>4. at # Decoding /\ pppd_rx_buf = <<>>
  BY <1>1 DEF StreamInv, Calls
<1> DEFINE before == SubSeq(pty, 1, n)
           behind == SubSeq(pty, n + 1, Len(pty))
<1>5. before \in Seq(Octet) /\ behind \in Seq(Octet) /\ before \o behind = pty /\ before # <<>>
  <2>1. n \in 0 .. Len(pty) /\ n \in Int /\ n + 1 \in Int /\ Len(pty) \in Int /\ 1 \in Int
    BY <1>3
  <2>2. before \o behind = pty
    BY <1>3, <2>1, Split DEF Sequence
  <2>3. \A i \in 1 .. Len(pty) : pty[i] \in Octet
    BY <1>3
  <2>4. before \in Seq(Octet) /\ Len(before) = IF 1 <= n THEN n - 1 + 1 ELSE 0
    BY <1>3, <2>1, <2>3, SubSeqProperties
  <2>5. behind \in Seq(Octet)
    <3> DEFINE first == n + 1
    <3>1. first \in Int /\ \A i \in first .. Len(pty) : pty[i] \in Octet
      BY <2>1, <2>3
    <3> HIDE DEF first
    <3>2. SubSeq(pty, first, Len(pty)) \in Seq(Octet)
      BY <1>3, <2>1, <3>1, SubSeqProperties
    <3> QED
      BY <3>2 DEF first
  <2>6. before # <<>>
    BY <2>1, <2>4, EmptySeq
  <2> QED
    BY <2>2, <2>4, <2>5, <2>6
<1> HIDE DEF before, behind
<1>6. pty' = behind
  BY <1>1 DEF behind
<1>7. CASE n = 1
  <2>1. skipped' /\ pppd_rx_buf' = <<>> /\ at' # Decoding
    BY <1>1, <1>4, <1>7 DEF Calls, Pty, Decoding
  <2>2. <<>> \in Seq(Octet)
    OBVIOUS
  <2> QED
    BY <1>2, <1>3, <1>5, <1>6, <2>1, <2>2 DEF StreamInv
<1>8. CASE n # 1
  <2>1. skipped' = skipped /\ pppd_rx_buf' = before /\ at' = Decoding
    BY <1>1, <1>8 DEF Calls, before
  <2>2. Stream' = Stream
    <3>1. Stream = pty
      BY <1>3, <1>4, ConcatEmptySeq DEF Stream
    <3>2. Stream' = before \o behind
      BY <1>6, <2>1 DEF Stream
    <3> QED
      BY <1>5, <3>1, <3>2
  <2> QED
    BY <1>2, <1>3, <1>5, <1>6, <2>1, <2>2 DEF StreamInv
<1> QED
  BY <1>7, <1>8

LEMMA DecodesStream ==
  ASSUME StreamInv, QueueInv, DecodeStep, Forwarded' = Deframed
  PROVE  StreamInv'
<1> DEFINE state == ppp_rfc1662_state
           rx == pppd_rx_buf
           u == Stream
           d == DecodeOctet(state, Head(rx), Dsize)
<1>1. /\ at = Decoding /\ state' = d.state /\ UNCHANGED <<pty, sent, skipped>>
      /\ IF Len(rx) = 1 THEN at' = Pty /\ rx' = <<>> ELSE at' = at /\ rx' = NextOctet(d)
  BY DEF DecodeStep
<1>2. /\ sent \in Seq(Packets) /\ pty \in Seq(Octet) /\ rx \in Seq(Octet) /\ rx # <<>>
  BY <1>1 DEF StreamInv
<1>3. /\ u # <<>> /\ Head(u) = Head(rx) /\ Tail(u) = Tail(rx) \o pty
      /\ Tail(rx) \in Seq(Octet) /\ (Len(rx) = 1 <=> Tail(rx) = <<>>)
  BY <1>2, FirstOfTwo DEF Stream
<1>4. Forwarded' = IF d.packet = <<>> THEN Forwarded ELSE Append(Forwarded, d.packet)
  BY DEF Deframed
<1> HIDE DEF d, u
<1>5. rx' \in Seq(Octet) /\ (at' = Decoding <=> rx' # <<>>)
  <2>1. CASE Len(rx) = 1
    BY <1>1, <2>1 DEF Pty, Decoding
  <2>2. CASE Len(rx) # 1
    BY <1>1, <1>2, <1>3, <2>2 DEF NextOctet
  <2> QED
    BY <2>1, <2>2
<1>6. Stream' = Tail(u) \/ (d.returns /\ Stream' = u)
  <2>1. CASE Len(rx) = 1
    <3>1. Stream' = <<>> \o pty
      BY <1>1, <2>1 DEF Stream
    <3> QED
      BY <1>3, <2>1, <3>1
  <2>2. CASE Len(rx) # 1 /\ d.returns
    BY <1>1, <2>2 DEF NextOctet, Stream, u
  <2>3. CASE Len(rx) # 1 /\ ~ d.returns
    BY <1>1, <1>3, <2>3 DEF NextOctet, Stream
  <2> QED
    BY <2>1, <2>2, <2>3
<1>7. ASSUME ~ skipped PROVE Undecoded(Forwarded', Stream', d.state, sent)
  <2>1. PICK r \in Seq(Packets) : sent = Forwarded \o r /\ Cut(u, state, r)
    BY <1>7 DEF StreamInv, Undecoded, u
  <2>2. Right(u, d, r)
    <3>1. Right(u, DecodeOctet(state, Head(u), Dsize), r)
      BY <1>3, <2>1, OneOctet
    <3> QED
      BY <1>3, <3>1 DEF d
  <2>3. CASE ~ d.returns /\ d.packet = <<>> /\ Cut(Tail(u), d.state, r)
    BY <1>4, <1>6, <2>1, <2>3 DEF Undecoded
  <2>4. CASE /\ d.returns /\ r # <<>> /\ d.packet = Head(r) /\ d.packet # <<>>
             /\ Cut(u, d.state, Tail(r)) /\ Cut(Tail(u), d.state, Tail(r))
    <3> DEFINE h == Head(r)
               t == Tail(r)
    <3>1. r = <<h>> \o t /\ Sequence(t) /\ Sequence(<<h>>) /\ Sequence(Forwarded)
      BY <2>4, First, Appended, Empty, ForwardedType DEF Sequence
    <3>2. t \in Seq(Packets)
      BY <2>4, HeadTailProperties, EmptySeq
    <3>3. Forwarded' = Append(Forwarded, h) /\ Append(Forwarded, h) = Forwarded \o <<h>>
      BY <1>4, <2>4, <3>1, Appended
    <3>4. Cut(Stream', d.state, t)
      BY <1>6, <2>4
    <3> HIDE DEF h, t
    <3>5. (Forwarded \o <<h>>) \o t = Forwarded \o (<<h>> \o t)
      BY <3>1, Joined
    <3>6. sent = Forwarded' \o t
      BY <2>1, <3>1, <3>3, <3>5
    <3> QED
      BY <3>2, <3>4, <3>6 DEF Undecoded
  <2> QED
    BY <2>2, <2>3, <2>4 DEF Right
<1> QED
  BY <1>1, <1>2, <1>5, <1>7 DEF StreamInv

LEMMA NextStream ==
  ASSUME StreamInv, IInv, [Next]_vars, Step
  PROVE  StreamInv'
<1>1. QueueInv
  BY DEF IInv
<1>2. CASE DecodeStep
  BY <1>1, <1>2, DecodesStream DEF Step
<1>3. ASSUME ~ DecodeStep, UNCHANGED tty, (at = Decoding) = (at' = Decoding) PROVE StreamInv'
  <2>1. Forwarded' = Forwarded
    BY <1>3 DEF Step
  <2>2. UNCHANGED <<pty, sent, pppd_rx_buf, ppp_rfc1662_state, skipped>>
    BY <1>3 DEF tty
  <2>3. Stream' = Stream
    BY <2>2 DEF Stream
  <2> QED
    BY <1>3, <2>1, <2>2, <2>3 DEF StreamInv
<1>4. CASE PppdSends /\ ~ DecodeStep
  BY <1>1, <1>4, SendsStream DEF Step
<1>5. CASE PtyRead /\ ~ DecodeStep
  BY <1>5, ReadStream DEF Step
<1>6. CASE /\ ~ DecodeStep
           /\ PppdExits \/ LoopTop \/ Message \/ PtyError \/ SampleBuffer \/ UNCHANGED vars
  <2>1. UNCHANGED tty
    BY <1>6 DEF PppdExits, LoopTop, Message, PtyError, SampleBuffer, vars
  <2>2. (at = Decoding) = (at' = Decoding)
    BY <1>6 DEF PppdExits, LoopTop, Message, PtyError, SampleBuffer, vars, Calls,
                Top, Select, Stdin, Samples, Encoding, Pty, Decoding, Ended
  <2> QED
    BY <1>3, <1>6, <2>1, <2>2
<1>7. CASE ~ DecodeStep /\ (EncodeSome \/ EncodeNone)
  <2>1. PICK rv, count : EncodeCall(rv, count)
    BY <1>7 DEF EncodeSome, EncodeNone
  <2>2. UNCHANGED tty /\ at # Decoding /\ at' # Decoding
    BY <2>1 DEF EncodeCall, Encoding, Samples, Decoding
  <2> QED
    BY <1>3, <1>7, <2>2
<1> QED
  BY <1>2, <1>4, <1>5, <1>6, <1>7 DEF Next

\* Octets are left while a packet is.
LEMMA NothingLeft ==
  ASSUME NEW state, NEW r \in Seq(Packets), Cut(<<>>, state, r)
  PROVE  r = <<>>
<1>1. ASSUME NEW v, Frames(v, Tail(r)), NEW b \in Seq(Octet)
      PROVE  /\ Ahead(b, v) \in Seq(Octet) /\ Ahead(b, v) # <<>>
             /\ \A x \in Octet : <<x>> \o Ahead(b, v) # <<>>
  <2> DEFINE s == Stuffing(b)
             k == <<PPP_FLAG>> \o v
  <2>1. v \in Seq(Octet)
    BY <1>1, FramesType
  <2>2. k \in Seq(Octet) /\ k # <<>> /\ Len(k) = Len(v) + 1
    BY <2>1, FlagOctet, ConsIs
  <2>3. s \in Seq(Octet)
    BY StuffingType
  <2> HIDE DEF s, k
  <2>4. s \o k \in Seq(Octet) /\ Len(s \o k) = Len(s) + Len(k)
    BY <2>2, <2>3, ConcatProperties
  <2>5. Len(s \o k) > 0
    BY <2>1, <2>2, <2>3, <2>4
  <2>6. s \o k # <<>>
    BY <2>4, <2>5, EmptySeq
  <2>7. ASSUME NEW x \in Octet PROVE <<x>> \o (s \o k) # <<>>
    BY <2>4, ConsIs
  <2>8. Ahead(b, v) = s \o k
    BY DEF Ahead, s, k
  <2> QED
    BY <2>4, <2>6, <2>7, <2>8
<1>2. ~ Inside(<<>>, state.dst, r)
  BY <1>1 DEF Inside
<1>3. ~ Escaped(<<>>, state.dst, r)
  BY <1>1, Escapes DEF Escaped
<1>4. Between(<<>>, state.dst, r)
  BY <1>2, <1>3 DEF Cut
<1>5. PICK v : Frames(v, r) /\ (<<>> = v \/ <<>> = <<PPP_FLAG>> \o v)
  BY <1>4 DEF Between
<1>6. v = <<>>
  <2>1. v \in Seq(Octet)
    BY <1>5, FramesType
  <2>2. <<PPP_FLAG>> \o v # <<>>
    BY <2>1, FlagOctet, ConsIs
  <2> QED
    BY <1>5, <2>2
<1>7. SUFFICES ASSUME r # <<>> PROVE FALSE
  OBVIOUS
<1>8. Begins(<<>>, r)
  BY <1>5, <1>6, <1>7, FirstFrame
<1>9. PICK f, w : IsFrame(f, Head(r)) /\ Frames(w, Tail(r)) /\ <<>> = f \o w
  BY <1>8 DEF Begins
<1>10. f \in Seq(Octet) /\ f # <<>> /\ w \in Seq(Octet)
  <2>1. Head(r) \in Packets
    BY <1>7, HeadTailProperties, EmptySeq
  <2> QED
    BY <1>9, <2>1, FrameType, FramesType
<1> QED
  BY <1>9, <1>10, FirstOfTwo

\* So at any time the packets for the line are the first ones of pppd.
LEMMA Forwards == StreamInv /\ QueueInv => FramesForwarded
<1> SUFFICES ASSUME StreamInv, QueueInv, ~ skipped
             PROVE  /\ IsPrefix(Forwarded, sent)
                    /\ pty = <<>> /\ at # Decoding => Forwarded = sent
  BY DEF FramesForwarded
<1>1. PICK r \in Seq(Packets) : sent = Forwarded \o r /\ Cut(Stream, ppp_rfc1662_state, r)
  BY DEF StreamInv, Undecoded
<1>2. Sequence(Forwarded) /\ Sequence(r)
  BY ForwardedType DEF Sequence
<1>3. PICK S : Forwarded \in Seq(S) /\ r \in Seq(S)
  BY <1>2, Joint
<1> DEFINE F == Forwarded
<1>4. IsPrefix(F, F \o r)
  <2> HIDE DEF F
  <2>1. F \in Seq(S) /\ Len(F) \in Nat /\ Len(r) \in Nat
    BY <1>3 DEF F
  <2>2. /\ F \o r \in Seq(S) /\ Len(F \o r) = Len(F) + Len(r)
        /\ \A i \in 1 .. Len(F) + Len(r) :
             (F \o r)[i] = IF i <= Len(F) THEN F[i] ELSE r[i - Len(F)]
    BY <1>3, <2>1, ConcatProperties
  <2> DEFINE w == F \o r
             n == Len(F)
             s == SubSeq(w, 1, n)
  <2>3. w \in Seq(S) /\ n \in Nat /\ n <= Len(w) /\ \A i \in 1 .. n : w[i] = F[i] /\ w[i] \in S
    BY <2>1, <2>2
  <2> HIDE DEF w
  <2>4. s \in Seq(S) /\ Len(s) = n /\ \A i \in 1 .. n : s[i] = w[i]
    <3> HIDE DEF n
    <3>1. n \in Int /\ 1 \in Int
      BY <2>3
    <3>2. /\ SubSeq(w, 1, n) \in Seq(S)
          /\ Len(SubSeq(w, 1, n)) = IF 1 <= n THEN n - 1 + 1 ELSE 0
          /\ \A i \in 1 .. n - 1 + 1 : SubSeq(w, 1, n)[i] = w[1 + i - 1]
      BY <2>3, <3>1, SubSeqProperties
    <3>3. \A i \in 1 .. n : 1 + i - 1 = i /\ i \in 1 .. n - 1 + 1
      BY <2>3
    <3> QED
      BY <2>3, <3>2, <3>3
  <2> HIDE DEF s
  <2>5. s = F
    BY <2>1, <2>3, <2>4, SeqEqual
  <2> QED
    BY <2>3, <2>5 DEF IsPrefix, s, w
<1>5. ASSUME pty = <<>>, at # Decoding PROVE Forwarded = sent
  <2>1. Stream = <<>>
    BY <1>5, Empty DEF StreamInv, Stream
  <2>2. r = <<>>
    BY <1>1, <2>1, NothingLeft
  <2> QED
    BY <1>1, <1>2, <2>2, Empty
<1> QED
  BY <1>1, <1>4, <1>5

\* For all packets, frame check sequences and buffer sizes, however the
\* reads cut the stream of pppd, with or without a flag in front of a frame
\* and wherever the encoder stops: the line gets the packets of pppd
\* unchanged, in order and each once, and none is left behind, unless
\* pppd_input_cb has ignored a read of a single octet.
THEOREM PacketsForwarded == Spec => []FramesForwarded
<1>1. Init => IInv /\ StreamInv
  BY InitIInv, InitStream
<1>2. (IInv /\ StreamInv) /\ [Next]_vars => (IInv /\ StreamInv)'
  BY NextIInv, NextStream
<1>3. IInv /\ StreamInv => FramesForwarded
  BY Forwards DEF IInv
<1> QED
  BY <1>1, <1>2, <1>3, PTL DEF Spec
=============================================================================
