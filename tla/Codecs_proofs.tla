---------------------------- MODULE Codecs_proofs ---------------------------
(***************************************************************************)
(* Proofs about the codecs that have no station around them: what          *)
(* x75_decode reads of any frame (X75Codec), which quarters of an RLP      *)
(* frame are old (V110), where the fax decoder cuts its blocks (FaxTest),  *)
(* and how the software UART makes characters of bits (SoftUart), for all  *)
(* sets of configurations, in whatever order they come.                    *)
(***************************************************************************)
EXTENDS X75Codec, V110, FaxTest, SoftUart, Flattening_proofs, SequenceTheorems, TLAPS

-----------------------------------------------------------------------------
(* X75Codec.  Octets in front of a sequence of octets.                     *)

\* An octet before others.
LEMMA InFront ==
  ASSUME NEW a \in Octet, NEW s \in Seq(Octet)
  PROVE  /\ <<a>> \o s \in Seq(Octet) /\ Len(<<a>> \o s) = Len(s) + 1
         /\ (<<a>> \o s)[1] = a /\ Tail(<<a>> \o s) = s
<1>1. <<a>> \in Seq(Octet) /\ Len(<<a>>) = 1
  OBVIOUS
<1>2. <<a>> \o s \in Seq(Octet) /\ Len(<<a>> \o s) = Len(s) + 1
  BY <1>1, ConcatProperties
<1>3. /\ (<<a>> \o s)[1] = a
      /\ \A i \in 1 .. Len(s) : (<<a>> \o s)[i + 1] = s[i]
  <2>1. \A i \in 1 .. Len(s) + 1 : (<<a>> \o s)[i] = IF i <= 1 THEN <<a>>[i] ELSE s[i - 1]
    BY <1>1, ConcatProperties
  <2>2. 1 \in 1 .. Len(s) + 1
        /\ \A i \in 1 .. Len(s) : i + 1 \in 1 .. Len(s) + 1 /\ ~ (i + 1 <= 1) /\ (i + 1) - 1 = i
    OBVIOUS
  <2> QED
    BY <2>1, <2>2
<1>4. <<a>> \o s # <<>>
  BY <1>2
<1> DEFINE t == Tail(<<a>> \o s)
<1>5. t \in Seq(Octet) /\ Len(t) = Len(s) /\ \A i \in 1 .. Len(t) : t[i] = (<<a>> \o s)[i + 1]
  BY <1>2, <1>4, HeadTailProperties
<1>6. t = s
  BY <1>3, <1>5, SeqEqual
<1> QED
  BY <1>2, <1>3, <1>6

\* A control field of two octets before a payload.
LEMMA Header2 ==
  ASSUME NEW a \in Octet, NEW b \in Octet, NEW s \in Seq(Octet)
  PROVE  LET o == <<a, b>> \o s
         IN  /\ o \in Seq(Octet) /\ Len(o) = Len(s) + 2 /\ o[1] = a /\ o[2] = b
             /\ SubSeq(o, 3, Len(o)) = s
<1> DEFINE o == <<a, b>> \o s
<1>1. <<a, b>> \in Seq(Octet) /\ Len(<<a, b>>) = 2 /\ <<a, b>>[1] = a /\ <<a, b>>[2] = b
  OBVIOUS
<1>2. Len(s) \in Nat
  OBVIOUS
<1>3. /\ o \in Seq(Octet) /\ Len(o) = Len(s) + 2
      /\ \A i \in 1 .. Len(s) + 2 : o[i] = IF i <= 2 THEN <<a, b>>[i] ELSE s[i - 2]
  BY <1>1, <1>2, ConcatProperties
<1> HIDE DEF o
<1>4. o[1] = a /\ o[2] = b
  BY <1>1, <1>2, <1>3
<1> DEFINE t == SubSeq(o, 3, Len(o))
<1>5. \A i \in 3 .. Len(o) : o[i] \in Octet
  BY <1>2, <1>3
<1>6. /\ t \in Seq(Octet) /\ Len(t) = IF 3 <= Len(o) THEN Len(o) - 3 + 1 ELSE 0
      /\ \A i \in 1 .. Len(o) - 3 + 1 : t[i] = o[3 + i - 1]
  <2>1. Len(o) \in Int /\ 3 \in Int
    BY <1>2, <1>3
  <2> QED
    BY <1>5, <2>1, SubSeqProperties
<1>7. Len(t) = Len(s)
  BY <1>2, <1>3, <1>6
<1>8. \A i \in 1 .. Len(t) : t[i] = s[i]
  <2> HIDE DEF t
  <2> TAKE i \in 1 .. Len(t)
  <2>1. i \in 1 .. Len(o) - 3 + 1 /\ 3 + i - 1 = i + 2 /\ i + 2 \in 1 .. Len(s) + 2
        /\ ~ (i + 2 <= 2) /\ (i + 2) - 2 = i
    BY <1>2, <1>3, <1>7
  <2>2. t[i] = o[i + 2]
    BY <1>6, <2>1
  <2>3. o[i + 2] = s[i]
    BY <1>3, <2>1
  <2> QED
    BY <2>2, <2>3
<1>9. t = s
  BY <1>6, <1>7, <1>8, SeqEqual
<1> QED
  BY <1>3, <1>4, <1>9 DEF o

\* The codes that the control fields are made of.
LEMMA Codes ==
  /\ SCodes = {1, 5, 9} /\ UCodes = {47, 111, 67, 15, 99, 135}
<1>1. /\ DOMAIN SFrames = {"RR", "RNR", "REJ"}
      /\ SFrames["RR"] = 1 /\ SFrames["RNR"] = 5 /\ SFrames["REJ"] = 9
  BY DEF SFrames
<1>2. /\ DOMAIN UFrames = {"SABM", "SABME", "DISC", "DM", "UA"}
      /\ UFrames["SABM"] = 47 /\ UFrames["SABME"] = 111 /\ UFrames["DISC"] = 67
      /\ UFrames["DM"] = 15 /\ UFrames["UA"] = 99
  BY DEF UFrames
<1> QED
  BY <1>1, <1>2 DEF SCodes, UCodes, X75_FRMR

-----------------------------------------------------------------------------
(* The bits of the control field.                                          *)

\* The lowest two bits tell I, S and U frames apart.
LEMMA KindsDiffer ==
  ASSUME NEW c \in Octet
  PROVE  /\ c % 2 = 0 \/ c % 4 = 1 \/ c % 4 = 3
         /\ c % 4 \in {1, 3} <=> c % 2 # 0
  BY DEF Octet

\* A number and the P/F bit in an octet of an extended control field.
Extended2(c, n, pf) == c \in Octet /\ (c \div 2) % 128 = n /\ EPF(c) = pf

LEMMA ExtendedBits ==
  ASSUME NEW n \in 0 .. 127, NEW pf \in BOOLEAN
  PROVE  Extended2(2 * n + Bit(pf, 1), n, pf)
<1> DEFINE c == 2 * n + Bit(pf, 1)
<1>1. c \in Octet /\ (c \div 2) % 128 = n
  BY DEF Bit, Octet
<1>2. EPF(c) = pf
  <2>1. CASE pf = TRUE
    <3>1. c % 2 = 1
      BY <2>1 DEF Bit
    <3> QED
      BY <2>1, <3>1, Zenon DEF EPF
  <2>2. CASE pf = FALSE
    <3>1. c % 2 # 1
      BY <2>2 DEF Bit
    <3> QED
      BY <2>2, <3>1, Zenon DEF EPF
  <2> QED
    BY <2>1, <2>2
<1> QED
  BY <1>1, <1>2 DEF Extended2

StandardI(c, ns, nr, pf) ==
  /\ c \in Octet /\ c % 2 = 0 /\ (c \div 2) % 8 = ns /\ (c \div 32) % 8 = nr
  /\ SPF(c) = pf

\* The fields of the control octet of an I frame in standard mode ...
LEMMA StandardIBits ==
  ASSUME NEW ns \in 0 .. 7, NEW nr \in 0 .. 7, NEW pf \in BOOLEAN
  PROVE  StandardI(2 * ns + Bit(pf, 16) + 32 * nr, ns, nr, pf)
<1> DEFINE c == 2 * ns + Bit(pf, 16) + 32 * nr
<1>1. c \in Octet /\ c % 2 = 0 /\ (c \div 2) % 8 = ns /\ (c \div 32) % 8 = nr
  BY DEF Bit, Octet
<1>2. SPF(c) = pf
  <2>1. CASE pf = TRUE
    <3>1. (c \div 16) % 2 = 1
      BY <2>1 DEF Bit
    <3> QED
      BY <2>1, <3>1, Zenon DEF SPF
  <2>2. CASE pf = FALSE
    <3>1. (c \div 16) % 2 # 1
      BY <2>2 DEF Bit
    <3> QED
      BY <2>2, <3>1, Zenon DEF SPF
  <2> QED
    BY <2>1, <2>2
<1> QED
  BY <1>1, <1>2 DEF StandardI

StandardS(c, t, nr, pf) ==
  /\ c \in Octet /\ c % 2 = 1 /\ c % 4 = 1 /\ c % 16 = t /\ (c \div 32) % 8 = nr
  /\ SPF(c) = pf

\* ... of an S frame ...
LEMMA StandardSBits ==
  ASSUME NEW t \in {1, 5, 9}, NEW nr \in 0 .. 7, NEW pf \in BOOLEAN
  PROVE  StandardS(t + Bit(pf, 16) + 32 * nr, t, nr, pf)
<1> DEFINE c == t + Bit(pf, 16) + 32 * nr
<1>1. c \in Octet /\ c % 2 = 1 /\ c % 4 = 1 /\ c % 16 = t /\ (c \div 32) % 8 = nr
  BY DEF Bit, Octet
<1>2. SPF(c) = pf
  <2>1. CASE pf = TRUE
    <3>1. (c \div 16) % 2 = 1
      BY <2>1 DEF Bit
    <3> QED
      BY <2>1, <3>1, Zenon DEF SPF
  <2>2. CASE pf = FALSE
    <3>1. (c \div 16) % 2 # 1
      BY <2>2 DEF Bit
    <3> QED
      BY <2>2, <3>1, Zenon DEF SPF
  <2> QED
    BY <2>1, <2>2
<1> QED
  BY <1>1, <1>2 DEF StandardS

\* ... and of a U frame do not overlap.
LEMMA UBits ==
  ASSUME NEW t \in {47, 111, 67, 15, 99, 135}, NEW pf \in BOOLEAN,
         NEW c, c = t + Bit(pf, 16)
  PROVE  /\ c \in Octet /\ c % 2 = 1 /\ c % 4 = 3 /\ SPF(c) = pf /\ c - Bit(SPF(c), 16) = t
<1>1. c \in Octet /\ c % 2 = 1 /\ c % 4 = 3
  BY DEF Bit, Octet
<1>2. SPF(c) = pf
  <2>1. CASE pf = TRUE
    <3>1. (c \div 16) % 2 = 1
      BY <2>1 DEF Bit
    <3> QED
      BY <2>1, <3>1, Zenon DEF SPF
  <2>2. CASE pf = FALSE
    <3>1. (c \div 16) % 2 # 1
      BY <2>2 DEF Bit
    <3> QED
      BY <2>2, <3>1, Zenon DEF SPF
  <2> QED
    BY <2>1, <2>2
<1>3. c - Bit(pf, 16) = t
  BY DEF Bit
<1> QED
  BY <1>1, <1>2, <1>3

-----------------------------------------------------------------------------
(* What is sent is read.                                                   *)

\* Each side takes its own address for the other's response or command.
LEMMA AddressRead ==
  ASSUME NEW d \in BOOLEAN, NEW type \in CommandResponse, mlp \in BOOLEAN
  PROVE  Address(d, type) \in Octet /\ DecodeAddress(~ d, Address(d, type)) = type
<1>1. ASSUME NEW u \in CommandResponse, Address(d, u) = Address(d, type) PROVE u = type
  BY <1>1 DEF Address, CommandResponse
<1>2. ~ ~ d = d
  OBVIOUS
<1>3. /\ Address(~ ~ d, type) = Address(d, type)
      /\ \A u \in CommandResponse : Address(~ ~ d, u) = Address(d, u)
  BY <1>2
<1>4. DecodeAddress(~ d, Address(d, type)) =
        CHOOSE u \in CommandResponse : Address(d, type) = Address(d, u)
  BY <1>3 DEF DecodeAddress
<1>5. Address(d, type) \in Octet
  BY DEF Address, Octet
<1> QED
  BY <1>1, <1>4, <1>5

\* What x75_decode looks at: the address and the octets behind it.
LEMMA Decoded ==
  ASSUME NEW d, NEW a \in Octet, NEW o \in Seq(Octet), o # <<>>
  PROVE  x75_decode(d, <<a>> \o o) =
           IF extended THEN DecodeExtended(DecodeAddress(d, a), o)
                       ELSE DecodeStandard(DecodeAddress(d, a), o)
<1>1. /\ Len(<<a>> \o o) = Len(o) + 1 /\ (<<a>> \o o)[1] = a /\ Tail(<<a>> \o o) = o
  BY InFront
<1>2. Len(o) \in Nat /\ Len(o) # 0
  OBVIOUS
<1>3. ~ (Len(<<a>> \o o) < 2)
  BY <1>1, <1>2
<1> QED
  BY <1>1, <1>3 DEF x75_decode

\* The fields that a station meant are the fields that the other one reads.
Carries(read, meant) ==
  read.rc = 0 /\ \A field \in DOMAIN meant : read[field] = meant[field]

LEMMA FieldsCarried ==
  ASSUME NEW type, NEW cr, NEW pf, NEW ns, NEW nr, NEW rest,
         NEW read, read = [rc |-> 0, type |-> type, cr |-> cr, pf |-> pf, ns |-> ns,
                           nr |-> nr, rest |-> rest]
  PROVE  Carries(read, [type |-> type, cr |-> cr, pf |-> pf, ns |-> ns, nr |-> nr,
                        rest |-> rest])
  BY DEF Carries

\* An I frame of either mode is read as it was meant.
LEMMA IFrameRead ==
  ASSUME NEW d \in BOOLEAN, extended \in BOOLEAN, mlp \in BOOLEAN,
         NEW vs \in Seqno, NEW vr \in Seqno, NEW pf \in BOOLEAN, NEW p \in Seq(Octet)
  PROVE  /\ x75_send_iframe(d, vs, vr, pf, p) \in Seq(Octet)
         /\ Carries(x75_decode(~ d, x75_send_iframe(d, vs, vr, pf, p)),
                    [type |-> X75_I, cr |-> "COMMAND", pf |-> pf, ns |-> vs,
                     nr |-> vr, rest |-> p])
<1> DEFINE a == Address(d, "COMMAND")
<1>1. a \in Octet /\ DecodeAddress(~ d, a) = "COMMAND"
  BY AddressRead DEF CommandResponse
<1> HIDE DEF a
<1>2. CASE extended = TRUE
  <2> DEFINE c1 == 2 * vs
             c2 == 2 * vr + Bit(pf, 1)
             o  == <<c1, c2>> \o p
  <2>1. /\ c1 \in Octet /\ c1 % 2 = 0 /\ (c1 \div 2) % 128 = vs
        /\ c2 \in Octet /\ (c2 \div 2) % 128 = vr /\ EPF(c2) = pf
    <3>1. vs \in 0 .. 127 /\ vr \in 0 .. 127
      BY <1>2 DEF Seqno
    <3>2. c1 \in Octet /\ c1 % 2 = 0 /\ (c1 \div 2) % 128 = vs
      BY <3>1 DEF Octet
    <3>3. Extended2(c2, vr, pf)
      BY <3>1, ExtendedBits
    <3> QED
      BY <3>2, <3>3 DEF Extended2
  <2> HIDE DEF c1, c2
  <2>2. /\ o \in Seq(Octet) /\ Len(o) = Len(p) + 2 /\ o[1] = c1 /\ o[2] = c2
        /\ SubSeq(o, 3, Len(o)) = p
    BY <2>1, Header2
  <2>3. x75_send_iframe(d, vs, vr, pf, p) = <<a>> \o o
    BY <1>2 DEF x75_send_iframe, x75_transmit_buffer, a, c1, c2
  <2> HIDE DEF o
  <2>4. o # <<>> /\ Len(o) >= 2
    BY <2>2
  <2>5. x75_decode(~ d, <<a>> \o o) = DecodeExtended("COMMAND", o)
    BY <1>1, <1>2, <2>2, <2>4, Decoded
  <2>6. DecodeExtended("COMMAND", o) =
          [rc |-> 0, type |-> X75_I, cr |-> "COMMAND", pf |-> pf, ns |-> vs, nr |-> vr, rest |-> p]
    <3>1. o[1] % 4 # X75_S /\ o[1] % 4 # X75_U
      BY <2>1, <2>2, KindsDiffer DEF X75_S, X75_U
    <3> QED
      BY <2>1, <2>2, <2>4, <3>1 DEF DecodeExtended
  <2> QED
    <3>1. <<a>> \o o \in Seq(Octet)
      BY <1>1, <2>2, InFront
    <3>2. Carries(DecodeExtended("COMMAND", o),
                  [type |-> X75_I, cr |-> "COMMAND", pf |-> pf, ns |-> vs,
                   nr |-> vr, rest |-> p])
      BY <2>6, FieldsCarried
    <3> QED
      BY <2>3, <2>5, <3>1, <3>2
<1>3. CASE extended = FALSE
  <2> DEFINE c == 2 * vs + Bit(pf, 16) + 32 * vr
             o == <<c>> \o p
  <2>1. /\ c \in Octet /\ c % 2 = 0 /\ (c \div 2) % 8 = vs /\ (c \div 32) % 8 = vr
        /\ SPF(c) = pf
    <3>1. vs \in 0 .. 7 /\ vr \in 0 .. 7
      BY <1>3 DEF Seqno
    <3>2. StandardI(c, vs, vr, pf)
      BY <3>1, StandardIBits
    <3> QED
      BY <3>2 DEF StandardI
  <2> HIDE DEF c
  <2>2. o \in Seq(Octet) /\ Len(o) = Len(p) + 1 /\ o[1] = c /\ Tail(o) = p
    BY <2>1, InFront
  <2>3. x75_send_iframe(d, vs, vr, pf, p) = <<a>> \o o
    BY <1>3 DEF x75_send_iframe, x75_transmit_buffer, a, c
  <2> HIDE DEF o
  <2>4. o # <<>>
    BY <2>2
  <2>5. x75_decode(~ d, <<a>> \o o) = DecodeStandard("COMMAND", o)
    BY <1>1, <1>3, <2>2, <2>4, Decoded
  <2>6. DecodeStandard("COMMAND", o) =
          [rc |-> 0, type |-> X75_I, cr |-> "COMMAND", pf |-> pf, ns |-> vs, nr |-> vr, rest |-> p]
    <3>1. o[1] % 2 = 0
      BY <2>1, <2>2
    <3>2. DecodeStandard("COMMAND", o) =
            [rc |-> 0, type |-> X75_I, cr |-> "COMMAND", pf |-> SPF(o[1]),
             ns |-> (o[1] \div 2) % 8, nr |-> (o[1] \div 32) % 8, rest |-> Tail(o)]
      <4> DEFINE kind == IF o[1] % 2 = 0 THEN X75_I ELSE o[1] % 4
                 type == CASE kind = X75_I -> X75_I
                           [] kind = X75_S -> o[1] % 16
                           [] kind = X75_U -> o[1] - Bit(SPF(o[1]), 16)
      <4>1. kind = X75_I /\ X75_I # X75_S /\ X75_I # X75_U
        BY <3>1 DEF X75_I, X75_S, X75_U
      <4>2. DecodeStandard("COMMAND", o) =
              [rc |-> 0, cr |-> "COMMAND", pf |-> SPF(o[1]), rest |-> Tail(o), type |-> type,
               ns |-> IF kind = X75_I THEN (o[1] \div 2) % 8 ELSE 0,
               nr |-> IF kind # X75_U THEN (o[1] \div 32) % 8 ELSE 0]
        BY Zenon DEF DecodeStandard
      <4> HIDE DEF kind
      <4>3. type = X75_I
        BY <4>1
      <4> HIDE DEF type
      <4> QED
        BY <4>1, <4>2, <4>3
    <3> QED
      BY <2>1, <2>2, <3>2
  <2> QED
    <3>1. <<a>> \o o \in Seq(Octet)
      BY <1>1, <2>2, InFront
    <3>2. Carries(DecodeStandard("COMMAND", o),
                  [type |-> X75_I, cr |-> "COMMAND", pf |-> pf, ns |-> vs,
                   nr |-> vr, rest |-> p])
      BY <2>6, FieldsCarried
    <3> QED
      BY <2>3, <2>5, <3>1, <3>2
<1> QED
  BY <1>2, <1>3

\* A control field with nothing behind it.
LEMMA Alone ==
  ASSUME NEW a \in Octet, NEW b \in Octet
  PROVE  /\ <<a>> \in Seq(Octet) /\ Len(<<a>>) = 1 /\ <<a>>[1] = a /\ Tail(<<a>>) = <<>>
         /\ <<a, b>> \in Seq(Octet) /\ Len(<<a, b>>) = 2 /\ <<a, b>>[1] = a /\ <<a, b>>[2] = b
         /\ SubSeq(<<a, b>>, 3, 2) = <<>>
<1>1. <<>> \in Seq(Octet) /\ Len(<<>>) = 0
  OBVIOUS
<1>2. <<a>> \o <<>> = <<a>> /\ <<a, b>> \o <<>> = <<a, b>>
  <2>1. <<a>> \in Seq(Octet) /\ <<a, b>> \in Seq(Octet)
    OBVIOUS
  <2> QED
    BY <2>1, ConcatEmptySeq
<1>3. Tail(<<a>>) = <<>>
  BY <1>1, <1>2, InFront
<1>4. Len(<<a, b>>) = 2 /\ SubSeq(<<a, b>>, 3, Len(<<a, b>>)) = <<>>
  BY <1>1, <1>2, Header2
<1> QED
  BY <1>3, <1>4

\* What follows the address and one octet of control field.
LEMMA BehindHeader ==
  ASSUME NEW a \in Octet, NEW o \in Seq(Octet), o # <<>>
  PROVE  SubSeq(<<a>> \o o, 3, Len(<<a>> \o o)) = Tail(o)
<1> DEFINE w == <<a>> \o o
           s == SubSeq(w, 3, Len(w))
           t == Tail(o)
<1>1. Len(o) \in Nat /\ Len(o) > 0
  OBVIOUS
<1>2. w \in Seq(Octet) /\ Len(w) = Len(o) + 1 /\ Tail(w) = o /\ w # <<>>
  BY InFront, <1>1
<1> HIDE DEF w
<1>3. \A i \in 1 .. Len(o) : o[i] = w[i + 1]
  BY <1>2, HeadTailProperties
<1>4. t \in Seq(Octet) /\ Len(t) = Len(o) - 1 /\ \A i \in 1 .. Len(t) : t[i] = o[i + 1]
  BY HeadTailProperties
<1>5. \A i \in 3 .. Len(w) : w[i] \in Octet
  BY <1>1, <1>2
<1>6. /\ s \in Seq(Octet) /\ Len(s) = IF 3 <= Len(w) THEN Len(w) - 3 + 1 ELSE 0
      /\ \A i \in 1 .. Len(w) - 3 + 1 : s[i] = w[3 + i - 1]
  <2>1. Len(w) \in Int /\ 3 \in Int
    BY <1>1, <1>2
  <2> QED
    BY <1>5, <2>1, SubSeqProperties
<1>7. Len(s) = Len(t)
  BY <1>1, <1>2, <1>4, <1>6
<1>8. \A i \in 1 .. Len(s) : s[i] = t[i]
  <2> HIDE DEF s, t
  <2> TAKE i \in 1 .. Len(s)
  <2>1. /\ i \in 1 .. Len(w) - 3 + 1 /\ 3 + i - 1 = i + 2 /\ i + 1 \in 1 .. Len(o)
        /\ i \in 1 .. Len(t) /\ (i + 1) + 1 = i + 2
    BY <1>1, <1>2, <1>4, <1>7
  <2> QED
    BY <1>3, <1>4, <1>6, <2>1
<1> QED
  BY <1>4, <1>6, <1>7, <1>8, SeqEqual DEF w

Behind(cr, o) == IF extended THEN DecodeExtended(cr, o) ELSE DecodeStandard(cr, o)

UFrame(t, pf, cr, rest) ==
  [rc |-> 0, type |-> t, cr |-> cr, pf |-> pf, ns |-> 0, nr |-> 0, rest |-> rest]

\* A U frame looks the same in both modes.
LEMMA URead ==
  ASSUME extended \in BOOLEAN, NEW cr, NEW t \in UCodes, NEW pf \in BOOLEAN,
         NEW o \in Seq(Octet), o # <<>>, o[1] = t + Bit(pf, 16)
  PROVE  Behind(cr, o) = UFrame(t, pf, cr, Tail(o))
<1> DEFINE c == o[1]
<1>1. c = t + Bit(pf, 16)
  OBVIOUS
<1> HIDE DEF c
<1>2. c \in Octet /\ c % 2 = 1 /\ c % 4 = 3 /\ SPF(c) = pf /\ c - Bit(SPF(c), 16) = t
  BY <1>1, UBits, Codes
<1>3. DecodeExtended(cr, o) =
        [rc |-> 0, type |-> t, cr |-> cr, pf |-> pf, ns |-> 0, nr |-> 0, rest |-> Tail(o)]
  <2>1. c % 2 # 0 /\ c % 4 # X75_S /\ c % 4 = X75_U
    BY <1>2 DEF X75_S, X75_U
  <2>2. DecodeExtended(cr, o) =
          [rc |-> 0, type |-> c - Bit(SPF(c), 16), cr |-> cr, pf |-> SPF(c), ns |-> 0, nr |-> 0,
           rest |-> Tail(o)]
    BY <2>1 DEF DecodeExtended, c
  <2> QED
    BY <1>2, <2>2
<1>4. DecodeStandard(cr, o) =
        [rc |-> 0, type |-> t, cr |-> cr, pf |-> pf, ns |-> 0, nr |-> 0, rest |-> Tail(o)]
  BY <1>2 DEF DecodeStandard, c, X75_I, X75_S, X75_U
<1> QED
  BY <1>3, <1>4 DEF Behind, UFrame

\* So is every frame that x75_send_control makes.
LEMMA ControlRead ==
  ASSUME NEW d \in BOOLEAN, extended \in BOOLEAN, mlp \in BOOLEAN,
         NEW t \in SCodes \cup (UCodes \ {X75_FRMR}), NEW pf \in BOOLEAN,
         NEW cr \in CommandResponse, NEW vr \in Seqno
  PROVE  /\ x75_send_control(d, t, pf, cr, vr) \in Seq(Octet)
         /\ Carries(x75_decode(~ d, x75_send_control(d, t, pf, cr, vr)),
                    [type |-> t, cr |-> cr, pf |-> pf, ns |-> 0,
                     nr |-> IF t \in SCodes THEN vr ELSE 0, rest |-> <<>>])
<1> DEFINE a == Address(d, cr)
<1>1. a \in Octet /\ DecodeAddress(~ d, a) = cr
  BY AddressRead
<1> HIDE DEF a
<1> DEFINE meant == [type |-> t, cr |-> cr, pf |-> pf, ns |-> 0,
                     nr |-> IF t \in SCodes THEN vr ELSE 0, rest |-> <<>>]
<1>2. ASSUME NEW o \in Seq(Octet), o # <<>>,
             x75_send_control(d, t, pf, cr, vr) = <<a>> \o o,
             (IF extended THEN DecodeExtended(cr, o) ELSE DecodeStandard(cr, o)) =
               [rc |-> 0, type |-> t, cr |-> cr, pf |-> pf, ns |-> 0,
                nr |-> IF t \in SCodes THEN vr ELSE 0, rest |-> <<>>]
      PROVE  /\ x75_send_control(d, t, pf, cr, vr) \in Seq(Octet)
             /\ Carries(x75_decode(~ d, x75_send_control(d, t, pf, cr, vr)), meant)
  <2>1. <<a>> \o o \in Seq(Octet)
    BY <1>1, InFront
  <2>2. x75_decode(~ d, <<a>> \o o) =
          IF extended THEN DecodeExtended(cr, o) ELSE DecodeStandard(cr, o)
    BY <1>1, <1>2, Decoded
  <2> QED
    BY <1>2, <2>1, <2>2, FieldsCarried
<1> HIDE DEF meant
<1>3. CASE t \in SCodes
  <2>1. t \in {1, 5, 9} /\ t \in Octet /\ t % 4 = 1 /\ t % 4 # X75_U
    BY <1>3, Codes DEF Octet, X75_U
  <2>2. CASE extended = TRUE
    <3> DEFINE c == 2 * vr + Bit(pf, 1)
               o == <<t, c>>
    <3>1. c \in Octet /\ (c \div 2) % 128 = vr /\ EPF(c) = pf
      <4>1. vr \in 0 .. 127
        BY <2>2 DEF Seqno
      <4>2. Extended2(c, vr, pf)
        BY <4>1, ExtendedBits
      <4> QED
        BY <4>2 DEF Extended2
    <3>2. x75_send_control(d, t, pf, cr, vr) = <<a>> \o o
      BY <2>1, <2>2 DEF x75_send_control, x75_transmit_buffer, a
    <3> HIDE DEF c
    <3>3. /\ o \in Seq(Octet) /\ o # <<>> /\ Len(o) = 2 /\ o[1] = t /\ o[2] = c
          /\ SubSeq(o, 3, Len(o)) = <<>>
      BY <2>1, <3>1, Alone
    <3> HIDE DEF o
    <3>4. DecodeExtended(cr, o) =
            [rc |-> 0, type |-> t, cr |-> cr, pf |-> pf, ns |-> 0, nr |-> vr, rest |-> <<>>]
      <4>1. o[1] % 2 # 0 /\ o[1] % 4 = X75_S /\ o[1] % 4 # X75_U /\ o[1] % 16 = t /\ Len(o) >= 2
        BY <2>1, <3>3 DEF X75_S, X75_U
      <4>2. DecodeExtended(cr, o) =
              [rc |-> 0, type |-> o[1] % 16, cr |-> cr, pf |-> EPF(o[2]),
               ns |-> 0, nr |-> (o[2] \div 2) % 128, rest |-> SubSeq(o, 3, Len(o))]
        BY <4>1 DEF DecodeExtended
      <4> QED
        BY <3>1, <3>3, <4>1, <4>2
    <3> QED
      BY <1>2, <1>3, <2>2, <3>2, <3>3, <3>4 DEF meant
  <2>3. CASE extended = FALSE
    <3> DEFINE c == t + Bit(pf, 16) + 32 * vr
               o == <<c>>
    <3>1. /\ c \in Octet /\ c % 2 = 1 /\ c % 4 = 1 /\ c % 16 = t /\ (c \div 32) % 8 = vr
          /\ SPF(c) = pf
      <4>1. vr \in 0 .. 7
        BY <2>3 DEF Seqno
      <4>2. StandardS(c, t, vr, pf)
        BY <2>1, <4>1, StandardSBits
      <4> QED
        BY <4>2 DEF StandardS
    <3>2. x75_send_control(d, t, pf, cr, vr) = <<a>> \o o
      BY <2>1, <2>3 DEF x75_send_control, x75_transmit_buffer, a
    <3> HIDE DEF c
    <3>3. o \in Seq(Octet) /\ o # <<>> /\ o[1] = c /\ Tail(o) = <<>>
      BY <3>1, Alone
    <3> HIDE DEF o
    <3>4. DecodeStandard(cr, o) =
            [rc |-> 0, type |-> t, cr |-> cr, pf |-> pf, ns |-> 0, nr |-> vr, rest |-> <<>>]
      <4>1. o[1] % 2 # 0 /\ o[1] % 4 = 1
        BY <3>1, <3>3
      <4>2. DecodeStandard(cr, o) =
              [rc |-> 0, type |-> o[1] % 16, cr |-> cr, pf |-> SPF(o[1]), ns |-> 0,
               nr |-> (o[1] \div 32) % 8, rest |-> Tail(o)]
        <5> DEFINE e == o[1]
        <5>1. e % 2 # 0 /\ e % 4 = 1 /\ 1 # 0 /\ 1 # 3
          BY <4>1
        <5> HIDE DEF e
        <5> QED
          BY <5>1 DEF DecodeStandard, X75_I, X75_S, X75_U, e
      <4> QED
        BY <3>1, <3>3, <4>2
    <3> QED
      BY <1>2, <1>3, <2>3, <3>2, <3>3, <3>4 DEF meant
  <2> QED
    BY <2>2, <2>3
<1>4. CASE t \notin SCodes
  <2> DEFINE c == t + Bit(pf, 16)
             o == <<c>>
  <2>1. t \in {47, 111, 67, 15, 99} /\ t % 4 = X75_U
    BY <1>4, Codes DEF X75_FRMR, X75_U
  <2>2. c \in Octet
    BY <2>1 DEF Bit, Octet
  <2>3. x75_send_control(d, t, pf, cr, vr) = <<a>> \o o
    BY <2>1 DEF x75_send_control, x75_transmit_buffer, a
  <2>4. o \in Seq(Octet) /\ o # <<>> /\ o[1] = c /\ Tail(o) = <<>>
    BY <2>2, Alone
  <2> HIDE DEF o
  <2>5. Behind(cr, o) = UFrame(t, pf, cr, Tail(o))
    <3>1. t \in UCodes /\ o[1] = t + Bit(pf, 16)
      BY <1>4, <2>4
    <3> QED
      BY <2>4, <3>1, URead, Zenon
  <2> QED
    BY <1>2, <1>4, <2>3, <2>4, <2>5 DEF meant, Behind, UFrame
<1> QED
  BY <1>3, <1>4 DEF meant

FrmrArrives(d, coded) ==
  /\ coded \in Seq(Octet)
  /\ Carries(x75_decode(~ d, coded),
             [type |-> X75_FRMR, cr |-> "RESPONSE", pf |-> FALSE, ns |-> 0, nr |-> 0,
              rest |-> SubSeq(coded, 3, Len(coded))])

\* And an FRMR, with its information field for the payload.
LEMMA FrmrRead ==
  ASSUME NEW d \in BOOLEAN, extended \in BOOLEAN, mlp \in BOOLEAN,
         NEW cr \in CommandResponse, NEW vs \in {0, 1, 7}, NEW vr \in {0, 1, 7},
         NEW reason \in {1, 8}
  PROVE  FrmrArrives(d, x75_transmit_frmr(d, <<5, 6>>, cr, reason, vs, vr))
<1> DEFINE coded == x75_transmit_frmr(d, <<5, 6>>, cr, reason, vs, vr)
           a == Address(d, "RESPONSE")
           info == IF extended
                   THEN <<X75_FRMR, 5, 6, 2 * vs, 2 * vr + Bit(cr = "RESPONSE", 1), reason>>
                   ELSE <<X75_FRMR, 5, 2 * vs + 32 * vr + Bit(cr = "RESPONSE", 16), reason>>
<1>1. a \in Octet /\ DecodeAddress(~ d, a) = "RESPONSE"
  BY AddressRead DEF CommandResponse
<1>2. coded = <<a>> \o info
  BY DEF x75_transmit_frmr, x75_transmit_buffer
<1>3. info \in Seq(Octet) /\ info # <<>> /\ info[1] = 135
  <2>1. /\ 2 * vs \in Octet /\ 2 * vr + Bit(cr = "RESPONSE", 1) \in Octet
        /\ 2 * vs + 32 * vr + Bit(cr = "RESPONSE", 16) \in Octet
        /\ reason \in Octet /\ X75_FRMR \in Octet /\ 5 \in Octet /\ 6 \in Octet
    BY DEF Bit, Octet, X75_FRMR
  <2>2. CASE extended = TRUE
    <3> DEFINE e1 == 2 * vs
               e2 == 2 * vr + Bit(cr = "RESPONSE", 1)
    <3>1. e1 \in Octet /\ e2 \in Octet /\ info = <<X75_FRMR, 5, 6, e1, e2, reason>>
      BY <2>1, <2>2
    <3> HIDE DEF e1, e2, info
    <3> QED
      BY <2>1, <3>1 DEF X75_FRMR
  <2>3. CASE extended = FALSE
    <3> DEFINE e1 == 2 * vs + 32 * vr + Bit(cr = "RESPONSE", 16)
    <3>1. e1 \in Octet /\ info = <<X75_FRMR, 5, e1, reason>>
      BY <2>1, <2>3
    <3> HIDE DEF e1, info
    <3> QED
      BY <2>1, <3>1 DEF X75_FRMR
  <2> QED
    BY <2>2, <2>3
<1> HIDE DEF a, info, coded
<1>4. ASSUME NEW pf \in BOOLEAN, pf = FALSE
      PROVE  Behind("RESPONSE", info) = UFrame(X75_FRMR, pf, "RESPONSE", Tail(info))
  <2>1. info[1] = X75_FRMR + Bit(pf, 16) /\ X75_FRMR \in UCodes
    BY <1>3, <1>4, Codes DEF Bit, X75_FRMR
  <2> QED
    BY <1>3, <2>1, URead, Zenon
<1>5. Behind("RESPONSE", info) = UFrame(X75_FRMR, FALSE, "RESPONSE", Tail(info))
  BY <1>4
<1>6. x75_decode(~ d, coded) = UFrame(X75_FRMR, FALSE, "RESPONSE", Tail(info))
  BY <1>1, <1>2, <1>3, <1>5, Decoded DEF Behind
<1>7. Tail(info) = SubSeq(coded, 3, Len(coded))
  BY <1>1, <1>2, <1>3, BehindHeader
<1> QED
  <2>1. coded \in Seq(Octet)
    BY <1>1, <1>2, <1>3, InFront
  <2>2. x75_decode(~ d, coded) =
          [rc |-> 0, type |-> X75_FRMR, cr |-> "RESPONSE", pf |-> FALSE, ns |-> 0, nr |-> 0,
           rest |-> SubSeq(coded, 3, Len(coded))]
    BY <1>6, <1>7 DEF UFrame
  <2> QED
    BY <2>1, <2>2, FieldsCarried DEF FrmrArrives, coded

-----------------------------------------------------------------------------
(* What is accepted is legal, whoever sent it.                             *)

\* What an accepted frame can be.
Acceptable(f) ==
  f.rc = 0 => /\ f.type \in {X75_I} \cup {b \in 0 .. 255 : b % 2 = 1}
              /\ f.ns \in Seqno /\ f.nr \in Seqno

\* Types are odd octets.
LEMMA TypeBits ==
  ASSUME NEW c \in Octet
  PROVE  /\ c % 4 = 1 => c % 16 \in {b \in 0 .. 255 : b % 2 = 1}
         /\ c % 4 = 3 => c - Bit(SPF(c), 16) \in {b \in 0 .. 255 : b % 2 = 1}
<1>1. c % 4 = 1 => c % 16 \in {b \in 0 .. 255 : b % 2 = 1}
  BY DEF Octet
<1>2. ASSUME c % 4 = 3 PROVE c - Bit(SPF(c), 16) \in {b \in 0 .. 255 : b % 2 = 1}
  <2>1. CASE (c \div 16) % 2 = 1
    <3>1. c >= 16 /\ c - 16 \in {b \in 0 .. 255 : b % 2 = 1}
      BY <1>2, <2>1 DEF Octet
    <3> QED
      BY <2>1, <3>1 DEF SPF, Bit
  <2>2. CASE (c \div 16) % 2 # 1
    BY <1>2, <2>2 DEF SPF, Bit, Octet
  <2> QED
    BY <2>1, <2>2
<1> QED
  BY <1>1, <1>2

\* Numbers are below the modulus.
LEMMA NumberBits ==
  ASSUME NEW c \in Octet
  PROVE  (c \div 2) % 128 \in 0 .. 127 /\ (c \div 2) % 8 \in 0 .. 7 /\ (c \div 32) % 8 \in 0 .. 7
  BY DEF Octet

\* Whatever x75_decode is given.
LEMMA AcceptedIsLegal ==
  ASSUME NEW d, NEW coded \in Seq(Octet), extended \in BOOLEAN
  PROVE  Acceptable(x75_decode(d, coded))
<1>1. CASE Len(coded) < 2
  BY <1>1 DEF x75_decode, Refused, Acceptable
<1>2. CASE ~ (Len(coded) < 2)
  <2> DEFINE o == Tail(coded)
             cr == DecodeAddress(d, coded[1])
  <2>1. o \in Seq(Octet) /\ Len(o) \in Nat /\ Len(o) >= 1
    <3>1. coded # <<>> /\ Len(coded) \in Nat
      BY <1>2
    <3>2. o \in Seq(Octet) /\ Len(o) = Len(coded) - 1
      BY <3>1, HeadTailProperties
    <3> QED
      BY <1>2, <3>1, <3>2
  <2>2. x75_decode(d, coded) = IF extended THEN DecodeExtended(cr, o) ELSE DecodeStandard(cr, o)
    BY <1>2 DEF x75_decode
  <2> HIDE DEF o, cr
  <2>3. o[1] \in Octet /\ (Len(o) >= 2 => o[2] \in Octet)
    BY <2>1
  <2>4. o[1] % 2 = 0 \/ (o[1] % 2 # 0 /\ o[1] % 4 = 1) \/ (o[1] % 2 # 0 /\ o[1] % 4 = 3)
    BY <2>3, KindsDiffer
  <2>5. ASSUME extended = TRUE PROVE Acceptable(DecodeExtended(cr, o))
    <3>1. Len(o) >= 2 => (o[2] \div 2) % 128 \in 0 .. 127
      BY <2>3, NumberBits
    <3>2. (o[1] \div 2) % 128 \in 0 .. 127 /\ 0 \in 0 .. 127 /\ Seqno = 0 .. 127
      <4>1. Seqno = 0 .. 127
        BY <2>5 DEF Seqno
      <4>2. (o[1] \div 2) % 128 \in 0 .. 127
        BY <2>3, NumberBits
      <4> QED
        BY <4>1, <4>2
    <3>3. Acceptable(Refused)
      BY DEF Acceptable, Refused
    <3>4. CASE o[1] % 2 = 0
      <4>1. o[1] % 4 # X75_S /\ o[1] % 4 # X75_U
        BY <2>3, <3>4, KindsDiffer DEF X75_S, X75_U
      <4>2. DecodeExtended(cr, o) =
              IF ~ (Len(o) >= 2) THEN Refused
              ELSE [rc |-> 0, type |-> X75_I, cr |-> cr, pf |-> EPF(o[2]),
                    ns |-> (o[1] \div 2) % 128, nr |-> (o[2] \div 2) % 128,
                    rest |-> SubSeq(o, 3, Len(o))]
        BY <3>4, <4>1 DEF DecodeExtended
      <4> QED
        BY <3>1, <3>2, <3>3, <4>2 DEF Acceptable
    <3>5. CASE o[1] % 2 # 0 /\ o[1] % 4 = 1
      <4>1. DecodeExtended(cr, o) =
              IF ~ (Len(o) >= 2) THEN Refused
              ELSE [rc |-> 0, type |-> o[1] % 16, cr |-> cr, pf |-> EPF(o[2]),
                    ns |-> 0, nr |-> (o[2] \div 2) % 128, rest |-> SubSeq(o, 3, Len(o))]
        BY <3>5 DEF DecodeExtended, X75_S, X75_U
      <4> QED
        BY <2>3, <3>1, <3>2, <3>3, <3>5, <4>1, TypeBits DEF Acceptable
    <3>6. CASE o[1] % 2 # 0 /\ o[1] % 4 = 3
      <4>1. DecodeExtended(cr, o) =
              [rc |-> 0, type |-> o[1] - Bit(SPF(o[1]), 16), cr |-> cr,
               pf |-> SPF(o[1]), ns |-> 0, nr |-> 0, rest |-> Tail(o)]
        BY <3>6 DEF DecodeExtended, X75_S, X75_U
      <4> QED
        <5> DEFINE type == o[1] - Bit(SPF(o[1]), 16)
        <5>1. type \in {b \in 0 .. 255 : b % 2 = 1}
          BY <2>3, <3>6, TypeBits
        <5> HIDE DEF type
        <5> QED
          BY <3>2, <4>1, <5>1 DEF Acceptable, type
    <3> QED
      BY <2>4, <3>4, <3>5, <3>6
  <2>6. ASSUME extended = FALSE PROVE Acceptable(DecodeStandard(cr, o))
    <3> DEFINE f == DecodeStandard(cr, o)
    <3>1. (o[1] \div 2) % 8 \in 0 .. 7 /\ (o[1] \div 32) % 8 \in 0 .. 7 /\ Seqno = 0 .. 7
      BY <2>3, <2>6, NumberBits DEF Seqno
    <3>2. f.ns \in 0 .. 7 /\ f.nr \in 0 .. 7
      BY <3>1 DEF DecodeStandard
    <3>3. f.type = IF o[1] % 2 = 0 THEN X75_I
                   ELSE IF o[1] % 4 = 1 THEN o[1] % 16 ELSE o[1] - Bit(SPF(o[1]), 16)
      BY <2>4 DEF DecodeStandard, X75_I, X75_S, X75_U
    <3> HIDE DEF f
    <3>4. f.type \in {X75_I} \cup {b \in 0 .. 255 : b % 2 = 1}
      <4> DEFINE type == o[1] - Bit(SPF(o[1]), 16)
      <4>1. /\ o[1] % 4 = 1 => o[1] % 16 \in {b \in 0 .. 255 : b % 2 = 1}
            /\ o[1] % 4 = 3 => type \in {b \in 0 .. 255 : b % 2 = 1}
        BY <2>3, TypeBits
      <4>2. f.type = IF o[1] % 2 = 0 THEN X75_I ELSE IF o[1] % 4 = 1 THEN o[1] % 16 ELSE type
        BY <3>3
      <4> HIDE DEF type
      <4> QED
        BY <2>4, <4>1, <4>2
    <3> QED
      BY <3>1, <3>2, <3>4 DEF Acceptable, f
  <2> QED
    BY <2>2, <2>5, <2>6
<1> QED
  BY <1>1, <1>2

-----------------------------------------------------------------------------

\* The inductive invariant: the octets carry what was meant already while
\* they are on the wire.
OnTheWire ==
  /\ extended \in BOOLEAN /\ mlp \in BOOLEAN /\ dce \in BOOLEAN
  /\ octets \in Seq(Octet)
  /\ octets = <<>> => frame = Nothing
  /\ sent # Nothing => Carries(x75_decode(~ dce, octets), sent)
  /\ frame # Nothing => frame = x75_decode(~ dce, octets)

\* What is decoded depends on the octets as long as the mode stays.
LEMMA SameMode ==
  ASSUME UNCHANGED mode
  PROVE  x75_decode(~ dce, octets)' = x75_decode(~ dce, octets')
<1>1. extended' = extended /\ mlp' = mlp /\ dce' = dce
  BY DEF mode
<1> QED
  BY <1>1 DEF x75_decode, DecodeExtended, DecodeStandard, DecodeAddress, Address

\* Each step keeps it.
LEMMA NextOnTheWire == OnTheWire /\ [Next]_vars => OnTheWire'
<1> SUFFICES ASSUME OnTheWire, [Next]_vars PROVE OnTheWire'
  OBVIOUS
<1>0. extended \in BOOLEAN /\ mlp \in BOOLEAN /\ dce \in BOOLEAN
  BY DEF OnTheWire
<1>1. ASSUME NEW meaning, NEW coded \in Seq(Octet), Idle, Transmit(meaning, coded),
             meaning # Nothing => Carries(x75_decode(~ dce, coded), meaning)
      PROVE  OnTheWire'
  <2>1. sent' = meaning /\ octets' = coded /\ UNCHANGED <<mode, frame>>
    BY <1>1 DEF Transmit
  <2>2. frame' = Nothing
    BY <1>1, <2>1 DEF OnTheWire, Idle
  <2>3. sent' # Nothing => Carries(x75_decode(~ dce, octets)', sent')
    BY <1>1, <2>1, SameMode
  <2>4. Carries(x75_decode(~ dce, octets), sent)' = Carries(x75_decode(~ dce, octets)', sent')
    BY DEF Carries
  <2> QED
    BY <1>0, <1>1, <2>1, <2>2, <2>3, <2>4 DEF OnTheWire, mode, Nothing
<1>2. CASE SendIFrame
  <2>1. PICK vs \in Seqno, vr \in Seqno, pf \in BOOLEAN, p \in Payloads :
          Transmit([type |-> X75_I, cr |-> "COMMAND", pf |-> pf, ns |-> vs,
                    nr |-> vr, rest |-> p],
                   x75_send_iframe(dce, vs, vr, pf, p))
    BY <1>2 DEF SendIFrame
  <2>2. p \in Seq(Octet)
    BY CodecAssumption
  <2> QED
    BY <1>0, <1>1, <1>2, <2>1, <2>2, IFrameRead DEF SendIFrame
<1>3. CASE SendControl
  <2>1. PICK t \in SCodes \cup (UCodes \ {X75_FRMR}), pf \in BOOLEAN,
             cr \in CommandResponse, vr \in Seqno :
          Transmit([type |-> t, cr |-> cr, pf |-> pf, ns |-> 0,
                    nr |-> IF t \in SCodes THEN vr ELSE 0, rest |-> <<>>],
                   x75_send_control(dce, t, pf, cr, vr))
    BY <1>3 DEF SendControl
  <2> QED
    BY <1>0, <1>1, <1>3, <2>1, ControlRead DEF SendControl
<1>4. CASE SendFrmr
  <2>1. PICK cr \in CommandResponse, vs \in {0, 1, 7}, vr \in {0, 1, 7}, reason \in {1, 8} :
          LET coded == x75_transmit_frmr(dce, <<5, 6>>, cr, reason, vs, vr)
          IN  Transmit([type |-> X75_FRMR, cr |-> "RESPONSE", pf |-> FALSE,
                        ns |-> 0, nr |-> 0, rest |-> SubSeq(coded, 3, Len(coded))],
                       coded)
    BY <1>4 DEF SendFrmr
  <2> DEFINE coded == x75_transmit_frmr(dce, <<5, 6>>, cr, reason, vs, vr)
  <2>2. /\ coded \in Seq(Octet)
        /\ Carries(x75_decode(~ dce, coded),
                   [type |-> X75_FRMR, cr |-> "RESPONSE", pf |-> FALSE, ns |-> 0, nr |-> 0,
                    rest |-> SubSeq(coded, 3, Len(coded))])
    <3>1. FrmrArrives(dce, coded)
      BY <1>0, FrmrRead
    <3> QED
      BY <3>1 DEF FrmrArrives
  <2> QED
    BY <1>1, <1>4, <2>1, <2>2 DEF SendFrmr
<1>5. CASE Noise
  <2>1. PICK a \in {1, 3, 7, 15} \cup Foreign, c \in 0 .. 255 :
          \/ Transmit(Nothing, <<a>>)
          \/ Transmit(Nothing, <<a, c>>)
          \/ \E x \in Foreign : Transmit(Nothing, <<a, c, x>>)
    BY <1>5 DEF Noise
  <2>2. a \in Octet /\ c \in Octet /\ \A x \in Foreign : x \in Octet
    BY CodecAssumption DEF Octet
  <2>3. /\ <<a>> \in Seq(Octet) /\ <<a, c>> \in Seq(Octet)
        /\ \A x \in Foreign : <<a, c, x>> \in Seq(Octet)
    BY <2>2
  <2> QED
    BY <1>1, <1>5, <2>1, <2>3 DEF Noise
<1>6. CASE Receive
  <2>1. /\ octets # <<>> /\ frame' = x75_decode(~ dce, octets)
        /\ UNCHANGED <<mode, sent, octets>>
    BY <1>6 DEF Receive
  <2>2. x75_decode(~ dce, octets)' = x75_decode(~ dce, octets)
    BY <2>1, SameMode
  <2>3. Carries(x75_decode(~ dce, octets), sent)' = Carries(x75_decode(~ dce, octets), sent)
    BY <2>1, <2>2 DEF Carries
  <2> QED
    BY <2>1, <2>2, <2>3 DEF OnTheWire, mode, Nothing
<1>7. CASE Consume
  BY <1>7 DEF Consume, OnTheWire, mode, Nothing
<1>8. CASE UNCHANGED vars
  <2>1. UNCHANGED <<mode, sent, octets, frame>>
    BY <1>8 DEF vars
  <2>2. x75_decode(~ dce, octets)' = x75_decode(~ dce, octets)
    BY <2>1, SameMode
  <2>3. Carries(x75_decode(~ dce, octets), sent)' = Carries(x75_decode(~ dce, octets), sent)
    BY <2>1, <2>2 DEF Carries
  <2> QED
    BY <2>1, <2>2, <2>3 DEF OnTheWire, mode, Nothing
<1> QED
  BY <1>2, <1>3, <1>4, <1>5, <1>6, <1>7, <1>8 DEF Next

LEMMA AlwaysOnTheWire == Spec => []OnTheWire
<1>1. Init => OnTheWire
  BY DEF Init, OnTheWire, Nothing
<1> QED
  BY <1>1, NextOnTheWire, PTL DEF Spec

\* Every frame that a station sends, in either mode and from either side,
\* with any numbers and any payload, is read as it was meant.
THEOREM ReadAsMeant == Spec => []RoundTrip
<1>1. OnTheWire => RoundTrip
  BY DEF OnTheWire, RoundTrip, Carries
<1> QED
  BY <1>1, AlwaysOnTheWire, PTL

\* Whatever octets arrive, what x75_decode accepts is a frame of a real
\* type, with numbers below the modulus.
THEOREM AcceptedLegal == Spec => []DecodesWithinModulus
<1>1. OnTheWire => DecodesWithinModulus
  <2> SUFFICES ASSUME OnTheWire, frame # Nothing PROVE Acceptable(frame)
    BY DEF DecodesWithinModulus, Acceptable
  <2>1. frame = x75_decode(~ dce, octets) /\ octets \in Seq(Octet) /\ extended \in BOOLEAN
    BY DEF OnTheWire
  <2> QED
    BY <2>1, AcceptedIsLegal
<1> QED
  BY <1>1, AlwaysOnTheWire, PTL

-----------------------------------------------------------------------------
(* V110: the quarters of RLP frames.                                       *)

\* The V.110 frames of a quarter up to n that were not missed.
Came(quarter, n, gone) == {k \in (1 .. n) \ gone : (k - 1) % 4 = quarter}

\* x is the last of the V.110 frames up to n of this quarter, or 0.
IsLast(x, quarter, n, gone) ==
  \/ x = 0 /\ Came(quarter, n, gone) = {}
  \/ x \in Came(quarter, n, gone) /\ \A l \in Came(quarter, n, gone) : l <= x

\* Then it is what the property calls LastOf.
LEMMA LastIs ==
  ASSUME NEW quarter, NEW n \in Nat, NEW x \in Nat, IsLast(x, quarter, n, missed)
  PROVE  LastOf(quarter, n) = x
<1> DEFINE came == Came(quarter, n, missed)
<1>1. LastOf(quarter, n) = IF came = {} THEN 0 ELSE CHOOSE k \in came : \A l \in came : l <= k
  BY DEF LastOf, Came
<1>2. came \subseteq Nat
  BY DEF Came
<1> HIDE DEF came
<1>3. CASE x = 0 /\ came = {}
  BY <1>1, <1>3
<1>4. CASE x \in came /\ \A l \in came : l <= x
  <2>1. \A k \in came : (\A l \in came : l <= k) => k = x
    BY <1>2, <1>4
  <2> QED
    BY <1>1, <1>4, <2>1
<1> QED
  BY <1>3, <1>4 DEF IsLast, came

\* rlp_fsi reads from the E bits which quarter a V.110 frame is.
LEMMA FsiOfFrame ==
  ASSUME NEW n \in Nat, n > 0
  PROVE  rlp_fsi(EOf(n)) = (n - 1) % 4 /\ (n - 1) % 4 \in 0 .. 3
<1> DEFINE m == n - 1
<1>1. m \in Nat
  OBVIOUS
<1> HIDE DEF m
<1>2. ((m % 4) \div 2) * 2 + (m % 2) = m % 4
  BY <1>1
<1>3. m % 4 \in 0 .. 3
  BY <1>1
<1>4. EOf(n) = <<0, (m % 4) \div 2, m % 2>>
  BY DEF EOf, m
<1>5. rlp_fsi(EOf(n)) = ((m % 4) \div 2) * 2 + (m % 2)
  BY <1>4 DEF rlp_fsi
<1> QED
  BY <1>2, <1>3, <1>5 DEF m

\* A frame that comes is the last one of its quarter and of no other.
LEMMA NextLast ==
  ASSUME NEW n \in Nat, NEW gone \in SUBSET (1 .. n), NEW quarter \in 0 .. 3, NEW x \in Nat,
         IsLast(x, quarter, n, gone)
  PROVE  /\ n % 4 = quarter => IsLast(n + 1, quarter, n + 1, gone)
         /\ n % 4 # quarter => IsLast(x, quarter, n + 1, gone)
         /\ IsLast(x, quarter, n + 1, gone \cup {n + 1})
<1>1. \A k : k \in 1 .. n + 1 <=> k \in 1 .. n \/ k = n + 1
  OBVIOUS
<1>2. n + 1 \notin gone /\ n + 1 \notin 1 .. n /\ (n + 1) - 1 = n
  OBVIOUS
<1>3. n % 4 # quarter => Came(quarter, n + 1, gone) = Came(quarter, n, gone)
  BY <1>1, <1>2 DEF Came
<1>4. n % 4 = quarter => Came(quarter, n + 1, gone) = Came(quarter, n, gone) \cup {n + 1}
  BY <1>1, <1>2 DEF Came
<1>5. Came(quarter, n + 1, gone \cup {n + 1}) = Came(quarter, n, gone)
  BY <1>1, <1>2 DEF Came
<1>6. \A l \in Came(quarter, n, gone) : l <= n + 1
  BY DEF Came
<1> QED
  BY <1>3, <1>4, <1>5, <1>6 DEF IsLast

\* What is missed later does not matter.
LEMMA LaterMiss ==
  ASSUME NEW n \in Nat, NEW m \in 0 .. n, NEW gone, NEW quarter, NEW x,
         IsLast(x, quarter, m, gone)
  PROVE  IsLast(x, quarter, m, gone \cup {n + 1})
<1>1. Came(quarter, m, gone \cup {n + 1}) = Came(quarter, m, gone)
  BY DEF Came
<1> QED
  BY <1>1 DEF IsLast

\* The inductive invariant: the same of the quarters as they are, whether or
\* not an RLP frame goes out now.
Quarters ==
  /\ frames \in Nat /\ missed \in SUBSET (1 .. frames)
  /\ rlp_frame_bits \in [0 .. 3 -> Nat]
  /\ rlp_frame \in [bits : [0 .. 3 -> Nat], end : 0 .. frames]
  /\ \A q \in 0 .. 3 : IsLast(rlp_frame_bits[q], q, frames, missed)
  /\ IsLast(rlp_frame.end, 3, frames, missed)
  /\ \A q \in 0 .. 3 : IsLast(rlp_frame.bits[q], q, rlp_frame.end, missed)

\* It holds at first.
LEMMA InitQuarters == RlpInit => Quarters
<1> SUFFICES ASSUME RlpInit PROVE Quarters
  OBVIOUS
<1>1. \A q : IsLast(0, q, 0, {})
  BY DEF IsLast, Came
<1> QED
  BY <1>1 DEF RlpInit, Quarters

\* Each V.110 frame keeps it, missed or not.
LEMMA NextQuarters == Quarters /\ [SubFrame]_rlpVars => Quarters'
<1> SUFFICES ASSUME Quarters, [SubFrame]_rlpVars PROVE Quarters'
  OBVIOUS
<1> DEFINE n == frames + 1
<1>0. frames \in Nat /\ n \in Nat /\ n > 0 /\ n - 1 = frames /\ 3 \in 0 .. 3
  BY DEF Quarters
<1>a. rlp_frame.end \in 0 .. frames /\ rlp_frame.end \in Nat
  BY DEF Quarters
<1>b. /\ frames % 4 = 3 => IsLast(n, 3, n, missed)
      /\ frames % 4 # 3 => IsLast(rlp_frame.end, 3, n, missed)
      /\ IsLast(rlp_frame.end, 3, n, missed \cup {n})
  <2>1. missed \in SUBSET (1 .. frames) /\ IsLast(rlp_frame.end, 3, frames, missed)
    BY DEF Quarters
  <2> QED
    BY <1>0, <1>a, <2>1, NextLast
<1>1. CASE frame_bits_cb
  <2> DEFINE fsi == frames % 4
  <2>1. rlp_fsi(EOf(n)) = fsi /\ fsi \in 0 .. 3
    BY <1>0, FsiOfFrame
  <2>2. /\ frames' = n /\ missed' = missed
        /\ rlp_frame_bits' = [rlp_frame_bits EXCEPT ![fsi] = n]
        /\ rlp_frame' = IF fsi = 3 THEN [bits |-> rlp_frame_bits', end |-> n] ELSE rlp_frame
    BY <1>1, <2>1 DEF frame_bits_cb
  <2>3. \A q \in 0 .. 3 : IsLast(rlp_frame_bits'[q], q, n, missed)
    <3> TAKE q \in 0 .. 3
    <3>1. rlp_frame_bits'[q] = IF q = fsi THEN n ELSE rlp_frame_bits[q]
      BY <2>1, <2>2 DEF Quarters
    <3> QED
      BY <1>0, <3>1, NextLast DEF Quarters
  <2>4. rlp_frame_bits' \in [0 .. 3 -> Nat]
    BY <1>0, <2>2 DEF Quarters
  <2>5. missed' \in SUBSET (1 .. frames')
    BY <1>0, <2>2 DEF Quarters
  <2>6. CASE fsi = 3
    <3>1. rlp_frame' = [bits |-> rlp_frame_bits', end |-> n]
      BY <2>2, <2>6
    <3>2. IsLast(n, 3, n, missed)
      BY <1>b, <2>6
    <3>3. rlp_frame' \in [bits : [0 .. 3 -> Nat], end : 0 .. frames']
      BY <1>0, <2>2, <2>4, <3>1
    <3> QED
      BY <1>0, <2>2, <2>3, <2>4, <2>5, <3>1, <3>2, <3>3 DEF Quarters
  <2>7. CASE fsi # 3
    <3>1. rlp_frame' = rlp_frame
      BY <2>2, <2>7
    <3>2. IsLast(rlp_frame.end, 3, n, missed)
      BY <1>b, <2>7
    <3>3. rlp_frame' \in [bits : [0 .. 3 -> Nat], end : 0 .. frames']
      BY <1>0, <2>2, <3>1 DEF Quarters
    <3> QED
      BY <1>0, <2>2, <2>3, <2>4, <2>5, <3>1, <3>2, <3>3 DEF Quarters
  <2> QED
    BY <2>6, <2>7
<1>2. CASE Miss
  <2>1. /\ frames' = n /\ missed' = missed \cup {n}
        /\ UNCHANGED <<rlp_frame_bits, rlp_frame>>
    BY <1>2 DEF Miss
  <2>2. \A q \in 0 .. 3 : IsLast(rlp_frame_bits[q], q, n, missed')
    BY <1>0, <2>1, NextLast DEF Quarters
  <2>4. IsLast(rlp_frame.end, 3, n, missed')
    BY <1>b, <2>1
  <2>5. \A q \in 0 .. 3 : IsLast(rlp_frame.bits[q], q, rlp_frame.end, missed')
    BY <1>0, <1>a, <2>1, LaterMiss DEF Quarters
  <2>6. missed' \in SUBSET (1 .. frames')
    BY <1>0, <2>1 DEF Quarters
  <2>7. rlp_frame' \in [bits : [0 .. 3 -> Nat], end : 0 .. frames']
    BY <1>0, <2>1 DEF Quarters
  <2> QED
    BY <1>0, <2>1, <2>2, <2>4, <2>5, <2>6, <2>7 DEF Quarters
<1>3. CASE UNCHANGED rlpVars
  BY <1>3 DEF rlpVars, Quarters
<1> QED
  BY <1>1, <1>2, <1>3 DEF SubFrame

\* Whichever V.110 frames the synchroniser misses, and however many: a
\* quarter of the RLP frame that goes out is old exactly if it was missed.
THEOREM OldExactlyIfMissed == RlpSpec => []OnlyMissedAreOld
<1>1. Quarters => OnlyMissedAreOld
  <2> SUFFICES ASSUME Quarters PROVE OnlyMissedAreOld
    OBVIOUS
  <2>1. rlp_frame.end \in Nat /\ frames \in Nat /\ \A q \in 0 .. 3 : rlp_frame.bits[q] \in Nat
    BY DEF Quarters
  <2>2. LastOf(3, frames) = rlp_frame.end
    BY <2>1, LastIs DEF Quarters
  <2>3. \A q \in 0 .. 3 : LastOf(q, rlp_frame.end) = rlp_frame.bits[q]
    BY <2>1, LastIs DEF Quarters
  <2> QED
    BY <2>2, <2>3 DEF OnlyMissedAreOld
<1> QED
  BY <1>1, InitQuarters, NextQuarters, PTL DEF RlpSpec

-----------------------------------------------------------------------------
(* FaxTest: sync words and blocks.                                         *)

Bits == {0, 1}

\* Word and training pattern have a block's length.
LEMMA Sizes ==
  /\ BlockSize \in Nat /\ BlockSize > 0
  /\ syncword_bits \in Seq(Bits) /\ Len(syncword_bits) = BlockSize
  /\ Training \in Seq(Bits) /\ Len(Training) = BlockSize
<1>1. BlockSize \in Nat /\ BlockSize > 0
  BY FaxAssumption DEF BlockSize
<1>2. Training \in Seq(Bits) /\ Len(Training) = BlockSize
  BY <1>1, FaxAssumption DEF Bits
<1> QED
  BY <1>1, <1>2, FaxAssumption DEF BlockSize, Bits

\* One block further is still a whole number of blocks.
LEMMA NextMultiple ==
  ASSUME NEW size \in Nat, size > 0, NEW a \in Nat, a % size = 0
  PROVE  (a + size) % size = 0
<1> DEFINE q == a \div size
           c == a + size
           p == c \div size
           r == c % size
<1>1. q \in Int /\ a = size * q
  OBVIOUS
<1>2. p \in Int /\ r \in 0 .. size - 1 /\ c = size * p + r
  OBVIOUS
<1>3. c = a + size
  OBVIOUS
<1> HIDE DEF q, c, p, r
<1>4. size * (q + 1 - p) = r
  BY <1>1, <1>2, <1>3
<1> DEFINE d == q + 1 - p
<1>5. d \in Int /\ size * d = r
  BY <1>1, <1>2, <1>4
<1> HIDE DEF d
<1>6. CASE d >= 1
  <2>1. size * d >= size
    BY <1>5, <1>6
  <2> QED
    BY <1>2, <1>5, <2>1
<1>7. CASE d = 0
  BY <1>5, <1>7, <1>2 DEF r, c
<1>8. CASE d <= -1
  <2>1. size * d <= - size
    BY <1>5, <1>8
  <2> QED
    BY <1>2, <1>5, <2>1
<1> QED
  BY <1>5, <1>6, <1>7, <1>8

LEMMA ZeroMultiple ==
  ASSUME NEW size \in Nat, size > 0
  PROVE  0 % size = 0
  OBVIOUS

\* The bits of bs behind the first from ones are those of s.
Run(bs, from, s) ==
  /\ from \in Nat /\ from + BlockSize <= Len(bs)
  /\ \A i \in 1 .. BlockSize : bs[from + i] = s[i]

\* Which is what the property says with SubSeq.
LEMMA RunIsSubSeq ==
  ASSUME NEW bs \in Seq(Bits), NEW s \in Seq(Bits), Len(s) = BlockSize, NEW from,
         Run(bs, from, s)
  PROVE  SubSeq(bs, from + 1, from + BlockSize) = s
<1> DEFINE first == from + 1
           last  == from + BlockSize
           t == SubSeq(bs, first, last)
<1>1. first \in Int /\ last \in Int /\ last - first + 1 = BlockSize /\ first <= last
      /\ first >= 1 /\ last <= Len(bs) /\ Len(bs) \in Nat /\ from \in Nat /\ BlockSize \in Nat
  BY Sizes DEF Run
<1>2. \A i \in first .. last : bs[i] \in Bits
  BY <1>1
<1>3. \A i \in 1 .. BlockSize : first + i - 1 = from + i
  BY <1>1
<1> HIDE DEF first, last
<1>4. t \in Seq(Bits) /\ Len(t) = BlockSize
      /\ \A i \in 1 .. BlockSize : t[i] = bs[first + i - 1]
  BY <1>1, <1>2, SubSeqProperties
<1>5. \A i \in 1 .. Len(t) : t[i] = s[i]
  BY <1>3, <1>4 DEF Run
<1>6. t = s
  BY <1>4, <1>5, SeqEqual
<1> QED
  BY <1>6 DEF first, last

\* What has come stays.
LEMMA AppendBit ==
  ASSUME NEW bs \in Seq(Bits), NEW b \in Bits
  PROVE  /\ Append(bs, b) \in Seq(Bits) /\ Len(Append(bs, b)) = Len(bs) + 1
         /\ \A i \in 1 .. Len(bs) : Append(bs, b)[i] = bs[i]
         /\ Append(bs, b)[Len(bs) + 1] = b
  BY AppendProperties

LEMMA RunStays ==
  ASSUME NEW bs \in Seq(Bits), NEW b \in Bits, NEW from, NEW s, Run(bs, from, s)
  PROVE  Run(Append(bs, b), from, s)
<1>1. \A i \in 1 .. BlockSize : from + i \in 1 .. Len(bs)
  BY Sizes DEF Run
<1> DEFINE cs == Append(bs, b)
<1>2. Len(cs) = Len(bs) + 1 /\ Len(bs) \in Nat /\ \A i \in 1 .. Len(bs) : cs[i] = bs[i]
  BY AppendBit
<1> HIDE DEF cs
<1>3. \A i \in 1 .. BlockSize : cs[from + i] = s[i]
  BY <1>1, <1>2 DEF Run
<1>4. from + BlockSize <= Len(cs)
  BY <1>2, Sizes DEF Run
<1> QED
  BY <1>3, <1>4 DEF Run, cs

Block == [bits : Seq(Bits), from : Nat, base : Nat]

FaxState ==
  [syncpos : Nat, frame_bits : Seq(Bits), in_sync : BOOLEAN, data_mode : BOOLEAN,
   pages : Nat, blocks : Seq(Block), at : Nat, synced : Nat]

\* Where the block begins that is being filled.
Start(s) == s.at - Len(s.frame_bits)

\* The bits found of the word are the last ones that came.
Matched(s, bs) ==
  /\ s.syncpos <= s.at /\ s.syncpos <= BlockSize
  /\ \A i \in 1 .. s.syncpos : bs[s.at - s.syncpos + i] = syncword_bits[i]

Filled(s, bs) ==
  /\ Len(s.frame_bits) <= BlockSize
  /\ s.synced <= Start(s) /\ (Start(s) - s.synced) % BlockSize = 0
  /\ \A i \in 1 .. Len(s.frame_bits) : bs[Start(s) + i] = s.frame_bits[i]

Synchronised(s, bs) ==
  IF s.in_sync THEN s.pages = 1 /\ Run(bs, s.synced - BlockSize, syncword_bits)
               ELSE s.pages = 0

Trained(bs, start) == \E k \in 0 .. start - BlockSize : Run(bs, k, Training)

GoodBlock(block, bs) ==
  /\ Len(block.bits) = BlockSize /\ Run(bs, block.from, block.bits)
  /\ (block.from - block.base) % BlockSize = 0 /\ Trained(bs, block.from)

Delivered(s, bs) ==
  /\ s.data_mode => Trained(bs, Start(s))
  /\ \A n \in DOMAIN s.blocks :
       /\ GoodBlock(s.blocks[n], bs) /\ s.blocks[n].from + BlockSize <= Start(s)
       /\ n > 1 => s.blocks[n].from >= s.blocks[n - 1].from + BlockSize

Aligned(s, bs) ==
  /\ s \in FaxState /\ bs \in Seq(Bits) /\ s.at = Len(bs)
  /\ Matched(s, bs) /\ Filled(s, bs) /\ Synchronised(s, bs) /\ Delivered(s, bs)

LEMMA GoodStays ==
  ASSUME NEW bs \in Seq(Bits), NEW b \in Bits, NEW block, GoodBlock(block, bs)
  PROVE  GoodBlock(block, Append(bs, b))
  BY RunStays DEF GoodBlock, Trained

\* A bit comes, before it is known whether it completes a word or a block.
LEMMA OneBit ==
  ASSUME NEW s, NEW bs, Aligned(s, bs), s.syncpos < BlockSize, Len(s.frame_bits) < BlockSize,
         NEW b \in Bits
  PROVE  Aligned([s EXCEPT !.syncpos = NextSyncpos(@, b), !.frame_bits = Append(@, b),
                           !.at = @ + 1], Append(bs, b))
<1> DEFINE t  == [s EXCEPT !.syncpos = NextSyncpos(@, b), !.frame_bits = Append(@, b), !.at = @ + 1]
           cs == Append(bs, b)
           pos == NextSyncpos(s.syncpos, b)
<1>1. /\ s \in FaxState /\ bs \in Seq(Bits) /\ s.at = Len(bs) /\ s.at \in Nat
      /\ s.frame_bits \in Seq(Bits) /\ Len(s.frame_bits) \in Nat /\ s.syncpos \in Nat
      /\ s.synced \in Nat
  BY DEF Aligned, FaxState
<1>2. /\ cs \in Seq(Bits) /\ Len(cs) = Len(bs) + 1 /\ \A i \in 1 .. Len(bs) : cs[i] = bs[i]
      /\ cs[Len(bs) + 1] = b
  BY <1>1, AppendBit
<1>3. pos \in Nat /\ pos <= s.syncpos + 1
  BY <1>1 DEF NextSyncpos
<1>4. /\ t \in FaxState /\ t.syncpos = pos /\ t.frame_bits = Append(s.frame_bits, b)
      /\ t.at = s.at + 1 /\ t.in_sync = s.in_sync /\ t.data_mode = s.data_mode
      /\ t.pages = s.pages /\ t.blocks = s.blocks /\ t.synced = s.synced
  <2>1. Append(s.frame_bits, b) \in Seq(Bits)
    BY <1>1, AppendBit
  <2> DEFINE more == Append(s.frame_bits, b)
             now  == s.at + 1
  <2>2. more \in Seq(Bits) /\ now \in Nat
    BY <1>1, <2>1
  <2>3. t = [s EXCEPT !.syncpos = pos, !.frame_bits = more, !.at = now]
    OBVIOUS
  <2> HIDE DEF more, now, pos, t
  <2>4. t \in FaxState
    BY <1>1, <1>3, <2>2, <2>3 DEF FaxState
  <2>5. /\ t.syncpos = pos /\ t.frame_bits = more
        /\ t.at = now /\ t.in_sync = s.in_sync /\ t.data_mode = s.data_mode
        /\ t.pages = s.pages /\ t.blocks = s.blocks /\ t.synced = s.synced
    BY <1>1, <2>3 DEF FaxState
  <2> QED
    BY <2>4, <2>5 DEF more, now
<1>5. /\ Len(t.frame_bits) = Len(s.frame_bits) + 1
      /\ \A i \in 1 .. Len(s.frame_bits) : t.frame_bits[i] = s.frame_bits[i]
      /\ t.frame_bits[Len(s.frame_bits) + 1] = b
  BY <1>1, <1>4, AppendBit
<1> HIDE DEF t, cs
<1>6. Start(t) = Start(s)
  BY <1>1, <1>4, <1>5 DEF Start
<1>7. Matched(t, cs)
  <2>1. pos <= t.at /\ pos <= BlockSize
    BY <1>1, <1>3, <1>4, Sizes DEF Aligned, Matched
  <2>2. ASSUME NEW i \in 1 .. pos PROVE cs[t.at - pos + i] = syncword_bits[i]
    <3>1. CASE syncword_bits[s.syncpos + 1] = b
      <4>1. pos = s.syncpos + 1
        BY <3>1 DEF NextSyncpos
      <4>2. t.at - pos + i = s.at - s.syncpos + i /\ s.at - s.syncpos + i >= 1
        <5>1. s.syncpos <= s.at /\ s.at \in Nat /\ s.syncpos \in Nat /\ t.at = s.at + 1
          BY <1>1, <1>4 DEF Aligned, Matched
        <5> QED
          BY <4>1, <5>1, <2>2
      <4>3. CASE i = pos
        <5>1. s.at - s.syncpos + i = Len(bs) + 1
          BY <1>1, <4>1, <4>3
        <5> QED
          BY <1>2, <3>1, <4>1, <4>2, <4>3, <5>1
      <4>4. CASE i # pos
        <5>1. i \in 1 .. s.syncpos /\ s.at - s.syncpos + i \in 1 .. Len(bs)
          BY <1>1, <4>1, <4>2, <4>4, <2>2
        <5> QED
          BY <1>2, <4>2, <5>1 DEF Aligned, Matched
      <4> QED
        BY <4>3, <4>4
    <3>2. CASE syncword_bits[s.syncpos + 1] # b
      <4>1. pos = 1 /\ syncword_bits[1] = b /\ i = 1
        BY <3>2, <2>2 DEF NextSyncpos
      <4>2. t.at - pos + i = Len(bs) + 1
        BY <1>1, <1>4, <4>1
      <4> QED
        BY <1>2, <4>1, <4>2
    <3> QED
      BY <3>1, <3>2
  <2> QED
    BY <1>4, <2>1, <2>2 DEF Matched
<1>8. Filled(t, cs)
  <2>1. Len(t.frame_bits) <= BlockSize
    BY <1>1, <1>5, Sizes
  <2>2. ASSUME NEW i \in 1 .. Len(t.frame_bits) PROVE cs[Start(t) + i] = t.frame_bits[i]
    <3>1. Start(s) + Len(s.frame_bits) = Len(bs) /\ Start(s) \in Nat
      BY <1>1 DEF Start, Aligned, Filled
    <3>2. CASE i = Len(s.frame_bits) + 1
      <4>1. Start(s) + i = Len(bs) + 1
        <5> DEFINE len == Len(s.frame_bits)
                   all == Len(bs)
        <5>1. Start(s) + len = all /\ i = len + 1 /\ Start(s) \in Nat /\ len \in Nat
          BY <1>1, <3>1, <3>2
        <5> HIDE DEF len, all
        <5> QED
          BY <5>1 DEF all
      <4> QED
        BY <1>2, <1>5, <1>6, <3>2, <4>1
    <3>3. CASE i # Len(s.frame_bits) + 1
      <4>1. i \in 1 .. Len(s.frame_bits) /\ Start(s) + i \in 1 .. Len(bs)
        BY <1>1, <1>5, <2>2, <3>1, <3>3
      <4> QED
        BY <1>2, <1>5, <1>6, <4>1 DEF Aligned, Filled
    <3> QED
      BY <3>2, <3>3
  <2> QED
    BY <1>4, <1>6, <2>1, <2>2 DEF Filled, Aligned
<1>9. Synchronised(t, cs)
  BY <1>1, <1>4, RunStays DEF Synchronised, Aligned, cs
<1>10. Delivered(t, cs)
  <2>1. ASSUME NEW start, Trained(bs, start) PROVE Trained(cs, start)
    BY <1>1, <2>1, RunStays DEF Trained, cs
  <2>2. ASSUME NEW block, GoodBlock(block, bs) PROVE GoodBlock(block, cs)
    BY <1>1, <2>2, GoodStays DEF cs
  <2> QED
    BY <1>4, <1>6, <2>1, <2>2 DEF Delivered, Aligned
<1>11. t.at = Len(cs)
  BY <1>1, <1>2, <1>4
<1> QED
  BY <1>2, <1>4, <1>7, <1>8, <1>9, <1>10, <1>11 DEF Aligned, t, cs

LEMMA TrainedLater ==
  ASSUME NEW bs, NEW start \in Int, NEW later \in Int, start <= later, Trained(bs, start)
  PROVE  Trained(bs, later)
<1>1. \A k \in 0 .. start - BlockSize : k \in 0 .. later - BlockSize
  BY Sizes
<1> QED
  BY <1>1 DEF Trained

\* Blocks stay good when the next one begins later.
LEMMA BlocksStay ==
  ASSUME NEW s \in FaxState, NEW t \in FaxState, NEW bs, Delivered(s, bs),
         Start(s) <= Start(t), t.blocks = s.blocks,
         t.data_mode => s.data_mode \/ Trained(bs, Start(t))
  PROVE  Delivered(t, bs)
<1>1. Start(s) \in Int /\ Start(t) \in Int
  BY DEF Start, FaxState
<1>2. ASSUME t.data_mode PROVE Trained(bs, Start(t))
  BY <1>1, <1>2, TrainedLater DEF Delivered
<1>3. ASSUME NEW n \in DOMAIN s.blocks PROVE s.blocks[n].from + BlockSize <= Start(t)
  <2>1. s.blocks[n].from \in Nat /\ s.blocks[n].from + BlockSize <= Start(s)
    <3>1. s.blocks \in Seq(Block)
      BY DEF FaxState
    <3>2. s.blocks[n] \in Block
      BY <1>3, <3>1
    <3> QED
      BY <1>3, <3>2 DEF Block, Delivered
  <2> QED
    BY <1>1, <2>1, Sizes
<1> QED
  BY <1>2, <1>3 DEF Delivered

\* The word, if it is complete, starts the grid of blocks anew ...
LEMMA SyncStep ==
  ASSUME NEW s, NEW bs, Aligned(s, bs)
  PROVE  Aligned(AtSync(s), bs) /\ AtSync(s).syncpos < BlockSize
<1>1. /\ s \in FaxState /\ bs \in Seq(Bits) /\ s.at = Len(bs) /\ s.at \in Nat
      /\ s.frame_bits \in Seq(Bits) /\ Len(s.frame_bits) \in Nat /\ s.syncpos \in Nat
      /\ s.synced \in Nat /\ s.syncpos <= BlockSize
  BY DEF Aligned, FaxState, Matched
<1>2. CASE s.syncpos < BlockSize
  BY <1>2 DEF AtSync
<1>3. CASE ~ (s.syncpos < BlockSize)
  <2> DEFINE count == IF s.in_sync THEN s.pages ELSE s.pages + 1
             t == AtSync(s)
  <2>1. s.syncpos = BlockSize
    BY <1>1, <1>3, Sizes
  <2>2. count = 1
    BY DEF Aligned, Synchronised
  <2>3. t = [s EXCEPT !.syncpos = 0, !.frame_bits = <<>>, !.synced = s.at,
                      !.in_sync = TRUE, !.pages = count]
    BY <1>3 DEF AtSync
  <2> HIDE DEF t, count
  <2>4. t \in FaxState
    <3> DEFINE none == <<>>
    <3>1. /\ none \in Seq(Bits) /\ count \in Nat /\ TRUE \in BOOLEAN
          /\ t = [s EXCEPT !.syncpos = 0, !.frame_bits = none, !.synced = s.at,
                           !.in_sync = TRUE, !.pages = count]
      BY <2>2, <2>3
    <3> HIDE DEF none
    <3> QED
      BY <1>1, <3>1 DEF FaxState
  <2>5. /\ t.syncpos = 0 /\ t.frame_bits = <<>> /\ t.synced = s.at /\ t.in_sync = TRUE
        /\ t.pages = 1 /\ t.at = s.at /\ t.blocks = s.blocks /\ t.data_mode = s.data_mode
    BY <1>1, <2>2, <2>3 DEF FaxState
  <2>6. Len(t.frame_bits) = 0 /\ Start(t) = s.at
    BY <1>1, <2>5 DEF Start
  <2>7. Matched(t, bs)
    BY <1>1, <2>5, Sizes DEF Matched
  <2>8. Filled(t, bs)
    <3>1. Start(t) - t.synced = 0 /\ t.synced <= Start(t)
      BY <1>1, <2>5, <2>6
    <3>2. (Start(t) - t.synced) % BlockSize = 0
      BY <3>1, ZeroMultiple, Sizes
    <3> QED
      BY <2>6, <3>1, <3>2, Sizes DEF Filled
  <2>9. Synchronised(t, bs)
    <3>1. s.at - BlockSize \in Nat /\ (s.at - BlockSize) + BlockSize <= Len(bs)
      BY <1>1, <2>1, Sizes DEF Aligned, Matched
    <3>2. \A i \in 1 .. BlockSize : bs[(s.at - BlockSize) + i] = syncword_bits[i]
      BY <2>1 DEF Aligned, Matched
    <3> QED
      BY <2>5, <3>1, <3>2 DEF Synchronised, Run
  <2>10. Delivered(t, bs)
    <3>1. Start(s) <= Start(t)
      BY <1>1, <2>6 DEF Start
    <3> QED
      BY <1>1, <2>4, <2>5, <3>1, BlocksStay DEF Aligned
  <2> QED
    BY <1>1, <2>4, <2>5, <2>7, <2>8, <2>9, <2>10, Sizes DEF Aligned, t
<1> QED
  BY <1>2, <1>3

\* ... and a complete block is the next one on it.
LEMMA BlockStep ==
  ASSUME NEW s, NEW bs, Aligned(s, bs), s.syncpos < BlockSize
  PROVE  /\ Aligned(AtBlock(s), bs) /\ AtBlock(s).syncpos < BlockSize
         /\ Len(AtBlock(s).frame_bits) < BlockSize
<1>1. /\ s \in FaxState /\ bs \in Seq(Bits) /\ s.at = Len(bs) /\ s.at \in Nat
      /\ s.frame_bits \in Seq(Bits) /\ Len(s.frame_bits) \in Nat /\ s.syncpos \in Nat
      /\ s.synced \in Nat /\ Len(s.frame_bits) <= BlockSize /\ s.blocks \in Seq(Block)
  BY DEF Aligned, FaxState, Filled
<1>2. CASE Len(s.frame_bits) < BlockSize
  BY <1>2 DEF AtBlock
<1>3. CASE ~ (Len(s.frame_bits) < BlockSize)
  <2> DEFINE start == Start(s)
             done  == [s EXCEPT !.frame_bits = <<>>]
             block == [bits |-> s.frame_bits, from |-> s.at - BlockSize, base |-> s.synced]
             more  == Append(s.blocks, block)
             t == AtBlock(s)
  <2>1. Len(s.frame_bits) = BlockSize
    BY <1>1, <1>3, Sizes
  <2>2. /\ start \in Nat /\ start + BlockSize = s.at /\ s.at - BlockSize = start
        /\ s.synced <= start /\ start - s.synced \in Nat /\ (start - s.synced) % BlockSize = 0
    BY <1>1, <2>1, Sizes DEF Start, Aligned, Filled
  <2>3. Run(bs, start, s.frame_bits)
    BY <1>1, <2>1, <2>2 DEF Run, Aligned, Filled
  <2> HIDE DEF start
  <2>4. ASSUME NEW u \in FaxState, u.frame_bits = <<>>, u.syncpos = s.syncpos, u.at = s.at,
               u.synced = s.synced, u.in_sync = s.in_sync, u.pages = s.pages, Delivered(u, bs),
               u = AtBlock(s)
        PROVE  /\ Aligned(AtBlock(s), bs) /\ AtBlock(s).syncpos < BlockSize
               /\ Len(AtBlock(s).frame_bits) < BlockSize
    <3>1. Len(u.frame_bits) = 0 /\ Start(u) = s.at
      BY <1>1, <2>4 DEF Start
    <3>2. Start(u) - u.synced = (start - s.synced) + BlockSize
      <4>1. Start(u) = start + BlockSize /\ u.synced = s.synced
        BY <2>2, <2>4, <3>1
      <4> QED
        BY <1>1, <2>2, <4>1, Sizes
    <3>3. ((start - s.synced) + BlockSize) % BlockSize = 0
      BY <2>2, Sizes, NextMultiple
    <3>4. u.synced <= Start(u)
      BY <1>1, <2>2, <2>4, <3>1, Sizes
    <3>5. Filled(u, bs)
      BY <3>1, <3>2, <3>3, <3>4, Sizes DEF Filled
    <3>6. Matched(u, bs) /\ Synchronised(u, bs)
      BY <2>4 DEF Aligned, Matched, Synchronised
    <3> QED
      BY <1>1, <2>4, <3>1, <3>5, <3>6, Sizes DEF Aligned
  <2>5. /\ done \in FaxState /\ done.frame_bits = <<>> /\ done.syncpos = s.syncpos
        /\ done.at = s.at /\ done.synced = s.synced /\ done.in_sync = s.in_sync
        /\ done.pages = s.pages /\ done.blocks = s.blocks /\ done.data_mode = s.data_mode
    <3> DEFINE none == <<>>
    <3>1. none \in Seq(Bits) /\ done = [s EXCEPT !.frame_bits = none]
      OBVIOUS
    <3> HIDE DEF none, done
    <3>2. done \in FaxState
      BY <1>1, <3>1 DEF FaxState
    <3>3. /\ done.frame_bits = none /\ done.syncpos = s.syncpos
          /\ done.at = s.at /\ done.synced = s.synced /\ done.in_sync = s.in_sync
          /\ done.pages = s.pages /\ done.blocks = s.blocks /\ done.data_mode = s.data_mode
      BY <1>1, <3>1 DEF FaxState
    <3> QED
      BY <3>2, <3>3 DEF none
  <2>6. Start(done) = s.at /\ Start(s) <= Start(done)
    <3>1. Len(done.frame_bits) = 0
      BY <2>5
    <3> QED
      BY <1>1, <2>5, <3>1 DEF Start
  <2>7. AtBlock(s) = IF s.frame_bits = Training THEN [done EXCEPT !.data_mode = TRUE]
                     ELSE IF ~ s.data_mode THEN done
                     ELSE [done EXCEPT !.blocks = more]
    BY <1>3, <2>5 DEF AtBlock
  <2> HIDE DEF done
  <2>8. CASE s.frame_bits = Training
    <3> DEFINE u == [done EXCEPT !.data_mode = TRUE]
    <3>1. /\ u \in FaxState /\ u.frame_bits = <<>> /\ u.syncpos = s.syncpos
          /\ u.at = s.at /\ u.synced = s.synced /\ u.in_sync = s.in_sync
          /\ u.pages = s.pages /\ u.blocks = s.blocks /\ u.data_mode = TRUE
      BY <2>5 DEF FaxState
    <3> HIDE DEF u
    <3>2. Start(u) = Start(done)
      BY <2>5, <3>1 DEF Start
    <3>3. Trained(bs, Start(u))
      <4>1. start \in 0 .. s.at - BlockSize
        BY <1>1, <2>2, Sizes
      <4> QED
        BY <2>3, <2>6, <2>8, <3>2, <4>1 DEF Trained
    <3>4. Delivered(u, bs)
      BY <1>1, <2>6, <3>1, <3>2, <3>3, BlocksStay DEF Aligned
    <3>5. u = AtBlock(s)
      BY <2>7, <2>8 DEF u
    <3> QED
      BY <2>4, <3>1, <3>4, <3>5
  <2>9. CASE s.frame_bits # Training /\ ~ s.data_mode
    <3>1. Delivered(done, bs)
      BY <1>1, <2>5, <2>6, BlocksStay DEF Aligned
    <3>2. done = AtBlock(s)
      BY <2>7, <2>9
    <3> QED
      BY <2>4, <2>5, <3>1, <3>2
  <2>10. CASE s.frame_bits # Training /\ s.data_mode
    <3> DEFINE u == [done EXCEPT !.blocks = more]
    <3>1. /\ block \in Block /\ block.bits = s.frame_bits
          /\ block.from = start /\ block.base = s.synced
      BY <1>1, <2>2 DEF Block
    <3> HIDE DEF block
    <3>2. /\ more \in Seq(Block) /\ Len(more) = Len(s.blocks) + 1
          /\ \A n \in 1 .. Len(s.blocks) : more[n] = s.blocks[n]
          /\ more[Len(s.blocks) + 1] = block
      BY <1>1, <3>1, AppendProperties
    <3> HIDE DEF more
    <3>3. /\ u \in FaxState /\ u.frame_bits = <<>> /\ u.syncpos = s.syncpos
          /\ u.at = s.at /\ u.synced = s.synced /\ u.in_sync = s.in_sync
          /\ u.pages = s.pages /\ u.blocks = more /\ u.data_mode = s.data_mode
      BY <2>5, <3>2 DEF FaxState
    <3>4. u = AtBlock(s)
      BY <2>7, <2>10
    <3> HIDE DEF u
    <3>5. Start(u) = s.at
      BY <2>5, <2>6, <3>3 DEF Start
    <3>6. Trained(bs, start) /\ Trained(bs, Start(u))
      <4>1. Trained(bs, start)
        BY <2>10 DEF start, Aligned, Delivered
      <4>2. start <= s.at /\ start \in Int /\ s.at \in Int
        BY <1>1, <2>2, Sizes
      <4> QED
        BY <3>5, <4>1, <4>2, TrainedLater
    <3>7. GoodBlock(block, bs)
      BY <2>1, <2>2, <2>3, <3>1, <3>6 DEF GoodBlock
    <3>8. ASSUME NEW n \in DOMAIN more
          PROVE  /\ GoodBlock(more[n], bs) /\ more[n].from + BlockSize <= Start(u)
                 /\ n > 1 => more[n].from >= more[n - 1].from + BlockSize
      <4> DEFINE last == Len(s.blocks)
      <4>1. n \in 1 .. last + 1 /\ last \in Nat /\ DOMAIN s.blocks = 1 .. last
        BY <1>1, <3>2, <3>8
      <4>2. \A m \in 1 .. last :
              /\ GoodBlock(s.blocks[m], bs) /\ s.blocks[m].from + BlockSize <= start
              /\ m > 1 => s.blocks[m].from >= s.blocks[m - 1].from + BlockSize
              /\ s.blocks[m].from \in Nat
        <5> TAKE m \in 1 .. last
        <5>1. s.blocks[m] \in Block
          BY <1>1, ElementOfSeq
        <5>2. s.blocks[m].from \in Nat
          BY <5>1 DEF Block
        <5> QED
          BY <4>1, <5>2 DEF start, Aligned, Delivered
      <4>3. \A m \in 1 .. last : more[m] = s.blocks[m]
        BY <3>2
      <4>4. more[last + 1] = block
        BY <3>2
      <4> HIDE DEF last
      <4>5. CASE n = last + 1
        <5>1. more[n].from + BlockSize <= Start(u)
          BY <1>1, <2>2, <3>1, <3>5, <4>4, <4>5
        <5>2. ASSUME n > 1 PROVE more[n].from >= more[n - 1].from + BlockSize
          <6>1. n - 1 \in 1 .. last
            BY <4>1, <4>5, <5>2
          <6> QED
            BY <3>1, <4>2, <4>3, <4>4, <4>5, <6>1
        <5> QED
          BY <3>7, <4>4, <4>5, <5>1, <5>2
      <4>6. CASE n # last + 1
        <5>1. n \in 1 .. last /\ (n > 1 => n - 1 \in 1 .. last)
          BY <4>1, <4>6
        <5>2. s.blocks[n].from + BlockSize <= Start(u)
          BY <2>2, <3>5, <4>2, <5>1, Sizes
        <5> QED
          BY <4>2, <4>3, <5>1, <5>2
      <4> QED
        BY <4>5, <4>6
    <3>9. Delivered(u, bs)
      BY <3>3, <3>6, <3>8 DEF Delivered
    <3> QED
      BY <2>4, <3>3, <3>4, <3>9
  <2> QED
    BY <2>8, <2>9, <2>10
<1> QED
  BY <1>2, <1>3

\* The inductive invariant.
FaxInv ==
  Aligned(fax, bits) /\ fax.syncpos < BlockSize /\ Len(fax.frame_bits) < BlockSize

LEMMA InitFax == FaxInit => FaxInv
<1> SUFFICES ASSUME FaxInit PROVE FaxInv
  OBVIOUS
<1>1. /\ fax \in FaxState /\ fax.syncpos = 0 /\ fax.frame_bits = <<>> /\ fax.in_sync = FALSE
      /\ fax.data_mode = FALSE /\ fax.pages = 0 /\ fax.blocks = <<>> /\ fax.at = 0
      /\ fax.synced = 0 /\ bits = <<>>
  BY DEF FaxInit, NewFax, FaxState
<1>2. /\ bits \in Seq(Bits) /\ Len(bits) = 0 /\ Len(fax.frame_bits) = 0
      /\ DOMAIN fax.blocks = {} /\ Start(fax) = 0
  <2>1. /\ bits \in Seq(Bits) /\ Len(bits) = 0 /\ Len(fax.frame_bits) = 0
        /\ DOMAIN fax.blocks = {}
    BY <1>1
  <2>2. Start(fax) = fax.at - Len(fax.frame_bits)
    BY DEF Start
  <2>3. Start(fax) = 0
    BY <1>1, <2>1, <2>2
  <2> QED
    BY <2>1, <2>3
<1>3. Matched(fax, bits)
  BY <1>1, Sizes DEF Matched
<1>4. Filled(fax, bits)
  <2>1. (Start(fax) - fax.synced) % BlockSize = 0
    BY <1>1, <1>2, Sizes, ZeroMultiple
  <2> QED
    BY <1>1, <1>2, <2>1, Sizes DEF Filled
<1>5. Synchronised(fax, bits) /\ Delivered(fax, bits)
  BY <1>1, <1>2 DEF Synchronised, Delivered
<1> QED
  BY <1>1, <1>2, <1>3, <1>4, <1>5, Sizes DEF FaxInv, Aligned

LEMMA NextFax == FaxInv /\ [FaxBit]_<<fax, bits>> => FaxInv'
<1> SUFFICES ASSUME FaxInv, [FaxBit]_<<fax, bits>> PROVE FaxInv'
  OBVIOUS
<1>1. CASE FaxBit
  <2>1. PICK b \in Bits : fax' = v110_bits_cb(fax, b) /\ bits' = Append(bits, b)
    BY <1>1 DEF FaxBit, Bits
  <2> DEFINE s == [fax EXCEPT !.syncpos = NextSyncpos(@, b), !.frame_bits = Append(@, b),
                              !.at = @ + 1]
  <2>2. Aligned(s, bits')
    BY <2>1, OneBit DEF FaxInv
  <2>3. fax' = AtBlock(AtSync(s))
    BY <2>1 DEF v110_bits_cb
  <2> HIDE DEF s
  <2>4. Aligned(AtSync(s), bits') /\ AtSync(s).syncpos < BlockSize
    BY <2>2, SyncStep
  <2>5. Aligned(fax', bits') /\ fax'.syncpos < BlockSize /\ Len(fax'.frame_bits) < BlockSize
    BY <2>3, <2>4, BlockStep
  <2> QED
    BY <2>5 DEF FaxInv, Aligned, Matched, Filled, Synchronised, Delivered, Start
<1>2. CASE UNCHANGED <<fax, bits>>
  BY <1>2 DEF FaxInv, Aligned, Matched, Filled, Synchronised, Delivered, Start
<1> QED
  BY <1>1, <1>2

\* For every synchronisation word and every training pattern of its length,
\* and whatever bits come.
THEOREM BlocksOnGrid == FaxSpec => []BlocksAligned
<1>1. FaxInv => BlocksAligned
  <2> SUFFICES ASSUME FaxInv PROVE BlocksAligned
    OBVIOUS
  <2>1. fax \in FaxState /\ bits \in Seq(Bits)
    BY DEF FaxInv, Aligned
  <2>2. ASSUME fax.in_sync PROVE fax.pages = 1 /\ Ends(fax.synced)
    <3>1. fax.pages = 1 /\ Run(bits, fax.synced - BlockSize, syncword_bits)
      BY <2>2 DEF FaxInv, Aligned, Synchronised
    <3>2. fax.synced \in Nat /\ fax.synced >= BlockSize
      BY <2>1, <3>1, Sizes DEF FaxState, Run
    <3>3. SubSeq(bits, (fax.synced - BlockSize) + 1, (fax.synced - BlockSize) + BlockSize) =
            syncword_bits
      BY <2>1, <3>1, Sizes, RunIsSubSeq
    <3>4. (fax.synced - BlockSize) + BlockSize = fax.synced
      BY <3>2, Sizes
    <3> QED
      BY <3>1, <3>2, <3>3, <3>4 DEF Ends
  <2>3. ASSUME NEW n \in DOMAIN fax.blocks
        PROVE  LET block == fax.blocks[n]
               IN  /\ block.bits = SubSeq(bits, block.from + 1, block.from + BlockSize)
                   /\ (block.from - block.base) % BlockSize = 0
                   /\ \E k \in 0 .. block.from - BlockSize :
                        SubSeq(bits, k + 1, k + BlockSize) = Training
                   /\ n > 1 => block.from >= fax.blocks[n - 1].from + BlockSize
    <3> DEFINE block == fax.blocks[n]
    <3>1. /\ GoodBlock(block, bits) /\ block \in Block
          /\ n > 1 => block.from >= fax.blocks[n - 1].from + BlockSize
      BY <2>1, <2>3 DEF FaxInv, Aligned, Delivered, FaxState
    <3> HIDE DEF block
    <3>2. /\ Len(block.bits) = BlockSize /\ Run(bits, block.from, block.bits)
          /\ block.bits \in Seq(Bits) /\ (block.from - block.base) % BlockSize = 0
      BY <3>1 DEF GoodBlock, Block
    <3>3. block.bits = SubSeq(bits, block.from + 1, block.from + BlockSize)
      BY <2>1, <3>2, RunIsSubSeq
    <3>4. PICK k \in 0 .. block.from - BlockSize : Run(bits, k, Training)
      BY <3>1 DEF GoodBlock, Trained
    <3>5. SubSeq(bits, k + 1, k + BlockSize) = Training
      BY <2>1, <3>4, Sizes, RunIsSubSeq
    <3> QED
      BY <3>1, <3>2, <3>3, <3>5 DEF block
  <2> QED
    BY <2>2, <2>3 DEF BlocksAligned
<1> QED
  BY <1>1, InitFax, NextFax, PTL DEF FaxSpec

-----------------------------------------------------------------------------
(* SoftUart.  Sequences whose elements are of no interest.                 *)

IsSeq(s) == \E S : s \in Seq(S)

LEMMA AppendSeq ==
  ASSUME NEW s, IsSeq(s), NEW x
  PROVE  /\ IsSeq(Append(s, x)) /\ Len(s) \in Nat /\ Len(Append(s, x)) = Len(s) + 1
         /\ Append(s, x) # <<>> /\ Append(s, x)[Len(s) + 1] = x
         /\ \A n \in 1 .. Len(s) : Append(s, x)[n] = s[n]
<1>1. PICK S : s \in Seq(S)
  BY DEF IsSeq
<1>2. s \in Seq(S \cup {x}) /\ x \in S \cup {x}
  BY <1>1, SeqMonotonic
<1> DEFINE T == S \cup {x}
<1> HIDE DEF T
<1>3. s \in Seq(T) /\ x \in T
  BY <1>2 DEF T
<1>4. Append(s, x) \in Seq(T) /\ Len(Append(s, x)) = Len(s) + 1
  BY <1>3, AppendProperties
<1>5. Len(s) \in Nat
  BY <1>3
<1>6. Append(s, x)[Len(s) + 1] = x /\ \A n \in 1 .. Len(s) : Append(s, x)[n] = s[n]
  BY <1>3, AppendProperties
<1>7. Append(s, x) # <<>>
  BY <1>4, <1>5
<1> QED
  BY <1>4, <1>5, <1>6, <1>7 DEF IsSeq

LEMMA EmptySeqs == IsSeq(<<>>) /\ Len(<<>>) = 0
  BY DEF IsSeq

-----------------------------------------------------------------------------
(* What holds of the UART.                                                 *)

\* The fields have their types; what the register holds is of no interest.
UartTypes(s) ==
  /\ s \in [cfg : {c \in Configs : Valid(c)}, framing_error : Nat, running : BOOLEAN,
            bit_count : 0 .. Width - 1, shift_reg : {s.shift_reg}, msg : {s.msg},
            size : Nat, flags : Nat, bad : BOOLEAN, stops : Nat, timer : BOOLEAN,
            aborted : BOOLEAN]
  /\ IsSeq(s.msg)

\* A message that is as large as configured has room for the next character,
\* even for two when the size is one; only a smaller one aborts.
Roomy(s) ==
  LET size == s.cfg.rx_buf_size
  IN  /\ size <= s.size /\ ~ s.aborted => Len(s.msg) < IF size < 2 THEN 2 ELSE size
      /\ s.aborted => size < 2 \/ s.size < size
      /\ s.size = 0 => s.msg = <<>>

LastBad(chars) == chars # <<>> => chars[Len(chars)].bad = TRUE

\* While characters have one stop bit, an error flag is seen together with
\* the character it belongs to, the last one of the message.
Flagged(s) ==
  /\ s.bit_count # 0 => s.cfg.num_stop_bits <= s.stops
  /\ s.stops <= 1 /\ s.bit_count # 0 => s.flags = 0
  /\ s.stops <= 1 /\ s.flags # 0 /\ ~ s.aborted => LastBad(s.msg)

UartInv(s) == UartTypes(s) /\ Roomy(s) /\ Flagged(s)

\* No call-back, or one as FlagsOfLast has it.
FineCall(c) == c.stops <= 1 /\ c.flags # 0 => LastBad(c.chars)

FineCalls(called) == called = <<>> \/ \E c : called = <<c>> /\ FineCall(c)

Fine(r) == UartInv(r.uart) /\ FineCalls(r.called)

LEMMA ConfigTypes ==
  ASSUME NEW c \in Configs
  PROVE  /\ c.num_data_bits \in Nat /\ c.num_stop_bits \in Nat /\ c.parity \in {0, 1}
         /\ c.rx_buf_size \in Nat /\ c.rx_timeout_ms \in Nat /\ Width \in Nat /\ Width # 0
  BY UartAssumption

LEMMA QuietFine ==
  ASSUME NEW s, UartInv(s)
  PROVE  Fine(Quietly(s))
  BY DEF Fine, FineCalls, Quietly

\* Whatever the message holds, it goes out, or there is nothing to send.
LEMMA FlushTypes ==
  ASSUME NEW s, UartTypes(s)
  PROVE  LET f == FlushedUart(s)
         IN  /\ UartTypes(f) /\ f.msg = <<>> /\ f.cfg = s.cfg /\ f.flags = s.flags
             /\ f.stops = s.stops /\ f.bit_count = s.bit_count /\ f.aborted = s.aborted
             /\ f.size = s.size \/ f.size = s.cfg.rx_buf_size
             /\ f.running = s.running /\ f.shift_reg = s.shift_reg
<1>1. s.cfg \in Configs /\ s.cfg.rx_buf_size \in Nat
  BY ConfigTypes DEF UartTypes
<1>2. CASE NothingToFlush(s)
  BY <1>2 DEF FlushedUart, NothingToFlush
<1>3. CASE ~ NothingToFlush(s)
  <2> DEFINE f == [s EXCEPT !.timer = FALSE, !.msg = <<>>, !.size = s.cfg.rx_buf_size]
  <2>1. FlushedUart(s) = f
    BY <1>3 DEF FlushedUart
  <2>2. /\ f.msg = <<>> /\ f.cfg = s.cfg /\ f.flags = s.flags /\ f.size = s.cfg.rx_buf_size
        /\ f.stops = s.stops /\ f.bit_count = s.bit_count /\ f.aborted = s.aborted
        /\ f.running = s.running /\ f.shift_reg = s.shift_reg
    BY DEF UartTypes
  <2>3. UartTypes(f)
    BY <1>1, EmptySeqs DEF UartTypes
  <2> QED
    BY <2>1, <2>2, <2>3
<1> QED
  BY <1>2, <1>3

LEMMA FlushFine ==
  ASSUME NEW s, UartTypes(s), s.aborted = FALSE,
         s.stops <= 1 /\ s.flags # 0 => LastBad(s.msg)
  PROVE  /\ UartTypes(FlushedUart(s)) /\ Roomy(FlushedUart(s))
         /\ FineCalls(CallBacks(s))
<1> DEFINE f == FlushedUart(s)
<1>1. /\ UartTypes(f) /\ f.msg = <<>> /\ f.cfg = s.cfg /\ f.aborted = FALSE
  BY FlushTypes
<1>2. s.cfg \in Configs /\ s.cfg.rx_buf_size \in Nat /\ s.cfg.rx_buf_size > 0
  BY ConfigTypes DEF UartTypes, Valid
<1> HIDE DEF f
<1>3. Roomy(f)
  BY <1>1, <1>2, EmptySeqs DEF Roomy
<1>4. FineCalls(CallBacks(s))
  BY DEF FineCalls, FineCall, CallBacks
<1> QED
  BY <1>1, <1>3, <1>4 DEF f

\* suart_rx_ch, for a character whose stop bit has just set the flags, or
\* not.  Afterwards the last bit of the character has been seen.
LEMMA RxChFine ==
  ASSUME NEW s, NEW ch, UartTypes(s), Roomy(s), s.aborted = FALSE,
         s.stops <= 1 /\ s.flags # 0 => s.bad = TRUE
  PROVE  LET r == suart_rx_ch(s, ch)
         IN  Fine([r EXCEPT !.uart.bit_count = 0])
<1> DEFINE put == [s EXCEPT !.msg = Append(@, [ch |-> ch, bad |-> s.bad])]
           r   == suart_rx_ch(s, ch)
           size == s.cfg.rx_buf_size
<1>1. /\ s.cfg \in Configs /\ size \in Nat /\ size > 0 /\ s.size \in Nat
      /\ IsSeq(s.msg) /\ Len(s.msg) \in Nat /\ s.stops \in Nat /\ 0 \in 0 .. Width - 1
  <2>1. s.cfg \in Configs /\ Valid(s.cfg) /\ s.size \in Nat /\ IsSeq(s.msg) /\ s.stops \in Nat
    BY DEF UartTypes
  <2>2. Len(s.msg) \in Nat
    BY <2>1, AppendSeq
  <2> QED
    BY <2>1, <2>2, ConfigTypes DEF Valid
<1>2. /\ put.msg = Append(s.msg, [ch |-> ch, bad |-> s.bad])
      /\ put.cfg = s.cfg /\ put.size = s.size /\ put.flags = s.flags
      /\ put.stops = s.stops /\ put.aborted = FALSE
  BY DEF UartTypes
<1>3. /\ IsSeq(put.msg) /\ Len(put.msg) = Len(s.msg) + 1 /\ put.msg # <<>>
      /\ put.msg[Len(put.msg)].bad = s.bad
  BY <1>1, <1>2, AppendSeq
<1>4. UartTypes(put)
  BY <1>3 DEF UartTypes
<1>5. put.stops <= 1 /\ put.flags # 0 => LastBad(put.msg)
  BY <1>2, <1>3 DEF LastBad
<1> HIDE DEF put, size
<1>6. CASE Len(s.msg) >= s.size
  <2> DEFINE u == [s EXCEPT !.aborted = TRUE]
             v == [u EXCEPT !.bit_count = 0]
  <2>1. r = Quietly(u)
    BY <1>1, <1>6 DEF suart_rx_ch
  <2>2. [r EXCEPT !.uart.bit_count = 0] = Quietly(v)
    BY <2>1 DEF Quietly
  <2>3. /\ v.cfg = s.cfg /\ v.size = s.size /\ v.msg = s.msg /\ v.aborted = TRUE
        /\ v.bit_count = 0
    BY DEF UartTypes
  <2>4. UartTypes(v)
    BY <1>1 DEF UartTypes
  <2>5. size < 2 \/ s.size < size
    BY <1>1, <1>6 DEF Roomy, size
  <2>6. Roomy(v)
    BY <2>3, <2>5 DEF Roomy, size
  <2>7. Flagged(v)
    BY <2>3 DEF Flagged
  <2> HIDE DEF v
  <2> QED
    BY <2>2, <2>4, <2>6, <2>7, QuietFine DEF UartInv
<1>7. CASE Len(s.msg) < s.size /\ s.msg = <<>>
  <2> DEFINE v == [put EXCEPT !.timer = TRUE, !.bit_count = 0]
  <2>1. r = Quietly([put EXCEPT !.timer = TRUE])
    BY <1>1, <1>7 DEF suart_rx_ch, put
  <2>2. [r EXCEPT !.uart.bit_count = 0] = Quietly(v)
    BY <2>1 DEF Quietly
  <2>3. /\ v.cfg = s.cfg /\ v.size = s.size /\ v.msg = put.msg /\ v.aborted = FALSE
        /\ v.bit_count = 0 /\ v.stops = put.stops /\ v.flags = put.flags
    BY <1>2, <1>4 DEF UartTypes
  <2>4. UartTypes(v)
    BY <1>1, <1>4 DEF UartTypes
  <2>5. Len(put.msg) = 1 /\ s.size # 0
    BY <1>1, <1>3, <1>7, EmptySeqs
  <2> HIDE DEF v
  <2>6. Roomy(v)
    BY <1>1, <2>3, <2>5 DEF Roomy, size
  <2>7. Flagged(v)
    BY <1>5, <2>3 DEF Flagged
  <2> QED
    BY <2>2, <2>4, <2>6, <2>7, QuietFine DEF UartInv
<1>8. CASE Len(s.msg) < s.size /\ s.msg # <<>>
  <2>1. r = IF Len(put.msg) >= s.cfg.rx_buf_size \/ s.flags # 0
            THEN suart_flush_rx(put) ELSE Quietly(put)
    BY <1>1, <1>8 DEF suart_rx_ch, put
  <2>2. CASE Len(put.msg) >= s.cfg.rx_buf_size \/ s.flags # 0
    <3> DEFINE f == FlushedUart(put)
               v == [f EXCEPT !.bit_count = 0]
    <3>1. [r EXCEPT !.uart.bit_count = 0] = [uart |-> v, called |-> CallBacks(put)]
      BY <2>1, <2>2 DEF suart_flush_rx
    <3>2. UartTypes(f) /\ Roomy(f) /\ FineCalls(CallBacks(put))
      BY <1>2, <1>4, <1>5, FlushFine
    <3>3. f.msg = <<>> /\ f.aborted = FALSE
      BY <1>2, <1>4, FlushTypes
    <3> HIDE DEF f
    <3>4. /\ v.cfg = f.cfg /\ v.size = f.size /\ v.msg = <<>> /\ v.aborted = FALSE
          /\ v.bit_count = 0
      BY <3>2, <3>3 DEF UartTypes
    <3>5. UartTypes(v)
      BY <1>1, <3>2 DEF UartTypes
    <3>6. Roomy(v) /\ Flagged(v)
      BY <3>2, <3>3, <3>4 DEF Roomy, Flagged, LastBad
    <3> HIDE DEF v
    <3> QED
      BY <3>1, <3>2, <3>5, <3>6 DEF Fine, UartInv
  <2>3. CASE ~ (Len(put.msg) >= s.cfg.rx_buf_size \/ s.flags # 0)
    <3> DEFINE v == [put EXCEPT !.bit_count = 0]
    <3>1. [r EXCEPT !.uart.bit_count = 0] = Quietly(v)
      BY <2>1, <2>3 DEF Quietly
    <3>2. /\ v.cfg = s.cfg /\ v.size = s.size /\ v.msg = put.msg /\ v.aborted = FALSE
          /\ v.bit_count = 0 /\ v.stops = put.stops /\ v.flags = put.flags
      BY <1>2, <1>4 DEF UartTypes
    <3>3. UartTypes(v)
      BY <1>1, <1>4 DEF UartTypes
    <3>4. Len(put.msg) < size /\ s.size # 0
      BY <1>1, <1>3, <1>8, <2>3 DEF size
    <3>5. Roomy(v)
      BY <1>1, <1>3, <3>2, <3>4 DEF Roomy, size
    <3>6. Flagged(v)
      BY <1>5, <3>2 DEF Flagged
    <3> HIDE DEF v
    <3> QED
      BY <3>1, <3>3, <3>5, <3>6, QuietFine DEF UartInv
  <2> QED
    BY <2>2, <2>3
<1> QED
  BY <1>1, <1>6, <1>7, <1>8

\* Wait for a start bit.
LEMMA StartBitFine ==
  ASSUME NEW s, NEW bit, UartInv(s), s.bit_count = 0
  PROVE  Fine(Quietly(StartBit(s, bit)))
<1>1. CASE bit = 1
  BY <1>1, QuietFine DEF StartBit
<1>2. CASE bit # 1
  <2> DEFINE v == StartBit(s, bit)
  <2>1. v = [s EXCEPT !.flags = 0, !.shift_reg = 0, !.bit_count = 1, !.bad = FALSE,
                      !.stops = s.cfg.num_stop_bits]
    BY <1>2 DEF StartBit
  <2>2. /\ s.cfg \in Configs /\ Valid(s.cfg) /\ s.cfg.num_stop_bits \in Nat
        /\ 1 \in 0 .. Width - 1
    <3>1. s.cfg \in Configs /\ Valid(s.cfg)
      BY DEF UartInv, UartTypes
    <3> QED
      BY <3>1, UartAssumption, ConfigTypes
  <2>3. /\ v.cfg = s.cfg /\ v.size = s.size /\ v.msg = s.msg /\ v.aborted = s.aborted
        /\ v.bit_count = 1 /\ v.flags = 0 /\ v.stops = s.cfg.num_stop_bits
    BY <2>1 DEF UartInv, UartTypes
  <2>4. UartTypes(v)
    <3> DEFINE stops == s.cfg.num_stop_bits
    <3>1. v = [s EXCEPT !.flags = 0, !.shift_reg = 0, !.bit_count = 1, !.bad = FALSE,
                        !.stops = stops]
      BY <2>1
    <3>2. stops \in Nat
      BY <2>2
    <3> HIDE DEF v, stops
    <3> QED
      BY <2>2, <3>1, <3>2 DEF UartInv, UartTypes
  <2> HIDE DEF v
  <2>5. Roomy(v) /\ Flagged(v)
    BY <2>2, <2>3 DEF UartInv, Roomy, Flagged
  <2> QED
    BY <2>4, <2>5, QuietFine DEF UartInv, v
<1> QED
  BY <1>1, <1>2

\* A bit that is only counted, after it was shifted in or not.
LEMMA CountFine ==
  ASSUME NEW s, NEW n \in 0 .. Width - 1, UartInv(s), s.bit_count # 0,
         NEW v, v = [s EXCEPT !.bit_count = n] \/ \E x : v = [s EXCEPT !.bit_count = n, !.shift_reg = x]
  PROVE  UartInv(v)
<1>1. /\ v.cfg = s.cfg /\ v.size = s.size /\ v.msg = s.msg /\ v.aborted = s.aborted
      /\ v.bit_count = n /\ v.flags = s.flags /\ v.stops = s.stops
  BY DEF UartInv, UartTypes
<1>2. UartTypes(v)
  BY DEF UartInv, UartTypes
<1>3. Roomy(v) /\ Flagged(v)
  BY <1>1 DEF UartInv, Roomy, Flagged
<1> QED
  BY <1>2, <1>3 DEF UartInv

\* A stop bit.  With one of them it is the last bit of the character.
LEMMA StopBitFine ==
  ASSUME NEW s, NEW bit, NEW n \in 0 .. Width - 1, UartInv(s), s.bit_count # 0,
         s.aborted = FALSE,
         n > 1 + s.cfg.num_data_bits + s.cfg.parity, n <= LastBit(s.cfg)
  PROVE  Fine(StopBit([s EXCEPT !.bit_count = n], bit))
<1> DEFINE t == [s EXCEPT !.bit_count = n]
           flagged == IF bit = 1 THEN t ELSE [t EXCEPT !.flags = t.framing_error, !.bad = TRUE]
<1>1. /\ UartTypes(s) /\ s.cfg \in Configs /\ s.cfg.num_stop_bits \in Nat /\ s.stops \in Nat
      /\ s.cfg.num_data_bits \in Nat /\ s.cfg.parity \in Nat
      /\ s.cfg.num_stop_bits <= s.stops /\ (s.stops <= 1 => s.flags = 0)
  <2>1. UartTypes(s) /\ s.cfg \in Configs /\ s.stops \in Nat
    BY DEF UartInv, UartTypes
  <2> QED
    BY <2>1, ConfigTypes DEF UartInv, Flagged
<1>2. UartTypes(t) /\ t.bit_count = n /\ t.cfg = s.cfg /\ t.framing_error \in Nat
      /\ t.flags = s.flags /\ t.stops = s.stops /\ t.size = s.size /\ t.msg = s.msg
      /\ t.aborted = FALSE
  BY <1>1 DEF UartTypes
<1> HIDE DEF t
<1>3. /\ UartTypes(flagged) /\ flagged.bit_count = n /\ flagged.cfg = s.cfg
      /\ flagged.stops = s.stops /\ flagged.size = s.size /\ flagged.msg = s.msg
      /\ flagged.aborted = FALSE
      /\ (s.stops <= 1 /\ flagged.flags # 0 => flagged.bad = TRUE)
  <2>1. CASE bit = 1
    BY <1>1, <1>2, <2>1
  <2>2. CASE bit # 1
    BY <1>1, <1>2, <2>2 DEF UartTypes
  <2> QED
    BY <2>1, <2>2
<1>4. Roomy(flagged)
  BY <1>3 DEF UartInv, Roomy
<1>5. StopBit(t, bit) =
        IF n = LastBit(s.cfg) THEN [suart_rx_ch(flagged, t.shift_reg) EXCEPT !.uart.bit_count = 0]
        ELSE Quietly(flagged)
  BY <1>2 DEF StopBit
<1> HIDE DEF flagged
<1>6. CASE n = LastBit(s.cfg)
  <2>1. flagged.stops <= 1 /\ flagged.flags # 0 => flagged.bad = TRUE
    BY <1>3
  <2>2. Fine([suart_rx_ch(flagged, t.shift_reg) EXCEPT !.uart.bit_count = 0])
    BY <1>3, <1>4, <2>1, RxChFine
  <2> QED
    BY <1>5, <1>6, <2>2 DEF t
<1>7. CASE n # LastBit(s.cfg)
  <2>1. s.stops > 1
    BY <1>1, <1>7 DEF LastBit
  <2>2. Flagged(flagged)
    BY <1>1, <1>3, <2>1 DEF Flagged
  <2> QED
    BY <1>3, <1>4, <1>5, <1>7, <2>2, QuietFine DEF UartInv, t
<1> QED
  BY <1>6, <1>7

LEMMA RxBitFine ==
  ASSUME NEW s, NEW bit, UartInv(s), s.aborted = FALSE
  PROVE  Fine(osmo_uart_rx_bit(s, bit))
<1> DEFINE n == (s.bit_count + 1) % Width
           t == [s EXCEPT !.bit_count = n]
           data == s.cfg.num_data_bits
           parity == s.cfg.parity
<1>1. /\ s.cfg \in Configs /\ data \in Nat /\ parity \in {0, 1} /\ s.bit_count \in Nat
      /\ s.cfg.num_stop_bits \in Nat /\ Width \in Nat /\ Width # 0 /\ s.running \in BOOLEAN
  <2>1. s.cfg \in Configs /\ s.bit_count \in 0 .. Width - 1 /\ s.running \in BOOLEAN
    BY DEF UartInv, UartTypes
  <2> QED
    BY <2>1, ConfigTypes
<1>2. n \in 0 .. Width - 1
  BY <1>1
<1> HIDE DEF n
<1>3. CASE ~ s.running
  BY <1>1, <1>3, QuietFine DEF osmo_uart_rx_bit
<1>4. CASE s.running /\ s.bit_count = 0
  BY <1>4, StartBitFine DEF osmo_uart_rx_bit
<1>5. CASE s.running /\ s.bit_count # 0
  <2>0. osmo_uart_rx_bit(s, bit) =
             CASE n <= 1 + data -> Quietly(DataBit(t, bit))
               [] parity = 1 /\ n = 2 + data -> Quietly(t)
               [] n > 1 + data + parity /\ n <= LastBit(s.cfg) -> StopBit(t, bit)
               [] n > LastBit(s.cfg) -> Quietly(t)
    BY <1>5 DEF osmo_uart_rx_bit, n
  <2>1. LastBit(s.cfg) \in Nat /\ LastBit(s.cfg) >= 1 + data + parity
    BY <1>1 DEF LastBit
  <2>2. UartInv(t)
    BY <1>2, <1>5, CountFine
  <2> HIDE DEF t, data, parity
  <2>3. CASE n <= 1 + data
    <3> DEFINE v == DataBit(t, bit)
    <3>1. \E x : v = [s EXCEPT !.bit_count = n, !.shift_reg = x]
      BY DEF DataBit, t
    <3> HIDE DEF v
    <3>2. UartInv(v)
      BY <1>2, <1>5, <3>1, CountFine
    <3>3. osmo_uart_rx_bit(s, bit) = Quietly(v)
      BY <1>1, <1>2, <2>0, <2>1, <2>3 DEF v
    <3> QED
      BY <3>2, <3>3, QuietFine
  <2>4. CASE parity = 1 /\ n = 2 + data
    <3>1. osmo_uart_rx_bit(s, bit) = Quietly(t)
      BY <1>1, <1>2, <2>0, <2>1, <2>4 DEF data
    <3> QED
      BY <2>2, <3>1, QuietFine
  <2>5. CASE n > 1 + data + parity /\ n <= LastBit(s.cfg)
    <3>1. osmo_uart_rx_bit(s, bit) = StopBit(t, bit)
      BY <1>1, <1>2, <2>0, <2>1, <2>5 DEF data, parity
    <3> QED
      BY <1>2, <1>5, <2>5, <3>1, StopBitFine DEF t, data, parity
  <2>6. CASE n > LastBit(s.cfg)
    <3>1. osmo_uart_rx_bit(s, bit) = Quietly(t)
      BY <1>1, <1>2, <2>0, <2>1, <2>6 DEF data, parity
    <3> QED
      BY <2>2, <3>1, QuietFine
  <2> QED
    BY <1>1, <1>2, <2>1, <2>3, <2>4, <2>5, <2>6 DEF data, parity
<1> QED
  BY <1>1, <1>3, <1>4, <1>5

LEMMA FlushInv ==
  ASSUME NEW s, UartInv(s), s.aborted = FALSE
  PROVE  Fine(suart_flush_rx(s))
<1> DEFINE f == FlushedUart(s)
<1>1. UartTypes(f) /\ Roomy(f) /\ FineCalls(CallBacks(s))
  BY FlushFine DEF UartInv, Flagged
<1>2. /\ f.msg = <<>> /\ f.cfg = s.cfg /\ f.flags = s.flags
      /\ f.stops = s.stops /\ f.bit_count = s.bit_count
  BY FlushTypes DEF UartInv
<1> HIDE DEF f
<1>3. Flagged(f)
  BY <1>2 DEF UartInv, Flagged, LastBad
<1> QED
  BY <1>1, <1>3 DEF suart_flush_rx, Fine, UartInv, f

\* A new configuration in the middle of a character counts for it.
LEMMA ConfigureFine ==
  ASSUME NEW s, NEW cfg \in Configs, UartInv(s), s.aborted = FALSE
  PROVE  Fine(osmo_soft_uart_configure(s, cfg))
<1> DEFINE shrinks == \/ s.cfg.rx_buf_size > cfg.rx_buf_size
                      \/ s.cfg.rx_timeout_ms > cfg.rx_timeout_ms
           r    == IF shrinks THEN suart_flush_rx(s) ELSE Quietly(s)
           u    == r.uart
           more == s.bit_count # 0 /\ s.stops < cfg.num_stop_bits
           stops == IF more THEN cfg.num_stop_bits ELSE u.stops
           v    == [u EXCEPT !.cfg = cfg, !.stops = stops]
<1>1. CASE ~ Valid(cfg)
  BY <1>1, QuietFine DEF osmo_soft_uart_configure
<1>2. CASE Valid(cfg)
  <2>1. /\ s.cfg.rx_buf_size \in Nat /\ s.cfg.rx_timeout_ms \in Nat /\ s.cfg.rx_buf_size > 0
        /\ cfg.rx_buf_size \in Nat /\ cfg.num_stop_bits \in Nat /\ cfg.rx_buf_size > 0
        /\ s.stops \in Nat /\ s.bit_count \in Nat /\ s.size \in Nat /\ IsSeq(s.msg)
        /\ s.cfg.num_stop_bits \in Nat
    <3>1. s.cfg \in Configs /\ Valid(s.cfg) /\ s.stops \in Nat /\ s.bit_count \in 0 .. Width - 1
          /\ s.size \in Nat /\ IsSeq(s.msg)
      BY DEF UartInv, UartTypes
    <3> QED
      BY <1>2, <3>1, ConfigTypes DEF Valid
  <2>2. Fine(r)
    BY FlushInv, QuietFine
  <2>3. /\ u.stops = s.stops /\ u.bit_count = s.bit_count /\ u.flags = s.flags
        /\ u.aborted = FALSE /\ u.cfg = s.cfg
        /\ (u.msg = <<>> \/ (~ shrinks /\ u = s))
    BY FlushTypes DEF UartInv, suart_flush_rx, Quietly
  <2>4. osmo_soft_uart_configure(s, cfg) = [r EXCEPT !.uart.cfg = cfg,
                  !.uart.stops = IF more THEN cfg.num_stop_bits ELSE @]
    BY <1>2 DEF osmo_soft_uart_configure
  <2>5. r = [uart |-> u, called |-> r.called]
    BY DEF suart_flush_rx, Quietly
  <2>6. UartInv(u) /\ FineCalls(r.called)
    BY <2>2 DEF Fine
  <2>7. osmo_soft_uart_configure(s, cfg) = [uart |-> v, called |-> r.called]
    <3> HIDE DEF more
    <3> QED
      BY <2>4, <2>5, <2>6 DEF UartInv, UartTypes
  <2> HIDE DEF r, u
  <2>8. stops \in Nat
    BY <2>1, <2>3
  <2> HIDE DEF stops
  <2>9. /\ v.cfg = cfg /\ v.stops = stops /\ v.size = u.size /\ v.msg = u.msg
        /\ v.aborted = FALSE /\ v.bit_count = s.bit_count /\ v.flags = s.flags
    BY <2>3, <2>6 DEF UartInv, UartTypes
  <2>10. UartTypes(v)
    BY <1>2, <2>6, <2>8 DEF UartInv, UartTypes
  <2> HIDE DEF v
  <2>11. Roomy(v)
    <3>1. CASE u.msg = <<>>
      BY <2>1, <2>9, <3>1, EmptySeqs DEF Roomy
    <3>2. CASE ~ shrinks /\ u = s
      <4>1. s.cfg.rx_buf_size <= cfg.rx_buf_size
        BY <2>1, <3>2
      <4>2. Len(s.msg) \in Nat
        BY <2>1, AppendSeq
      <4>3. cfg.rx_buf_size <= s.size => Len(s.msg) < IF cfg.rx_buf_size < 2 THEN 2 ELSE cfg.rx_buf_size
        BY <2>1, <4>1, <4>2 DEF UartInv, Roomy
      <4>4. s.size = 0 => s.msg = <<>>
        BY DEF UartInv, Roomy
      <4> QED
        BY <2>9, <3>2, <4>3, <4>4 DEF Roomy
    <3> QED
      BY <2>3, <3>1, <3>2
  <2>12. Flagged(v)
    <3>1. s.bit_count # 0 => cfg.num_stop_bits <= stops /\ s.stops <= stops
      BY <2>1, <2>3 DEF stops
    <3>2. s.bit_count = 0 => s.stops = stops
      BY <2>3 DEF stops
    <3>3. stops <= 1 => s.stops <= 1
      BY <2>1, <2>8, <3>1, <3>2
    <3>4. s.stops <= 1 /\ s.flags # 0 => LastBad(u.msg)
      BY <2>3 DEF UartInv, Flagged, LastBad
    <3> QED
      BY <2>9, <3>1, <3>3, <3>4 DEF UartInv, Flagged
  <2> QED
    BY <2>6, <2>7, <2>10, <2>11, <2>12 DEF Fine, UartInv
<1> QED
  BY <1>1, <1>2

LEMMA EnableFine ==
  ASSUME NEW s, NEW rx \in BOOLEAN, UartInv(s), s.aborted = FALSE
  PROVE  Fine(osmo_soft_uart_enable(s, rx))
<1>0. s.running \in BOOLEAN
  BY DEF UartInv, UartTypes
<1>1. CASE ~ rx /\ s.running
  <2> DEFINE off == suart_flush_rx(s)
             u   == off.uart
             v   == [u EXCEPT !.running = FALSE]
  <2>1. Fine(off)
    BY FlushInv
  <2>2. osmo_soft_uart_enable(s, rx) = [uart |-> v, called |-> off.called]
    BY <1>1 DEF osmo_soft_uart_enable, suart_flush_rx
  <2> HIDE DEF off
  <2>3. UartTypes(u) /\ Roomy(u) /\ Flagged(u) /\ FineCalls(off.called)
    BY <2>1 DEF Fine, UartInv
  <2> HIDE DEF u
  <2>4. UartTypes(v)
    BY <2>3 DEF UartTypes
  <2>5. Roomy(v) /\ Flagged(v)
    BY <2>3 DEF UartTypes, Roomy, Flagged
  <2> QED
    BY <2>2, <2>3, <2>4, <2>5 DEF Fine, UartInv
<1>2. CASE rx /\ ~ s.running
  <2> DEFINE size == IF s.size = 0 THEN s.cfg.rx_buf_size ELSE s.size
             v    == [s EXCEPT !.running = TRUE, !.size = size]
  <2>1. osmo_soft_uart_enable(s, rx) = Quietly(v)
    BY <1>2 DEF osmo_soft_uart_enable
  <2>2. s.size \in Nat /\ s.cfg.rx_buf_size \in Nat /\ s.cfg.rx_buf_size > 0
    <3>1. s.cfg \in Configs /\ Valid(s.cfg) /\ s.size \in Nat
      BY DEF UartInv, UartTypes
    <3> QED
      BY <3>1, ConfigTypes DEF Valid
  <2>3. size \in Nat /\ (size = s.size \/ (s.msg = <<>> /\ size # 0))
    BY <2>2 DEF UartInv, Roomy
  <2> HIDE DEF size
  <2>4. /\ v.cfg = s.cfg /\ v.size = size /\ v.msg = s.msg /\ v.aborted = FALSE
        /\ v.bit_count = s.bit_count /\ v.flags = s.flags /\ v.stops = s.stops
    BY DEF UartInv, UartTypes
  <2>5. UartTypes(v)
    BY <2>3 DEF UartInv, UartTypes
  <2> HIDE DEF v
  <2>6. Roomy(v)
    BY <2>2, <2>3, <2>4, EmptySeqs DEF UartInv, Roomy
  <2>7. Flagged(v)
    BY <2>4 DEF UartInv, Flagged
  <2> QED
    BY <2>1, <2>5, <2>6, <2>7, QuietFine DEF UartInv
<1>3. CASE rx = s.running
  BY <1>3, QuietFine DEF osmo_soft_uart_enable
<1> QED
  BY <1>0, <1>1, <1>2, <1>3

-----------------------------------------------------------------------------
(* The specification.                                                      *)

\* The inductive invariant.
IInv ==
  /\ UartInv(sua)
  /\ IsSeq(out) /\ \A n \in 1 .. Len(out) : FineCall(out[n])

LEMMA InitIInv == UartInit => IInv
<1> SUFFICES ASSUME UartInit PROVE IInv
  OBVIOUS
<1>1. PICK cfg \in {c \in Configs : Valid(c)}, err \in FramingErrors :
        sua = [cfg |-> cfg, framing_error |-> err, running |-> FALSE,
               bit_count |-> 0, shift_reg |-> 0,
               msg |-> <<>>, size |-> 0, flags |-> 0, bad |-> FALSE,
               stops |-> 0, timer |-> FALSE, aborted |-> FALSE]
  BY DEF UartInit
<1>2. /\ cfg \in Configs /\ Valid(cfg) /\ cfg.rx_buf_size \in Nat /\ cfg.rx_buf_size > 0
      /\ 0 \in 0 .. Width - 1 /\ err \in Nat
  BY UartAssumption, ConfigTypes DEF Valid
<1>3. UartTypes(sua)
  BY <1>1, <1>2, EmptySeqs DEF UartTypes
<1>4. Roomy(sua) /\ Flagged(sua)
  BY <1>1, <1>2 DEF Roomy, Flagged
<1>5. IsSeq(out) /\ Len(out) = 0
  BY EmptySeqs DEF UartInit
<1> QED
  BY <1>3, <1>4, <1>5 DEF IInv, UartInv

\* A function of soft_uart.c that keeps what it must.
LEMMA DoesFine ==
  ASSUME NEW r, Fine(r), Does(r), IInv
  PROVE  IInv'
<1>1. UartInv(sua')
  BY DEF Does, Fine
<1>2. IsSeq(out) /\ out' = out \o r.called /\ FineCalls(r.called)
  BY DEF IInv, Does, Fine
<1>3. PICK S : out \in Seq(S)
  BY <1>2 DEF IsSeq
<1>4. CASE r.called = <<>>
  <2>1. out' = out
    BY <1>2, <1>3, <1>4, ConcatEmptySeq
  <2> QED
    BY <1>1, <2>1 DEF IInv
<1>5. ASSUME NEW c, r.called = <<c>>, FineCall(c) PROVE IInv'
  <2>1. out \in Seq(S \cup {c}) /\ c \in S \cup {c}
    BY <1>3, SeqMonotonic
  <2>2. out \o <<c>> = Append(out, c)
    BY <2>1, AppendIsConcat
  <2>3. out' = Append(out, c)
    BY <1>2, <1>5, <2>2
  <2>4. /\ IsSeq(out') /\ Len(out) \in Nat /\ Len(out') = Len(out) + 1
        /\ out'[Len(out) + 1] = c
        /\ \A n \in 1 .. Len(out) : out'[n] = out[n]
    BY <1>2, <2>3, AppendSeq
  <2>5. ASSUME NEW n \in 1 .. Len(out') PROVE FineCall(out'[n])
    <3>1. n \in 1 .. Len(out) \/ n = Len(out) + 1
      BY <2>4
    <3> QED
      BY <1>5, <2>4, <3>1 DEF IInv
  <2> QED
    BY <1>1, <2>4, <2>5 DEF IInv
<1> QED
  BY <1>2, <1>4, <1>5 DEF FineCalls

LEMMA NextIInv == IInv /\ [UartNext]_uartVars => IInv'
<1> SUFFICES ASSUME IInv, [UartNext]_uartVars PROVE IInv'
  OBVIOUS
<1>0. UartInv(sua) /\ (~ sua.aborted => sua.aborted = FALSE)
  BY DEF IInv, UartInv, UartTypes
<1>1. CASE PeerSends
  BY <1>1 DEF PeerSends, IInv
<1>2. CASE RxBit
  BY <1>0, <1>2, RxBitFine, DoesFine DEF RxBit, Does
<1>3. CASE IdleBit
  BY <1>0, <1>3, RxBitFine, DoesFine DEF IdleBit, Does
<1>4. CASE suart_rx_timer_cb
  <2> DEFINE s == [sua EXCEPT !.timer = FALSE]
  <2>1. UartTypes(s) /\ s.aborted = sua.aborted
    BY <1>0 DEF UartInv, UartTypes
  <2>2. Roomy(s) /\ Flagged(s)
    BY <1>0 DEF UartInv, UartTypes, Roomy, Flagged
  <2>3. Does(suart_flush_rx(s)) /\ ~ sua.aborted
    BY <1>4 DEF suart_rx_timer_cb, Does
  <2> HIDE DEF s
  <2>4. Fine(suart_flush_rx(s))
    BY <1>0, <2>1, <2>2, <2>3, FlushInv DEF UartInv
  <2> QED
    BY <2>3, <2>4, DoesFine
<1>5. CASE Configure
  BY <1>0, <1>5, ConfigureFine, DoesFine DEF Configure, Does
<1>6. CASE Enable
  BY <1>0, <1>6, EnableFine, DoesFine DEF Enable, Does
<1>7. CASE UNCHANGED uartVars
  BY <1>7 DEF uartVars, IInv
<1> QED
  BY <1>1, <1>2, <1>3, <1>4, <1>5, <1>6, <1>7 DEF UartNext

\* msgb_put_u8 never aborts while the message is as large as the
\* configuration says and holds two characters: the flush comes in time,
\* however timer, errors, bits and changes of the configuration interleave.
THEOREM RoomAlways == UartSpec => []RoomForNext
<1>1. IInv => RoomForNext
  <2> SUFFICES ASSUME IInv, 2 <= sua.cfg.rx_buf_size, sua.cfg.rx_buf_size <= sua.size
               PROVE  ~ sua.aborted /\ Len(sua.msg) < sua.size
    BY DEF RoomForNext
  <2>1. sua.cfg \in Configs /\ sua.size \in Nat /\ IsSeq(sua.msg) /\ sua.aborted \in BOOLEAN
    BY DEF IInv, UartInv, UartTypes
  <2>2. sua.cfg.rx_buf_size \in Nat /\ Len(sua.msg) \in Nat
    BY <2>1, ConfigTypes, AppendSeq
  <2> QED
    BY <2>1, <2>2 DEF IInv, UartInv, Roomy
<1> QED
  BY <1>1, InitIInv, NextIInv, PTL DEF UartSpec

\* soft_uart.h: a flag is "related to last byte received".  That is so of
\* every call-back whose characters have one stop bit, whenever the timer
\* runs out and whatever is configured in the middle of a character.
THEOREM FlagsBelong == UartSpec => []FlagsOfLast
<1>1. IInv => FlagsOfLast
  <2> SUFFICES ASSUME IInv, NEW n \in DOMAIN out, out[n].stops <= 1,
                      out[n].chars # <<>>, out[n].flags # 0
               PROVE  out[n].chars[Len(out[n].chars)].bad
    BY DEF FlagsOfLast
  <2>1. DOMAIN out = 1 .. Len(out)
    BY DEF IInv, IsSeq
  <2> QED
    BY <2>1 DEF IInv, FineCall, LastBad
<1> QED
  BY <1>1, InitIInv, NextIInv, PTL DEF UartSpec

-----------------------------------------------------------------------------
(* The characters of calls and messages.                                   *)

\* Characters, and calls of rx_cb.
Char == [ch : Int, bad : BOOLEAN]
Call == [chars : Seq(Char), flags : Nat, stops : Nat]

LEMMA OctetsType ==
  ASSUME NEW chars \in Seq(Char)
  PROVE  /\ Octets(chars) \in Seq(Int) /\ Len(Octets(chars)) = Len(chars)
         /\ \A n \in 1 .. Len(chars) : Octets(chars)[n] = chars[n].ch
<1>1. Len(chars) \in Nat /\ DOMAIN chars = 1 .. Len(chars)
      /\ \A n \in 1 .. Len(chars) : chars[n] \in Char
  OBVIOUS
<1>2. \A n \in 1 .. Len(chars) : chars[n].ch \in Int
  BY <1>1 DEF Char
<1> DEFINE f(n) == chars[n].ch
           m == [n \in 1 .. Len(chars) |-> f(n)]
<1>3. \A n \in 1 .. Len(chars) : f(n) \in Int
  BY <1>2
<1> HIDE DEF f
<1>4. m \in Seq(Int) /\ Len(m) = Len(chars)
  BY <1>1, <1>3
<1>5. \A n \in 1 .. Len(chars) : m[n] = f(n)
  OBVIOUS
<1>6. Octets(chars) = m
  BY <1>1 DEF Octets, f
<1> HIDE DEF m
<1> QED
  BY <1>4, <1>5, <1>6 DEF f

LEMMA OctetsNone == Octets(<<>>) = <<>>
<1>1. <<>> \in Seq(Char) /\ Len(<<>>) = 0
  OBVIOUS
<1> DEFINE m == Octets(<<>>)
<1>2. m \in Seq(Int) /\ Len(m) = 0
  BY <1>1, OctetsType
<1> HIDE DEF m
<1>3. m = <<>>
  BY <1>2, EmptySeq
<1> QED
  BY <1>3 DEF m

LEMMA OctetsAppend ==
  ASSUME NEW chars \in Seq(Char), NEW x \in Char
  PROVE  Octets(Append(chars, x)) = Append(Octets(chars), x.ch)
<1> DEFINE more == Append(chars, x)
           a == Octets(more)
           b == Octets(chars)
           y == x.ch
           c == Append(b, y)
           n == Len(chars)
<1>1. /\ more \in Seq(Char) /\ Len(more) = n + 1 /\ n \in Nat /\ more[n + 1] = x
      /\ \A i \in 1 .. n : more[i] = chars[i]
  BY AppendProperties
<1>2. y \in Int
  BY DEF Char
<1>3. b \in Seq(Int) /\ Len(b) = n /\ \A i \in 1 .. n : b[i] = chars[i].ch
  BY OctetsType
<1> HIDE DEF more
<1>4. a \in Seq(Int) /\ Len(a) = n + 1 /\ \A i \in 1 .. n + 1 : a[i] = more[i].ch
  BY <1>1, OctetsType
<1> HIDE DEF a, b, y, n
<1>5. /\ c \in Seq(Int) /\ Len(c) = n + 1 /\ c[n + 1] = y
      /\ \A i \in 1 .. n : c[i] = b[i]
  BY <1>2, <1>3, AppendProperties
<1> HIDE DEF c
<1>6. ASSUME NEW i \in 1 .. Len(a) PROVE a[i] = c[i]
  <2>1. CASE i = n + 1
    <3>1. i \in 1 .. n + 1 /\ more[i] = x
      BY <1>1, <1>4, <2>1
    <3> QED
      BY <1>4, <1>5, <2>1, <3>1 DEF y
  <2>2. CASE i # n + 1
    <3>1. i \in 1 .. n /\ i \in 1 .. n + 1
      BY <1>1, <1>4, <2>2
    <3>2. a[i] = more[i].ch /\ more[i] = chars[i] /\ c[i] = b[i] /\ b[i] = chars[i].ch
      BY <1>1, <1>3, <1>4, <1>5, <3>1
    <3> QED
      BY <3>2
  <2> QED
    BY <2>1, <2>2
<1>7. a = c
  BY <1>4, <1>5, <1>6, SeqEqual
<1> QED
  BY <1>7 DEF a, b, c, y, more

\* The characters of the calls, one behind the other.
Called(calls) == FlattenSeq([n \in DOMAIN calls |-> Octets(calls[n].chars)])

LEMMA CalledIs ==
  ASSUME NEW calls \in Seq(Call)
  PROVE  LET m == [n \in DOMAIN calls |-> Octets(calls[n].chars)]
         IN  /\ m \in Seq(Seq(Int)) /\ Len(m) = Len(calls)
             /\ \A n \in 1 .. Len(calls) : m[n] = Octets(calls[n].chars)
<1>1. Len(calls) \in Nat /\ DOMAIN calls = 1 .. Len(calls)
      /\ \A n \in 1 .. Len(calls) : calls[n] \in Call
  OBVIOUS
<1>2. \A n \in 1 .. Len(calls) : calls[n].chars \in Seq(Char)
  BY <1>1 DEF Call
<1>3. \A n \in 1 .. Len(calls) : Octets(calls[n].chars) \in Seq(Int)
  BY <1>2, OctetsType
<1> DEFINE f(n) == Octets(calls[n].chars)
           m == [n \in 1 .. Len(calls) |-> f(n)]
<1>4. \A n \in 1 .. Len(calls) : f(n) \in Seq(Int)
  BY <1>3
<1> HIDE DEF f
<1>5. m \in Seq(Seq(Int)) /\ Len(m) = Len(calls)
  BY <1>1, <1>4
<1>6. \A n \in 1 .. Len(calls) : m[n] = f(n)
  OBVIOUS
<1> QED
  BY <1>1, <1>5, <1>6 DEF f

LEMMA CalledType ==
  ASSUME NEW calls \in Seq(Call)
  PROVE  Called(calls) \in Seq(Int)
BY CalledIs, FlatType DEF Called

LEMMA CalledNone == Called(<<>>) = <<>>
<1> DEFINE m == [n \in DOMAIN <<>> |-> Octets(<<>>[n].chars)]
<1>1. <<>> \in Seq(Call) /\ Len(<<>>) = 0
  OBVIOUS
<1>2. m \in Seq(Seq(Int)) /\ Len(m) = 0
  BY <1>1, CalledIs
<1> HIDE DEF m
<1>3. m = <<>>
  BY <1>2, EmptySeq
<1> QED
  BY <1>3, FlatNone DEF m, Called

LEMMA CalledMore ==
  ASSUME NEW calls \in Seq(Call), NEW c \in Call
  PROVE  Called(Append(calls, c)) = Called(calls) \o Octets(c.chars)
<1> DEFINE more == Append(calls, c)
           a == [k \in DOMAIN more |-> Octets(more[k].chars)]
           b == [k \in DOMAIN calls |-> Octets(calls[k].chars)]
           y == Octets(c.chars)
           d == Append(b, y)
           n == Len(calls)
<1>1. /\ more \in Seq(Call) /\ Len(more) = n + 1 /\ n \in Nat /\ more[n + 1] = c
      /\ \A i \in 1 .. n : more[i] = calls[i]
  BY AppendProperties
<1>2. y \in Seq(Int)
  BY OctetsType DEF Call
<1>3. b \in Seq(Seq(Int)) /\ Len(b) = n /\ \A i \in 1 .. n : b[i] = Octets(calls[i].chars)
  BY CalledIs
<1> HIDE DEF more
<1>4. a \in Seq(Seq(Int)) /\ Len(a) = n + 1 /\ \A i \in 1 .. n + 1 : a[i] = Octets(more[i].chars)
  BY <1>1, CalledIs
<1> HIDE DEF a, b, y, n
<1>5. /\ d \in Seq(Seq(Int)) /\ Len(d) = n + 1 /\ d[n + 1] = y
      /\ \A i \in 1 .. n : d[i] = b[i]
  BY <1>2, <1>3, AppendProperties
<1> HIDE DEF d
<1>6. ASSUME NEW i \in 1 .. Len(a) PROVE a[i] = d[i]
  <2>1. CASE i = n + 1
    <3>1. i \in 1 .. n + 1 /\ more[i] = c
      BY <1>1, <1>4, <2>1
    <3> QED
      BY <1>4, <1>5, <2>1, <3>1 DEF y
  <2>2. CASE i # n + 1
    <3>1. i \in 1 .. n /\ i \in 1 .. n + 1
      BY <1>1, <1>4, <2>2
    <3>2. a[i] = Octets(more[i].chars) /\ more[i] = calls[i] /\ d[i] = b[i] /\ b[i] = Octets(calls[i].chars)
      BY <1>1, <1>3, <1>4, <1>5, <3>1
    <3> QED
      BY <3>2
  <2> QED
    BY <2>1, <2>2
<1>7. a = d
  BY <1>4, <1>5, <1>6, SeqEqual
<1>8. FlattenSeq(d) = FlattenSeq(b) \o y
  BY <1>2, <1>3, FlatAppend DEF d
<1> QED
  BY <1>7, <1>8 DEF Called, a, b, y, more

\* All characters, those in the message included.
Chars(calls, msg) == Called(calls) \o Octets(msg)

LEMMA CharsType ==
  ASSUME NEW calls \in Seq(Call), NEW msg \in Seq(Char)
  PROVE  Chars(calls, msg) \in Seq(Int)
<1>1. Called(calls) \in Seq(Int) /\ Octets(msg) \in Seq(Int)
  BY CalledType, OctetsType
<1> QED
  BY <1>1, ConcatProperties DEF Chars

LEMMA CharsAppend ==
  ASSUME NEW calls \in Seq(Call), NEW msg \in Seq(Char), NEW x \in Char
  PROVE  Chars(calls, Append(msg, x)) = Append(Chars(calls, msg), x.ch)
<1> DEFINE d == Called(calls)
           o == Octets(msg)
           y == x.ch
<1>1. d \in Seq(Int) /\ o \in Seq(Int) /\ y \in Int
  BY CalledType, OctetsType DEF Char
<1>2. Octets(Append(msg, x)) = Append(o, y)
  BY OctetsAppend
<1> HIDE DEF d, o, y
<1>3. Append(o, y) = o \o <<y>> /\ <<y>> \in Seq(Int)
  BY <1>1, AppendIsConcat
<1>4. d \o o \in Seq(Int)
  BY <1>1, ConcatProperties
<1>5. Append(d \o o, y) = (d \o o) \o <<y>>
  BY <1>1, <1>4, AppendIsConcat
<1>6. Associates(d, o, <<y>>)
  BY <1>1, <1>3, Regroup
<1> QED
  BY <1>2, <1>3, <1>5, <1>6 DEF Chars, Associates, d, o, y

LEMMA CharsFlush ==
  ASSUME NEW calls \in Seq(Call), NEW c \in Call
  PROVE  Chars(Append(calls, c), <<>>) = Chars(calls, c.chars)
<1>1. Called(Append(calls, c)) = Called(calls) \o Octets(c.chars)
  BY CalledMore
<1>2. Chars(calls, c.chars) \in Seq(Int)
  BY CharsType DEF Call
<1>3. Chars(calls, c.chars) \o <<>> = Chars(calls, c.chars)
  BY <1>2, ConcatEmptySeq
<1> QED
  BY <1>1, <1>3, OctetsNone DEF Chars

-----------------------------------------------------------------------------
(* The bits of a character.                                                *)

\* The powers of two that fit an octet, one by one: the provers know no
\* other way to 2^n.
Power(n) ==
  CASE n = 0 -> 1 [] n = 1 -> 2 [] n = 2 -> 4 [] n = 3 -> 8 [] n = 4 -> 16
    [] n = 5 -> 32 [] n = 6 -> 64 [] n = 7 -> 128 [] n = 8 -> 256

LEMMA PowerIs ==
  ASSUME NEW n \in 0 .. 8
  PROVE  2^n = Power(n)
<1> n \in {0, 1, 2, 3, 4, 5, 6, 7, 8}
  OBVIOUS
<1>1. CASE n = 0
  <2>1. 2^n = 2^0
    BY <1>1, Zenon
  <2>2. 2^0 = 1 /\ Power(n) = 1
    BY <1>1 DEF Power
  <2> QED
    BY <2>1, <2>2, Zenon
<1>2. CASE n = 1
  <2>1. 2^n = 2^1
    BY <1>2, Zenon
  <2>2. 2^1 = 2 /\ Power(n) = 2
    BY <1>2 DEF Power
  <2> QED
    BY <2>1, <2>2, Zenon
<1>3. CASE n = 2
  <2>1. 2^n = 2^2
    BY <1>3, Zenon
  <2>2. 2^2 = 4 /\ Power(n) = 4
    BY <1>3 DEF Power
  <2> QED
    BY <2>1, <2>2, Zenon
<1>4. CASE n = 3
  <2>1. 2^n = 2^3
    BY <1>4, Zenon
  <2>2. 2^3 = 8 /\ Power(n) = 8
    BY <1>4 DEF Power
  <2> QED
    BY <2>1, <2>2, Zenon
<1>5. CASE n = 4
  <2>1. 2^n = 2^4
    BY <1>5, Zenon
  <2>2. 2^4 = 16 /\ Power(n) = 16
    BY <1>5 DEF Power
  <2> QED
    BY <2>1, <2>2, Zenon
<1>6. CASE n = 5
  <2>1. 2^n = 2^5
    BY <1>6, Zenon
  <2>2. 2^5 = 32 /\ Power(n) = 32
    BY <1>6 DEF Power
  <2> QED
    BY <2>1, <2>2, Zenon
<1>7. CASE n = 6
  <2>1. 2^n = 2^6
    BY <1>7, Zenon
  <2>2. 2^6 = 64 /\ Power(n) = 64
    BY <1>7 DEF Power
  <2> QED
    BY <2>1, <2>2, Zenon
<1>8. CASE n = 7
  <2>1. 2^n = 2^7
    BY <1>8, Zenon
  <2>2. 2^7 = 128 /\ Power(n) = 128
    BY <1>8 DEF Power
  <2> QED
    BY <2>1, <2>2, Zenon
<1>9. CASE n = 8
  <2>1. 2^n = 2^8
    BY <1>9, Zenon
  <2>2. 2^8 = 256 /\ Power(n) = 256
    BY <1>9 DEF Power
  <2> QED
    BY <2>1, <2>2, Zenon
<1> QED
  BY <1>1, <1>2, <1>3, <1>4, <1>5, <1>6, <1>7, <1>8, <1>9

\* What is in the register after j data bits of value b: they come in at the
\* left.
Shifted(b, j) == b * (256 - Power(8 - j))

\* The two characters that the peer sends, with d data bits: zeros or ones.
Word(b, d) == b * (2^d - 1)

LEMMA WordBit ==
  ASSUME NEW b \in {0, 1}, NEW d \in 1 .. 8, NEW n \in 1 .. d
  PROVE  (Word(b, d) \div 2^(n - 1)) % 2 = b
<1>1. 2^d = Power(d) /\ 2^(n - 1) = Power(n - 1)
  <2>1. d \in 0 .. 8 /\ n - 1 \in 0 .. 8
    OBVIOUS
  <2> QED
    BY <2>1, PowerIs, Zenon
<1>2. n \in {1, 2, 3, 4, 5, 6, 7, 8} /\ d \in {1, 2, 3, 4, 5, 6, 7, 8} /\ n <= d
  OBVIOUS
<1>3. ((b * (Power(d) - 1)) \div Power(n - 1)) % 2 = b
  BY <1>2 DEF Power
<1> QED
  BY <1>1, <1>3, Zenon DEF Word

LEMMA ShiftIn ==
  ASSUME NEW b \in {0, 1}, NEW j \in 0 .. 7
  PROVE  /\ Shifted(b, j) \in Int
         /\ (Shifted(b, j) \div 2) + 128 * b = Shifted(b, j + 1)
<1>1. j \in {0, 1, 2, 3, 4, 5, 6, 7}
  OBVIOUS
<1>2. Power(8 - j) \in Int /\ Power(8 - j) = 2 * Power(8 - (j + 1))
      /\ Power(8 - (j + 1)) \in Int /\ Power(8) = 256
  BY <1>1 DEF Power
<1>3. CASE b = 0
  BY <1>2, <1>3 DEF Shifted
<1>4. CASE b = 1
  BY <1>2, <1>4 DEF Shifted
<1> QED
  BY <1>3, <1>4

LEMMA ShiftedAll ==
  ASSUME NEW b \in {0, 1}, NEW d \in 1 .. 8
  PROVE  Word(b, d) * 2^(8 - d) = Shifted(b, d) /\ Shifted(b, d) \in Int
<1>1. 2^d = Power(d) /\ 2^(8 - d) = Power(8 - d)
  <2>1. d \in 0 .. 8 /\ 8 - d \in 0 .. 8
    OBVIOUS
  <2> QED
    BY <2>1, PowerIs, Zenon
<1>2. d \in {1, 2, 3, 4, 5, 6, 7, 8}
  OBVIOUS
<1>3. (b * (Power(d) - 1)) * Power(8 - d) = Shifted(b, d) /\ Shifted(b, d) \in Int
  BY <1>2 DEF Power, Shifted
<1> QED
  BY <1>1, <1>3, Zenon DEF Word

LEMMA ShiftedNone ==
  ASSUME NEW b \in {0, 1}
  PROVE  Shifted(b, 0) = 0
BY DEF Shifted, Power

\* j is a with c behind it.
Joins(S, a, c, j) ==
  /\ j \in Seq(S) /\ Len(j) = Len(a) + Len(c)
  /\ \A n \in 1 .. Len(a) : j[n] = a[n]
  /\ \A n \in 1 .. Len(c) : j[Len(a) + n] = c[n]

LEMMA Joined ==
  ASSUME NEW S, NEW a \in Seq(S), NEW c \in Seq(S)
  PROVE  Joins(S, a, c, a \o c)
<1> DEFINE j == a \o c
<1> DEFINE k == Len(a)
           l == Len(c)
<1>1. k \in Nat /\ l \in Nat
  OBVIOUS
<1>2. j \in Seq(S) /\ Len(j) = k + l
  BY ConcatProperties
<1>3. \A i \in 1 .. k + l : j[i] = IF i <= k THEN a[i] ELSE c[i - k]
  BY ConcatProperties
<1> HIDE DEF k, l, j
<1>4. ASSUME NEW n \in 1 .. k PROVE j[n] = a[n]
  <2>1. n \in 1 .. k + l /\ n <= k
    BY <1>1
  <2> QED
    BY <1>3, <2>1
<1>5. ASSUME NEW n \in 1 .. l PROVE j[k + n] = c[n]
  <2>1. k + n \in 1 .. k + l /\ ~ (k + n <= k) /\ (k + n) - k = n
    BY <1>1
  <2> QED
    BY <1>3, <2>1
<1> QED
  BY <1>2, <1>4, <1>5 DEF k, l, j, Joins

\* A start bit, the data bits, as many bits more as the format has.
LEMMA FramedIs ==
  ASSUME NEW cfg \in Configs, Valid(cfg), NEW b \in {0, 1}, NEW good \in BOOLEAN
  PROVE  LET w == Framed(cfg, Word(b, cfg.num_data_bits), good)
         IN  /\ w \in Seq({0, 1}) /\ Len(w) = LastBit(cfg) /\ w[1] = 0
             /\ \A n \in 2 .. 1 + cfg.num_data_bits : w[n] = b
<1> DEFINE d == cfg.num_data_bits
           p == cfg.parity
           e == cfg.num_stop_bits
           f(n) == (Word(b, d) \div 2^(n - 1)) % 2
           g(n) == 1
           h(n) == IF good THEN 1 ELSE 0
           w1 == [n \in 1 .. d |-> f(n)]
           w2 == [n \in 1 .. p |-> g(n)]
           w3 == [n \in 1 .. e |-> h(n)]
<1>1. d \in 1 .. 8 /\ d \in Nat /\ p \in Nat /\ e \in Nat
  <2>1. d \in 1 .. 8 /\ d \in Nat /\ p \in {0, 1} /\ e \in Nat
    BY ConfigTypes DEF Valid
  <2> QED
    BY <2>1
<1>2. \A n \in 1 .. d : f(n) = b
  <2> SUFFICES ASSUME NEW n \in 1 .. d PROVE f(n) = b
    OBVIOUS
  <2> QED
    BY <1>1, WordBit
<1>3. \A n \in 1 .. d : f(n) \in {0, 1}
  BY <1>2
<1>4. Framed(cfg, Word(b, d), good) = <<0>> \o w1 \o w2 \o w3
  BY DEF Framed
<1> HIDE DEF d, p, e, f
<1>5. w1 \in Seq({0, 1}) /\ Len(w1) = d /\ \A n \in 1 .. d : w1[n] = f(n)
  BY <1>1, <1>3
<1>6. w2 \in Seq({0, 1}) /\ Len(w2) = p
  BY <1>1
<1>7. w3 \in Seq({0, 1}) /\ Len(w3) = e
  <2>1. \A n \in 1 .. e : h(n) \in {0, 1}
    OBVIOUS
  <2> HIDE DEF h
  <2> QED
    BY <1>1, <2>1
<1> HIDE DEF w1, w2, w3
<1> DEFINE v1 == <<0>> \o w1
           v2 == v1 \o w2
           v3 == v2 \o w3
<1>8. <<0>> \in Seq({0, 1}) /\ Len(<<0>>) = 1 /\ <<0>>[1] = 0
  OBVIOUS
<1> DEFINE v0 == <<0>>
<1> HIDE DEF v0
<1>9. /\ v1 \in Seq({0, 1}) /\ Len(v1) = 1 + d /\ v1[1] = 0
      /\ \A n \in 2 .. 1 + d : v1[n] = w1[n - 1]
  <2>1. v0 \in Seq({0, 1}) /\ Len(v0) = 1 /\ v0[1] = 0 /\ v1 = v0 \o w1
    BY <1>8 DEF v0
  <2> HIDE DEF v1
  <2>2. /\ v1 \in Seq({0, 1}) /\ Len(v1) = Len(v0) + Len(w1)
        /\ \A n \in 1 .. Len(v0) : v1[n] = v0[n]
        /\ \A n \in 1 .. Len(w1) : v1[Len(v0) + n] = w1[n]
    <3>1. Joins({0, 1}, v0, w1, v0 \o w1)
      BY <1>5, <2>1, Joined
    <3> QED
      BY <2>1, <3>1 DEF Joins
  <2>3. /\ v1 \in Seq({0, 1}) /\ Len(v1) = 1 + d /\ v1[1] = v0[1]
        /\ \A n \in 1 .. d : v1[1 + n] = w1[n]
    BY <1>1, <1>5, <2>2, <2>1
  <2>4. ASSUME NEW n \in 2 .. 1 + d PROVE v1[n] = w1[n - 1]
    <3>1. n - 1 \in 1 .. d /\ n = 1 + (n - 1)
      BY <1>1
    <3> QED
      BY <2>3, <3>1
  <2> QED
    BY <2>1, <2>3, <2>4
<1> HIDE DEF v1
<1>10. /\ v2 \in Seq({0, 1}) /\ Len(v2) = 1 + d + p
       /\ \A n \in 1 .. 1 + d : v2[n] = v1[n]
  <2>1. v2 = v1 \o w2 /\ 1 + d \in Nat
    BY <1>1
  <2> HIDE DEF v2
  <2>2. /\ v2 \in Seq({0, 1}) /\ Len(v2) = Len(v1) + Len(w2)
        /\ \A n \in 1 .. Len(v1) : v2[n] = v1[n]
    <3>1. Joins({0, 1}, v1, w2, v1 \o w2)
      BY <1>6, <1>9, Joined
    <3> QED
      BY <2>1, <3>1 DEF Joins
  <2> QED
    BY <1>1, <1>6, <1>9, <2>2
<1> HIDE DEF v2
<1>11. /\ v3 \in Seq({0, 1}) /\ Len(v3) = 1 + d + p + e
       /\ \A n \in 1 .. 1 + d : v3[n] = v2[n]
  <2>1. v3 = v2 \o w3 /\ 1 + d + p \in Nat
    BY <1>1
  <2> HIDE DEF v3
  <2>2. /\ v3 \in Seq({0, 1}) /\ Len(v3) = Len(v2) + Len(w3)
        /\ \A n \in 1 .. Len(v2) : v3[n] = v2[n]
    <3>1. Joins({0, 1}, v2, w3, v2 \o w3)
      BY <1>7, <1>10, Joined
    <3> QED
      BY <2>1, <3>1 DEF Joins
  <2>3. \A n \in 1 .. 1 + d : n \in 1 .. 1 + d + p
    BY <1>1
  <2> QED
    BY <1>1, <1>7, <1>10, <2>2, <2>3
<1> HIDE DEF v3
<1>12. v3[1] = 0 /\ \A n \in 2 .. 1 + d : v3[n] = b
  <2>1. 1 \in 1 .. 1 + d
    BY <1>1
  <2>2. v3[1] = 0
    BY <1>9, <1>10, <1>11, <2>1
  <2>3. ASSUME NEW n \in 2 .. 1 + d PROVE v3[n] = b
    <3>1. n \in 1 .. 1 + d /\ n - 1 \in 1 .. d
      BY <1>1
    <3> QED
      BY <1>2, <1>5, <1>9, <1>10, <1>11, <3>1
  <2> QED
    BY <2>2, <2>3
<1>13. Framed(cfg, Word(b, d), good) = v3
  BY <1>4 DEF v3, v2, v1
<1> QED
  BY <1>11, <1>12, <1>13 DEF LastBit, d, p, e

-----------------------------------------------------------------------------
(* What the functions of soft_uart.c do to the characters.                 *)

\* The characters, the register and the calls have their types.
Holds(s) == s.msg \in Seq(Char) /\ s.shift_reg \in Int

Sound(r) == Holds(r.uart) /\ r.called \in Seq(Call)

\* A character is not lost on its way from the message to the call-back.
Keeps(s, r) ==
  \A calls \in Seq(Call) : Chars(calls \o r.called, r.uart.msg) = Chars(calls, s.msg)

\* The message gets one more of them.
Gains(s, r, ch) ==
  \A calls \in Seq(Call) :
    Chars(calls \o r.called, r.uart.msg) = Append(Chars(calls, s.msg), ch)

LEMMA QuietKeeps ==
  ASSUME NEW s, Holds(s), NEW t, Holds(t), t.msg = s.msg
  PROVE  Sound(Quietly(t)) /\ Keeps(s, Quietly(t))
<1>1. /\ Quietly(t).uart = t /\ Quietly(t).called = <<>> /\ <<>> \in Seq(Call)
      /\ \A calls \in Seq(Call) : calls \o <<>> = calls
  BY ConcatEmptySeq DEF Quietly
<1> QED
  BY <1>1 DEF Sound, Keeps

LEMMA FlushKeeps ==
  ASSUME NEW s, UartTypes(s), Holds(s)
  PROVE  Sound(suart_flush_rx(s)) /\ Keeps(s, suart_flush_rx(s))
<1> DEFINE f == FlushedUart(s)
           c == [chars |-> s.msg, flags |-> s.flags, stops |-> s.stops]
<1>1. suart_flush_rx(s).uart = f /\ suart_flush_rx(s).called = CallBacks(s)
  BY DEF suart_flush_rx
<1>2. f.msg = <<>> /\ f.shift_reg = s.shift_reg
  BY FlushTypes
<1>3. c \in Call /\ c.chars = s.msg
  BY DEF UartTypes, Holds, Call
<1>4. <<>> \in Seq(Char) /\ <<>> \in Seq(Call) /\ <<c>> \in Seq(Call)
  BY <1>3
<1> HIDE DEF f
<1>5. Holds(f)
  BY <1>2, <1>4 DEF Holds
<1>6. CASE NothingToFlush(s)
  <2>1. CallBacks(s) = <<>> /\ s.msg = <<>>
    BY <1>6 DEF CallBacks, NothingToFlush
  <2>2. \A calls \in Seq(Call) : calls \o <<>> = calls
    BY ConcatEmptySeq
  <2> QED
    BY <1>1, <1>2, <1>4, <1>5, <2>1, <2>2 DEF Sound, Keeps
<1>7. CASE ~ NothingToFlush(s)
  <2>1. CallBacks(s) = <<c>>
    BY <1>7 DEF CallBacks
  <2> HIDE DEF c
  <2>2. ASSUME NEW calls \in Seq(Call)
        PROVE  Chars(calls \o <<c>>, <<>>) = Chars(calls, s.msg)
    <3>1. calls \o <<c>> = Append(calls, c)
      BY <1>3, AppendIsConcat
    <3> QED
      BY <1>3, <3>1, CharsFlush
  <2> QED
    BY <1>1, <1>2, <1>4, <1>5, <2>1, <2>2 DEF Sound, Keeps
<1> QED
  BY <1>6, <1>7

\* suart_rx_ch puts the character behind the others, unless it aborts.
LEMMA RxChGains ==
  ASSUME NEW s, NEW ch \in Int, UartTypes(s), Holds(s)
  PROVE  LET r == suart_rx_ch(s, ch)
             v == [r EXCEPT !.uart.bit_count = 0]
         IN  /\ Sound(v) /\ v.uart.running = s.running /\ v.uart.bit_count = 0
             /\ v.uart.aborted # TRUE => Gains(s, v, ch)
<1> DEFINE x   == [ch |-> ch, bad |-> s.bad]
           put == [s EXCEPT !.msg = Append(@, x)]
           r   == suart_rx_ch(s, ch)
           v   == [r EXCEPT !.uart.bit_count = 0]
<1>1. x \in Char /\ x.ch = ch
  BY DEF UartTypes, Char
<1>2. s.msg \in Seq(Char) /\ Len(s.msg) \in Nat /\ s.size \in Nat
  BY DEF Holds, UartTypes
<1>3. Append(s.msg, x) \in Seq(Char)
  BY <1>1, <1>2, AppendProperties
<1>4. IsSeq(Append(s.msg, x))
  BY <1>3 DEF IsSeq
<1>5. /\ UartTypes(put) /\ Holds(put) /\ put.msg = Append(s.msg, x)
      /\ put.running = s.running /\ put.cfg = s.cfg /\ put.flags = s.flags
  BY <1>3, <1>4 DEF UartTypes, Holds
<1>6. \A calls \in Seq(Call) : Chars(calls, put.msg) = Append(Chars(calls, s.msg), ch)
  BY <1>1, <1>2, <1>5, CharsAppend
<1>7. ASSUME NEW q, Sound(q), Keeps(put, q), r = q, UartTypes(q.uart),
             q.uart.running = s.running, q = [uart |-> q.uart, called |-> q.called]
      PROVE  /\ Sound(v) /\ v.uart.running = s.running /\ v.uart.bit_count = 0
             /\ Gains(s, v, ch)
  <2>1. /\ v.called = q.called /\ v.uart = [q.uart EXCEPT !.bit_count = 0]
    BY <1>7
  <2> HIDE DEF v
  <2>2. /\ v.uart.msg = q.uart.msg /\ v.uart.shift_reg = q.uart.shift_reg
        /\ v.uart.running = s.running /\ v.uart.bit_count = 0
    BY <1>7, <2>1 DEF UartTypes
  <2>3. Sound(v)
    BY <1>7, <2>1, <2>2 DEF Sound, Holds
  <2>4. Gains(s, v, ch)
    BY <1>6, <1>7, <2>1, <2>2 DEF Gains, Keeps
  <2> QED
    BY <2>2, <2>3, <2>4
<1> HIDE DEF put, x
<1>8. CASE Len(s.msg) >= s.size
  <2> DEFINE u == [s EXCEPT !.aborted = TRUE]
             w == [u EXCEPT !.bit_count = 0]
  <2>1. r = Quietly(u)
    BY <1>2, <1>8 DEF suart_rx_ch
  <2>2. v = Quietly(w)
    BY <2>1 DEF Quietly
  <2> HIDE DEF v
  <2>3. /\ w.msg = s.msg /\ w.shift_reg = s.shift_reg /\ w.running = s.running
        /\ w.bit_count = 0 /\ w.aborted = TRUE
    BY DEF UartTypes
  <2>4. Holds(w)
    BY <2>3 DEF Holds
  <2> HIDE DEF w
  <2>5. v.uart = w /\ v.called = <<>>
    BY <2>2 DEF Quietly
  <2>6. <<>> \in Seq(Call)
    OBVIOUS
  <2> QED
    BY <2>3, <2>4, <2>5, <2>6 DEF Sound, v
<1>9. CASE Len(s.msg) < s.size /\ s.msg = <<>>
  <2> DEFINE u == [put EXCEPT !.timer = TRUE]
  <2>1. r = Quietly(u)
    BY <1>2, <1>9 DEF suart_rx_ch, put, x
  <2>2. UartTypes(u) /\ Holds(u) /\ u.msg = put.msg /\ u.running = s.running
    BY <1>5 DEF UartTypes, Holds
  <2> HIDE DEF u, r
  <2>3. Sound(Quietly(u)) /\ Keeps(put, Quietly(u))
    BY <1>5, <2>2, QuietKeeps
  <2>4. Quietly(u).uart = u /\ Quietly(u) = [uart |-> Quietly(u).uart, called |-> Quietly(u).called]
    BY DEF Quietly
  <2> DEFINE q == Quietly(u)
  <2> HIDE DEF q
  <2>5. /\ Sound(q) /\ Keeps(put, q) /\ r = q /\ UartTypes(q.uart)
        /\ q.uart.running = s.running /\ q = [uart |-> q.uart, called |-> q.called]
    BY <2>1, <2>2, <2>3, <2>4 DEF q
  <2> QED
    BY <1>7, <2>5 DEF r
<1>10. CASE Len(s.msg) < s.size /\ s.msg # <<>>
  <2> DEFINE full == Len(put.msg) >= s.cfg.rx_buf_size \/ s.flags # 0
             q == IF full THEN suart_flush_rx(put) ELSE Quietly(put)
  <2>1. r = q
    BY <1>2, <1>10 DEF suart_rx_ch, put, x
  <2> HIDE DEF full, r
  <2>2. Sound(q) /\ Keeps(put, q)
    <3>1. Sound(suart_flush_rx(put)) /\ Keeps(put, suart_flush_rx(put))
      BY <1>5, FlushKeeps
    <3>2. Sound(Quietly(put)) /\ Keeps(put, Quietly(put))
      BY <1>5, QuietKeeps
    <3>3. q = suart_flush_rx(put) \/ q = Quietly(put)
      OBVIOUS
    <3> QED
      BY <3>1, <3>2, <3>3
  <2>3. q.uart = IF full THEN FlushedUart(put) ELSE put
    BY DEF suart_flush_rx, Quietly
  <2>4. UartTypes(q.uart) /\ q.uart.running = s.running
    BY <1>5, <2>3, FlushTypes
  <2>5. q = [uart |-> q.uart, called |-> q.called]
    BY DEF suart_flush_rx, Quietly
  <2> HIDE DEF q
  <2> QED
    BY <1>7, <2>1, <2>2, <2>4, <2>5 DEF r
<1>11. \/ Len(s.msg) >= s.size
       \/ Len(s.msg) < s.size /\ s.msg = <<>>
       \/ Len(s.msg) < s.size /\ s.msg # <<>>
  BY <1>2
<1> QED
  BY <1>8, <1>9, <1>10, <1>11, Zenon

\* A stop bit.  With the last one the register goes behind the characters.
LEMMA StopBitGains ==
  ASSUME NEW t, NEW bit \in {0, 1}, UartTypes(t), Holds(t)
  PROVE  LET r == StopBit(t, bit)
         IN  /\ Sound(r) /\ r.uart.running = t.running
             /\ t.bit_count = LastBit(t.cfg) =>
                  /\ r.uart.bit_count = 0
                  /\ r.uart.aborted # TRUE => Gains(t, r, t.shift_reg)
             /\ t.bit_count # LastBit(t.cfg) =>
                  /\ r.uart.bit_count = t.bit_count /\ r.uart.cfg = t.cfg
                  /\ r.uart.shift_reg = t.shift_reg /\ Keeps(t, r)
<1> DEFINE flagged == IF bit = 1 THEN t
                      ELSE [t EXCEPT !.flags = t.framing_error, !.bad = TRUE]
<1>1. /\ UartTypes(flagged) /\ Holds(flagged) /\ flagged.msg = t.msg
      /\ flagged.running = t.running /\ flagged.cfg = t.cfg
      /\ flagged.shift_reg = t.shift_reg /\ flagged.bit_count = t.bit_count
  <2>1. CASE bit = 1
    BY <2>1
  <2>2. CASE bit # 1
    <3> DEFINE f == [t EXCEPT !.flags = t.framing_error, !.bad = TRUE]
    <3>1. UartTypes(f) /\ Holds(f) /\ f.msg = t.msg /\ f.running = t.running /\ f.cfg = t.cfg
          /\ f.shift_reg = t.shift_reg /\ f.bit_count = t.bit_count
      BY DEF UartTypes, Holds
    <3> QED
      BY <2>2, <3>1
  <2> QED
    BY <2>1, <2>2
<1>2. StopBit(t, bit) =
        IF t.bit_count = LastBit(t.cfg)
        THEN [suart_rx_ch(flagged, t.shift_reg) EXCEPT !.uart.bit_count = 0]
        ELSE Quietly(flagged)
  BY DEF StopBit
<1> HIDE DEF flagged
<1>3. CASE t.bit_count = LastBit(t.cfg)
  <2> DEFINE v == [suart_rx_ch(flagged, t.shift_reg) EXCEPT !.uart.bit_count = 0]
  <2>1. /\ Sound(v) /\ v.uart.running = flagged.running /\ v.uart.bit_count = 0
        /\ v.uart.aborted # TRUE => Gains(flagged, v, t.shift_reg)
    <3>1. t.shift_reg \in Int
      BY DEF Holds
    <3> QED
      BY <1>1, <3>1, RxChGains
  <2>2. StopBit(t, bit) = v
    BY <1>2, <1>3
  <2> HIDE DEF v
  <2>3. Gains(flagged, v, t.shift_reg) => Gains(t, v, t.shift_reg)
    BY <1>1 DEF Gains
  <2> QED
    BY <1>1, <1>3, <2>1, <2>2, <2>3
<1>4. CASE t.bit_count # LastBit(t.cfg)
  <2>1. StopBit(t, bit) = Quietly(flagged)
    BY <1>2, <1>4
  <2>2. Sound(Quietly(flagged)) /\ Keeps(t, Quietly(flagged))
    BY <1>1, QuietKeeps
  <2>3. Quietly(flagged).uart = flagged
    BY DEF Quietly
  <2> QED
    BY <1>1, <1>4, <2>1, <2>2, <2>3
<1> QED
  BY <1>3, <1>4

-----------------------------------------------------------------------------
(* The stream.                                                             *)

\* A character of bits b is on its way: s has seen bit_count of its bits, the
\* others are to come, and the register holds the data bits so far.  had are
\* the characters that were put away, h those that were heard.
Coming(s, ahead, had, h, b, good) ==
  LET w == Framed(s.cfg, Word(b, s.cfg.num_data_bits), good)
      d == s.cfg.num_data_bits
      k == s.bit_count
  IN  /\ k \in 0 .. LastBit(s.cfg) - 1 /\ Len(ahead) = LastBit(s.cfg) - k
      /\ \A n \in 1 .. Len(ahead) : ahead[n] = w[k + n]
      /\ k # 0 => s.shift_reg = Shifted(b, IF k - 1 < d THEN k - 1 ELSE d)
      /\ h = Append(had, Shifted(b, d))

\* Between two characters nothing is missing; nobody hears what comes while
\* the receiver is off.
Waiting(s, ahead, had, h) ==
  s.bit_count = 0 /\ (s.running => ahead = <<>>) /\ had = h

Follows(s, ahead, had, h) ==
  \/ Waiting(s, ahead, had, h)
  \/ s.running /\ \E b \in {0, 1}, good \in BOOLEAN : Coming(s, ahead, had, h, b, good)

\* Whatever bit comes, and in whatever state.
LEMMA RxBitSound ==
  ASSUME NEW s, NEW bit \in {0, 1}, UartInv(s), Holds(s)
  PROVE  Sound(osmo_uart_rx_bit(s, bit))
<1> DEFINE n == (s.bit_count + 1) % Width
           t == [s EXCEPT !.bit_count = n]
<1>1. /\ s.cfg \in Configs /\ s.cfg.num_data_bits \in Nat /\ s.cfg.parity \in {0, 1}
      /\ s.bit_count \in Nat /\ s.cfg.num_stop_bits \in Nat /\ Width \in Nat /\ Width # 0
      /\ s.running \in BOOLEAN
  <2>1. s.cfg \in Configs /\ s.bit_count \in 0 .. Width - 1 /\ s.running \in BOOLEAN
    BY DEF UartInv, UartTypes
  <2> QED
    BY <2>1, ConfigTypes
<1>2. n \in 0 .. Width - 1
  BY <1>1
<1> HIDE DEF n
<1>3. ASSUME NEW u, Holds(u) PROVE Sound(Quietly(u))
  BY <1>3, QuietKeeps
<1>4. CASE ~ s.running
  BY <1>3, <1>4 DEF osmo_uart_rx_bit
<1>5. CASE s.running /\ s.bit_count = 0
  <2>1. osmo_uart_rx_bit(s, bit) = Quietly(StartBit(s, bit))
    BY <1>5 DEF osmo_uart_rx_bit
  <2>2. Holds(StartBit(s, bit))
    BY DEF StartBit, Holds, UartInv, UartTypes
  <2> QED
    BY <1>3, <2>1, <2>2
<1>6. CASE s.running /\ s.bit_count # 0
  <2>1. osmo_uart_rx_bit(s, bit) =
             CASE n <= 1 + s.cfg.num_data_bits -> Quietly(DataBit(t, bit))
               [] s.cfg.parity = 1 /\ n = 2 + s.cfg.num_data_bits -> Quietly(t)
               [] n > 1 + s.cfg.num_data_bits + s.cfg.parity /\ n <= LastBit(s.cfg) -> StopBit(t, bit)
               [] n > LastBit(s.cfg) -> Quietly(t)
    BY <1>6 DEF osmo_uart_rx_bit, n
  <2>2. LastBit(s.cfg) \in Nat /\ LastBit(s.cfg) >= 1 + s.cfg.num_data_bits + s.cfg.parity
    BY <1>1 DEF LastBit
  <2>3. UartTypes(t) /\ Holds(t)
    BY <1>2 DEF UartInv, UartTypes, Holds
  <2>4. Holds(DataBit(t, bit))
    BY <2>3 DEF DataBit, Holds, UartTypes
  <2> HIDE DEF t
  <2>5. Sound(Quietly(DataBit(t, bit))) /\ Sound(Quietly(t)) /\ Sound(StopBit(t, bit))
    BY <1>3, <2>3, <2>4, StopBitGains
  <2>6. \/ osmo_uart_rx_bit(s, bit) = Quietly(DataBit(t, bit))
        \/ osmo_uart_rx_bit(s, bit) = Quietly(t)
        \/ osmo_uart_rx_bit(s, bit) = StopBit(t, bit)
    BY <1>1, <1>2, <2>1, <2>2
  <2> QED
    BY <2>5, <2>6
<1> QED
  BY <1>1, <1>4, <1>5, <1>6

LEMMA KeepsQuiet ==
  ASSUME NEW s, NEW t, t.msg = s.msg, NEW calls \in Seq(Call)
  PROVE  Chars(calls \o Quietly(t).called, Quietly(t).uart.msg) = Chars(calls, s.msg)
<1>1. Quietly(t).uart = t /\ Quietly(t).called = <<>> /\ calls \o <<>> = calls
  BY ConcatEmptySeq DEF Quietly
<1> QED
  BY <1>1

LEMMA NoWrap ==
  ASSUME NEW n \in Nat, NEW m \in Nat, n < m
  PROVE  n % m = n
  OBVIOUS

\* The next bit of the character that is on its way.
LEMMA RxBitComing ==
  ASSUME NEW s, UartInv(s), Holds(s), s.aborted = FALSE, s.running,
         NEW ahead \in Seq({0, 1}), NEW calls \in Seq(Call), NEW h,
         NEW b \in {0, 1}, NEW good \in BOOLEAN,
         Coming(s, ahead, Chars(calls, s.msg), h, b, good)
  PROVE  LET r == osmo_uart_rx_bit(s, Head(ahead))
         IN  r.uart.aborted # TRUE =>
               Follows(r.uart, Tail(ahead), Chars(calls \o r.called, r.uart.msg), h)
<1> DEFINE d == s.cfg.num_data_bits
           p == s.cfg.parity
           e == s.cfg.num_stop_bits
           T == LastBit(s.cfg)
           k == s.bit_count
           w == Framed(s.cfg, Word(b, d), good)
           had == Chars(calls, s.msg)
           bit == Head(ahead)
           n == (s.bit_count + 1) % Width
           t == [s EXCEPT !.bit_count = n]
           r == osmo_uart_rx_bit(s, bit)
           reg(i) == Shifted(b, IF i < d THEN i ELSE d)
<1>1. s.cfg \in Configs /\ Valid(s.cfg)
  BY DEF UartInv, UartTypes
<1>2. /\ d \in Int /\ 1 <= d /\ d <= 8 /\ p \in {0, 1} /\ p \in Nat /\ e \in Int /\ e > 0
      /\ T \in Int /\ T = 1 + d + p + e /\ Width \in Nat /\ T < Width
  <2>1. d \in 1 .. 8 /\ p \in {0, 1} /\ e \in Nat /\ e > 0 /\ Width \in Nat
    BY <1>1, ConfigTypes DEF Valid
  <2>2. 2 + d + e < Width
    BY <1>1, UartAssumption
  <2>3. T = 1 + d + p + e
    BY DEF LastBit
  <2> HIDE DEF d, p, e, T
  <2>4. d \in Int /\ 1 <= d /\ d <= 8 /\ e \in Int
    BY <2>1
  <2>5. p \in Nat /\ p <= 1
    BY <2>1
  <2>6. T \in Int /\ T < Width
    BY <2>1, <2>2, <2>3, <2>4, <2>5
  <2> QED
    BY <2>1, <2>3, <2>4, <2>5, <2>6
<1>3. /\ k \in 0 .. T - 1 /\ Len(ahead) = T - k
      /\ \A i \in 1 .. Len(ahead) : ahead[i] = w[k + i]
  BY DEF Coming
<1>4. k # 0 => s.shift_reg = reg(k - 1)
  BY DEF Coming
<1>5. h = Append(had, Shifted(b, d))
  BY DEF Coming
<1>6. k \in Nat /\ k + 1 <= T
  <2> HIDE DEF T, k, d, p, e
  <2> QED
    BY <1>2, <1>3
<1>7. w[1] = 0 /\ \A i \in 2 .. 1 + d : w[i] = b
  BY <1>1, FramedIs
<1> HIDE DEF d, p, e, T, k, w, had, reg
<1>8. /\ bit \in {0, 1} /\ bit = w[k + 1] /\ Tail(ahead) \in Seq({0, 1})
      /\ Len(Tail(ahead)) = T - (k + 1)
      /\ \A i \in 1 .. T - (k + 1) : Tail(ahead)[i] = w[k + 1 + i]
  <2>1. ahead # <<>> /\ 1 \in 1 .. Len(ahead) /\ Len(ahead) \in Nat
    BY <1>2, <1>3
  <2>2. bit = ahead[1] /\ bit \in {0, 1}
    BY <2>1
  <2>3. /\ Tail(ahead) \in Seq({0, 1}) /\ Len(Tail(ahead)) = Len(ahead) - 1
        /\ \A i \in 1 .. Len(Tail(ahead)) : Tail(ahead)[i] = ahead[i + 1]
    BY <2>1, HeadTailProperties
  <2>4. ASSUME NEW i \in 1 .. T - (k + 1) PROVE Tail(ahead)[i] = w[k + 1 + i]
    <3>1. i \in 1 .. Len(Tail(ahead)) /\ i + 1 \in 1 .. Len(ahead) /\ k + (i + 1) = k + 1 + i
      BY <1>2, <1>3, <2>3
    <3> QED
      BY <1>3, <2>3, <3>1
  <2> QED
    <3>1. Head(ahead) = w[k + 1]
      BY <1>3, <2>1, <2>2
    <3>2. Len(Tail(ahead)) = T - (k + 1)
      BY <1>2, <1>3, <1>6, <2>3
    <3> QED
      BY <2>2, <2>3, <2>4, <3>1, <3>2
<1>9. n = k + 1
  <2>1. k + 1 \in Nat /\ k + 1 < Width
    BY <1>2, <1>6
  <2> QED
    BY <1>2, <2>1, NoWrap DEF k
<1> HIDE DEF bit, n, r
<1>10. r.uart.aborted # TRUE =>
        Follows(r.uart, Tail(ahead), Chars(calls \o r.called, r.uart.msg), h)
  <2>1. n \in Nat /\ n = k + 1 /\ 1 <= n /\ n <= T
    BY <1>2, <1>9, <1>6
  <2>2. /\ Len(Tail(ahead)) = T - n
        /\ \A i \in 1 .. T - n : Tail(ahead)[i] = w[n + i]
    BY <1>8, <1>9
  <2>3. ASSUME NEW u, u.cfg = s.cfg, u.running, u.bit_count = n, n < T, u.msg = s.msg,
               u.shift_reg = reg(n - 1), r = Quietly(u)
        PROVE  Follows(r.uart, Tail(ahead), Chars(calls \o r.called, r.uart.msg), h)
    <3>1. r.uart = u /\ Chars(calls \o r.called, r.uart.msg) = had
      BY <2>3, KeepsQuiet DEF Quietly, had
    <3>2. n \in 0 .. T - 1 /\ Len(Tail(ahead)) = T - n
          /\ \A i \in 1 .. Len(Tail(ahead)) : Tail(ahead)[i] = w[n + i]
      <4>1. n \in 0 .. T - 1 /\ T - n \in Nat
        BY <1>2, <2>1, <2>3
      <4> QED
        BY <2>2, <4>1
    <3>3. Coming(u, Tail(ahead), had, h, b, good)
      BY <1>5, <2>3, <3>2 DEF Coming, w, d, T, reg
    <3> QED
      BY <2>3, <3>1, <3>3 DEF Follows
  <2>4. CASE k = 0
    <3> DEFINE u == [s EXCEPT !.flags = 0, !.shift_reg = 0, !.bit_count = 1, !.bad = FALSE,
                              !.stops = s.cfg.num_stop_bits]
    <3>1. bit = 0 /\ n = 1 /\ n < T
      BY <1>2, <1>7, <1>8, <2>1, <2>4
    <3>2. r = Quietly(u)
      BY <2>4, <3>1 DEF osmo_uart_rx_bit, StartBit, k, r
    <3>3. /\ u.cfg = s.cfg /\ u.running = s.running /\ u.bit_count = 1 /\ u.msg = s.msg
          /\ u.shift_reg = 0
      BY DEF UartInv, UartTypes
    <3> HIDE DEF u
    <3>4. reg(n - 1) = 0
      <4>1. reg(n - 1) = Shifted(b, 0)
        BY <1>2, <3>1 DEF reg
      <4> QED
        BY <4>1, ShiftedNone
    <3> QED
      BY <2>3, <3>1, <3>2, <3>3, <3>4
  <2>5. CASE k # 0
    <3>1. r = CASE n <= 1 + d -> Quietly(DataBit(t, bit))
                 [] p = 1 /\ n = 2 + d -> Quietly(t)
                 [] n > 1 + d + p /\ n <= T -> StopBit(t, bit)
                 [] n > T -> Quietly(t)
      BY <2>5 DEF osmo_uart_rx_bit, n, k, d, p, r, T
    <3>2. /\ t.cfg = s.cfg /\ t.running = s.running /\ t.bit_count = n /\ t.msg = s.msg
          /\ t.shift_reg = s.shift_reg
      BY DEF UartInv, UartTypes
    <3>3. UartTypes(t) /\ Holds(t)
      <4>1. n \in 0 .. Width - 1
        BY <1>2, <2>1
      <4> QED
        BY <4>1 DEF UartInv, UartTypes, Holds
    <3>4. DataBit(t, bit) = [t EXCEPT !.shift_reg = (@ \div 2) + 128 * bit]
      BY DEF DataBit
    <3>5. Keeps(s, r) = Keeps(t, r) /\ Gains(s, r, t.shift_reg) = Gains(t, r, t.shift_reg)
      BY <3>2 DEF Keeps, Gains
    <3> HIDE DEF t
    <3>6. n >= 2 /\ k - 1 = n - 2
      BY <1>6, <2>1, <2>5
    <3>7. s.shift_reg = reg(n - 2)
      BY <1>4, <2>5, <3>6
    <3>8. CASE n <= 1 + d
      <4> DEFINE u == [t EXCEPT !.shift_reg = (@ \div 2) + 128 * bit]
      <4>1. r = Quietly(u)
        BY <1>2, <2>1, <3>1, <3>4, <3>8
      <4>2. /\ u.cfg = t.cfg /\ u.running = t.running /\ u.bit_count = t.bit_count
            /\ u.msg = t.msg /\ u.shift_reg = (t.shift_reg \div 2) + 128 * bit
        BY <3>3 DEF UartTypes
      <4> HIDE DEF u
      <4>3. bit = b
        <5>1. n \in 2 .. 1 + d
          BY <1>2, <2>1, <3>6, <3>8
        <5> QED
          BY <1>7, <1>8, <2>1, <5>1
      <4>4. n - 2 \in 0 .. 7 /\ n < T /\ n - 2 < d
        <5>1. n - 2 >= 0 /\ n - 2 < d /\ n - 2 \in Int
          BY <1>2, <2>1, <3>6, <3>8
        <5>2. n < T
          BY <1>2, <2>1, <3>8
        <5>3. d \in Int /\ d <= 8
          BY <1>2
        <5>4. n \in Nat
          BY <2>1
        <5>5. n - 2 >= 0 /\ n - 2 <= 7
          BY <5>1, <5>3, <5>4
        <5> QED
          BY <5>1, <5>2, <5>4, <5>5
      <4>5. reg(n - 2) = Shifted(b, n - 2) /\ reg(n - 1) = Shifted(b, (n - 2) + 1)
        <5>1. n - 1 = (n - 2) + 1 /\ (n - 1 < d \/ n - 1 = d)
          <6>1. d \in Int
            BY <1>2
          <6>2. n \in Int
            BY <2>1
          <6> QED
            BY <3>8, <6>1, <6>2
        <5>2. reg(n - 2) = Shifted(b, n - 2) /\ reg(n - 1) = Shifted(b, n - 1)
          BY <4>4, <5>1 DEF reg
        <5> QED
          BY <5>1, <5>2
      <4>6. u.shift_reg = reg(n - 1)
        <5>1. (Shifted(b, n - 2) \div 2) + 128 * b = Shifted(b, (n - 2) + 1)
          BY <4>4, ShiftIn
        <5> QED
          BY <3>2, <3>7, <4>2, <4>3, <4>5, <5>1
      <4> QED
        BY <2>3, <3>2, <4>1, <4>2, <4>4, <4>6
    <3>9. CASE n > 1 + d
      <4>1. reg(n - 2) = Shifted(b, d) /\ reg(n - 1) = Shifted(b, d)
        <5>1. (n - 2 >= d) /\ (n - 1 >= d) /\ n - 2 \in Int /\ n - 1 \in Int
          BY <1>2, <2>1, <3>6, <3>9
        <5>2. ~ (n - 2 < d) /\ ~ (n - 1 < d)
          BY <1>2, <5>1
        <5> QED
          BY <5>2 DEF reg
      <4>2. t.shift_reg = Shifted(b, d)
        BY <3>2, <3>7, <4>1
      <4>3. CASE p = 1 /\ n = 2 + d
        <5>1. n < T /\ ~ (n <= 1 + d) /\ ~ (n > 1 + d + p) /\ ~ (n > T)
          BY <1>2, <2>1, <4>3
        <5>2. r = Quietly(t)
          BY <3>1, <4>3, <5>1
        <5> QED
          BY <2>3, <3>2, <4>1, <4>2, <5>1, <5>2
      <4>4. CASE ~ (p = 1 /\ n = 2 + d)
        <5>1. n > 1 + d + p /\ ~ (n <= 1 + d) /\ ~ (n > T)
          BY <1>2, <2>1, <3>9, <4>4
        <5>2. r = StopBit(t, bit)
          BY <2>1, <3>1, <4>4, <5>1
        <5>3. /\ Sound(r) /\ r.uart.running = t.running
              /\ t.bit_count = LastBit(t.cfg) =>
                    /\ r.uart.bit_count = 0
                    /\ r.uart.aborted # TRUE => Gains(t, r, t.shift_reg)
              /\ t.bit_count # LastBit(t.cfg) =>
                    /\ r.uart.bit_count = t.bit_count /\ r.uart.cfg = t.cfg
                    /\ r.uart.shift_reg = t.shift_reg /\ Keeps(t, r)
          <6>1. bit \in {0, 1}
            BY <1>8
          <6> QED
            BY <3>3, <5>2, <6>1, StopBitGains
        <5>4. LastBit(t.cfg) = T
          BY <3>2 DEF T
        <5>5. CASE n = T
          <6>1. Tail(ahead) = <<>>
            <7>1. Len(Tail(ahead)) = T - n
              BY <2>2
            <7>2. T - n = 0
              BY <2>1, <5>5
            <7> QED
              BY <1>8, <7>1, <7>2, EmptySeq
          <6>2. ASSUME r.uart.aborted # TRUE
                PROVE  Waiting(r.uart, Tail(ahead), Chars(calls \o r.called, r.uart.msg), h)
            <7>1. Gains(s, r, t.shift_reg) /\ r.uart.bit_count = 0
              BY <3>2, <3>5, <5>3, <5>4, <5>5, <6>2
            <7>2. Chars(calls \o r.called, r.uart.msg) = Append(had, t.shift_reg)
              BY <7>1 DEF Gains, had
            <7> QED
              BY <1>5, <4>2, <6>1, <7>1, <7>2 DEF Waiting
          <6> QED
            BY <6>2 DEF Follows
        <5>6. CASE n # T
          <6>1. /\ r.uart.bit_count = n /\ r.uart.cfg = s.cfg /\ Keeps(s, r)
                /\ r.uart.shift_reg = t.shift_reg /\ r.uart.running
            BY <3>2, <3>5, <5>3, <5>4, <5>6
          <6>2. n < T /\ n \in 0 .. T - 1
            BY <1>2, <2>1, <5>6
          <6>3. Chars(calls \o r.called, r.uart.msg) = had
            BY <6>1 DEF Keeps, had
          <6>4. Len(Tail(ahead)) = T - n
                /\ \A i \in 1 .. Len(Tail(ahead)) : Tail(ahead)[i] = w[n + i]
            <7>1. T - n \in Nat
              BY <1>2, <2>1
            <7> QED
              BY <2>2, <7>1
          <6>5. Coming(r.uart, Tail(ahead), had, h, b, good)
            BY <1>5, <4>1, <4>2, <6>1, <6>2, <6>4 DEF Coming, w, d, T, reg
          <6> QED
            BY <6>1, <6>3, <6>5 DEF Follows
        <5> QED
          BY <5>5, <5>6
      <4> QED
        BY <4>3, <4>4
    <3> QED
      BY <1>2, <2>1, <3>8, <3>9
  <2> QED
    BY <2>4, <2>5
<1> QED
  BY <1>10, Zenon DEF r, bit

\* The next bit of whatever is on the line.
LEMMA RxBitFollows ==
  ASSUME NEW s, UartInv(s), Holds(s), s.aborted = FALSE,
         NEW ahead \in Seq({0, 1}), ahead # <<>>, NEW calls \in Seq(Call), NEW h,
         Follows(s, ahead, Chars(calls, s.msg), h)
  PROVE  LET r == osmo_uart_rx_bit(s, Head(ahead))
         IN  r.uart.aborted # TRUE =>
               Follows(r.uart, Tail(ahead), Chars(calls \o r.called, r.uart.msg), h)
<1> DEFINE had == Chars(calls, s.msg)
           r == osmo_uart_rx_bit(s, Head(ahead))
<1>1. CASE Waiting(s, ahead, had, h)
  <2>1. ~ s.running
    BY <1>1 DEF Waiting
  <2>2. r = Quietly(s)
    BY <2>1 DEF osmo_uart_rx_bit
  <2> HIDE DEF r
  <2>3. r.uart = s /\ Chars(calls \o r.called, r.uart.msg) = had
    BY <2>2, KeepsQuiet DEF Quietly
  <2>4. Waiting(s, Tail(ahead), had, h)
    BY <1>1, <2>1 DEF Waiting
  <2> HIDE DEF had
  <2> QED
    BY <2>3, <2>4 DEF Follows, r
<1>2. ASSUME s.running, NEW b \in {0, 1}, NEW good \in BOOLEAN,
             Coming(s, ahead, had, h, b, good)
      PROVE  r.uart.aborted # TRUE =>
               Follows(r.uart, Tail(ahead), Chars(calls \o r.called, r.uart.msg), h)
  BY <1>2, RxBitComing
<1> HIDE DEF r, had
<1> QED
  BY <1>1, <1>2 DEF Follows, r, had

\* The characters heard are those that were put away, and the one that is
\* on its way.
Stream ==
  /\ out \in Seq(Call) /\ Holds(sua) /\ wire \in Seq({0, 1})
  /\ ~ spoiled /\ ~ sua.aborted => Follows(sua, wire, Chars(out, sua.msg), heard)

LEMMA InitStream == UartInit => Stream
<1> SUFFICES ASSUME UartInit PROVE Stream
  OBVIOUS
<1>1. PICK cfg \in {c \in Configs : Valid(c)}, err \in FramingErrors :
        sua = [cfg |-> cfg, framing_error |-> err, running |-> FALSE,
               bit_count |-> 0, shift_reg |-> 0,
               msg |-> <<>>, size |-> 0, flags |-> 0, bad |-> FALSE,
               stops |-> 0, timer |-> FALSE, aborted |-> FALSE]
  BY DEF UartInit
<1>2. sua.msg = <<>> /\ sua.shift_reg = 0 /\ sua.bit_count = 0
  BY <1>1
<1>3. out = <<>> /\ wire = <<>> /\ heard = <<>>
  BY DEF UartInit
<1>4. <<>> \in Seq(Call) /\ <<>> \in Seq(Char) /\ <<>> \in Seq({0, 1}) /\ <<>> \in Seq(Int)
  OBVIOUS
<1>5. Chars(<<>>, <<>>) = <<>>
  BY <1>4, CalledNone, OctetsNone, ConcatEmptySeq DEF Chars
<1>6. Waiting(sua, wire, Chars(out, sua.msg), heard)
  BY <1>2, <1>3, <1>5 DEF Waiting
<1> QED
  BY <1>2, <1>3, <1>4, <1>6 DEF Stream, Follows, Holds

\* A function that keeps the characters, between two of them.
LEMMA DoesKeep ==
  ASSUME NEW r, Sound(r), Does(r), Stream, IInv
  PROVE  out' \in Seq(Call) /\ Holds(sua')
<1>1. out' = out \o r.called /\ sua' = r.uart
  BY DEF Does
<1> QED
  BY <1>1, ConcatProperties DEF Sound, Stream

\* What a user may call, and the timer: the stream is only followed when
\* they come between two characters, or leave the receiver alone.
LEMMA TimerFollows ==
  ASSUME NEW s, UartTypes(s), NEW ahead, NEW had, NEW h, Follows(s, ahead, had, h)
  PROVE  Follows(FlushedUart(s), ahead, had, h)
<1> DEFINE f == FlushedUart(s)
<1>1. /\ f.cfg = s.cfg /\ f.bit_count = s.bit_count /\ f.running = s.running
      /\ f.shift_reg = s.shift_reg
  BY FlushTypes
<1> HIDE DEF f
<1>2. Waiting(s, ahead, had, h) => Waiting(f, ahead, had, h)
  BY <1>1 DEF Waiting
<1>3. \A b, good : Coming(s, ahead, had, h, b, good) => Coming(f, ahead, had, h, b, good)
  BY <1>1 DEF Coming
<1> QED
  BY <1>1, <1>2, <1>3 DEF Follows, f

LEMMA ConfigureKeeps ==
  ASSUME NEW s, NEW cfg \in Configs, UartInv(s), Holds(s)
  PROVE  LET r == osmo_soft_uart_configure(s, cfg)
         IN  Sound(r) /\ Keeps(s, r) /\ r.uart.bit_count = s.bit_count
<1> DEFINE shrinks == \/ s.cfg.rx_buf_size > cfg.rx_buf_size
                      \/ s.cfg.rx_timeout_ms > cfg.rx_timeout_ms
           q    == IF shrinks THEN suart_flush_rx(s) ELSE Quietly(s)
           u    == q.uart
           more == s.bit_count # 0 /\ s.stops < cfg.num_stop_bits
           v    == [u EXCEPT !.cfg = cfg, !.stops = IF more THEN cfg.num_stop_bits ELSE @]
           r    == osmo_soft_uart_configure(s, cfg)
<1>1. CASE ~ Valid(cfg)
  <2>1. r = Quietly(s) /\ Quietly(s).uart = s
    BY <1>1 DEF osmo_soft_uart_configure, Quietly
  <2> QED
    BY <2>1, QuietKeeps
<1>2. CASE Valid(cfg)
  <2>1. r = [q EXCEPT !.uart.cfg = cfg,
                      !.uart.stops = IF more THEN cfg.num_stop_bits ELSE @]
    BY <1>2 DEF osmo_soft_uart_configure
  <2>2. q = [uart |-> u, called |-> q.called]
    BY DEF suart_flush_rx, Quietly
  <2>3. Sound(q) /\ Keeps(s, q)
    <3>1. Sound(suart_flush_rx(s)) /\ Keeps(s, suart_flush_rx(s))
      BY FlushKeeps DEF UartInv
    <3>2. Sound(Quietly(s)) /\ Keeps(s, Quietly(s))
      BY QuietKeeps
    <3>3. q = suart_flush_rx(s) \/ q = Quietly(s)
      OBVIOUS
    <3> QED
      BY <3>1, <3>2, <3>3
  <2>4. UartTypes(u) /\ u.bit_count = s.bit_count
    BY FlushTypes DEF UartInv, suart_flush_rx, Quietly
  <2> HIDE DEF q, more
  <2>5. r = [uart |-> v, called |-> q.called]
    BY <2>1, <2>2, <2>4 DEF UartTypes
  <2>6. v.msg = u.msg /\ v.shift_reg = u.shift_reg /\ v.bit_count = u.bit_count
    BY <2>4 DEF UartTypes
  <2> HIDE DEF v, r
  <2>7. r.uart = v /\ r.called = q.called
    BY <2>5
  <2> QED
    BY <2>3, <2>4, <2>6, <2>7 DEF Sound, Holds, Keeps, r
<1> QED
  BY <1>1, <1>2

LEMMA EnableKeeps ==
  ASSUME NEW s, NEW rx \in BOOLEAN, UartInv(s), Holds(s)
  PROVE  LET r == osmo_soft_uart_enable(s, rx)
         IN  Sound(r) /\ Keeps(s, r) /\ r.uart.bit_count = s.bit_count
<1> DEFINE off == suart_flush_rx(s)
           r   == osmo_soft_uart_enable(s, rx)
<1>1. s.running \in BOOLEAN
  BY DEF UartInv, UartTypes
<1>2. CASE ~ rx /\ s.running
  <2> DEFINE u == off.uart
             v == [u EXCEPT !.running = FALSE]
  <2>1. Sound(off) /\ Keeps(s, off)
    BY FlushKeeps DEF UartInv
  <2>2. r = [uart |-> v, called |-> off.called]
    BY <1>2 DEF osmo_soft_uart_enable, suart_flush_rx
  <2>3. UartTypes(u) /\ u.bit_count = s.bit_count
    BY FlushTypes DEF UartInv, suart_flush_rx
  <2> HIDE DEF off
  <2>4. v.msg = u.msg /\ v.shift_reg = u.shift_reg /\ v.bit_count = u.bit_count
    BY <2>3 DEF UartTypes
  <2> HIDE DEF v, r
  <2>5. r.uart = v /\ r.called = off.called
    BY <2>2
  <2> QED
    BY <2>1, <2>3, <2>4, <2>5 DEF Sound, Holds, Keeps, r
<1>3. CASE rx /\ ~ s.running
  <2> DEFINE v == [s EXCEPT !.running = TRUE, !.size = IF @ = 0 THEN s.cfg.rx_buf_size ELSE @]
  <2>1. r = Quietly(v)
    BY <1>3 DEF osmo_soft_uart_enable
  <2>2. v.msg = s.msg /\ v.shift_reg = s.shift_reg /\ v.bit_count = s.bit_count
    BY DEF UartInv, UartTypes
  <2> HIDE DEF v, r
  <2>3. Holds(v) /\ Quietly(v).uart = v
    BY <2>2 DEF Holds, Quietly
  <2> QED
    BY <2>1, <2>2, <2>3, QuietKeeps DEF r
<1>4. CASE rx = s.running
  <2>1. r = Quietly(s) /\ Quietly(s).uart = s
    BY <1>4 DEF osmo_soft_uart_enable, Quietly
  <2> QED
    BY <2>1, QuietKeeps
<1> QED
  BY <1>1, <1>2, <1>3, <1>4

LEMMA LastBitType ==
  ASSUME NEW cfg \in Configs
  PROVE  LastBit(cfg) \in Int /\ LastBit(cfg) > 0
<1>1. cfg.num_data_bits \in Nat /\ cfg.num_stop_bits \in Nat /\ cfg.parity \in {0, 1}
  BY ConfigTypes
<1>2. cfg.parity \in Nat
  BY <1>1
<1> QED
  BY <1>1, <1>2 DEF LastBit

\* Between two characters the line is idle.
LEMMA BetweenIs ==
  ASSUME IInv, Stream, ~ spoiled, ~ sua.aborted, wire = <<>>
  PROVE  Waiting(sua, wire, Chars(out, sua.msg), heard)
<1> DEFINE had == Chars(out, sua.msg)
<1>1. Follows(sua, wire, had, heard)
  BY DEF Stream
<1>2. sua.cfg \in Configs
  BY DEF IInv, UartInv, UartTypes
<1>3. ASSUME NEW b \in {0, 1}, NEW good \in BOOLEAN, Coming(sua, wire, had, heard, b, good)
      PROVE  FALSE
  <2>1. sua.bit_count \in 0 .. LastBit(sua.cfg) - 1
        /\ 0 = LastBit(sua.cfg) - sua.bit_count
    BY <1>3 DEF Coming
  <2>2. LastBit(sua.cfg) \in Int
    BY <1>2, LastBitType
  <2> QED
    BY <2>1, <2>2
<1> HIDE DEF had
<1>4. Waiting(sua, wire, had, heard)
  BY <1>1, <1>3 DEF Follows
<1> QED
  BY <1>4 DEF had

LEMMA SendFollows ==
  ASSUME IInv, Stream, PeerSends
  PROVE  Stream'
<1> DEFINE d == sua.cfg.num_data_bits
<1>1. PICK c \in {0, 2^d - 1}, good \in BOOLEAN :
        /\ wire' = Framed(sua.cfg, c, good)
        /\ heard' = IF sua.running /\ sua.bit_count = 0
                    THEN Append(heard, c * 2^(8 - d))
                    ELSE heard
  BY DEF PeerSends
<1>2. /\ wire = <<>> /\ sua' = sua /\ out' = out /\ ~ sua.aborted
      /\ spoiled' = (spoiled \/ (sua.running /\ sua.bit_count # 0))
  BY DEF PeerSends
<1>3. sua.cfg \in Configs /\ Valid(sua.cfg) /\ sua.bit_count \in 0 .. Width - 1
      /\ sua.running \in BOOLEAN
  BY DEF IInv, UartInv, UartTypes
<1>4. d \in 1 .. 8
  BY <1>3 DEF Valid
<1>5. PICK b \in {0, 1} : c = Word(b, d)
  <2>1. 2^d \in Int
    <3>1. 2^d = Power(d)
      <4>1. d \in 0 .. 8
        BY <1>4
      <4> QED
        BY <4>1, PowerIs, Zenon
    <3>2. d \in {1, 2, 3, 4, 5, 6, 7, 8}
      BY <1>4
    <3> HIDE DEF d
    <3> QED
      BY <3>1, <3>2 DEF Power
  <2> DEFINE x == 2^d
  <2> HIDE DEF x
  <2>2. 0 = 0 * (x - 1) /\ x - 1 = 1 * (x - 1)
    BY <2>1 DEF x
  <2>3. c = 0 \/ c = x - 1
    BY <1>1 DEF x
  <2>4. c = 0 * (x - 1) \/ c = 1 * (x - 1)
    BY <2>2, <2>3
  <2> QED
    BY <2>4 DEF Word, x
<1>6. c * 2^(8 - d) = Shifted(b, d)
  BY <1>4, <1>5, ShiftedAll
<1>7. /\ wire' \in Seq({0, 1}) /\ Len(wire') = LastBit(sua.cfg)
  BY <1>1, <1>3, <1>5, FramedIs
<1>8. ASSUME ~ spoiled', ~ sua'.aborted
      PROVE  Follows(sua', wire', Chars(out', sua'.msg), heard')
  <2> DEFINE had == Chars(out, sua.msg)
  <2>1. ~ spoiled /\ ~ (sua.running /\ sua.bit_count # 0)
    BY <1>2, <1>8
  <2>2. Waiting(sua, wire, had, heard)
    BY <1>2, <2>1, BetweenIs
  <2>3. CASE ~ sua.running
    <3>1. heard' = heard /\ had = heard
      BY <1>1, <2>2, <2>3 DEF Waiting
    <3>2. Waiting(sua, wire', had, heard')
      BY <2>2, <2>3, <3>1 DEF Waiting
    <3> QED
      BY <1>2, <3>2 DEF Follows
  <2>4. CASE sua.running
    <3>1. sua.bit_count = 0 /\ had = heard /\ heard' = Append(had, Shifted(b, d))
      BY <1>1, <1>6, <2>2, <2>4 DEF Waiting
    <3> DEFINE T == LastBit(sua.cfg)
               w == Framed(sua.cfg, Word(b, d), good)
    <3>2. T \in Int /\ T > 0
      BY <1>3, LastBitType
    <3>3. wire' = w /\ Len(wire') = T
      BY <1>1, <1>5, <1>7
    <3> HIDE DEF T, w, had
    <3>4. ASSUME NEW n \in 1 .. Len(wire') PROVE wire'[n] = w[0 + n]
      <4>1. 0 + n = n
        BY <1>7
      <4> QED
        BY <3>3, <4>1
    <3>5. 0 \in 0 .. T - 1 /\ Len(wire') = T - 0
      BY <3>2, <3>3
    <3>6. Coming(sua, wire', had, heard', b, good)
      BY <3>1, <3>4, <3>5 DEF Coming, T, w
    <3> QED
      BY <1>2, <2>4, <3>6 DEF Follows, had
  <2> QED
    BY <2>3, <2>4
<1> QED
  BY <1>2, <1>7, <1>8 DEF Stream

LEMMA BitFollows ==
  ASSUME IInv, Stream, RxBit
  PROVE  Stream'
<1> DEFINE r == osmo_uart_rx_bit(sua, Head(wire))
<1>1. /\ wire # <<>> /\ Does(r) /\ wire' = Tail(wire) /\ heard' = heard
      /\ spoiled' = spoiled /\ sua.aborted = FALSE
      /\ out' = out \o r.called /\ sua' = r.uart
  BY DEF RxBit, Does, IInv, UartInv, UartTypes
<1>2. UartInv(sua) /\ Holds(sua) /\ wire \in Seq({0, 1}) /\ out \in Seq(Call)
  BY DEF IInv, Stream
<1>3. Head(wire) \in {0, 1} /\ Tail(wire) \in Seq({0, 1})
  BY <1>1, <1>2, HeadTailProperties
<1>4. Sound(r)
  BY <1>2, <1>3, RxBitSound
<1>5. ASSUME Follows(sua, wire, Chars(out, sua.msg), heard), r.uart.aborted # TRUE
      PROVE  Follows(r.uart, Tail(wire), Chars(out \o r.called, r.uart.msg), heard)
  BY <1>1, <1>2, <1>5, RxBitFollows
<1> HIDE DEF r
<1>6. out' \in Seq(Call) /\ Holds(sua')
  BY <1>1, <1>4, DoesKeep
<1>7. ASSUME ~ spoiled', ~ sua'.aborted
      PROVE  Follows(sua', wire', Chars(out', sua'.msg), heard')
  <2>1. Follows(sua, wire, Chars(out, sua.msg), heard)
    BY <1>1, <1>7 DEF Stream
  <2>2. r.uart.aborted # TRUE
    BY <1>1, <1>7
  <2> QED
    BY <1>1, <1>5, <2>1, <2>2
<1> QED
  BY <1>1, <1>3, <1>6, <1>7 DEF Stream

LEMMA IdleFollows ==
  ASSUME IInv, Stream, IdleBit
  PROVE  Stream'
<1> DEFINE r == osmo_uart_rx_bit(sua, 1)
<1>1. /\ wire = <<>> /\ Does(r) /\ wire' = wire /\ spoiled' = spoiled
      /\ sua.bit_count # 0 /\ ~ sua.aborted
  BY DEF IdleBit, Does
<1>2. UartInv(sua) /\ Holds(sua) /\ wire \in Seq({0, 1})
  BY DEF IInv, Stream
<1>3. Sound(r)
  BY <1>2, RxBitSound
<1> HIDE DEF r
<1>4. out' \in Seq(Call) /\ Holds(sua')
  BY <1>1, <1>3, DoesKeep
<1>5. spoiled'
  BY <1>1, BetweenIs DEF Waiting
<1> QED
  BY <1>1, <1>2, <1>4, <1>5 DEF Stream

LEMMA TimeoutFollows ==
  ASSUME IInv, Stream, suart_rx_timer_cb
  PROVE  Stream'
<1> DEFINE s == [sua EXCEPT !.timer = FALSE]
           r == suart_flush_rx(s)
<1>1. Does(r) /\ wire' = wire /\ heard' = heard /\ spoiled' = spoiled /\ ~ sua.aborted
      /\ out' = out \o r.called /\ sua' = r.uart
  BY DEF suart_rx_timer_cb, Does
<1>2. UartTypes(sua) /\ Holds(sua) /\ wire \in Seq({0, 1}) /\ out \in Seq(Call)
  BY DEF IInv, UartInv, Stream
<1>3. /\ UartTypes(s) /\ s.msg = sua.msg /\ s.cfg = sua.cfg /\ s.running = sua.running
      /\ s.bit_count = sua.bit_count /\ s.shift_reg = sua.shift_reg
  BY <1>2 DEF UartTypes
<1> HIDE DEF s
<1>4. Holds(s)
  BY <1>2, <1>3 DEF Holds
<1>5. Sound(r) /\ Keeps(s, r)
  BY <1>3, <1>4, FlushKeeps
<1>6. r.uart = FlushedUart(s)
  BY DEF suart_flush_rx
<1> HIDE DEF r
<1>7. out' \in Seq(Call) /\ Holds(sua')
  BY <1>1, <1>5, DoesKeep
<1>8. ASSUME ~ spoiled', ~ sua'.aborted
      PROVE  Follows(sua', wire', Chars(out', sua'.msg), heard')
  <2> DEFINE had == Chars(out, sua.msg)
  <2>1. Follows(sua, wire, had, heard)
    BY <1>1, <1>8 DEF Stream
  <2>2. Chars(out', sua'.msg) = had
    BY <1>1, <1>2, <1>3, <1>5 DEF Keeps
  <2> HIDE DEF had
  <2>3. Waiting(sua, wire, had, heard) => Waiting(s, wire, had, heard)
    BY <1>3 DEF Waiting
  <2>4. \A b, good : Coming(sua, wire, had, heard, b, good) => Coming(s, wire, had, heard, b, good)
    BY <1>3 DEF Coming
  <2>5. Follows(s, wire, had, heard)
    BY <1>3, <2>1, <2>3, <2>4 DEF Follows
  <2>6. Follows(FlushedUart(s), wire, had, heard)
    BY <1>3, <2>5, TimerFollows
  <2> QED
    BY <1>1, <1>6, <2>2, <2>6
<1> QED
  BY <1>1, <1>2, <1>7, <1>8 DEF Stream

\* A call of the user: the stream is only followed when it comes between two
\* characters.
LEMMA CallFollows ==
  ASSUME IInv, Stream, NEW r, Sound(r), Keeps(sua, r), r.uart.bit_count = sua.bit_count,
         Does(r), spoiled' = (spoiled \/ wire # <<>> \/ sua.bit_count # 0),
         wire' = wire, heard' = heard
  PROVE  Stream'
<1>1. out' \in Seq(Call) /\ Holds(sua')
  BY DoesKeep
<1>2. ~ sua.aborted /\ out' = out \o r.called /\ sua' = r.uart
  BY DEF Does
<1>3. ASSUME ~ spoiled' PROVE Follows(sua', wire', Chars(out', sua'.msg), heard')
  <2>1. ~ spoiled /\ wire = <<>> /\ sua.bit_count = 0
    BY <1>3
  <2>2. Waiting(sua, wire, Chars(out, sua.msg), heard)
    BY <1>2, <2>1, BetweenIs
  <2>3. Chars(out', sua'.msg) = Chars(out, sua.msg)
    BY <1>2 DEF Keeps, Stream
  <2>4. Waiting(sua', wire', Chars(out', sua'.msg), heard')
    BY <1>2, <2>1, <2>2, <2>3 DEF Waiting
  <2> QED
    BY <2>4 DEF Follows
<1> QED
  BY <1>1, <1>3 DEF Stream

LEMMA NextStream == IInv /\ Stream /\ [UartNext]_uartVars => Stream'
<1> SUFFICES ASSUME IInv, Stream, [UartNext]_uartVars PROVE Stream'
  OBVIOUS
<1>1. CASE PeerSends
  BY <1>1, SendFollows
<1>2. CASE RxBit
  BY <1>2, BitFollows
<1>3. CASE IdleBit
  BY <1>3, IdleFollows
<1>4. CASE suart_rx_timer_cb
  BY <1>4, TimeoutFollows
<1>5. CASE Configure
  <2>1. PICK cfg \in Configs \ {sua.cfg} : Does(osmo_soft_uart_configure(sua, cfg))
    BY <1>5 DEF Configure
  <2> DEFINE r == osmo_soft_uart_configure(sua, cfg)
  <2>2. Sound(r) /\ Keeps(sua, r) /\ r.uart.bit_count = sua.bit_count
    <3>1. UartInv(sua) /\ Holds(sua) /\ cfg \in Configs
      BY DEF IInv, Stream
    <3> QED
      BY <3>1, ConfigureKeeps
  <2>3. /\ spoiled' = (spoiled \/ wire # <<>> \/ sua.bit_count # 0)
        /\ wire' = wire /\ heard' = heard /\ Does(r)
    BY <1>5, <2>1 DEF Configure
  <2> HIDE DEF r
  <2> QED
    BY <2>2, <2>3, CallFollows
<1>6. CASE Enable
  <2>1. PICK rx \in BOOLEAN : Does(osmo_soft_uart_enable(sua, rx))
    BY <1>6 DEF Enable
  <2> DEFINE r == osmo_soft_uart_enable(sua, rx)
  <2>2. Sound(r) /\ Keeps(sua, r) /\ r.uart.bit_count = sua.bit_count
    <3>1. UartInv(sua) /\ Holds(sua)
      BY DEF IInv, Stream
    <3> QED
      BY <3>1, EnableKeeps
  <2>3. /\ spoiled' = (spoiled \/ wire # <<>> \/ sua.bit_count # 0)
        /\ wire' = wire /\ heard' = heard /\ Does(r)
    BY <1>6, <2>1 DEF Enable
  <2> HIDE DEF r
  <2> QED
    BY <2>2, <2>3, CallFollows
<1>7. CASE UNCHANGED uartVars
  <2>1. /\ sua' = sua /\ out' = out /\ wire' = wire /\ heard' = heard /\ spoiled' = spoiled
    BY <1>7 DEF uartVars
  <2> QED
    BY <2>1 DEF Stream
<1> QED
  BY <1>1, <1>2, <1>3, <1>4, <1>5, <1>6, <1>7 DEF UartNext

\* Every character heard while the receiver was ready reaches the call-back
\* or is still in the message, in order and once.
THEOREM CharsArrive == UartSpec => []CharsDelivered
<1>1. IInv /\ Stream => CharsDelivered
  <2> SUFFICES ASSUME IInv, Stream, ~ spoiled, ~ sua.aborted, wire = <<>>
               PROVE  FlattenSeq([n \in DOMAIN out |-> Octets(out[n].chars)])
                        \o Octets(sua.msg) = heard
    BY DEF CharsDelivered
  <2>1. Waiting(sua, wire, Chars(out, sua.msg), heard)
    BY BetweenIs
  <2> QED
    BY <2>1 DEF Waiting, Chars, Called
<1>2. UartInit => IInv /\ Stream
  BY InitIInv, InitStream
<1>3. IInv /\ Stream /\ [UartNext]_uartVars => (IInv /\ Stream)'
  BY NextIInv, NextStream
<1> QED
  BY <1>1, <1>2, <1>3, PTL DEF UartSpec
=============================================================================
