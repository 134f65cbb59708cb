---------------------------- MODULE X75Link_proofs --------------------------
(***************************************************************************)
(* Proofs about two X.75 stations joined by channels that lose frames, for *)
(* every modulus, window, retry limit, load and bound on the channels.     *)
(*                                                                         *)
(* The argument for NoFrameReject is the one for go-back-N: V(A) of the    *)
(* sender, V(R) of the receiver and V(S) of the sender follow each other   *)
(* in this order within one window, the N(R) on their way back are between *)
(* the first two and never decrease, and an I frame on its way is at most  *)
(* one window behind everything sent before it (Fits).  A station that has *)
(* asked for the link counts from 0 for the frames behind the UA that is   *)
(* on its way (Granted).                                                   *)
(*                                                                         *)
(* The argument for IsService, while no side hands over more than a window *)
(* of payloads, needs none of this: then no number wraps, nothing waits    *)
(* unsent between two handlers, and every retransmission sends payload k   *)
(* as I frame k - 1 again (Settled, Counted), so that V(R) counts what was *)
(* delivered and V(A) what was forgotten (Half).                           *)
(***************************************************************************)
EXTENDS X75Link, X75Station_proofs

-----------------------------------------------------------------------------
(* Numbers and frames in flight.                                           *)

Numbered == {"I", "RR", "REJ"}

Unnumbered == {SetMode, "UA", "DM"}

\* x + n modulo Modulus, for n between -Modulus and Modulus.
At(x, n) ==
  IF x + n < 0 THEN x + n + Modulus
  ELSE IF x + n >= Modulus THEN x + n - Modulus
  ELSE x + n

\* How far from V(R), forward or back, an I frame can be.
Offset == (0 - Window) .. (Window - 1)

\* The I frames of the channel c behind its k-th frame can be x[1], x[2], ...
\* ahead of V(R), so that each is one the sender has sent, and none is a
\* window or more behind one that it follows.
IFramesFit(c, k, vr, vs) ==
  \E x \in [DOMAIN c -> Offset] :
    \A i \in DOMAIN c : i > k /\ c[i].type = "I" =>
      /\ c[i].ns = At(vr, x[i]) /\ x[i] < Dist(vr, vs)
      /\ \A j \in DOMAIN c :
           j > k /\ j < i /\ c[j].type = "I" => x[j] < x[i] + Window

\* The N(R) in the channel c behind its k-th frame: between V(A) of the
\* station they are for and V(R) of the one that sent them, in order.
AcksFit(c, k, va, vr) ==
  \A i \in DOMAIN c : i > k /\ c[i].type \in Numbered =>
    /\ Dist(va, c[i].nr) <= Dist(va, vr)
    /\ \A j \in DOMAIN c :
         j > i /\ c[j].type \in Numbered =>
           Dist(va, c[i].nr) <= Dist(va, c[j].nr)

\* One direction: va and vs of the sender, vr of the receiver, the frames to
\* the receiver behind the k-th and the frames back behind the m-th.
Fits(va, vs, vr, c, k, b, m) ==
  /\ Dist(va, vr) <= Dist(va, vs)
  /\ IFramesFit(c, k, vr, vs)
  /\ AcksFit(b, m, va, vr)

LEMMA AtFacts ==
  /\ \A x \in Seqno, n \in Offset : At(x, n) = x => n = 0
  /\ \A x \in Seqno, n \in Offset :
       n > 0 - Window =>
         n - 1 \in Offset /\ At(Plus(x, 1), n - 1) = At(x, n)
  BY ModulusAssumption, WindowAssumption DEF At, Offset, Seqno, Plus

\* Where an I frame from the sender's window is, seen from V(R).
LEMMA AtDist ==
  ASSUME NEW va \in Seqno, NEW vr \in Seqno, NEW vs \in Seqno, NEW n \in Seqno,
         Dist(va, vr) <= Dist(va, vs), Dist(va, vs) <= Window,
         Dist(va, n) < Dist(va, vs)
  PROVE  LET x == Dist(va, n) - Dist(va, vr)
         IN  x \in Offset /\ n = At(vr, x) /\ x < Dist(vr, vs)
  BY ModulusAssumption, WindowAssumption DEF At, Offset, Seqno, Dist

\* Distances along one window.
LEMMA DistOrder ==
  ASSUME NEW va \in Seqno, NEW a \in Seqno, NEW b \in Seqno,
         Dist(va, a) <= Dist(va, b)
  PROVE  /\ Dist(a, b) = Dist(va, b) - Dist(va, a)
         /\ Dist(a, b) = 0 => a = b
  BY ModulusAssumption DEF Dist, Seqno

\* V(R) goes on by one.
LEMMA DistNext ==
  ASSUME NEW va \in Seqno, NEW vr \in Seqno, NEW vs \in Seqno,
         Dist(va, vr) <= Dist(va, vs), 0 < Dist(vr, vs)
  PROVE  /\ Plus(vr, 1) \in Seqno
         /\ Dist(va, Plus(vr, 1)) = Dist(va, vr) + 1
         /\ Dist(va, Plus(vr, 1)) <= Dist(va, vs)
         /\ Dist(Plus(vr, 1), vs) = Dist(vr, vs) - 1
  BY ModulusAssumption DEF Dist, Seqno, Plus

LEMMA TailOf ==
  ASSUME NEW c \in Seq(Frame), c # <<>>
  PROVE  /\ Tail(c) \in Seq(Frame) /\ Len(Tail(c)) = Len(c) - 1
         /\ \A i \in DOMAIN Tail(c) :
              i + 1 \in DOMAIN c /\ Tail(c)[i] = c[i + 1]
         /\ 1 \in DOMAIN c /\ Head(c) = c[1] /\ c[1] \in Frame
         /\ Len(c) \in Nat
<1>1. Len(c) \in Nat /\ Len(c) # 0
  BY EmptySeq
<1>2. Tail(c) \in Seq(Frame) /\ Len(Tail(c)) = Len(c) - 1
  BY <1>1, HeadTailProperties
<1>3. DOMAIN Tail(c) = 1 .. Len(c) - 1 /\ DOMAIN c = 1 .. Len(c)
  BY <1>1, <1>2
<1>4. \A i \in 1 .. Len(c) - 1 : Tail(c)[i] = c[i + 1]
  BY <1>1, <1>3
<1>5. 1 \in DOMAIN c /\ Head(c) = c[1] /\ c[1] \in Frame
  BY <1>1, <1>3
<1> QED
  BY <1>1, <1>2, <1>3, <1>4, <1>5

LEMMA ConcatOf ==
  ASSUME NEW c \in Seq(Frame), NEW o \in Seq(Frame)
  PROVE  /\ c \o o \in Seq(Frame)
         /\ Len(c) \in Nat /\ DOMAIN c = 1 .. Len(c)
         /\ DOMAIN (c \o o) = 1 .. Len(c) + Len(o)
         /\ \A i \in DOMAIN c : i \in DOMAIN (c \o o) /\ (c \o o)[i] = c[i]
         /\ \A i \in DOMAIN (c \o o) :
              \/ i \in DOMAIN c
              \/ /\ i > Len(c) /\ i - Len(c) \in DOMAIN o
                 /\ (c \o o)[i] = o[i - Len(c)]
<1>1. Len(c) \in Nat /\ Len(o) \in Nat
      /\ DOMAIN c = 1 .. Len(c) /\ DOMAIN o = 1 .. Len(o)
  OBVIOUS
<1>2. /\ c \o o \in Seq(Frame) /\ Len(c \o o) = Len(c) + Len(o)
      /\ \A i \in 1 .. Len(c) + Len(o) :
           (c \o o)[i] = IF i <= Len(c) THEN c[i] ELSE o[i - Len(c)]
  BY ConcatProperties
<1>3. DOMAIN (c \o o) = 1 .. Len(c) + Len(o)
  BY <1>1, <1>2
<1> QED
  BY <1>1, <1>2, <1>3

-----------------------------------------------------------------------------
(* What happens to I frames and acknowledgements in flight.                *)

\* A frame leaves the channel without effect on V(R).
LEMMA IFramesTail ==
  ASSUME NEW c \in Seq(Frame), c # <<>>, NEW k \in Nat, NEW m \in Nat,
         m >= k - 1, NEW vr, NEW vs, IFramesFit(c, k, vr, vs)
  PROVE  IFramesFit(Tail(c), m, vr, vs)
<1>1. PICK x \in [DOMAIN c -> Offset] :
        \A i \in DOMAIN c : i > k /\ c[i].type = "I" =>
          /\ c[i].ns = At(vr, x[i]) /\ x[i] < Dist(vr, vs)
          /\ \A j \in DOMAIN c :
               j > k /\ j < i /\ c[j].type = "I" => x[j] < x[i] + Window
  BY DEF IFramesFit
<1> DEFINE t == Tail(c)
           y == [i \in DOMAIN t |-> x[i + 1]]
<1>2. \A i \in DOMAIN t : i \in Nat /\ i + 1 \in DOMAIN c /\ t[i] = c[i + 1]
  <2>1. t \in Seq(Frame)
    BY TailOf
  <2> QED
    BY <2>1, TailOf
<1> HIDE DEF t
<1>3. y \in [DOMAIN t -> Offset]
  BY <1>2
<1>4. ASSUME NEW i \in DOMAIN t, i > m, t[i].type = "I"
      PROVE  /\ t[i].ns = At(vr, y[i]) /\ y[i] < Dist(vr, vs)
             /\ \A j \in DOMAIN t :
                  j > m /\ j < i /\ t[j].type = "I" => y[j] < y[i] + Window
  <2>1. i + 1 \in DOMAIN c /\ i + 1 > k /\ t[i] = c[i + 1] /\ y[i] = x[i + 1]
    BY <1>2, <1>4
  <2>2. \A j \in DOMAIN t :
          /\ j + 1 \in DOMAIN c /\ t[j] = c[j + 1] /\ y[j] = x[j + 1]
          /\ j > m => j + 1 > k
          /\ j < i => j + 1 < i + 1
    BY <1>2
  <2> HIDE DEF y
  <2> QED
    BY <1>1, <1>4, <2>1, <2>2
<1> HIDE DEF y
<1> QED
  BY <1>3, <1>4 DEF IFramesFit, t

\* The next I frame in sequence is one the sender has sent, and what is
\* behind it fits the V(R) after it.
LEMMA IFramesAccept ==
  ASSUME NEW c \in Seq(Frame), c # <<>>,
         NEW vr \in Seqno, NEW vs \in Seqno, IFramesFit(c, 0, vr, vs),
         c[1].type = "I", c[1].ns = vr
  PROVE  /\ 0 < Dist(vr, vs)
         /\ IFramesFit(Tail(c), 0, Plus(vr, 1), vs)
<1>1. PICK x \in [DOMAIN c -> Offset] :
        \A i \in DOMAIN c : i > 0 /\ c[i].type = "I" =>
          /\ c[i].ns = At(vr, x[i]) /\ x[i] < Dist(vr, vs)
          /\ \A j \in DOMAIN c :
               j > 0 /\ j < i /\ c[j].type = "I" => x[j] < x[i] + Window
  BY DEF IFramesFit
<1> DEFINE t == Tail(c)
           y == [i \in DOMAIN t |-> IF t[i].type = "I" THEN x[i + 1] - 1
                                                       ELSE 0 - Window]
<1>2. /\ \A i \in DOMAIN t :
           i \in Nat /\ i > 0 /\ i + 1 \in DOMAIN c /\ t[i] = c[i + 1]
      /\ 1 \in DOMAIN c
  <2>1. t \in Seq(Frame)
    BY TailOf
  <2> QED
    BY <2>1, TailOf
<1> HIDE DEF t
<1>3. x[1] = 0 /\ 0 < Dist(vr, vs)
  <2>1. x[1] \in Offset /\ vr = At(vr, x[1]) /\ x[1] < Dist(vr, vs)
    BY <1>1, <1>2
  <2> QED
    BY <2>1, AtFacts
<1>4. \A i \in DOMAIN t : t[i].type = "I" =>
        /\ x[i + 1] \in Offset /\ x[i + 1] > 0 - Window
        /\ t[i].ns = At(vr, x[i + 1]) /\ x[i + 1] < Dist(vr, vs)
  <2> SUFFICES ASSUME NEW i \in DOMAIN t, t[i].type = "I"
               PROVE  /\ x[i + 1] \in Offset /\ x[i + 1] > 0 - Window
                      /\ t[i].ns = At(vr, x[i + 1])
                      /\ x[i + 1] < Dist(vr, vs)
    OBVIOUS
  <2>1. /\ i + 1 \in DOMAIN c /\ i + 1 > 0 /\ 1 < i + 1 /\ 1 > 0
        /\ c[i + 1] = t[i] /\ 1 \in DOMAIN c
    BY <1>2
  <2>2. /\ x[i + 1] \in Offset /\ t[i].ns = At(vr, x[i + 1])
        /\ x[i + 1] < Dist(vr, vs) /\ x[1] < x[i + 1] + Window
    BY <1>1, <2>1
  <2>3. x[i + 1] > 0 - Window
    BY <1>3, <2>2, WindowAssumption, ModulusAssumption DEF Offset
  <2> QED
    BY <2>2, <2>3
<1>5. Dist(Plus(vr, 1), vs) = Dist(vr, vs) - 1
  BY <1>3, DistNext, DistNat
<1>6. y \in [DOMAIN t -> Offset]
  <2>1. 0 - Window \in Offset
    BY WindowAssumption, ModulusAssumption DEF Offset
  <2> QED
    BY <1>4, <2>1, AtFacts
<1>7. ASSUME NEW i \in DOMAIN t, i > 0, t[i].type = "I"
      PROVE  /\ t[i].ns = At(Plus(vr, 1), y[i])
             /\ y[i] < Dist(Plus(vr, 1), vs)
             /\ \A j \in DOMAIN t :
                  j > 0 /\ j < i /\ t[j].type = "I" => y[j] < y[i] + Window
  <2>1. y[i] = x[i + 1] - 1 /\ x[i + 1] \in Offset
    BY <1>4, <1>7
  <2>2. t[i].ns = At(Plus(vr, 1), y[i])
    BY <1>4, <1>7, <2>1, AtFacts
  <2>3. y[i] < Dist(Plus(vr, 1), vs)
    <3>1. x[i + 1] < Dist(vr, vs) /\ Dist(vr, vs) \in Nat
      BY <1>4, <1>7, DistNat
    <3> QED
      BY <1>5, <2>1, <3>1, WindowAssumption, ModulusAssumption DEF Offset
  <2>4. ASSUME NEW j \in DOMAIN t, j > 0, j < i, t[j].type = "I"
        PROVE  y[j] < y[i] + Window
    <3>1. y[j] = x[j + 1] - 1 /\ x[j + 1] \in Offset
      BY <1>4, <2>4
    <3>2. /\ i + 1 \in DOMAIN c /\ c[i + 1] = t[i] /\ i + 1 > 0
          /\ j + 1 \in DOMAIN c /\ c[j + 1] = t[j] /\ j + 1 > 0
          /\ j + 1 < i + 1
      BY <1>2, <2>4
    <3>3. x[j + 1] < x[i + 1] + Window
      BY <1>1, <1>7, <2>4, <3>2
    <3> HIDE DEF y
    <3> QED
      BY <2>1, <3>1, <3>3, WindowAssumption, ModulusAssumption DEF Offset
  <2> QED
    BY <2>2, <2>3, <2>4
<1> HIDE DEF y
<1> QED
  BY <1>3, <1>6, <1>7 DEF IFramesFit, t

\* The sender appends frames: I frames from its window, with V(S) going on.
LEMMA IFramesAppend ==
  ASSUME NEW c \in Seq(Frame), NEW o \in Seq(Frame), NEW k \in Nat,
         NEW va \in Seqno, NEW vr \in Seqno, NEW vs \in Seqno,
         NEW ws \in Seqno,
         Dist(va, vr) <= Dist(va, vs), Dist(va, vs) <= Dist(va, ws),
         Dist(va, ws) <= Window, IFramesFit(c, k, vr, vs),
         \A i \in DOMAIN o : o[i].type = "I" =>
           o[i].ns \in Seqno /\ Dist(va, o[i].ns) < Dist(va, ws)
  PROVE  IFramesFit(c \o o, k, vr, ws)
<1>1. PICK x \in [DOMAIN c -> Offset] :
        \A i \in DOMAIN c : i > k /\ c[i].type = "I" =>
          /\ c[i].ns = At(vr, x[i]) /\ x[i] < Dist(vr, vs)
          /\ \A j \in DOMAIN c :
               j > k /\ j < i /\ c[j].type = "I" => x[j] < x[i] + Window
  BY DEF IFramesFit
<1> DEFINE t == c \o o
           y == [i \in DOMAIN t |->
                   IF i \in DOMAIN c THEN x[i]
                   ELSE IF t[i].type = "I"
                   THEN Dist(va, t[i].ns) - Dist(va, vr)
                   ELSE 0 - Window]
<1>2. /\ t \in Seq(Frame) /\ Len(c) \in Nat /\ DOMAIN c = 1 .. Len(c)
      /\ DOMAIN t \subseteq Nat
      /\ \A i \in DOMAIN c : i \in DOMAIN t /\ t[i] = c[i]
      /\ \A i \in DOMAIN t :
           \/ i \in DOMAIN c
           \/ i > Len(c) /\ i - Len(c) \in DOMAIN o /\ t[i] = o[i - Len(c)]
  <2>1. /\ Len(c) \in Nat /\ DOMAIN c = 1 .. Len(c) /\ t \in Seq(Frame)
    BY ConcatOf
  <2>2. DOMAIN t \subseteq Nat
    BY <2>1
  <2> QED
    BY <2>1, <2>2, ConcatOf
<1> HIDE DEF t
<1>3. /\ Dist(va, vr) \in Nat /\ Dist(va, vs) \in Nat /\ Dist(va, ws) \in Nat
      /\ Dist(vr, vs) = Dist(va, vs) - Dist(va, vr)
      /\ Dist(vr, ws) = Dist(va, ws) - Dist(va, vr)
      /\ Dist(va, vr) <= Dist(va, ws)
  <2>1. Dist(va, vr) \in Nat /\ Dist(va, vs) \in Nat /\ Dist(va, ws) \in Nat
    BY DistNat
  <2>2. Dist(va, vr) <= Dist(va, ws)
    BY <2>1
  <2> QED
    BY <2>1, <2>2, DistOrder
<1>4. \A i \in DOMAIN t \ DOMAIN c : t[i].type = "I" =>
        /\ t[i].ns \in Seqno /\ Dist(va, t[i].ns) \in Nat
        /\ Dist(va, t[i].ns) < Dist(va, ws)
  BY <1>2, DistNat
<1>5. \A i \in DOMAIN t \ DOMAIN c : t[i].type = "I" =>
        LET z == Dist(va, t[i].ns) - Dist(va, vr)
        IN  z \in Offset /\ t[i].ns = At(vr, z) /\ z < Dist(vr, ws)
  BY <1>3, <1>4, AtDist
<1>6. y \in [DOMAIN t -> Offset]
  <2>1. 0 - Window \in Offset
    BY WindowAssumption, ModulusAssumption DEF Offset
  <2> QED
    BY <1>5, <2>1
<1>7. ASSUME NEW i \in DOMAIN t, i > k, t[i].type = "I"
      PROVE  /\ t[i].ns = At(vr, y[i]) /\ y[i] < Dist(vr, ws)
             /\ \A j \in DOMAIN t :
                  j > k /\ j < i /\ t[j].type = "I" => y[j] < y[i] + Window
  <2>1. CASE i \in DOMAIN c
    <3>1. y[i] = x[i] /\ t[i] = c[i] /\ x[i] \in Offset
      BY <1>2, <2>1
    <3>2. \A j \in DOMAIN t : j < i => j \in DOMAIN c /\ y[j] = x[j] /\ t[j] = c[j]
      BY <1>2, <2>1
    <3>3. x[i] < Dist(vr, ws)
      <4>1. x[i] < Dist(vr, vs)
        BY <1>1, <1>7, <2>1, <3>1
      <4> QED
        BY <1>3, <3>1, <4>1 DEF Offset
    <3> HIDE DEF y
    <3> QED
      BY <1>1, <1>7, <2>1, <3>1, <3>2, <3>3
  <2>2. CASE i \notin DOMAIN c
    <3>1. y[i] = Dist(va, t[i].ns) - Dist(va, vr)
      BY <1>7, <2>2
    <3>2. t[i].ns = At(vr, y[i]) /\ y[i] < Dist(vr, ws)
      BY <1>5, <1>7, <2>2, <3>1
    <3>3. ASSUME NEW j \in DOMAIN t, j > k, j < i, t[j].type = "I"
          PROVE  y[j] < y[i] + Window
      <4>1. Dist(va, t[i].ns) \in Nat
        BY <1>4, <1>7, <2>2
      <4>2. CASE j \in DOMAIN c
        <5>1. y[j] = x[j] /\ t[j] = c[j] /\ x[j] \in Offset
          BY <1>2, <4>2
        <5>2. x[j] < Dist(vr, vs)
          BY <1>1, <3>3, <4>2, <5>1
        <5> HIDE DEF y
        <5> QED
          BY <1>3, <3>1, <4>1, <5>1, <5>2, WindowAssumption,
             ModulusAssumption DEF Offset
      <4>3. CASE j \notin DOMAIN c
        <5>1. y[j] = Dist(va, t[j].ns) - Dist(va, vr)
          BY <3>3, <4>3
        <5>2. Dist(va, t[j].ns) \in Nat /\ Dist(va, t[j].ns) < Dist(va, ws)
          BY <1>4, <3>3, <4>3
        <5> HIDE DEF y
        <5> QED
          BY <1>3, <3>1, <4>1, <5>1, <5>2, WindowAssumption,
             ModulusAssumption
      <4> QED
        BY <4>2, <4>3
    <3> QED
      BY <3>2, <3>3
  <2> QED
    BY <2>1, <2>2
<1> HIDE DEF y
<1> QED
  BY <1>6, <1>7 DEF IFramesFit, t

\* A channel without I frames behind the k-th frame.
LEMMA NoIFrames ==
  ASSUME NEW c \in Seq(Frame), NEW k, NEW vr, NEW vs,
         \A i \in DOMAIN c : i > k => c[i].type # "I"
  PROVE  IFramesFit(c, k, vr, vs)
<1> DEFINE x == [i \in DOMAIN c |-> 0 - Window]
<1>1. x \in [DOMAIN c -> Offset]
  BY WindowAssumption, ModulusAssumption DEF Offset
<1> HIDE DEF x
<1> QED
  BY <1>1 DEF IFramesFit

\* A frame leaves the channel; if it was numbered, V(A) follows its N(R).
LEMMA AcksTail ==
  ASSUME NEW c \in Seq(Frame), c # <<>>, NEW k \in Nat, NEW m \in Nat,
         m >= k - 1, NEW va, NEW vr, AcksFit(c, k, va, vr)
  PROVE  AcksFit(Tail(c), m, va, vr)
<1> DEFINE t == Tail(c)
<1>1. \A i \in DOMAIN t : i \in Nat /\ i + 1 \in DOMAIN c /\ t[i] = c[i + 1]
  <2>1. t \in Seq(Frame)
    BY TailOf
  <2> QED
    BY <2>1, TailOf
<1> HIDE DEF t
<1>2. \A i \in DOMAIN t : i > m => i + 1 > k
  BY <1>1
<1>3. \A i, j \in DOMAIN t : j > i => j + 1 > i + 1
  BY <1>1
<1> QED
  BY <1>1, <1>2, <1>3 DEF AcksFit, t

LEMMA AcksAdvance ==
  ASSUME NEW c \in Seq(Frame), c # <<>>, c[1].type \in Numbered,
         NEW va \in Seqno, NEW vr \in Seqno, AcksFit(c, 0, va, vr)
  PROVE  /\ c[1].nr \in Seqno /\ Dist(va, c[1].nr) <= Dist(va, vr)
         /\ AcksFit(Tail(c), 0, c[1].nr, vr)
<1> DEFINE t  == Tail(c)
           nr == c[1].nr
<1>1. nr \in Seqno /\ 1 \in DOMAIN c
  BY TailOf DEF Frame
<1>2. Dist(va, nr) <= Dist(va, vr)
  BY <1>1 DEF AcksFit
<1>3. \A i \in DOMAIN t :
        /\ i \in Nat /\ i > 0 /\ i + 1 \in DOMAIN c /\ t[i] = c[i + 1]
        /\ t[i].nr \in Seqno
  <2>1. t \in Seq(Frame)
    BY TailOf
  <2>2. \A i \in DOMAIN t : i \in Nat /\ i > 0 /\ t[i] \in Frame
    <3> HIDE DEF t
    <3> QED
      BY <2>1
  <2>3. \A i \in DOMAIN t : t[i].nr \in Seqno
    BY <2>2 DEF Frame
  <2> QED
    BY <2>2, <2>3, TailOf
<1> HIDE DEF t
<1>4. ASSUME NEW i \in DOMAIN t, t[i].type \in Numbered
      PROVE  /\ Dist(va, nr) <= Dist(va, t[i].nr)
             /\ Dist(va, t[i].nr) <= Dist(va, vr)
             /\ \A j \in DOMAIN t :
                  j > i /\ t[j].type \in Numbered =>
                    Dist(va, t[i].nr) <= Dist(va, t[j].nr)
  <2>1. /\ i + 1 \in DOMAIN c /\ i + 1 > 1 /\ i + 1 > 0 /\ 1 > 0
        /\ c[i + 1] = t[i] /\ 1 \in DOMAIN c
    BY <1>1, <1>3
  <2>2. \A j \in DOMAIN t :
          j + 1 \in DOMAIN c /\ t[j] = c[j + 1] /\ (j > i => j + 1 > i + 1)
    BY <1>3
  <2> QED
    BY <1>4, <2>1, <2>2 DEF AcksFit
<1>5. ASSUME NEW i \in DOMAIN t, t[i].type \in Numbered
      PROVE  /\ Dist(nr, t[i].nr) = Dist(va, t[i].nr) - Dist(va, nr)
             /\ Dist(va, t[i].nr) \in Nat
  BY <1>1, <1>3, <1>4, <1>5, DistOrder, DistNat
<1>6. /\ Dist(nr, vr) = Dist(va, vr) - Dist(va, nr)
      /\ Dist(va, vr) \in Nat /\ Dist(va, nr) \in Nat
  BY <1>1, <1>2, DistOrder, DistNat
<1> HIDE DEF nr
<1>7. ASSUME NEW i \in DOMAIN t, t[i].type \in Numbered
      PROVE  /\ Dist(nr, t[i].nr) <= Dist(nr, vr)
             /\ \A j \in DOMAIN t :
                  j > i /\ t[j].type \in Numbered =>
                    Dist(nr, t[i].nr) <= Dist(nr, t[j].nr)
  <2>1. Dist(nr, t[i].nr) <= Dist(nr, vr)
    BY <1>4, <1>5, <1>6, <1>7
  <2>2. ASSUME NEW j \in DOMAIN t, j > i, t[j].type \in Numbered
        PROVE  Dist(nr, t[i].nr) <= Dist(nr, t[j].nr)
    <3>1. Dist(va, t[i].nr) <= Dist(va, t[j].nr)
      BY <1>4, <1>7, <2>2
    <3>2. /\ Dist(nr, t[i].nr) = Dist(va, t[i].nr) - Dist(va, nr)
          /\ Dist(va, t[i].nr) \in Nat
      BY <1>5, <1>7
    <3>3. /\ Dist(nr, t[j].nr) = Dist(va, t[j].nr) - Dist(va, nr)
          /\ Dist(va, t[j].nr) \in Nat
      BY <1>5, <2>2
    <3> QED
      BY <1>6, <3>1, <3>2, <3>3
  <2> QED
    BY <2>1, <2>2
<1> QED
  BY <1>1, <1>2, <1>7 DEF AcksFit, t, nr

\* The receiver appends frames that carry its V(R), which may have gone on.
LEMMA AcksAppend ==
  ASSUME NEW c \in Seq(Frame), NEW o \in Seq(Frame), NEW k \in Nat,
         NEW va \in Seqno, NEW vr \in Seqno, NEW wr \in Seqno,
         Dist(va, vr) <= Dist(va, wr), AcksFit(c, k, va, vr),
         \A i \in DOMAIN o : o[i].type \in Numbered => o[i].nr = wr
  PROVE  AcksFit(c \o o, k, va, wr)
<1> DEFINE t == c \o o
<1>1. /\ t \in Seq(Frame) /\ Len(c) \in Nat /\ DOMAIN c = 1 .. Len(c)
      /\ \A i \in DOMAIN c : i \in DOMAIN t /\ t[i] = c[i]
      /\ \A i \in DOMAIN t :
           \/ i \in DOMAIN c
           \/ i > Len(c) /\ i - Len(c) \in DOMAIN o /\ t[i] = o[i - Len(c)]
  BY ConcatOf
<1>2. \A i \in DOMAIN t : i \in Nat /\ t[i].nr \in Seqno
  <2>1. \A i \in DOMAIN t : i \in Nat /\ t[i] \in Frame
    BY <1>1
  <2> QED
    BY <2>1 DEF Frame
<1> HIDE DEF t
<1>3. \A i \in DOMAIN t \ DOMAIN c : t[i].type \in Numbered => t[i].nr = wr
  BY <1>1
<1>4. /\ Dist(va, vr) \in Nat /\ Dist(va, wr) \in Nat
      /\ \A i \in DOMAIN t : Dist(va, t[i].nr) \in Nat
  BY <1>2, DistNat
<1>5. ASSUME NEW i \in DOMAIN t, i > k, t[i].type \in Numbered
      PROVE  Dist(va, t[i].nr) <= Dist(va, wr)
  <2>1. CASE i \in DOMAIN c
    <3>1. Dist(va, t[i].nr) <= Dist(va, vr)
      BY <1>1, <1>5, <2>1 DEF AcksFit
    <3> QED
      BY <1>4, <3>1
  <2>2. CASE i \notin DOMAIN c
    BY <1>3, <1>4, <1>5, <2>2
  <2> QED
    BY <2>1, <2>2
<1>6. ASSUME NEW i \in DOMAIN t, i > k, t[i].type \in Numbered,
             NEW j \in DOMAIN t, j > i, t[j].type \in Numbered
      PROVE  Dist(va, t[i].nr) <= Dist(va, t[j].nr)
  <2>1. CASE j \in DOMAIN c
    <3>1. i \in DOMAIN c
      BY <1>1, <1>2, <1>6, <2>1
    <3>2. t[i] = c[i] /\ t[j] = c[j]
      BY <1>1, <2>1, <3>1
    <3> QED
      BY <1>6, <2>1, <3>1, <3>2 DEF AcksFit
  <2>2. CASE j \notin DOMAIN c
    <3>1. t[j].nr = wr
      BY <1>3, <1>6, <2>2
    <3> QED
      BY <1>5, <1>6, <3>1
  <2> QED
    BY <2>1, <2>2
<1> QED
  BY <1>5, <1>6 DEF AcksFit, t

LEMMA NoAcks ==
  ASSUME NEW c, NEW k, NEW va, NEW vr,
         \A i \in DOMAIN c : i > k => c[i].type \notin Numbered
  PROVE  AcksFit(c, k, va, vr)
  BY DEF AcksFit

-----------------------------------------------------------------------------
(* What the handlers of a station in data transfer send.                   *)

\* V(A) to V(S) are the numbers of the frames in the ack queue, unless the
\* counter of the ack queue was left too large by an earlier link.
Exact(s) ==
  s.ack_queue_count = Len(s.ack_queue) =>
    Len(s.ack_queue) = Dist(s.va, s.vs)

\* The same before x75_kick, when frames may have gone back to be sent again.
Resendable(s) ==
  s.ack_queue_count = Len(s.ack_queue) =>
    \/ Len(s.ack_queue) = Dist(s.va, s.vs)
    \/ Len(s.ack_queue) = 0 /\ Dist(s.va, s.vs) <= Len(s.write_queue)

\* The fields that the queues and the acknowledgements do not touch.
SameRest(s, q) ==
  /\ q.state = s.state /\ q.vr = s.vr /\ q.rx = s.rx /\ q.up = s.up
  /\ q.t2_cb = s.t2_cb
  /\ "PEER_RX_BUSY" \in q.condition => "PEER_RX_BUSY" \in s.condition

\* S frames that carry vr.
Replies(o, vr) ==
  \A i \in DOMAIN o : o[i].type \in {"RR", "REJ"} /\ o[i].nr = vr

\* I frames numbered from the window va .. vs - 1 that carry vr.
IFrames(o, va, vs, vr) ==
  \A i \in DOMAIN o :
    /\ o[i].type = "I" /\ o[i].nr = vr
    /\ o[i].ns \in Seqno /\ Dist(va, o[i].ns) < Dist(va, vs)
    /\ o[i].data \in Data

\* The numbers of a burst.
LEMMA BurstNumbers ==
  ASSUME NEW va \in Seqno, NEW start \in Seqno, Dist(va, start) <= Window,
         NEW n \in Nat, n <= Dist(start, Plus(va, Window))
  PROVE  \A i \in 0 .. n :
           /\ Plus(start, i) \in Seqno
           /\ Dist(va, Plus(start, i)) = Dist(va, start) + i
  BY ModulusAssumption, WindowAssumption DEF Plus, Dist, Seqno

\* The frames of a burst.
LEMMA BurstFrames ==
  ASSUME NEW s, Core(s), NEW start \in Seqno, Dist(s.va, start) <= Window,
         NEW n \in Nat, n <= Len(s.write_queue),
         n <= Dist(start, Plus(s.va, Window))
  PROVE  LET b == [i \in 1 .. n |-> IFrame(s, i, Plus(start, i - 1))]
         IN  /\ b \in Seq(Frame)
             /\ IFrames(b, s.va, Plus(start, n), s.vr)
<1> DEFINE b == [i \in 1 .. n |-> IFrame(s, i, Plus(start, i - 1))]
<1>1. /\ s.va \in Seqno /\ s.vr \in Seqno /\ s.write_queue \in Seq(Data)
  BY DEF Core, Station
<1>2. \A i \in 0 .. n :
        /\ Plus(start, i) \in Seqno
        /\ Dist(s.va, Plus(start, i)) = Dist(s.va, start) + i
  BY <1>1, BurstNumbers
<1>3. Dist(s.va, start) \in Nat
  BY <1>1, DistNat
<1>4. ASSUME NEW i \in 1 .. n
      PROVE  /\ b[i] \in Frame /\ b[i].type = "I" /\ b[i].nr = s.vr
             /\ b[i].ns \in Seqno
             /\ Dist(s.va, b[i].ns) < Dist(s.va, Plus(start, n))
             /\ b[i].data \in Data
  <2>1. i - 1 \in 0 .. n /\ n \in 0 .. n /\ i - 1 < n
    OBVIOUS
  <2>2. /\ Plus(start, i - 1) \in Seqno
        /\ Dist(s.va, Plus(start, i - 1)) < Dist(s.va, Plus(start, n))
    BY <1>2, <1>3, <2>1
  <2>3. s.write_queue[i] \in Data
    BY <1>1
  <2>4. b[i] = IFrame(s, i, Plus(start, i - 1))
    OBVIOUS
  <2> HIDE DEF b
  <2>5. /\ b[i] \in Frame /\ b[i].type = "I" /\ b[i].nr = s.vr
        /\ b[i].ns = Plus(start, i - 1) /\ b[i].data = s.write_queue[i]
    BY <1>1, <2>2, <2>3, <2>4 DEF IFrame, Frame, FrameType
  <2> QED
    BY <2>2, <2>3, <2>5
<1>5. b \in Seq(Frame) /\ DOMAIN b = 1 .. n
  <2>1. \A i \in 1 .. n : IFrame(s, i, Plus(start, i - 1)) \in Frame
    BY <1>4
  <2> QED
    BY <2>1
<1> HIDE DEF b
<1> QED
  BY <1>4, <1>5 DEF IFrames, b

\* I frames from the window go out behind what the handler has already sent,
\* V(S) never goes back, and the queues are exact again.
Sends(s, q) ==
  /\ SameRest(s, q) /\ q.va = s.va /\ Exact(q)
  /\ Dist(s.va, s.vs) <= Dist(s.va, q.vs)
  /\ \E b \in Seq(Frame) :
       q.out = s.out \o b /\ IFrames(b, s.va, q.vs, s.vr)
  /\ s.write_queue = <<>> =>
       /\ q.out = s.out /\ q.vs = s.vs
       /\ q.write_queue = <<>> /\ q.ack_queue = s.ack_queue

LEMMA KickSends ==
  ASSUME NEW s, Core(s), "PEER_RX_BUSY" \notin s.condition, Resendable(s)
  PROVE  Sends(s, x75_kick(s))
<1> DEFINE start == IF s.ack_queue_count = 0 THEN s.va ELSE s.vs
           end   == Plus(s.va, Window)
           len   == Len(s.write_queue)
           n     == Min2(len, Dist(start, end))
           b     == [i \in 1 .. n |-> IFrame(s, i, Plus(start, i - 1))]
           q     == x75_kick(s)
<1>1. /\ s \in Station /\ s.va \in Seqno /\ s.vs \in Seqno
      /\ s.write_queue \in Seq(Data) /\ len \in Nat
      /\ s.ack_queue \in Seq(Data) /\ Len(s.ack_queue) \in Nat
      /\ s.ack_queue_count \in Nat /\ s.write_queue_count \in Nat
      /\ s.write_queue_count >= len /\ s.ack_queue_count >= Len(s.ack_queue)
      /\ Dist(s.va, s.vs) <= Window /\ Dist(s.va, s.vs) \in Nat
  BY CoreTypes, DistNat DEF Numbers
<1>2. s.out \in Seq(Frame) /\ s.out = s.out \o <<>> /\ <<>> \in Seq(Frame)
  <2>1. s.out \in Seq(Frame) /\ <<>> \in Seq(Frame)
    BY <1>1 DEF Station
  <2> QED
    BY <2>1
<1>3. Dist(s.va, end) = Window /\ s.va # end /\ Window \in Nat
  BY <1>1, ModulusAssumption, WindowAssumption DEF Plus, Dist, Seqno
<1>4. /\ \E e \in Seq(Frame) :
           s.out = s.out \o e /\ IFrames(e, s.va, s.vs, s.vr)
      /\ Dist(s.va, s.vs) <= Dist(s.va, s.vs)
  <2>1. IFrames(<<>>, s.va, s.vs, s.vr)
    BY DEF IFrames
  <2>2. Dist(s.va, s.vs) <= Dist(s.va, s.vs)
    BY <1>1
  <2> QED
    BY <1>2, <2>1, <2>2, Zenon
<1>5. CASE start = end \/ s.write_queue_count = 0
  <2>1. q = s
    BY <1>5 DEF x75_kick
  <2> HIDE DEF q
  <2>2. Exact(s)
    <3>1. CASE start = end
      <4>1. s.ack_queue_count # 0
        BY <1>3, <3>1
      <4> QED
        BY <1>1, <4>1 DEF Exact, Resendable
    <3>2. CASE s.write_queue_count = 0
      <4>1. len = 0
        BY <1>1, <3>2
      <4> QED
        BY <1>1, <4>1 DEF Exact, Resendable
    <3> QED
      BY <1>5, <3>1, <3>2
  <2>3. SameRest(s, s)
    BY DEF SameRest
  <2> QED
    BY <1>4, <2>1, <2>2, <2>3, Zenon DEF Sends, q
<1>6. CASE ~ (start = end \/ s.write_queue_count = 0) /\ s.write_queue = <<>>
  <2>1. q = [s EXCEPT !.crashed = TRUE]
    BY <1>6 DEF x75_kick
  <2> HIDE DEF q
  <2>2. /\ SameRest(s, q) /\ q.va = s.va /\ q.vs = s.vs /\ q.out = s.out
        /\ q.ack_queue = s.ack_queue /\ q.write_queue = <<>>
        /\ q.ack_queue_count = s.ack_queue_count
    BY <1>1, <1>6, <2>1 DEF Station, SameRest
  <2>3. len = 0
    BY <1>6
  <2>4. Exact(q)
    BY <1>1, <2>2, <2>3 DEF Exact, Resendable
  <2> QED
    BY <1>4, <2>2, <2>4, Zenon DEF Sends, q
<1>7. CASE ~ (start = end \/ s.write_queue_count = 0) /\ s.write_queue # <<>>
  <2>1. q = SendBurst(s, start, n)
    BY <1>7 DEF x75_kick
  <2>2. start \in Seqno /\ Dist(s.va, start) <= Window
    BY <1>1, <1>3, PlusDist
  <2>2a. end \in Seqno
    <3>1. Window \in Seqno
      BY WindowAssumption, ModulusAssumption DEF Seqno
    <3> QED
      BY <1>1, <3>1, PlusDist
  <2>3. /\ n \in Nat /\ n <= len /\ n <= Dist(start, end)
        /\ n = len \/ n = Dist(start, end)
    <3>1. Dist(start, end) \in Nat
      <4> HIDE DEF start, end
      <4> QED
        BY <2>2, <2>2a, DistNat
    <3> HIDE DEF start, end, len
    <3> QED
      BY <1>1, <3>1 DEF Min2
  <2>4. /\ b \in Seq(Frame) /\ IFrames(b, s.va, Plus(start, n), s.vr)
    <3> HIDE DEF start, n
    <3> QED
      BY <2>2, <2>3, BurstFrames
  <2>5. /\ Dist(s.va, Plus(start, n)) = Dist(s.va, start) + n
        /\ Plus(start, n) \in Seqno /\ Dist(s.va, start) \in Nat
    <3> HIDE DEF start, n
    <3>1. n \in 0 .. n
      BY <2>3
    <3> QED
      BY <1>1, <2>2, <2>3, <3>1, BurstNumbers, DistNat
  <2>6. /\ q.state = s.state /\ q.va = s.va /\ q.vs = Plus(start, n)
        /\ q.vr = s.vr /\ q.rx = s.rx /\ q.up = s.up /\ q.t2_cb = s.t2_cb
        /\ q.condition = s.condition \ {"ACK_PENDING"}
        /\ q.out = s.out \o b
        /\ q.ack_queue = s.ack_queue \o SubSeq(s.write_queue, 1, n)
        /\ q.ack_queue_count = s.ack_queue_count + n
    <3> HIDE DEF q, start, n
    <3> QED
      BY <1>1, <2>1 DEF Station, SendBurst, x75_start_t1timer
  <2>7. Len(q.ack_queue) = Len(s.ack_queue) + n
    <3> DEFINE head == SubSeq(s.write_queue, 1, n)
    <3>1. head \in Seq(Data) /\ Len(head) = n
      <4> HIDE DEF n, start
      <4> QED
        BY <1>1, <2>3, SubSeqProperties
    <3> HIDE DEF head, q
    <3>2. q.ack_queue = s.ack_queue \o head
      BY <2>6 DEF head
    <3> QED
      BY <1>1, <3>1, <3>2, ConcatProperties
  <2>8. Dist(s.va, s.vs) <= Dist(s.va, q.vs) /\ Exact(q)
    <3>1. CASE s.ack_queue_count = 0
      <4>1. start = s.va /\ Dist(s.va, start) = 0
        BY <1>1, <3>1, DistNat
      <4>2. /\ Len(s.ack_queue) = 0
            /\ Dist(s.va, s.vs) = 0 \/ Dist(s.va, s.vs) <= len
        BY <1>1, <3>1 DEF Resendable
      <4>3. Dist(start, end) = Window
        BY <1>3, <4>1
      <4> HIDE DEF q, n, start, end, len
      <4>4. Dist(s.va, q.vs) = n
        BY <2>3, <2>5, <2>6, <4>1
      <4>5. Dist(s.va, s.vs) <= n
        BY <1>1, <1>3, <2>3, <4>2, <4>3
      <4>6. Len(q.ack_queue) = n
        BY <2>3, <2>7, <4>2
      <4>7. Exact(q)
        BY <2>6, <4>4, <4>6, Zenon DEF Exact
      <4> QED
        BY <4>4, <4>5, <4>7
    <3>2. CASE s.ack_queue_count # 0
      <4>1. start = s.vs
        BY <3>2
      <4> HIDE DEF q, n, start, end, len
      <4>2. Dist(s.va, q.vs) = Dist(s.va, s.vs) + n
        BY <2>5, <2>6, <4>1
      <4>3. ASSUME q.ack_queue_count = Len(q.ack_queue)
            PROVE  Len(s.ack_queue) = Dist(s.va, s.vs)
        <5>1. s.ack_queue_count = Len(s.ack_queue)
          <6>1. \A c, l, m \in Nat : c + m = l + m => c = l
            OBVIOUS
          <6>2. s.ack_queue_count + n = Len(s.ack_queue) + n
            BY <2>6, <2>7, <4>3
          <6> QED
            BY <1>1, <2>3, <6>1, <6>2, Zenon
        <5> QED
          BY <1>1, <3>2, <5>1 DEF Resendable
      <4>4. Exact(q)
        BY <2>6, <2>7, <4>2, <4>3 DEF Exact
      <4> QED
        BY <1>1, <2>3, <4>2, <4>4
    <3> QED
      BY <3>1, <3>2
  <2>9. SameRest(s, q)
    <3> HIDE DEF q
    <3> QED
      BY <2>6 DEF SameRest
  <2> HIDE DEF q, b, n, start
  <2> QED
    BY <1>7, <2>4, <2>6, <2>8, <2>9, Zenon DEF Sends, q
<1> QED
  BY <1>5, <1>6, <1>7

\* An acknowledgement from the window: V(A) becomes N(R).
LEMMA AckExact ==
  ASSUME NEW s, Core(s), Exact(s), NEW nr \in Seqno, x75_validate_nr(s, nr)
  PROVE  LET a == x75_frames_acked(s, nr)
         IN  /\ SameRest(s, a) /\ a.vs = s.vs /\ a.out = s.out
             /\ a.condition = s.condition
             /\ a.write_queue = s.write_queue
             /\ a.va = nr /\ Exact(a)
<1> DEFINE d    == Dist(s.va, nr)
           len  == Len(s.ack_queue)
           drop == Min2(d, len)
           adv  == IF s.ack_queue_count > len THEN d ELSE drop
           rest == SubSeq(s.ack_queue, drop + 1, len)
           a    == x75_frames_acked(s, nr)
<1>1. /\ s \in Station /\ s.va \in Seqno /\ s.vs \in Seqno
      /\ s.ack_queue \in Seq(Data) /\ len \in Nat
      /\ s.ack_queue_count \in Nat /\ s.ack_queue_count >= len
  BY CoreTypes DEF Numbers
<1>2. d \in Nat /\ Dist(s.va, s.vs) \in Nat /\ d <= Dist(s.va, s.vs)
  BY <1>1, DistNat DEF x75_validate_nr
<1>3. adv = d
  <2>1. CASE s.ack_queue_count > len
    BY <2>1
  <2>2. CASE ~ (s.ack_queue_count > len)
    <3>1. s.ack_queue_count = len
      <4> HIDE DEF len
      <4> QED
        BY <1>1, <2>2
    <3>2. len = Dist(s.va, s.vs)
      BY <3>1 DEF Exact
    <3> HIDE DEF d, len
    <3> QED
      BY <1>1, <1>2, <2>2, <3>2 DEF Min2
  <2> QED
    BY <2>1, <2>2
<1>4. Plus(s.va, d) = nr
  BY <1>1, PlusDist
<1>5. drop \in Nat /\ drop <= len
  <2> HIDE DEF d, len
  <2> QED
    BY <1>1, <1>2 DEF Min2
<1>6. a = [s EXCEPT !.va = nr, !.ack_queue = rest,
                    !.ack_queue_count = s.ack_queue_count - drop]
  <2>1. a = [s EXCEPT !.va = Plus(s.va, adv), !.ack_queue = rest,
                      !.ack_queue_count = s.ack_queue_count - drop]
    BY DEF x75_frames_acked
  <2> HIDE DEF a, adv, d, drop, rest
  <2> QED
    BY <1>3, <1>4, <2>1
<1>7. Len(rest) = len - drop
  <2> HIDE DEF drop
  <2> QED
    BY <1>1, <1>5, SubSeqProperties
<1> HIDE DEF a, rest, drop
<1>8. /\ SameRest(s, a) /\ a.vs = s.vs /\ a.out = s.out
      /\ a.condition = s.condition /\ a.write_queue = s.write_queue
      /\ a.va = nr /\ a.ack_queue = rest
      /\ a.ack_queue_count = s.ack_queue_count - drop
  BY <1>1, <1>6 DEF Station, SameRest
<1>9. Exact(a)
  <2> SUFFICES ASSUME s.ack_queue_count - drop = len - drop
               PROVE  len - drop = Dist(nr, s.vs)
    BY <1>7, <1>8, Zenon DEF Exact
  <2> HIDE DEF len
  <2>1. s.ack_queue_count = len
    BY <1>1, <1>5
  <2>2. len = Dist(s.va, s.vs)
    BY <2>1 DEF Exact, len
  <2>3. drop = d
    BY <1>1, <1>2, <2>2 DEF Min2, drop, d
  <2>4. Dist(nr, s.vs) = Dist(s.va, s.vs) - d
    BY <1>1, <1>2, DistOrder DEF d
  <2> QED
    BY <2>2, <2>3, <2>4
<1> QED
  BY <1>8, <1>9 DEF a

\* x75_check_iframes_acked comes to the same: what it leaves alone, V(A) is
\* already at N(R).
LEMMA CheckExact ==
  ASSUME NEW s, Core(s), Exact(s), s.state = 3, NEW nr \in Seqno,
         x75_validate_nr(s, nr)
  PROVE  LET a == x75_check_iframes_acked(s, nr)
         IN  /\ SameRest(s, a) /\ a.vs = s.vs /\ a.out = s.out
             /\ a.condition = s.condition
             /\ a.va = nr /\ Exact(a)
<1> DEFINE a == x75_frames_acked(s, nr)
           b == [x75_stop_t1timer(a) EXCEPT !.n2count = 0]
           c == x75_start_t1timer(a)
<1>1. /\ SameRest(s, a) /\ a.vs = s.vs /\ a.out = s.out
      /\ a.condition = s.condition /\ a.va = nr /\ Exact(a)
  BY AckExact
<1>2. a \in Station
  BY FramesAcked, CoreFacts DEF Keeps
<1> HIDE DEF a
<1>3. /\ SameRest(a, b) /\ b.vs = a.vs /\ b.out = a.out /\ b.va = a.va
      /\ b.condition = a.condition /\ (Exact(a) => Exact(b))
  BY <1>2 DEF Station, SameRest, x75_stop_t1timer, Exact
<1>4. /\ SameRest(a, c) /\ c.vs = a.vs /\ c.out = a.out /\ c.va = a.va
      /\ c.condition = a.condition /\ (Exact(a) => Exact(c))
  BY <1>2 DEF Station, SameRest, x75_start_t1timer, Exact
<1> HIDE DEF b, c
<1>5. /\ SameRest(s, b) /\ SameRest(s, c) /\ SameRest(s, s)
  BY <1>1, <1>3, <1>4 DEF SameRest
<1>6. CASE s.vs = nr
  BY <1>1, <1>3, <1>5, <1>6 DEF x75_check_iframes_acked, a, b
<1>7. CASE s.vs # nr /\ s.va # nr
  BY <1>1, <1>4, <1>5, <1>7 DEF x75_check_iframes_acked, a, c
<1>8. CASE s.vs # nr /\ s.va = nr
  BY <1>5, <1>8 DEF x75_check_iframes_acked
<1> QED
  BY <1>6, <1>7, <1>8

\* A numbered frame f in state 3, before the kick: V(A) becomes its N(R), an
\* I frame in sequence moves V(R) on and goes to the layer above, and all
\* that is sent is an S frame that carries the new V(R).
InSequence(s, f) == f.type = "I" /\ f.ns = s.vr

Takes(s, f, r) ==
  /\ r.state = 3 /\ r.up = s.up /\ r.t2_cb = s.t2_cb
  /\ "PEER_RX_BUSY" \notin r.condition
  /\ r.va = f.nr /\ r.vs = s.vs
  /\ r.vr = IF InSequence(s, f) THEN Plus(s.vr, 1) ELSE s.vr
  /\ r.rx = IF InSequence(s, f) THEN Append(s.rx, f.data) ELSE s.rx
  /\ Replies(r.out, r.vr)
  /\ Resendable(r)

\* An enquiry response, or none.
LEMMA ResponseFields ==
  ASSUME NEW s \in Station, s.out = <<>>, NEW cr, NEW pf
  PROVE  LET r == x75_check_need_response(s, cr, pf)
         IN  /\ SameRest(s, r) /\ r.va = s.va /\ r.vs = s.vs
             /\ SameQueues(s, r) /\ Replies(r.out, s.vr)
<1> DEFINE r == x75_check_need_response(s, cr, pf)
           f == [type |-> "RR", pf |-> TRUE, cr |-> "RESPONSE", ns |-> 0,
                 nr |-> s.vr, data |-> NoData]
<1>1. r = s \/ r = [s EXCEPT !.out = Append(s.out, f),
                             !.condition = s.condition \ {"ACK_PENDING"}]
  BY DEF Station, x75_check_need_response, x75_enquiry_response,
         ClearAckPending, x75_send_control, x75_transmit_buffer
<1>2. Replies(<<>>, s.vr) /\ Replies(<<f>>, s.vr)
  BY DEF Replies
<1>3. Append(s.out, f) = <<f>>
  OBVIOUS
<1> HIDE DEF r, f
<1>4. /\ r.out = s.out \/ r.out = <<f>>
      /\ SameRest(s, r) /\ r.va = s.va /\ r.vs = s.vs /\ SameQueues(s, r)
  <2>1. CASE r = s
    BY <2>1 DEF SameRest, SameQueues
  <2>2. CASE r = [s EXCEPT !.out = <<f>>,
                           !.condition = s.condition \ {"ACK_PENDING"}]
    BY <2>2 DEF Station, SameRest, SameQueues
  <2> QED
    BY <1>1, <1>3, <2>1, <2>2
<1> QED
  BY <1>2, <1>4 DEF r

LEMMA ValidateFields ==
  ASSUME NEW s, NEW r, r.va = s.va, r.vs = s.vs
  PROVE  \A nr : x75_validate_nr(r, nr) <=> x75_validate_nr(s, nr)
  BY DEF x75_validate_nr

LEMMA ReadyTakes ==
  ASSUME NEW s, Core(s), s.state = 3, Exact(s), s.out = <<>>,
         "PEER_RX_BUSY" \notin s.condition,
         NEW f \in Frame, f.type = "RR", x75_validate_nr(s, f.nr)
  PROVE  Takes(s, f, ReceiveReady(s, f))
<1> DEFINE c == s.condition \ {"PEER_RX_BUSY"}
           b == [s EXCEPT !.condition = c]
           r == x75_check_need_response(b, f.cr, f.pf)
           a == x75_check_iframes_acked(r, f.nr)
<1>1. s \in Station /\ f.nr \in Seqno
  BY DEF Core, Frame
<1>2. c \in SUBSET Conditions
  BY <1>1 DEF Station
<1>3. Core(b) /\ b.state = 3
  BY <1>2, ConditionKeeps DEF Keeps
<1>4. /\ SameRest(s, b) /\ b.va = s.va /\ b.vs = s.vs /\ SameQueues(s, b)
      /\ b.out = <<>> /\ "PEER_RX_BUSY" \notin b.condition
  BY <1>1 DEF Station, SameRest, SameQueues
<1> HIDE DEF b
<1>5. Core(r) /\ r.state = 3
  BY <1>3, NeedResponse DEF Keeps
<1>6. /\ SameRest(b, r) /\ r.va = b.va /\ r.vs = b.vs
      /\ SameQueues(b, r) /\ Replies(r.out, b.vr)
  BY <1>3, <1>4, ResponseFields DEF Core
<1> HIDE DEF r
<1>7. Exact(r) /\ x75_validate_nr(r, f.nr) /\ SameRest(s, r)
  BY <1>4, <1>6 DEF Exact, SameQueues, x75_validate_nr, SameRest
<1>8. /\ SameRest(r, a) /\ a.vs = r.vs /\ a.out = r.out
      /\ a.condition = r.condition /\ a.va = f.nr /\ Exact(a)
  BY <1>1, <1>5, <1>7, CheckExact
<1> HIDE DEF a
<1>9. ReceiveReady(s, f) = a
  BY <1>7 DEF ReceiveReady, a, r, b
<1>10. Replies(a.out, a.vr) /\ a.vr = s.vr
  BY <1>4, <1>6, <1>8 DEF SameRest
<1>11. Resendable(a)
  BY <1>8 DEF Exact, Resendable
<1>12. SameRest(s, a) /\ a.vs = s.vs
  BY <1>4, <1>6, <1>7, <1>8 DEF SameRest
<1> QED
  BY <1>8, <1>9, <1>10, <1>11, <1>12 DEF Takes, InSequence, SameRest

\* Requeued frames are sent again by the kick.
LEMMA RequeueExact ==
  ASSUME NEW s, Core(s), Exact(s)
  PROVE  LET q == x75_requeue_frames(s)
         IN  /\ SameRest(s, q) /\ q.va = s.va /\ q.vs = s.vs
             /\ q.out = s.out /\ q.condition = s.condition
             /\ Resendable(q)
<1> DEFINE q == x75_requeue_frames(s)
<1>1. /\ s \in Station /\ s.va \in Seqno /\ s.vs \in Seqno
      /\ s.write_queue \in Seq(Data) /\ s.ack_queue \in Seq(Data)
      /\ Len(s.write_queue) \in Nat /\ Len(s.ack_queue) \in Nat
      /\ s.ack_queue_count \in Nat
  BY CoreTypes
<1>2. Len(s.write_queue \o s.ack_queue)
        = Len(s.write_queue) + Len(s.ack_queue)
  BY <1>1, ConcatProperties
<1>3. /\ SameRest(s, q) /\ q.va = s.va /\ q.vs = s.vs
      /\ q.out = s.out /\ q.condition = s.condition
      /\ q.write_queue = s.write_queue \o s.ack_queue
      /\ q.ack_queue = <<>>
      /\ q.ack_queue_count = s.ack_queue_count - Len(s.ack_queue)
  BY <1>1 DEF Station, x75_requeue_frames, SameRest
<1> HIDE DEF q
<1>4. ASSUME q.ack_queue_count = Len(q.ack_queue)
      PROVE  Len(q.ack_queue) = 0 /\ Dist(q.va, q.vs) <= Len(q.write_queue)
  <2>1. Len(q.ack_queue) = 0
    BY <1>3, EmptyQueue
  <2>2. s.ack_queue_count = Len(s.ack_queue)
    <3>1. s.ack_queue_count - Len(s.ack_queue) = 0
      BY <1>3, <1>4, <2>1
    <3> QED
      BY <1>1, <3>1
  <2>3. Len(s.ack_queue) = Dist(s.va, s.vs)
    BY <2>2 DEF Exact
  <2>4. Len(q.write_queue) = Len(s.write_queue) + Dist(s.va, s.vs)
    BY <1>2, <1>3, <2>3
  <2>5. Dist(s.va, s.vs) \in Nat
    BY <1>1, DistNat
  <2>6. Dist(q.va, q.vs) = Dist(s.va, s.vs)
    BY <1>3
  <2> QED
    BY <1>1, <2>1, <2>4, <2>5, <2>6
<1> QED
  BY <1>3, <1>4, Zenon DEF Resendable, q

LEMMA RejectTakes ==
  ASSUME NEW s, Core(s), s.state = 3, Exact(s), s.out = <<>>,
         "PEER_RX_BUSY" \notin s.condition,
         NEW f \in Frame, f.type = "REJ", x75_validate_nr(s, f.nr)
  PROVE  Takes(s, f, ReceiveReject(s, f))
<1> DEFINE c == s.condition \ {"PEER_RX_BUSY"}
           b == [s EXCEPT !.condition = c]
           r == x75_check_need_response(b, f.cr, f.pf)
           a == x75_frames_acked(r, f.nr)
           z == [x75_stop_t1timer(a) EXCEPT !.n2count = 0]
           q == x75_requeue_frames(z)
<1>1. s \in Station /\ f.nr \in Seqno
  BY DEF Core, Frame
<1>2. c \in SUBSET Conditions
  BY <1>1 DEF Station
<1>3. Core(b) /\ b.state = 3
  BY <1>2, ConditionKeeps DEF Keeps
<1>4. /\ SameRest(s, b) /\ b.va = s.va /\ b.vs = s.vs /\ SameQueues(s, b)
      /\ b.out = <<>> /\ "PEER_RX_BUSY" \notin b.condition
  BY <1>1 DEF Station, SameRest, SameQueues
<1> HIDE DEF b
<1>5. Core(r) /\ r.state = 3
  BY <1>3, NeedResponse DEF Keeps
<1>6. /\ SameRest(b, r) /\ r.va = b.va /\ r.vs = b.vs
      /\ SameQueues(b, r) /\ Replies(r.out, b.vr)
  BY <1>3, <1>4, ResponseFields DEF Core
<1> HIDE DEF r
<1>7. Exact(r) /\ x75_validate_nr(r, f.nr) /\ SameRest(s, r)
  BY <1>4, <1>6 DEF Exact, SameQueues, x75_validate_nr, SameRest
<1>8. /\ SameRest(r, a) /\ a.vs = r.vs /\ a.out = r.out
      /\ a.condition = r.condition /\ a.va = f.nr /\ Exact(a)
  BY <1>1, <1>5, <1>7, AckExact
<1>9. Core(a)
  BY <1>1, <1>5, <1>7, FramesAcked, CoreFacts, KeepsCore
<1> HIDE DEF a
<1>10. /\ SameRest(a, z) /\ z.vs = a.vs /\ z.out = a.out /\ z.va = a.va
       /\ z.condition = a.condition /\ Exact(z)
  BY <1>8, <1>9 DEF Core, Station, SameRest, x75_stop_t1timer, Exact
<1>11. Core(z)
  <2>1. a.state = 3
    BY <1>5, <1>8 DEF SameRest
  <2>2. Core(x75_stop_t1timer(a))
    BY <1>9, <2>1, TimersKeep, KeepsCore
  <2> QED
    BY <2>2, TimersKeep, KeepsCore, Zeros
<1> HIDE DEF z
<1>12. /\ SameRest(z, q) /\ q.va = z.va /\ q.vs = z.vs /\ q.out = z.out
       /\ q.condition = z.condition /\ Resendable(q)
  BY <1>10, <1>11, RequeueExact
<1> HIDE DEF q
<1>13. ReceiveReject(s, f) = q
  BY <1>7 DEF ReceiveReject, q, z, a, r, b
<1>14. Replies(q.out, q.vr) /\ q.vr = s.vr
  BY <1>4, <1>6, <1>8, <1>10, <1>12 DEF SameRest
<1>15. SameRest(s, q) /\ q.vs = s.vs /\ q.va = f.nr
  BY <1>4, <1>6, <1>7, <1>8, <1>10, <1>12 DEF SameRest
<1> QED
  BY <1>12, <1>13, <1>14, <1>15 DEF Takes, InSequence, SameRest

\* An I frame in sequence.
LEMMA AcceptFields ==
  ASSUME NEW s \in Station, s.out = <<>>, NEW f
  PROVE  LET q == AcceptIFrame(s, f)
         IN  /\ q.state = s.state /\ q.up = s.up /\ q.t2_cb = s.t2_cb
             /\ "PEER_RX_BUSY" \in q.condition
                  => "PEER_RX_BUSY" \in s.condition
             /\ q.va = s.va /\ q.vs = s.vs /\ SameQueues(s, q)
             /\ q.vr = Plus(s.vr, 1) /\ q.rx = Append(s.rx, f.data)
             /\ Replies(q.out, q.vr)
<1> DEFINE v == Plus(s.vr, 1)
           c == s.condition \ {"REJECT"}
           r == [s EXCEPT !.rx = Append(s.rx, f.data), !.vr = v,
                          !.condition = c]
           e == [type |-> "RR", pf |-> TRUE, cr |-> "RESPONSE", ns |-> 0,
                 nr |-> v, data |-> NoData]
           p == [r EXCEPT !.condition = c \cup {"ACK_PENDING"}]
           t == [p EXCEPT !.t1_cb = "x75_t2timer_expiry",
                          !.t2_running = TRUE, !.t2_pending = TRUE]
           q == AcceptIFrame(s, f)
<1> HIDE DEF v
<1>1. /\ r.state = s.state /\ r.up = s.up /\ r.t2_cb = s.t2_cb
      /\ r.condition = c /\ r.va = s.va /\ r.vs = s.vs /\ SameQueues(s, r)
      /\ r.vr = v /\ r.rx = Append(s.rx, f.data) /\ r.out = <<>>
  BY DEF Station, SameQueues
<1>2. Replies(<<>>, v) /\ Replies(<<e>>, v)
  BY DEF Replies
<1>3. CASE f.pf
  <2>1. q = [[r EXCEPT !.out = <<e>>] EXCEPT
               !.condition = @ \ {"ACK_PENDING"}]
    <3>1. q = x75_enquiry_response(r)
      BY <1>3 DEF Station, AcceptIFrame, x75_data_indication, v
    <3> HIDE DEF r
    <3>2. x75_send_control(r, "RR", TRUE, "RESPONSE")
            = [r EXCEPT !.out = Append(r.out, e)]
      BY <1>1 DEF x75_send_control, x75_transmit_buffer
    <3>3. Append(r.out, e) = <<e>>
      BY <1>1
    <3> QED
      BY <3>1, <3>2, <3>3 DEF x75_enquiry_response, ClearAckPending
  <2> HIDE DEF q, e
  <2>2. /\ q.state = s.state /\ q.up = s.up /\ q.t2_cb = s.t2_cb
        /\ q.condition = c \ {"ACK_PENDING"}
        /\ q.va = s.va /\ q.vs = s.vs /\ SameQueues(s, q)
        /\ q.vr = v /\ q.rx = Append(s.rx, f.data) /\ q.out = <<e>>
    BY <2>1 DEF Station, SameQueues
  <2> QED
    BY <1>2, <2>2 DEF q, v
<1>4. CASE ~ f.pf
  <2>1. q = r \/ q = t
    BY <1>4 DEF Station, AcceptIFrame, x75_data_indication, v,
         x75_start_t2timer
  <2>2. /\ t.state = s.state /\ t.up = s.up /\ t.t2_cb = s.t2_cb
        /\ t.condition = c \cup {"ACK_PENDING"}
        /\ t.va = s.va /\ t.vs = s.vs /\ SameQueues(s, t)
        /\ t.vr = v /\ t.rx = Append(s.rx, f.data) /\ t.out = <<>>
    BY DEF Station, SameQueues
  <2> HIDE DEF q, r, t
  <2> QED
    BY <1>1, <1>2, <2>1, <2>2 DEF q, v
<1> QED
  BY <1>3, <1>4

\* One out of sequence.
LEMMA RefuseFields ==
  ASSUME NEW s \in Station, s.out = <<>>, NEW f
  PROVE  LET q == RefuseIFrame(s, f)
         IN  /\ SameRest(s, q) /\ q.va = s.va /\ q.vs = s.vs
             /\ SameQueues(s, q) /\ Replies(q.out, s.vr)
<1> DEFINE e(t, pf) == [type |-> t, pf |-> pf, cr |-> "RESPONSE", ns |-> 0,
                        nr |-> s.vr, data |-> NoData]
           q == RefuseIFrame(s, f)
<1>1. /\ Replies(<<>>, s.vr)
      /\ \A pf : Replies(<<e("RR", pf)>>, s.vr) /\ Replies(<<e("REJ", pf)>>, s.vr)
  BY DEF Replies
<1>2. CASE "REJECT" \in s.condition /\ f.pf
  <2>1. q = [s EXCEPT !.out = <<e("RR", TRUE)>>,
                      !.condition = s.condition \ {"ACK_PENDING"}]
    BY <1>2 DEF Station, RefuseIFrame, x75_enquiry_response,
         ClearAckPending, x75_send_control, x75_transmit_buffer
  <2> HIDE DEF q
  <2>2. SameRest(s, q) /\ q.va = s.va /\ q.vs = s.vs /\ SameQueues(s, q)
        /\ q.out = <<e("RR", TRUE)>>
    BY <2>1 DEF Station, SameRest, SameQueues
  <2> QED
    BY <1>1, <2>2 DEF q
<1>3. CASE "REJECT" \in s.condition /\ ~ f.pf
  <2>1. q = s
    BY <1>3 DEF RefuseIFrame
  <2> QED
    BY <1>1, <2>1 DEF SameRest, SameQueues
<1>4. CASE "REJECT" \notin s.condition
  <2>1. q = [s EXCEPT !.out = <<e("REJ", f.pf)>>,
                      !.condition = (s.condition \cup {"REJECT"})
                                      \ {"ACK_PENDING"}]
    <3> DEFINE r == [s EXCEPT !.condition = s.condition \cup {"REJECT"}]
    <3>1. q = ClearAckPending(Respond(r, "REJ", f))
      BY <1>4 DEF RefuseIFrame
    <3>2. Respond(r, "REJ", f)
            = [r EXCEPT !.out = Append(r.out, e("REJ", f.pf))]
      BY DEF Station, Respond, x75_send_control, x75_transmit_buffer
    <3>3. r.out = <<>>
      BY DEF Station
    <3>4. Append(<<>>, e("REJ", f.pf)) = <<e("REJ", f.pf)>>
      OBVIOUS
    <3>5. q = ClearAckPending([r EXCEPT !.out = <<e("REJ", f.pf)>>])
      BY <3>1, <3>2, <3>3, <3>4
    <3> QED
      BY <3>5 DEF Station, ClearAckPending
  <2> HIDE DEF q
  <2>2. SameRest(s, q) /\ q.va = s.va /\ q.vs = s.vs /\ SameQueues(s, q)
        /\ q.out = <<e("REJ", f.pf)>>
    BY <2>1 DEF Station, SameRest, SameQueues
  <2> QED
    BY <1>1, <2>2 DEF q
<1> QED
  BY <1>2, <1>3, <1>4

LEMMA IFrameTakes ==
  ASSUME NEW s, Core(s), s.state = 3, Exact(s), s.out = <<>>,
         "PEER_RX_BUSY" \notin s.condition,
         NEW f \in Frame, f.type = "I", x75_validate_nr(s, f.nr)
  PROVE  Takes(s, f, ReceiveIFrame(s, f))
<1> DEFINE a == x75_check_iframes_acked(s, f.nr)
           q == ReceiveIFrame(s, f)
<1>1. f.nr \in Seqno
  BY DEF Frame
<1>2. /\ SameRest(s, a) /\ a.vs = s.vs /\ a.out = s.out
      /\ a.condition = s.condition /\ a.va = f.nr /\ Exact(a)
  BY <1>1, CheckExact
<1>3. a \in Station
  BY <1>1, CheckAcked, CoreFacts DEF Keeps
<1> HIDE DEF a
<1>4. Resendable(a)
  BY <1>2 DEF Exact, Resendable
<1>5. CASE f.ns = s.vr
  <2>1. q = AcceptIFrame(a, f)
    BY <1>2, <1>5 DEF ReceiveIFrame, a, SameRest
  <2> HIDE DEF q
  <2>2. /\ q.state = a.state /\ q.up = a.up /\ q.t2_cb = a.t2_cb
        /\ "PEER_RX_BUSY" \in q.condition
             => "PEER_RX_BUSY" \in a.condition
        /\ q.va = a.va /\ q.vs = a.vs /\ SameQueues(a, q)
        /\ q.vr = Plus(a.vr, 1) /\ q.rx = Append(a.rx, f.data)
        /\ Replies(q.out, q.vr)
    BY <1>2, <1>3, <2>1, AcceptFields
  <2>3. Resendable(q)
    BY <1>4, <2>2 DEF Resendable, SameQueues
  <2> QED
    BY <1>2, <1>5, <2>2, <2>3 DEF Takes, InSequence, SameRest, q
<1>6. CASE f.ns # s.vr
  <2>1. q = RefuseIFrame(a, f)
    BY <1>2, <1>6 DEF ReceiveIFrame, a, SameRest
  <2> HIDE DEF q
  <2>2. /\ SameRest(a, q) /\ q.va = a.va /\ q.vs = a.vs
        /\ SameQueues(a, q) /\ Replies(q.out, a.vr)
    BY <1>2, <1>3, <2>1, RefuseFields
  <2>3. Resendable(q)
    BY <1>4, <2>2 DEF Resendable, SameQueues
  <2> QED
    BY <1>2, <1>6, <2>2, <2>3 DEF Takes, InSequence, SameRest, q
<1> QED
  BY <1>5, <1>6

\* Numbered frames that carry vr, the I frames among them from the window.
Plain(o, va, vs, vr) ==
  \A i \in DOMAIN o :
    /\ o[i].type \in Numbered /\ o[i].nr = vr
    /\ o[i].type = "I" =>
         /\ o[i].ns \in Seqno /\ Dist(va, o[i].ns) < Dist(va, vs)
         /\ o[i].data \in Data

LEMMA PlainConcat ==
  ASSUME NEW r \in Seq(Frame), NEW b \in Seq(Frame), NEW va, NEW vs, NEW vr,
         Replies(r, vr), IFrames(b, va, vs, vr)
  PROVE  Plain(r \o b, va, vs, vr)
<1> DEFINE t == r \o b
<1>1. \A i \in DOMAIN t :
        \/ i \in DOMAIN r /\ t[i] = r[i]
        \/ i - Len(r) \in DOMAIN b /\ t[i] = b[i - Len(r)]
  BY ConcatOf
<1> HIDE DEF t
<1>2. ASSUME NEW i \in DOMAIN t
      PROVE  /\ t[i].type \in Numbered /\ t[i].nr = vr
             /\ t[i].type = "I" =>
                  /\ t[i].ns \in Seqno /\ Dist(va, t[i].ns) < Dist(va, vs)
                  /\ t[i].data \in Data
  <2>1. CASE i \in DOMAIN r /\ t[i] = r[i]
    <3>1. r[i].type \in {"RR", "REJ"} /\ r[i].nr = vr
      BY <2>1 DEF Replies
    <3> QED
      BY <2>1, <3>1 DEF Numbered
  <2>2. CASE i - Len(r) \in DOMAIN b /\ t[i] = b[i - Len(r)]
    BY <2>2 DEF IFrames, Numbered
  <2> QED
    BY <1>1, <2>1, <2>2
<1> QED
  BY <1>2, Zenon DEF Plain, t

\* A handler that stays in data transfer, with V(A) at va behind it.
Moves(s, q, va) ==
  /\ q.state = 3 /\ q.va = va /\ q.up = s.up /\ q.t2_cb = s.t2_cb
  /\ "PEER_RX_BUSY" \notin q.condition /\ Exact(q)
  /\ Dist(va, s.vs) <= Dist(va, q.vs)
  /\ Plain(q.out, va, q.vs, q.vr)

\* The kick at the end of a handler.
LEMMA KickMoves ==
  ASSUME NEW s, NEW r, Core(r), r.state = 3,
         "PEER_RX_BUSY" \notin r.condition, Resendable(r),
         r.up = s.up, r.t2_cb = s.t2_cb, r.vs = s.vs, Replies(r.out, r.vr)
  PROVE  LET q == x75_kick(r)
         IN  Moves(s, q, r.va) /\ q.vr = r.vr /\ q.rx = r.rx
<1> DEFINE q == x75_kick(r)
<1>1. Sends(r, q)
  BY KickSends
<1> HIDE DEF q
<1>2. PICK b \in Seq(Frame) :
        q.out = r.out \o b /\ IFrames(b, r.va, q.vs, r.vr)
  BY <1>1 DEF Sends
<1>3. r.out \in Seq(Frame)
  BY DEF Core, Station
<1>4. Plain(q.out, r.va, q.vs, r.vr)
  BY <1>2, <1>3, PlainConcat
<1> QED
  BY <1>1, <1>4 DEF Sends, SameRest, Moves, q

LEMMA NumberedInput ==
  ASSUME NEW s, Inv(s), s.state = 3, Exact(s), s.out = <<>>, s.rx = <<>>,
         "PEER_RX_BUSY" \notin s.condition,
         NEW f \in Frame, f.type \in Numbered, f.type = "I" => f.data \in Data,
         x75_validate_nr(s, f.nr)
  PROVE  LET q == x75_data_input(s, f)
         IN  /\ Moves(s, q, f.nr)
             /\ q.vr = IF InSequence(s, f) THEN Plus(s.vr, 1) ELSE s.vr
             /\ q.rx = IF InSequence(s, f) THEN <<f.data>> ELSE <<>>
<1> DEFINE r == x75_state3_machine(s, f)
<1>1. Core(s)
  BY DEF Inv
<1>2. SetMode \in {"SABM", "SABME"} /\ OtherMode \in {"SABM", "SABME"}
  BY DEF SetMode, OtherMode
<1>3. Takes(s, f, r)
  <2>1. CASE f.type = "I"
    <3>1. r = ReceiveIFrame(s, f)
      BY <1>2, <2>1 DEF x75_state3_machine
    <3> QED
      BY <1>1, <2>1, <3>1, IFrameTakes
  <2>2. CASE f.type = "RR"
    <3>1. r = ReceiveReady(s, f)
      BY <1>2, <2>2 DEF x75_state3_machine
    <3> QED
      BY <1>1, <2>2, <3>1, ReadyTakes
  <2>3. CASE f.type = "REJ"
    <3>1. r = ReceiveReject(s, f)
      BY <1>2, <2>3 DEF x75_state3_machine
    <3> QED
      BY <1>1, <2>3, <3>1, RejectTakes
  <2> QED
    BY <2>1, <2>2, <2>3 DEF Numbered
<1>4. Core(r)
  BY State3 DEF Inv
<1>5. x75_data_input(s, f) = x75_kick(r)
  BY DEF x75_data_input
<1> HIDE DEF r
<1>6. LET q == x75_kick(r)
      IN  Moves(s, q, r.va) /\ q.vr = r.vr /\ q.rx = r.rx
  BY <1>3, <1>4, KickMoves DEF Takes
<1>7. Append(<<>>, f.data) = <<f.data>>
  OBVIOUS
<1> QED
  BY <1>3, <1>5, <1>6, <1>7 DEF Takes

\* The layer above hands over a payload.
LEMMA SubmitMoves ==
  ASSUME NEW s, Inv(s), s.state = 3, Exact(s), s.out = <<>>, s.rx = <<>>,
         "PEER_RX_BUSY" \notin s.condition, NEW d \in Data
  PROVE  LET q == x75_data_request(s, d)
         IN  Moves(s, q, s.va) /\ q.vr = s.vr /\ q.rx = <<>>
<1> DEFINE w == Append(s.write_queue, d)
           n == s.write_queue_count + 1
           r == [s EXCEPT !.write_queue = w, !.write_queue_count = n]
<1>1. /\ s \in Station /\ Numbers(s)
      /\ s.write_queue \in Seq(Data) /\ Len(s.write_queue) \in Nat
      /\ s.write_queue_count \in Nat
  BY CoreTypes DEF Inv
<1>2. /\ w \in Seq(Data) /\ Len(w) = Len(s.write_queue) + 1 /\ n \in Nat
      /\ n >= Len(w)
  BY <1>1 DEF Numbers
<1>3. x75_data_request(s, d) = x75_kick(r)
  BY DEF x75_data_request
<1> HIDE DEF w, n
<1>4. r \in Station
  BY <1>1, <1>2 DEF Station
<1>5. /\ r.state = 3 /\ r.up = s.up /\ r.t2_cb = s.t2_cb /\ r.vs = s.vs
      /\ r.va = s.va /\ r.vr = s.vr /\ r.rx = <<>> /\ r.out = <<>>
      /\ r.condition = s.condition /\ r.ack_queue = s.ack_queue
      /\ r.ack_queue_count = s.ack_queue_count
      /\ r.write_queue = w /\ r.write_queue_count = n
  BY <1>1 DEF Station
<1> HIDE DEF r
<1>6. Core(r)
  BY <1>1, <1>2, <1>4, <1>5 DEF Core, Numbers
<1>7. Resendable(r)
  BY <1>5 DEF Exact, Resendable
<1>8. Replies(r.out, r.vr)
  BY <1>5 DEF Replies
<1> QED
  BY <1>3, <1>5, <1>6, <1>7, <1>8, KickMoves

-----------------------------------------------------------------------------
(* The other handlers.                                                     *)

\* The invariant of a station whose peer runs this code, too.
Steady(s) ==
  /\ Inv(s) /\ s.state \in {0, 1, 3} /\ s.t2_cb = "NULL"
  /\ "PEER_RX_BUSY" \notin s.condition
  /\ s.state # 3 => s.write_queue = <<>> /\ s.ack_queue = <<>>
  /\ s.state = 3 => Exact(s)
  /\ s.state = 0 /\ s.t1_pending = TRUE => s.t1_cb = "x75_t1timer_expiry"

\* The same between the handlers.
Sound(s) == Steady(s) /\ s.out = <<>> /\ s.rx = <<>>

\* All but the timers and the flag crashed.
Still(s, q) ==
  /\ SameRest(s, q) /\ SameQueues(s, q)
  /\ q.va = s.va /\ q.vs = s.vs /\ q.out = s.out

\* One frame of type t.
Single(o, t) == o \in Seq(Frame) /\ Len(o) = 1 /\ o[1].type = t

LEMMA StillStill ==
  ASSUME NEW s, NEW r, NEW q, Still(s, r), Still(r, q)
  PROVE  Still(s, q)
  BY DEF Still, SameRest, SameQueues

\* Nothing waits: the kick sends nothing.
LEMMA KickEmpty ==
  ASSUME NEW s \in Station, s.write_queue = <<>>
  PROVE  LET q == x75_kick(s)
         IN  /\ Still(s, q)
             /\ q.t1_pending = s.t1_pending /\ q.t1_cb = s.t1_cb
<1> DEFINE q == x75_kick(s)
<1>1. q = s \/ q = [s EXCEPT !.crashed = TRUE]
  BY DEF x75_kick
<1> HIDE DEF q
<1>2. CASE q = s
  BY <1>2 DEF Still, SameRest, SameQueues, q
<1>3. CASE q = [s EXCEPT !.crashed = TRUE]
  <2>1. /\ Still(s, q) /\ q.t1_pending = s.t1_pending /\ q.t1_cb = s.t1_cb
    BY <1>3 DEF Station, Still, SameRest, SameQueues
  <2> QED
    BY <2>1 DEF q
<1> QED
  BY <1>1, <1>2, <1>3

\* A response to f and nothing else.
LEMMA RespondFields ==
  ASSUME NEW s \in Station, s.out = <<>>, NEW t \in {"UA", "DM"},
         NEW f \in Frame
  PROVE  LET q == Respond(s, t, f)
         IN  /\ q \in Station /\ Single(q.out, t)
             /\ SameRest(s, q) /\ SameQueues(s, q)
             /\ q.va = s.va /\ q.vs = s.vs
             /\ q.t1_pending = s.t1_pending /\ q.t1_cb = s.t1_cb
<1> DEFINE e == [type |-> t, pf |-> f.pf, cr |-> "RESPONSE", ns |-> 0,
                 nr |-> 0, data |-> NoData]
           q == Respond(s, t, f)
<1>1. e \in Frame /\ e.type = t
  BY Zeros DEF Frame, FrameType
<1> HIDE DEF e
<1>2. /\ <<e>> \in Seq(Frame) /\ Append(<<>>, e) = <<e>> /\ Len(<<e>>) = 1
      /\ <<e>>[1] = e
  BY <1>1
<1>3. q = [s EXCEPT !.out = <<e>>]
  BY <1>2 DEF Respond, x75_send_control, x75_transmit_buffer, e
<1> HIDE DEF q
<1>4. /\ q \in Station /\ q.out = <<e>>
      /\ SameRest(s, q) /\ SameQueues(s, q)
      /\ q.va = s.va /\ q.vs = s.vs
      /\ q.t1_pending = s.t1_pending /\ q.t1_cb = s.t1_cb
  BY <1>2, <1>3 DEF Station, SameRest, SameQueues
<1> QED
  BY <1>1, <1>2, <1>4 DEF Single, q

\* A control frame from a timer.
LEMMA ControlFields ==
  ASSUME NEW s \in Station, s.out = <<>>, NEW t \in {SetMode, "DM"},
         NEW pf \in BOOLEAN, NEW cr \in {"COMMAND", "RESPONSE"}
  PROVE  LET q == x75_send_control(s, t, pf, cr)
         IN  /\ q \in Station /\ Single(q.out, t)
             /\ SameRest(s, q) /\ SameQueues(s, q)
<1> DEFINE e == [type |-> t, pf |-> pf, cr |-> cr, ns |-> 0,
                 nr |-> 0, data |-> NoData]
           q == x75_send_control(s, t, pf, cr)
<1>0. t \in FrameType /\ t \notin {"RR", "RNR", "REJ"}
  BY DEF SetMode, FrameType
<1>1. e \in Frame /\ e.type = t
  BY <1>0, Zeros DEF Frame
<1> HIDE DEF e
<1>2. /\ <<e>> \in Seq(Frame) /\ Append(<<>>, e) = <<e>> /\ Len(<<e>>) = 1
      /\ <<e>>[1] = e
  BY <1>1
<1>3. q = [s EXCEPT !.out = <<e>>]
  BY <1>0, <1>2 DEF x75_send_control, x75_transmit_buffer, e
<1> HIDE DEF q
<1>4. /\ q \in Station /\ q.out = <<e>>
      /\ SameRest(s, q) /\ SameQueues(s, q)
  BY <1>2, <1>3 DEF Station, SameRest, SameQueues
<1> QED
  BY <1>1, <1>2, <1>4 DEF Single, q

\* Data transfer starts.
LEMMA StartFields ==
  ASSUME NEW s \in Station
  PROVE  LET r == ResetLink(s)
             i == x75_connect_indication([r EXCEPT !.state = 3])
             c == x75_connect_confirmation([r EXCEPT !.state = 3])
         IN  /\ r.va = 0 /\ r.vs = 0 /\ r.vr = 0 /\ r.condition = {}
             /\ SameQueues(s, r) /\ r.out = s.out /\ r.rx = s.rx
             /\ r.t2_cb = s.t2_cb /\ r.state = s.state /\ r.up = s.up
             /\ c = i /\ i.state = 3
             /\ i.va = 0 /\ i.vs = 0 /\ i.vr = 0 /\ i.condition = {}
             /\ SameQueues(s, i) /\ i.out = s.out /\ i.rx = s.rx
             /\ i.t2_cb = s.t2_cb
  BY DEF Station, SameQueues, ResetLink, x75_stop_t1timer, x75_stop_t2timer,
         x75_connect_indication, x75_connect_confirmation

\* Data transfer ends: T1 will send DMs.
LEMMA EndFields ==
  ASSUME NEW s \in Station
  PROVE  LET q == x75_disconnect_indication(Disconnected(x75_clear_queues(s)))
         IN  /\ q.state = 0 /\ q.write_queue = <<>> /\ q.ack_queue = <<>>
             /\ q.out = s.out /\ q.rx = s.rx /\ q.condition = s.condition
             /\ q.t2_cb = s.t2_cb /\ q.t1_cb = "x75_t1timer_expiry"
  BY DEF Station, Disconnected, x75_clear_queues, x75_disconnect_indication,
         x75_stop_t2timer, x75_start_t1timer

\* How a station in state 3 with nothing but zeros starts.
Fresh(q) == q.state = 3 /\ q.va = 0 /\ q.vs = 0 /\ q.vr = 0

LEMMA ModeTypes ==
  /\ SetMode \in {"SABM", "SABME"} /\ OtherMode \in {"SABM", "SABME"}
  /\ SetMode # OtherMode /\ SetMode \in FrameType
  BY DEF SetMode, OtherMode, FrameType

LEMMA SoundFacts ==
  ASSUME NEW s, Sound(s)
  PROVE  /\ s \in Station /\ Inv(s) /\ Core(s) /\ s.out = <<>> /\ s.rx = <<>>
         /\ s.state \in {0, 1, 3} /\ s.t2_cb = "NULL"
         /\ "PEER_RX_BUSY" \notin s.condition
         /\ s.state # 3 => s.write_queue = <<>> /\ s.ack_queue = <<>>
         /\ s.state = 3 => Exact(s)
         /\ s.state = 0 /\ s.t1_pending = TRUE =>
              s.t1_cb = "x75_t1timer_expiry"
  BY DEF Sound, Steady, Inv, Core

\* Data transfer starts with the kick that finds nothing to send.
LEMMA FreshKick ==
  ASSUME NEW r \in Station, Fresh(r), r.write_queue = <<>>,
         r.ack_queue = <<>>, r.condition = {}, r.t2_cb = "NULL",
         r.rx = <<>>, Inv(x75_kick(r))
  PROVE  LET q == x75_kick(r)
         IN  Steady(q) /\ Fresh(q) /\ q.rx = <<>> /\ q.out = r.out
<1> DEFINE q == x75_kick(r)
<1>1. Still(r, q)
  BY KickEmpty
<1> HIDE DEF q
<1>2. /\ Fresh(q) /\ q.rx = <<>> /\ q.out = r.out /\ q.ack_queue = <<>>
      /\ q.t2_cb = "NULL" /\ "PEER_RX_BUSY" \notin q.condition
  BY <1>1 DEF Still, SameRest, SameQueues, Fresh
<1>3. Exact(q)
  BY <1>2, EmptyQueue, Zeros DEF Exact, Fresh
<1> QED
  BY <1>2, <1>3 DEF Steady, Fresh, q

\* A frame in state 0.
LEMMA Input0 ==
  ASSUME NEW s, Sound(s), s.state = 0, NEW f \in Frame,
         f.type \in Numbered \cup Unnumbered, f.type = "I" => f.data \in Data
  PROVE  LET q == x75_data_input(s, f)
         IN  /\ Steady(q) /\ q.rx = <<>>
             /\ \/ f.type = SetMode /\ Fresh(q) /\ Single(q.out, "UA")
                \/ f.type # SetMode /\ q.state = 0 /\ q.out = <<>>
<1> DEFINE q == x75_data_input(s, f)
<1>1. /\ s \in Station /\ Inv(s) /\ s.out = <<>> /\ s.rx = <<>>
      /\ s.t2_cb = "NULL" /\ "PEER_RX_BUSY" \notin s.condition
      /\ s.write_queue = <<>> /\ s.ack_queue = <<>>
      /\ s.t1_pending = TRUE => s.t1_cb = "x75_t1timer_expiry"
  <2>1. s.state # 3
    OBVIOUS
  <2> QED
    BY <2>1, SoundFacts, Zenon
<1>2. Inv(q)
  BY <1>1, DataInput
<1>3. q = x75_kick(x75_state0_machine(s, f))
  BY DEF x75_data_input
<1>4. CASE f.type = SetMode
  <2> DEFINE u == Respond(s, "UA", f)
             r == x75_connect_indication([ResetLink(u) EXCEPT !.state = 3])
  <2>1. /\ u \in Station /\ Single(u.out, "UA")
        /\ SameRest(s, u) /\ SameQueues(s, u)
    BY <1>1, RespondFields
  <2>2. x75_state0_machine(s, f) = r
    BY <1>4, ModeTypes DEF x75_state0_machine
  <2> HIDE DEF u
  <2>3. /\ Fresh(r) /\ r.condition = {}
        /\ SameQueues(u, r) /\ r.out = u.out /\ r.rx = u.rx
        /\ r.t2_cb = u.t2_cb
    BY <2>1, StartFields DEF Fresh
  <2>4. r \in Station
    <3>1. Inv(x75_state0_machine(s, f))
      BY <1>1, State0
    <3> QED
      BY <2>2, <3>1 DEF Inv, Core
  <2> HIDE DEF r
  <2>5. /\ r.write_queue = <<>> /\ r.ack_queue = <<>>
        /\ r.t2_cb = "NULL" /\ r.rx = <<>> /\ Single(r.out, "UA")
    BY <1>1, <2>1, <2>3 DEF SameQueues, SameRest
  <2>6. q = x75_kick(r)
    BY <1>3, <2>2
  <2> HIDE DEF q
  <2>7. Steady(q) /\ Fresh(q) /\ q.rx = <<>> /\ q.out = r.out
    BY <1>2, <2>3, <2>4, <2>5, <2>6, FreshKick
  <2> QED
    BY <1>4, <2>5, <2>7 DEF q
<1>5. CASE f.type # SetMode
  <2>1. x75_state0_machine(s, f) = s
    BY <1>5, ModeTypes
       DEF x75_state0_machine, Numbered, Unnumbered
  <2>2. /\ Still(s, q)
        /\ q.t1_pending = s.t1_pending /\ q.t1_cb = s.t1_cb
    BY <1>1, <1>3, <2>1, KickEmpty
  <2> HIDE DEF q
  <2>3. /\ q.state = 0 /\ q.out = <<>> /\ q.rx = <<>>
        /\ q.t2_cb = "NULL" /\ "PEER_RX_BUSY" \notin q.condition
        /\ q.write_queue = <<>> /\ q.ack_queue = <<>>
        /\ q.t1_pending = TRUE => q.t1_cb = "x75_t1timer_expiry"
    BY <1>1, <2>2 DEF Still, SameRest, SameQueues
  <2> QED
    BY <1>2, <1>5, <2>3 DEF Steady, q
<1> QED
  BY <1>4, <1>5

\* A frame in state 1.
LEMMA Input1 ==
  ASSUME NEW s, Sound(s), s.state = 1, NEW f \in Frame,
         f.type \in Numbered \cup Unnumbered, f.type = "I" => f.data \in Data
  PROVE  LET q == x75_data_input(s, f)
         IN  /\ Steady(q) /\ q.rx = <<>>
             /\ \/ f.type = SetMode /\ q.state = 1 /\ Single(q.out, "UA")
                \/ f.type = "UA" /\ Fresh(q) /\ q.out = <<>>
                \/ f.type = "DM" /\ q.state = 0 /\ q.out = <<>>
                \/ f.type # SetMode /\ q.state = 1 /\ q.out = <<>>
<1> DEFINE q == x75_data_input(s, f)
           r == x75_state1_machine(s, f)
<1>1. /\ s \in Station /\ Inv(s) /\ s.out = <<>> /\ s.rx = <<>>
      /\ s.t2_cb = "NULL" /\ "PEER_RX_BUSY" \notin s.condition
      /\ s.write_queue = <<>> /\ s.ack_queue = <<>>
  <2>1. s.state # 3
    OBVIOUS
  <2> QED
    BY <2>1, SoundFacts, Zenon
<1>2. Inv(q)
  BY <1>1, DataInput
<1>3. q = x75_kick(r)
  BY DEF x75_data_input
<1>4. r \in Station
  BY <1>1, State1 DEF Inv, Core
<1> HIDE DEF q
<1>5. CASE f.type = SetMode
  <2> DEFINE u == Respond(s, "UA", f)
  <2>1. /\ u \in Station /\ Single(u.out, "UA")
        /\ SameRest(s, u) /\ SameQueues(s, u)
    BY <1>1, RespondFields
  <2>2. r = u
    BY <1>5, ModeTypes DEF x75_state1_machine
  <2> HIDE DEF u, r
  <2>3. u.write_queue = <<>>
    BY <1>1, <2>1 DEF SameQueues
  <2>4. Still(u, q)
    BY <1>3, <2>1, <2>2, <2>3, KickEmpty
  <2>5. /\ q.state = 1 /\ q.out = u.out /\ q.rx = <<>>
        /\ q.t2_cb = "NULL" /\ "PEER_RX_BUSY" \notin q.condition
        /\ q.write_queue = <<>> /\ q.ack_queue = <<>>
    BY <1>1, <2>1, <2>4 DEF Still, SameRest, SameQueues
  <2> QED
    BY <1>2, <1>5, <2>1, <2>5 DEF Steady, q
<1>6. CASE f.type = "UA" /\ f.pf
  <2>1. r = x75_connect_confirmation([ResetLink(s) EXCEPT !.state = 3])
    BY <1>6, ModeTypes DEF x75_state1_machine
  <2>2. /\ Fresh(r) /\ r.condition = {}
        /\ SameQueues(s, r) /\ r.out = s.out /\ r.rx = s.rx
        /\ r.t2_cb = s.t2_cb
    <3> HIDE DEF r
    <3>1. r = x75_connect_indication([ResetLink(s) EXCEPT !.state = 3])
      BY <1>1, <2>1, StartFields
    <3> QED
      BY <1>1, <3>1, StartFields DEF Fresh
  <2> HIDE DEF r
  <2>3. r.write_queue = <<>> /\ r.ack_queue = <<>>
    BY <1>1, <2>2 DEF SameQueues
  <2>4. Steady(q) /\ Fresh(q) /\ q.rx = <<>> /\ q.out = r.out
    BY <1>1, <1>2, <1>3, <1>4, <2>2, <2>3, FreshKick
  <2> QED
    BY <1>1, <1>6, <2>2, <2>4 DEF q
<1>7. CASE f.type = "DM" /\ f.pf
  <2>1. r = x75_disconnect_indication(Disconnected(x75_clear_queues(s)))
    BY <1>7, ModeTypes DEF x75_state1_machine
  <2>2. /\ r.state = 0 /\ r.write_queue = <<>> /\ r.ack_queue = <<>>
        /\ r.out = s.out /\ r.rx = s.rx /\ r.condition = s.condition
        /\ r.t2_cb = s.t2_cb /\ r.t1_cb = "x75_t1timer_expiry"
    BY <1>1, <2>1, EndFields
  <2> HIDE DEF r
  <2>3. Still(r, q) /\ q.t1_cb = r.t1_cb
    BY <1>3, <1>4, <2>2, KickEmpty
  <2>4. /\ q.state = 0 /\ q.out = <<>> /\ q.rx = <<>>
        /\ q.t2_cb = "NULL" /\ "PEER_RX_BUSY" \notin q.condition
        /\ q.write_queue = <<>> /\ q.ack_queue = <<>>
        /\ q.t1_cb = "x75_t1timer_expiry"
    BY <1>1, <2>2, <2>3 DEF Still, SameRest, SameQueues
  <2> QED
    BY <1>2, <1>7, <2>4 DEF Steady, q
<1>8. CASE f.type # SetMode /\ ~ (f.type \in {"UA", "DM"} /\ f.pf)
  <2>1. r = s
    BY <1>8, ModeTypes DEF x75_state1_machine, Numbered, Unnumbered
  <2> HIDE DEF r
  <2>2. Still(s, q)
    BY <1>1, <1>3, <2>1, KickEmpty
  <2>3. /\ q.state = 1 /\ q.out = <<>> /\ q.rx = <<>>
        /\ q.t2_cb = "NULL" /\ "PEER_RX_BUSY" \notin q.condition
        /\ q.write_queue = <<>> /\ q.ack_queue = <<>>
    BY <1>1, <2>2 DEF Still, SameRest, SameQueues
  <2> QED
    BY <1>2, <1>8, <2>3 DEF Steady, q
<1> QED
  BY <1>5, <1>6, <1>7, <1>8

\* A SABM(E) in state 3: UA, and what was not acknowledged is sent again
\* behind it, numbered from 0.
LEMMA Input3SetMode ==
  ASSUME NEW s, Sound(s), s.state = 3, NEW f \in Frame, f.type = SetMode
  PROVE  LET q == x75_data_input(s, f)
         IN  /\ Steady(q) /\ q.rx = <<>>
             /\ q.state = 3 /\ q.va = 0 /\ q.vr = 0
             /\ \E u, b \in Seq(Frame) :
                  /\ q.out = u \o b /\ Single(u, "UA")
                  /\ IFrames(b, 0, q.vs, 0)
<1> DEFINE u == Respond(s, "UA", f)
           z == ResetLink(u)
           r == x75_requeue_frames(z)
           q == x75_data_input(s, f)
<1>1. /\ s \in Station /\ Inv(s) /\ Core(s) /\ s.out = <<>> /\ s.rx = <<>>
      /\ s.t2_cb = "NULL"
  BY SoundFacts
<1>2. f.type # "I"
  BY ModeTypes
<1>3. Inv(q)
  BY <1>1, <1>2, DataInput
<1>4. Core(u) /\ Single(u.out, "UA") /\ SameRest(s, u) /\ SameQueues(s, u)
  <2>1. Core(u)
    BY <1>1, Answer, KeepsCore DEF FrameType
  <2> QED
    BY <1>1, <2>1, RespondFields
<1>5. x75_state3_machine(s, f) = r
  BY ModeTypes DEF x75_state3_machine
<1>6. q = x75_kick(r)
  BY <1>5 DEF x75_data_input
<1> HIDE DEF u, q
<1>7. /\ Core(z) /\ z.va = 0 /\ z.vs = 0 /\ z.vr = 0 /\ z.condition = {}
      /\ z.out = u.out /\ z.rx = u.rx /\ z.t2_cb = u.t2_cb
      /\ z.state = u.state
  BY <1>4, Reset, StartFields DEF Core
<1> HIDE DEF z
<1>8. /\ r.va = 0 /\ r.vs = 0 /\ r.vr = 0 /\ r.condition = {}
      /\ r.out = u.out /\ r.rx = <<>> /\ r.t2_cb = "NULL"
      /\ r.state = 3 /\ r.ack_queue = <<>>
  <2>1. z.rx = <<>> /\ z.t2_cb = "NULL" /\ z.state = 3
    BY <1>1, <1>4, <1>7 DEF SameRest
  <2> QED
    BY <1>7, <2>1 DEF Core, Station, x75_requeue_frames
<1>9. Core(r)
  BY <1>7, Requeue, KeepsCore, CoreFacts
<1> HIDE DEF r
<1>10. Resendable(r)
  BY <1>8, EmptyQueue, Zeros DEF Resendable
<1>11. Sends(r, q)
  BY <1>6, <1>8, <1>9, <1>10, KickSends
<1>12. /\ q.state = 3 /\ q.va = 0 /\ q.vr = 0 /\ q.rx = <<>>
       /\ q.t2_cb = "NULL" /\ "PEER_RX_BUSY" \notin q.condition /\ Exact(q)
  BY <1>8, <1>11 DEF Sends, SameRest
<1>13. PICK b \in Seq(Frame) : q.out = r.out \o b /\ IFrames(b, 0, q.vs, 0)
  BY <1>8, <1>11 DEF Sends
<1>14. Steady(q)
  BY <1>3, <1>12 DEF Steady
<1>15. u.out \in Seq(Frame) /\ q.out = u.out \o b
  BY <1>4, <1>8, <1>13 DEF Single
<1> QED
  BY <1>4, <1>12, <1>13, <1>14, <1>15 DEF q

\* A DM in state 3.
LEMMA Input3DM ==
  ASSUME NEW s, Sound(s), s.state = 3, NEW f \in Frame, f.type = "DM"
  PROVE  LET q == x75_data_input(s, f)
         IN  Steady(q) /\ q.rx = <<>> /\ q.state = 0 /\ q.out = <<>>
<1> DEFINE r == x75_state3_machine(s, f)
           q == x75_data_input(s, f)
<1>1. /\ s \in Station /\ Inv(s) /\ s.out = <<>> /\ s.rx = <<>>
      /\ s.t2_cb = "NULL" /\ "PEER_RX_BUSY" \notin s.condition
  BY SoundFacts
<1>2. Inv(q)
  BY <1>1, DataInput
<1>3. q = x75_kick(r)
  BY DEF x75_data_input
<1>4. r \in Station
  BY <1>1, State3 DEF Inv, Core
<1>5. r = x75_disconnect_indication(Disconnected(x75_clear_queues(s)))
  BY ModeTypes DEF x75_state3_machine
<1> HIDE DEF q, r
<1>6. /\ r.state = 0 /\ r.write_queue = <<>> /\ r.ack_queue = <<>>
      /\ r.out = s.out /\ r.rx = s.rx /\ r.condition = s.condition
      /\ r.t2_cb = s.t2_cb /\ r.t1_cb = "x75_t1timer_expiry"
  BY <1>1, <1>5, EndFields
<1>7. Still(r, q) /\ q.t1_cb = r.t1_cb
  BY <1>3, <1>4, <1>6, KickEmpty
<1>8. /\ q.state = 0 /\ q.out = <<>> /\ q.rx = <<>>
      /\ q.t2_cb = "NULL" /\ "PEER_RX_BUSY" \notin q.condition
      /\ q.write_queue = <<>> /\ q.ack_queue = <<>>
      /\ q.t1_cb = "x75_t1timer_expiry"
  BY <1>1, <1>6, <1>7 DEF Still, SameRest, SameQueues
<1> QED
  BY <1>2, <1>8 DEF Steady, q

\* A handler that stays in data transfer ends in a steady state.
LEMMA MovesSteady ==
  ASSUME NEW s, Sound(s), NEW q, NEW va, Moves(s, q, va), Inv(q)
  PROVE  Steady(q)
  BY DEF Sound, Steady, Moves

\* T1 in states 0 and 1, when its callback runs.
LEMMA T1Waiting ==
  ASSUME NEW s, Sound(s), s.state \in {0, 1}, s.t1_pending = TRUE
  PROVE  LET q == T1Expires(s)
         IN  /\ Steady(q) /\ q.rx = <<>>
             /\ \/ q.state = 0 /\ Single(q.out, "DM")
                \/ q.state = 1 /\ Single(q.out, SetMode)
                \/ q.state = 0 /\ q.out = <<>>
<1> DEFINE p == [s EXCEPT !.t1_pending = FALSE]
           q == T1Expires(s)
<1>1. /\ s \in Station /\ Inv(s) /\ Core(s) /\ s.out = <<>> /\ s.rx = <<>>
      /\ s.t2_cb = "NULL" /\ "PEER_RX_BUSY" \notin s.condition
      /\ s.write_queue = <<>> /\ s.ack_queue = <<>>
      /\ s.state = 0 => s.t1_cb = "x75_t1timer_expiry"
  <2>1. s.state # 3
    OBVIOUS
  <2> QED
    BY <2>1, SoundFacts, Zenon
<1>2. Inv(q)
  BY <1>1, T1ExpiresInv
<1>3. s.t1_cb = "x75_t1timer_expiry" /\ s.t1_running = TRUE
  <2>1. s.state = 1 => T1Set(s)
    BY <1>1 DEF Inv, Supervised
  <2>2. s.t1_running = TRUE
    BY <1>1 DEF Inv, Supervised
  <2> QED
    BY <1>1, <2>1, <2>2 DEF T1Set
<1>4. q = x75_t1timer_expiry(p)
  BY <1>3 DEF T1Expires, RunCallback
<1>5. /\ p \in Station /\ p.t1_pending = FALSE /\ p.t1_running = TRUE
      /\ p.state = s.state /\ p.out = <<>> /\ p.rx = <<>>
      /\ p.t2_cb = "NULL" /\ "PEER_RX_BUSY" \notin p.condition
      /\ p.write_queue = <<>> /\ p.ack_queue = <<>>
      /\ p.n2count \in 0 .. N2
  BY <1>1, <1>3 DEF Station
<1> HIDE DEF p, q
<1> DEFINE Done(x) == /\ x.rx = <<>> /\ x.t2_cb = "NULL"
                      /\ "PEER_RX_BUSY" \notin x.condition
                      /\ x.write_queue = <<>> /\ x.ack_queue = <<>>
<1>6. CASE s.state = 0 /\ p.dce /\ p.n2count # N2
  <2> DEFINE c == [p EXCEPT !.n2count = p.n2count + 1]
             d == x75_send_control(c, "DM", FALSE, "RESPONSE")
  <2>1. /\ c \in Station /\ c.out = <<>> /\ c.state = 0 /\ Done(c)
    <3>1. p.n2count + 1 \in 0 .. N2
      BY <1>5, <1>6, N2Assumption
    <3> QED
      BY <1>5, <1>6, <3>1 DEF Station
  <2>2. q = x75_start_t1timer(d)
    <3>1. T1Disconnected(p) = d
      BY <1>6 DEF T1Disconnected
    <3> HIDE DEF d
    <3>2. q = x75_start_t1timer(T1Disconnected(p))
      BY <1>4, <1>5, <1>6 DEF x75_t1timer_expiry
    <3> QED
      BY <3>1, <3>2
  <2> HIDE DEF c
  <2>3. /\ d \in Station /\ Single(d.out, "DM")
        /\ SameRest(c, d) /\ SameQueues(c, d)
    BY <2>1, ControlFields
  <2> HIDE DEF d
  <2>4. /\ q.state = d.state /\ q.out = d.out /\ q.rx = d.rx
        /\ q.t2_cb = d.t2_cb /\ q.condition = d.condition
        /\ q.write_queue = d.write_queue /\ q.ack_queue = d.ack_queue
        /\ q.t1_cb = "x75_t1timer_expiry"
    BY <2>2, <2>3 DEF Station, x75_start_t1timer
  <2>5. Done(q) /\ q.state = 0 /\ Single(q.out, "DM")
    BY <2>1, <2>3, <2>4 DEF SameRest, SameQueues
  <2> QED
    BY <1>2, <2>4, <2>5 DEF Steady, q
<1>7. CASE s.state = 0 /\ ~ (p.dce /\ p.n2count # N2)
  <2> DEFINE c == [p EXCEPT !.state = 1, !.condition = {}, !.n2count = 0]
             d == x75_send_control(c, SetMode, TRUE, "COMMAND")
  <2>1. /\ c \in Station /\ c.out = <<>> /\ c.state = 1 /\ Done(c)
    <3>1. 1 \in 0 .. 4 /\ {} \in SUBSET Conditions /\ "PEER_RX_BUSY" \notin {}
      OBVIOUS
    <3>2. [p EXCEPT !.state = 1] \in Station
      BY <1>5, <3>1 DEF Station
    <3>3. [[p EXCEPT !.state = 1] EXCEPT !.condition = {}] \in Station
      BY <3>1, <3>2 DEF Station
    <3>4. c \in Station
      BY <3>3, Zeros DEF Station
    <3>5. /\ c.out = p.out /\ c.state = 1 /\ c.rx = p.rx /\ c.t2_cb = p.t2_cb
          /\ c.condition = {} /\ c.write_queue = p.write_queue
          /\ c.ack_queue = p.ack_queue
      BY <1>5 DEF Station
    <3> QED
      BY <1>5, <3>1, <3>4, <3>5
  <2>2. q = x75_start_t1timer(x75_stop_t2timer(x75_start_t1timer(d)))
    <3>1. T1Disconnected(p) = x75_establish_data_link([p EXCEPT !.state = 1])
      BY <1>5, <1>7 DEF T1Disconnected
    <3>2. x75_establish_data_link([p EXCEPT !.state = 1])
            = x75_stop_t2timer(x75_start_t1timer(d))
      BY <1>5 DEF Station, x75_establish_data_link, SetMode
    <3>3. q = x75_start_t1timer(T1Disconnected(p))
      BY <1>4, <1>5, <1>7 DEF x75_t1timer_expiry
    <3> QED
      BY <3>1, <3>2, <3>3
  <2> HIDE DEF c
  <2>3. /\ d \in Station /\ Single(d.out, SetMode)
        /\ SameRest(c, d) /\ SameQueues(c, d)
    BY <2>1, ControlFields
  <2> HIDE DEF d
  <2>4. /\ q.state = d.state /\ q.out = d.out /\ q.rx = d.rx
        /\ q.t2_cb = d.t2_cb /\ q.condition = d.condition
        /\ q.write_queue = d.write_queue /\ q.ack_queue = d.ack_queue
    BY <2>2, <2>3 DEF Station, x75_start_t1timer, x75_stop_t2timer
  <2>5. Done(q) /\ q.state = 1 /\ Single(q.out, SetMode)
    BY <2>1, <2>3, <2>4 DEF SameRest, SameQueues
  <2> QED
    BY <1>2, <2>5 DEF Steady, q
<1>8. CASE s.state = 1 /\ p.n2count = N2
  <2> DEFINE c == [x75_clear_queues(p) EXCEPT !.state = 0,
                                              !.t1_running = FALSE]
  <2>1. q = x75_disconnect_indication(c)
    BY <1>4, <1>5, <1>8 DEF x75_t1timer_expiry, T1GiveUp
  <2>2. /\ q.state = 0 /\ q.out = <<>> /\ Done(q) /\ q.t1_pending = FALSE
    BY <1>5, <2>1 DEF Station, x75_clear_queues, x75_disconnect_indication
  <2> QED
    BY <1>2, <2>2 DEF Steady, q
<1>9. CASE s.state = 1 /\ p.n2count # N2
  <2> DEFINE c == [p EXCEPT !.n2count = p.n2count + 1]
             d == x75_send_control(c, SetMode, TRUE, "COMMAND")
  <2>1. /\ c \in Station /\ c.out = <<>> /\ c.state = 1 /\ Done(c)
    <3>1. p.n2count + 1 \in 0 .. N2
      BY <1>5, <1>9, N2Assumption
    <3> QED
      BY <1>5, <1>9, <3>1 DEF Station
  <2>2. q = x75_start_t1timer(d)
    <3>1. T1Retry(p) = d
      BY <1>5, <1>9 DEF T1Retry
    <3> HIDE DEF d
    <3>2. q = x75_start_t1timer(T1Retry(p))
      BY <1>4, <1>5, <1>9 DEF x75_t1timer_expiry
    <3> QED
      BY <3>1, <3>2
  <2> HIDE DEF c
  <2>3. /\ d \in Station /\ Single(d.out, SetMode)
        /\ SameRest(c, d) /\ SameQueues(c, d)
    BY <2>1, ControlFields
  <2> HIDE DEF d
  <2>4. /\ q.state = d.state /\ q.out = d.out /\ q.rx = d.rx
        /\ q.t2_cb = d.t2_cb /\ q.condition = d.condition
        /\ q.write_queue = d.write_queue /\ q.ack_queue = d.ack_queue
    BY <2>2, <2>3 DEF Station, x75_start_t1timer
  <2>5. Done(q) /\ q.state = 1 /\ Single(q.out, SetMode)
    BY <2>1, <2>3, <2>4 DEF SameRest, SameQueues
  <2> QED
    BY <1>2, <2>5 DEF Steady, q
<1> QED
  BY <1>6, <1>7, <1>8, <1>9

\* T1 expires in data transfer.  The link is given up; or the frames that
\* were not acknowledged go out again, or what T2 was started for is done.
LEMMA T1Transfer ==
  ASSUME NEW s, Sound(s), s.state = 3, s.t1_pending = TRUE
  PROVE  LET q == T1Expires(s)
         IN  /\ Steady(q) /\ q.rx = <<>>
             /\ \/ q.state = 0 /\ q.out = <<>>
                \/ Moves(s, q, s.va) /\ q.vr = s.vr
<1> DEFINE p == [s EXCEPT !.t1_pending = FALSE]
           q == T1Expires(s)
<1>1. /\ s \in Station /\ Inv(s) /\ Core(s) /\ s.out = <<>> /\ s.rx = <<>>
      /\ s.t2_cb = "NULL" /\ "PEER_RX_BUSY" \notin s.condition
      /\ Exact(s)
  BY SoundFacts, Zenon
<1>2. Inv(q)
  BY <1>1, T1ExpiresInv
<1>3. s.t1_running = TRUE
  BY <1>1 DEF Inv, Supervised
<1>4. /\ p \in Station /\ p.t1_pending = FALSE /\ p.t1_running = TRUE
      /\ p.state = 3 /\ p.out = <<>> /\ p.rx = <<>> /\ p.up = s.up
      /\ p.t2_cb = "NULL" /\ p.condition = s.condition
      /\ p.va = s.va /\ p.vs = s.vs /\ p.vr = s.vr /\ SameQueues(s, p)
      /\ p.n2count \in 0 .. N2
  BY <1>1, <1>3 DEF Station, SameQueues
<1>5. /\ s.t1_cb = "x75_t1timer_expiry" => q = x75_t1timer_expiry(p)
      /\ s.t1_cb = "x75_t2timer_expiry" => q = x75_t2timer_expiry(p)
      /\ s.t1_cb \notin {"x75_t1timer_expiry", "x75_t2timer_expiry"} => q = p
  BY DEF T1Expires, RunCallback
<1> HIDE DEF p, q
<1>6. Core(p) /\ Exact(p)
  BY <1>1, <1>4 DEF Core, Numbers, Exact, SameQueues
<1>7. ASSUME NEW r, r.state = 3, r.va = s.va, r.vs = s.vs, r.vr = s.vr,
             r.up = s.up, r.t2_cb = s.t2_cb, r.rx = <<>>,
             "PEER_RX_BUSY" \notin r.condition,
             SameQueues(s, r), Replies(r.out, s.vr)
      PROVE  Moves(s, r, s.va) /\ r.rx = <<>> /\ r.vr = s.vr
  <2>1. Dist(s.va, s.vs) <= Dist(s.va, s.vs)
    <3>1. Dist(s.va, s.vs) \in Nat
      BY <1>1, DistNat DEF Station
    <3> QED
      BY <3>1
  <2>2. Plain(r.out, s.va, s.vs, s.vr)
    BY <1>7 DEF Replies, Plain, Numbered
  <2>3. Exact(r)
    BY <1>1, <1>7 DEF Exact, SameQueues
  <2> QED
    BY <1>7, <2>1, <2>2, <2>3 DEF Moves
<1>8. CASE s.t1_cb \notin {"x75_t1timer_expiry", "x75_t2timer_expiry"}
  <2>1. q = p
    BY <1>5, <1>8
  <2>2. Replies(p.out, s.vr)
    BY <1>4 DEF Replies
  <2>3. Moves(s, p, s.va)
    BY <1>1, <1>4, <1>7, <2>2
  <2>4. Steady(q)
    BY <1>2, <2>1, <2>3, MovesSteady
  <2> QED
    BY <1>4, <2>1, <2>3, <2>4 DEF q
<1>9. CASE s.t1_cb = "x75_t2timer_expiry"
  <2> DEFINE r == IF "ACK_PENDING" \in p.condition THEN x75_timeout_response(p)
                  ELSE p
  <2>1. q = p \/ q = [r EXCEPT !.t2_running = FALSE]
    BY <1>5, <1>9 DEF x75_t2timer_expiry
  <2>2. /\ r \in Station /\ SameRest(p, r) /\ r.va = p.va /\ r.vs = p.vs
        /\ SameQueues(p, r) /\ Replies(r.out, p.vr)
    <3>1. CASE "ACK_PENDING" \notin p.condition
      BY <1>4, <3>1 DEF SameRest, SameQueues, Replies
    <3>2. CASE "ACK_PENDING" \in p.condition
      <4> DEFINE d == x75_send_control(p, "RR", FALSE, "RESPONSE")
                 z == p.condition \ {"ACK_PENDING"}
      <4>1. /\ d \in Station /\ d.condition = p.condition
            /\ SameRest(p, d) /\ d.va = p.va /\ d.vs = p.vs /\ SameQueues(p, d)
            /\ d.out = <<[type |-> "RR", pf |-> FALSE, cr |-> "RESPONSE",
                          ns |-> 0, nr |-> p.vr, data |-> NoData]>>
        <5> DEFINE g == [type |-> "RR", pf |-> FALSE, cr |-> "RESPONSE",
                         ns |-> 0, nr |-> p.vr, data |-> NoData]
        <5>1. g \in Frame
          BY <1>4, Zeros DEF Frame, FrameType, Station
        <5>2. d = [p EXCEPT !.out = Append(p.out, g)]
          BY DEF x75_send_control, x75_transmit_buffer
        <5>3. Append(p.out, g) = <<g>> /\ <<g>> \in Seq(Frame)
          BY <1>4, <5>1
        <5> HIDE DEF g
        <5>4. d = [p EXCEPT !.out = <<g>>]
          BY <5>2, <5>3
        <5> HIDE DEF d
        <5>5. d \in Station
          BY <1>4, <5>3, <5>4 DEF Station
        <5>6. /\ d.condition = p.condition /\ d.out = <<g>>
              /\ SameRest(p, d) /\ d.va = p.va /\ d.vs = p.vs
              /\ SameQueues(p, d)
          BY <1>4, <5>4 DEF Station, SameRest, SameQueues
        <5> QED
          BY <5>5, <5>6 DEF g, d
      <4>2. r = [d EXCEPT !.condition = z]
        BY <3>2, <4>1 DEF x75_timeout_response, ClearAckPending
      <4>3. z \in SUBSET Conditions
        BY <1>4 DEF Station
      <4> HIDE DEF d, z, r
      <4>4. r \in Station /\ r.condition = z /\ r.out = d.out /\ SameQueues(d, r)
            /\ r.state = d.state /\ r.vr = d.vr /\ r.rx = d.rx /\ r.up = d.up
            /\ r.t2_cb = d.t2_cb /\ r.va = d.va /\ r.vs = d.vs
        BY <4>1, <4>2, <4>3 DEF Station, SameQueues
      <4>5. Replies(r.out, p.vr)
        BY <4>1, <4>4 DEF Replies
      <4> QED
        BY <4>1, <4>4, <4>5 DEF SameRest, SameQueues, z, r
    <3> QED
      BY <3>1, <3>2
  <2> HIDE DEF r
  <2> DEFINE t == [r EXCEPT !.t2_running = FALSE]
  <2>3. /\ SameRest(r, t) /\ t.va = r.va /\ t.vs = r.vs /\ SameQueues(r, t)
        /\ t.out = r.out
    BY <2>2 DEF Station, SameRest, SameQueues
  <2> HIDE DEF t
  <2>4. Moves(s, t, s.va) /\ t.rx = <<>> /\ t.vr = s.vr
    BY <1>1, <1>4, <1>7, <2>2, <2>3 DEF SameRest, SameQueues
  <2>5. Moves(s, p, s.va)
    <3>1. Replies(p.out, s.vr)
      BY <1>4 DEF Replies
    <3> QED
      BY <1>1, <1>4, <1>7, <3>1
  <2>6. Moves(s, q, s.va) /\ q.rx = <<>> /\ q.vr = s.vr
    BY <1>4, <2>1, <2>4, <2>5 DEF t
  <2>7. Steady(q)
    BY <1>2, <2>6, MovesSteady
  <2> QED
    BY <2>6, <2>7 DEF q
<1>10. CASE s.t1_cb = "x75_t1timer_expiry" /\ p.n2count = N2
  <2> DEFINE c == [x75_clear_queues(p) EXCEPT !.state = 0,
                                              !.t1_running = FALSE]
  <2>1. q = x75_disconnect_indication(x75_stop_t2timer(c))
    <3>1. T1GiveUp(p) = x75_disconnect_indication(x75_stop_t2timer(c))
      BY <1>4 DEF T1GiveUp
    <3> QED
      BY <1>4, <1>5, <1>10, <3>1 DEF x75_t1timer_expiry
  <2>2. /\ q.state = 0 /\ q.out = <<>> /\ q.rx = <<>> /\ q.t1_pending = FALSE
        /\ q.write_queue = <<>> /\ q.ack_queue = <<>> /\ q.t2_cb = "NULL"
        /\ q.condition = s.condition
    BY <1>4, <2>1 DEF Station, x75_clear_queues, x75_disconnect_indication,
                      x75_stop_t2timer
  <2> QED
    BY <1>1, <1>2, <2>2 DEF Steady, q
<1>11. CASE s.t1_cb = "x75_t1timer_expiry" /\ p.n2count # N2
  <2> DEFINE c == [p EXCEPT !.n2count = p.n2count + 1]
             r == x75_requeue_frames(c)
             k == x75_kick(r)
  <2>1. p.n2count + 1 \in 0 .. N2
    BY <1>4, <1>11, N2Assumption
  <2>2. q = x75_start_t1timer(k)
    <3>1. T1Retry(p) = k
      BY <1>4 DEF T1Retry
    <3> HIDE DEF k
    <3> QED
      BY <1>4, <1>5, <1>11, <3>1 DEF x75_t1timer_expiry
  <2>3. /\ c \in Station /\ c.out = <<>> /\ c.state = 3 /\ c.up = s.up
        /\ c.t2_cb = s.t2_cb /\ c.condition = s.condition
        /\ c.va = s.va /\ c.vs = s.vs /\ c.vr = s.vr /\ SameQueues(p, c)
        /\ c.rx = <<>>
    BY <1>1, <1>4, <2>1 DEF Station, SameQueues
  <2> HIDE DEF c
  <2>4. Core(c) /\ Exact(c)
    BY <1>4, <1>6, <2>3 DEF Core, Numbers, Exact, SameQueues
  <2>5. /\ SameRest(c, r) /\ r.va = c.va /\ r.vs = c.vs /\ r.out = c.out
        /\ r.condition = c.condition /\ Resendable(r)
    BY <2>4, RequeueExact
  <2>6. Core(r)
    BY <2>4, Requeue, KeepsCore, CoreFacts
  <2> HIDE DEF r
  <2>7. Replies(r.out, r.vr)
    BY <2>3, <2>5 DEF Replies
  <2>8. Moves(s, k, r.va) /\ k.vr = r.vr /\ k.rx = r.rx
    BY <1>1, <2>3, <2>5, <2>6, <2>7, KickMoves DEF SameRest
  <2>9. k \in Station
    BY <2>6, Kick, KeepsCore, CoreFacts
  <2> HIDE DEF k
  <2>10. /\ q.state = k.state /\ q.va = k.va /\ q.up = k.up
         /\ q.t2_cb = k.t2_cb /\ q.condition = k.condition /\ q.vs = k.vs
         /\ q.out = k.out /\ q.vr = k.vr /\ q.rx = k.rx /\ SameQueues(k, q)
    BY <2>2, <2>9 DEF Station, x75_start_t1timer, SameQueues
  <2>11. Exact(q)
    BY <2>8, <2>10 DEF Moves, Exact, SameQueues
  <2>12. Moves(s, q, s.va) /\ q.vr = s.vr /\ q.rx = <<>>
    BY <2>3, <2>5, <2>8, <2>10, <2>11 DEF Moves, SameRest
  <2>13. Steady(q)
    BY <1>2, <2>12, MovesSteady
  <2> QED
    BY <2>12, <2>13 DEF q
<1> QED
  BY <1>8, <1>9, <1>10, <1>11

\* T2's own callback is never set: its expiry does nothing.
LEMMA T2Idle ==
  ASSUME NEW s, Sound(s)
  PROVE  LET q == T2Expires(s)
         IN  Steady(q) /\ q.rx = <<>> /\ Still(s, q)
<1> DEFINE q == T2Expires(s)
<1>1. /\ s \in Station /\ Inv(s) /\ s.out = <<>> /\ s.rx = <<>>
      /\ s.t2_cb = "NULL"
  BY SoundFacts
<1>2. Inv(q)
  BY <1>1, T2ExpiresInv
<1>3. q = [s EXCEPT !.t2_pending = FALSE]
  BY <1>1 DEF T2Expires, RunCallback
<1> HIDE DEF q
<1>4. /\ Still(s, q) /\ q.condition = s.condition
      /\ q.t1_pending = s.t1_pending /\ q.t1_cb = s.t1_cb
  BY <1>1, <1>3 DEF Station, Still, SameRest, SameQueues
<1>5. Steady(q)
  BY <1>2, <1>4 DEF Sound, Steady, Still, SameRest, SameQueues, Exact
<1> QED
  BY <1>1, <1>4, <1>5 DEF Still, SameRest, q

\* The driver takes what the handler left.
LEMMA Flushed ==
  ASSUME NEW q, Steady(q)
  PROVE  LET z == Flush(q)
         IN  /\ Sound(z) /\ z.state = q.state
             /\ z.va = q.va /\ z.vs = q.vs /\ z.vr = q.vr
             /\ q.out \in Seq(Frame) /\ q.rx \in Seq(Data)
<1> DEFINE z == Flush(q)
<1>1. q \in Station /\ Inv(q)
  BY DEF Steady, Inv, Core
<1>2. Inv(z)
  BY <1>1, FlushInv
<1>3. /\ z.state = q.state /\ z.va = q.va /\ z.vs = q.vs /\ z.vr = q.vr
      /\ z.out = <<>> /\ z.rx = <<>> /\ SameQueues(q, z)
      /\ z.condition = q.condition /\ z.t2_cb = q.t2_cb
      /\ z.t1_pending = q.t1_pending /\ z.t1_cb = q.t1_cb
  BY <1>1 DEF Flush, Station, SameQueues
<1> HIDE DEF z
<1>4. Steady(z)
  BY <1>2, <1>3 DEF Steady, SameQueues, Exact
<1>5. q.out \in Seq(Frame) /\ q.rx \in Seq(Data)
  BY <1>1 DEF Station
<1> QED
  BY <1>3, <1>4, <1>5 DEF Sound, z

-----------------------------------------------------------------------------
(* The link.  A station a, the frames ca on their way to it, its peer b    *)
(* and the frames cb on their way to that.  While T1 is patient at most    *)
(* one unnumbered frame is under way, so that the link is in one of three  *)
(* phases: calm, with numbered frames only; a SABM(E) or DM is on its way  *)
(* to one side; a UA is, behind it what its sender has sent since.         *)

Traffic(c) ==
  /\ c \in Seq(Frame)
  /\ \A i \in DOMAIN c :
       /\ c[i].type \in Numbered \cup Unnumbered
       /\ c[i].type = "I" => c[i].data \in Data

AllNumbered(c) == \A i \in DOMAIN c : c[i].type \in Numbered

Calm(a, b, ca, cb) ==
  /\ AllNumbered(ca) /\ AllNumbered(cb)
  /\ a.state = 3 /\ b.state # 3 => ca = <<>>
  /\ b.state = 3 /\ a.state # 3 => cb = <<>>
  /\ a.state = 3 /\ b.state = 3 =>
       /\ Fits(a.va, a.vs, b.vr, cb, 0, ca, 0)
       /\ Fits(b.va, b.vs, a.vr, ca, 0, cb, 0)

\* Whoever sent a SABM(E) waits for the UA; a DM comes from state 0.
Asked(b, ca, cb) ==
  /\ Len(ca) = 1 /\ AllNumbered(cb)
  /\ \/ ca[1].type = SetMode /\ b.state = 1
     \/ ca[1].type = "DM" /\ b.state = 0

\* What is in front of the UA is left over from before and will be dropped
\* in state 1; what is behind it fits the numbering that the UA starts.
UAAt(b, ca, i) ==
  /\ ca[i].type = "UA"
  /\ \A j \in DOMAIN ca : j # i => ca[j].type \in Numbered
  /\ \/ b.state = 1 /\ i = Len(ca)
     \/ /\ b.state = 3 /\ b.va = 0 /\ b.vr = 0
        /\ IFramesFit(ca, i, 0, b.vs) /\ AcksFit(ca, i, 0, 0)

Granted(a, b, ca, cb) ==
  a.state = 1 /\ cb = <<>> /\ \E i \in DOMAIN ca : UAAt(b, ca, i)

Phase(a, b, ca, cb) ==
  \/ Calm(a, b, ca, cb)
  \/ Asked(b, ca, cb) \/ Asked(a, cb, ca)
  \/ Granted(a, b, ca, cb) \/ Granted(b, a, cb, ca)

Link(a, b, ca, cb) ==
  /\ Sound(a) /\ Sound(b) /\ Traffic(ca) /\ Traffic(cb)
  /\ Phase(a, b, ca, cb)

LEMMA LinkSwap ==
  ASSUME NEW a, NEW b, NEW ca, NEW cb, Link(a, b, ca, cb)
  PROVE  Link(b, a, cb, ca)
  BY DEF Link, Phase, Calm

LEMMA TrafficTail ==
  ASSUME NEW c, Traffic(c), c # <<>>
  PROVE  /\ Traffic(Tail(c))
         /\ AllNumbered(c) => AllNumbered(Tail(c))
         /\ Head(c) = c[1] /\ 1 \in DOMAIN c /\ c[1] \in Frame
         /\ c[1].type \in Numbered \cup Unnumbered
         /\ c[1].type = "I" => c[1].data \in Data
<1>1. /\ Tail(c) \in Seq(Frame)
      /\ \A i \in DOMAIN Tail(c) : i + 1 \in DOMAIN c /\ Tail(c)[i] = c[i + 1]
      /\ 1 \in DOMAIN c /\ Head(c) = c[1] /\ c[1] \in Frame
  BY TailOf DEF Traffic
<1> QED
  BY <1>1 DEF Traffic, AllNumbered

LEMMA TrafficConcat ==
  ASSUME NEW c, Traffic(c), NEW o, Traffic(o)
  PROVE  /\ Traffic(c \o o)
         /\ AllNumbered(c) /\ AllNumbered(o) => AllNumbered(c \o o)
<1>1. /\ c \o o \in Seq(Frame)
      /\ \A i \in DOMAIN (c \o o) :
           \/ i \in DOMAIN c /\ (c \o o)[i] = c[i]
           \/ i - Len(c) \in DOMAIN o /\ (c \o o)[i] = o[i - Len(c)]
  BY ConcatOf DEF Traffic
<1> QED
  BY <1>1 DEF Traffic, AllNumbered

LEMMA NothingSent ==
  ASSUME NEW c, Traffic(c)
  PROVE  c \o <<>> = c /\ Traffic(<<>>) /\ AllNumbered(<<>>)
  BY DEF Traffic, AllNumbered

LEMMA PlainTraffic ==
  ASSUME NEW o \in Seq(Frame), NEW va, NEW vs, NEW vr, Plain(o, va, vs, vr)
  PROVE  /\ Traffic(o) /\ AllNumbered(o)
         /\ \A i \in DOMAIN o : o[i].type \in Numbered => o[i].nr = vr
         /\ \A i \in DOMAIN o : o[i].type = "I" =>
              o[i].ns \in Seqno /\ Dist(va, o[i].ns) < Dist(va, vs)
  BY DEF Plain, Traffic, AllNumbered

LEMMA SingleTraffic ==
  ASSUME NEW o, NEW t \in Unnumbered, Single(o, t)
  PROVE  Traffic(o) /\ o # <<>>
<1>1. t \in Unnumbered /\ t # "I"
  BY ModeTypes DEF Unnumbered
<1>2. /\ o \in Seq(Frame) /\ o # <<>> /\ o[1].type = t
      /\ \A i \in DOMAIN o : i = 1
  <2>1. o \in Seq(Frame) /\ Len(o) = 1 /\ o[1].type = t
    BY DEF Single
  <2>2. DOMAIN o = 1 .. 1
    BY <2>1
  <2>3. o # <<>>
    <3>1. Len(<<>>) = 0 /\ 0 # 1
      OBVIOUS
    <3> QED
      BY <2>1, <3>1, Zenon
  <2> QED
    BY <2>1, <2>2, <2>3
<1>3. \A i \in DOMAIN o : o[i].type = t
  BY <1>2
<1> QED
  BY <1>1, <1>2, <1>3 DEF Traffic

\* An asked or granted link has a frame under way.
LEMMA QuietCalm ==
  ASSUME NEW a, NEW b, Phase(a, b, <<>>, <<>>)
  PROVE  Calm(a, b, <<>>, <<>>)
<1>1. Len(<<>>) = 0 /\ DOMAIN <<>> = {}
  OBVIOUS
<1> QED
  BY <1>1 DEF Phase, Asked, Granted

\* The first frame is gone.
LEMMA FitsTail ==
  ASSUME NEW va, NEW vs, NEW vr, NEW c \in Seq(Frame), c # <<>>, NEW d
  PROVE  /\ Fits(va, vs, vr, c, 0, d, 0) => Fits(va, vs, vr, Tail(c), 0, d, 0)
         /\ Fits(va, vs, vr, d, 0, c, 0) => Fits(va, vs, vr, d, 0, Tail(c), 0)
<1>1. 0 \in Nat /\ 0 >= 0 - 1
  OBVIOUS
<1>2. IFramesFit(c, 0, vr, vs) => IFramesFit(Tail(c), 0, vr, vs)
  BY <1>1, IFramesTail
<1>3. AcksFit(c, 0, va, vr) => AcksFit(Tail(c), 0, va, vr)
  BY <1>1, AcksTail
<1> QED
  BY <1>2, <1>3 DEF Fits

LEMMA OneGone ==
  ASSUME NEW c \in Seq(Frame), Len(c) = 1
  PROVE  Tail(c) = <<>>
<1> DEFINE d == Tail(c)
<1>1. d \in Seq(Frame) /\ Len(d) = 0
  BY TailOf
<1> HIDE DEF d
<1>2. d = <<>>
  BY <1>1, EmptySeq
<1> QED
  BY <1>2 DEF d

LEMMA UATail ==
  ASSUME NEW b, NEW c, Traffic(c), c # <<>>, NEW i \in DOMAIN c, UAAt(b, c, i)
  PROVE  /\ i > 1 => i - 1 \in DOMAIN Tail(c) /\ UAAt(b, Tail(c), i - 1)
         /\ i = 1 => /\ AllNumbered(Tail(c))
                     /\ b.state = 1 => Tail(c) = <<>>
                     /\ b.state = 3 =>
                          /\ b.va = 0 /\ b.vr = 0
                          /\ IFramesFit(Tail(c), 0, 0, b.vs)
                          /\ AcksFit(Tail(c), 0, 0, 0)
<1>1. /\ c \in Seq(Frame) /\ Tail(c) \in Seq(Frame)
      /\ Len(Tail(c)) = Len(c) - 1 /\ Len(c) \in Nat
      /\ \A j \in DOMAIN Tail(c) : j + 1 \in DOMAIN c /\ Tail(c)[j] = c[j + 1]
  BY TailOf DEF Traffic
<1>2. /\ DOMAIN c = 1 .. Len(c) /\ DOMAIN Tail(c) = 1 .. Len(c) - 1
  BY <1>1
<1>3. i \in 1 .. Len(c)
  BY <1>2
<1>4. /\ c[i].type = "UA"
      /\ \A j \in DOMAIN c : j # i => c[j].type \in Numbered
      /\ b.state \in {1, 3}
      /\ b.state = 1 => i = Len(c)
      /\ b.state = 3 => /\ b.va = 0 /\ b.vr = 0
                        /\ IFramesFit(c, i, 0, b.vs) /\ AcksFit(c, i, 0, 0)
  BY DEF UAAt
<1>5. /\ i \in Nat /\ i - 1 \in Nat /\ i - 1 >= i - 1
  BY <1>3
<1>6. b.state = 3 => /\ IFramesFit(Tail(c), i - 1, 0, b.vs)
                     /\ AcksFit(Tail(c), i - 1, 0, 0)
  BY <1>1, <1>4, <1>5, IFramesTail, AcksTail
<1>7. CASE i > 1
  <2>1. i - 1 \in DOMAIN Tail(c) /\ Tail(c)[i - 1].type = "UA"
    <3>1. i - 1 \in DOMAIN Tail(c) /\ (i - 1) + 1 = i
      BY <1>1, <1>2, <1>3, <1>7
    <3> QED
      BY <1>1, <1>4, <3>1
  <2>2. \A j \in DOMAIN Tail(c) : j # i - 1 => Tail(c)[j].type \in Numbered
    <3>1. \A j \in DOMAIN Tail(c) : j # i - 1 => j + 1 # i
      BY <1>1, <1>2, <1>3
    <3> QED
      BY <1>1, <1>4, <3>1
  <2>3. b.state = 1 => i - 1 = Len(Tail(c))
    BY <1>1, <1>4
  <2> QED
    BY <1>4, <1>6, <1>7, <2>1, <2>2, <2>3 DEF UAAt
<1>8. CASE i = 1
  <2>1. AllNumbered(Tail(c))
    <3>1. \A j \in DOMAIN Tail(c) : j + 1 # 1
      BY <1>1, <1>2
    <3> QED
      BY <1>1, <1>4, <1>8, <3>1 DEF AllNumbered
  <2>2. b.state = 1 => Tail(c) = <<>>
    <3>1. b.state = 1 => Len(c) = 1
      BY <1>4, <1>8
    <3> QED
      BY <1>1, <3>1, OneGone
  <2>3. i - 1 = 0
    BY <1>8
  <2> QED
    BY <1>4, <1>6, <1>8, <2>1, <2>2, <2>3
<1> QED
  BY <1>3, <1>7, <1>8

\* The link without the first frame to a, whatever a made of it, as long
\* as what b can see of it is the same.
LEMMA LoseLink ==
  ASSUME NEW a, NEW b, NEW ca, NEW cb, Link(a, b, ca, cb), ca # <<>>
  PROVE  Link(a, b, Tail(ca), cb)
<1> DEFINE c == Tail(ca)
<1>1. /\ Sound(a) /\ Sound(b) /\ Traffic(ca) /\ Traffic(cb)
      /\ Phase(a, b, ca, cb)
  BY DEF Link
<1>2. Traffic(c) /\ (AllNumbered(ca) => AllNumbered(c)) /\ ca \in Seq(Frame)
  BY <1>1, TrafficTail DEF Traffic
<1>3. CASE Calm(a, b, ca, cb)
  <2>1. Calm(a, b, c, cb)
    <3>1. /\ Fits(a.va, a.vs, b.vr, cb, 0, ca, 0)
             => Fits(a.va, a.vs, b.vr, cb, 0, c, 0)
          /\ Fits(b.va, b.vs, a.vr, ca, 0, cb, 0)
             => Fits(b.va, b.vs, a.vr, c, 0, cb, 0)
      BY <1>2, FitsTail
    <3> QED
      BY <1>2, <1>3, <3>1 DEF Calm
  <2> QED
    BY <1>1, <1>2, <2>1 DEF Link, Phase
<1>4. CASE Asked(b, ca, cb)
  <2>1. c = <<>> /\ b.state \in {0, 1} /\ AllNumbered(cb) /\ AllNumbered(<<>>)
    <3>1. Len(ca) = 1
      BY <1>4 DEF Asked
    <3>2. c = <<>>
      BY <1>2, <3>1, OneGone
    <3>3. AllNumbered(<<>>)
      BY <1>1, NothingSent
    <3>4. b.state \in {0, 1} /\ AllNumbered(cb)
      BY <1>4 DEF Asked
    <3> QED
      BY <3>2, <3>3, <3>4
  <2>2. Calm(a, b, c, cb)
    <3> HIDE DEF c
    <3> QED
      BY <2>1 DEF Calm
  <2> QED
    BY <1>1, <1>2, <2>2 DEF Link, Phase
<1>5. CASE Asked(a, cb, ca)
  <2>1. Asked(a, cb, c)
    BY <1>2, <1>5 DEF Asked
  <2> QED
    BY <1>1, <1>2, <2>1 DEF Link, Phase
<1>6. CASE Granted(a, b, ca, cb)
  <2>1. PICK i \in DOMAIN ca : UAAt(b, ca, i)
    BY <1>6 DEF Granted
  <2>2. a.state = 1 /\ cb = <<>> /\ AllNumbered(cb) /\ i \in 1 .. Len(ca)
    BY <1>2, <1>1, <1>6, NothingSent DEF Granted
  <2>3. CASE i > 1
    <3>1. Granted(a, b, c, cb)
      BY <1>1, <2>1, <2>2, <2>3, UATail DEF Granted
    <3> QED
      BY <1>1, <1>2, <3>1 DEF Link, Phase
  <2>4. CASE i = 1
    <3>1. AllNumbered(c)
      BY <1>1, <2>1, <2>4, UATail
    <3>2. Calm(a, b, c, cb)
      BY <2>2, <3>1 DEF Calm
    <3> QED
      BY <1>1, <1>2, <3>2 DEF Link, Phase
  <2> QED
    BY <2>2, <2>3, <2>4
<1>7. CASE Granted(b, a, cb, ca)
  BY <1>7 DEF Granted
<1> QED
  BY <1>1, <1>3, <1>4, <1>5, <1>6, <1>7 DEF Phase

\* A step of a that sends nothing and leaves its state and its variables.
LEMMA SameLink ==
  ASSUME NEW a, NEW b, NEW ca, NEW cb, Link(a, b, ca, cb), NEW z, Sound(z),
         z.state = a.state, a.state = 3 => z.va = a.va /\ z.vs = a.vs /\ z.vr = a.vr
  PROVE  Link(z, b, ca, cb)
<1>1. /\ Sound(z) /\ Sound(b) /\ Traffic(ca) /\ Traffic(cb)
      /\ Phase(a, b, ca, cb)
  BY DEF Link
<1>2. Calm(a, b, ca, cb) => Calm(z, b, ca, cb)
  BY DEF Calm
<1>3. Asked(a, cb, ca) => Asked(z, cb, ca)
  BY DEF Asked
<1>4. Granted(a, b, ca, cb) => Granted(z, b, ca, cb)
  BY DEF Granted
<1>5. Granted(b, a, cb, ca) => Granted(b, z, cb, ca)
  BY DEF Granted, UAAt
<1> QED
  BY <1>1, <1>2, <1>3, <1>4, <1>5 DEF Link, Phase

LEMMA SoundState == \A s : Sound(s) => s.state \in {0, 1, 3} /\ Inv(s)
  BY DEF Sound, Steady

LEMMA SoundNumbers ==
  ASSUME NEW s, Steady(s)
  PROVE  /\ s.va \in Seqno /\ s.vs \in Seqno /\ s.vr \in Seqno
         /\ Dist(s.va, s.vs) <= Window /\ s.state \in {0, 1, 3}
  BY DEF Steady, Inv, Core, Numbers, Station

\* What a moving station q sends, o, fits behind what is under way, c: as I
\* frames, if its peer expects vr, and as acknowledgements.
LEMMA FitsSend ==
  ASSUME NEW va \in Seqno, NEW vs \in Seqno, NEW ws \in Seqno, NEW wr \in Seqno,
         NEW o \in Seq(Frame), Plain(o, va, ws, wr),
         Dist(va, vs) <= Dist(va, ws), Dist(va, ws) <= Window,
         NEW c \in Seq(Frame), NEW k \in Nat
  PROVE  /\ \A vr \in Seqno :
              Dist(va, vr) <= Dist(va, vs) /\ IFramesFit(c, k, vr, vs) =>
                IFramesFit(c \o o, k, vr, ws)
         /\ \A ba, ar \in Seqno :
              Dist(ba, ar) <= Dist(ba, wr) /\ AcksFit(c, k, ba, ar) =>
                AcksFit(c \o o, k, ba, wr)
<1>1. /\ \A i \in DOMAIN o : o[i].type \in Numbered => o[i].nr = wr
      /\ \A i \in DOMAIN o : o[i].type = "I" =>
           o[i].ns \in Seqno /\ Dist(va, o[i].ns) < Dist(va, ws)
  BY PlainTraffic
<1>2. ASSUME NEW vr \in Seqno, Dist(va, vr) <= Dist(va, vs),
             IFramesFit(c, k, vr, vs)
      PROVE  IFramesFit(c \o o, k, vr, ws)
  BY <1>1, <1>2, IFramesAppend
<1>3. ASSUME NEW ba \in Seqno, NEW ar \in Seqno, Dist(ba, ar) <= Dist(ba, wr),
             AcksFit(c, k, ba, ar)
      PROVE  AcksFit(c \o o, k, ba, wr)
  BY <1>1, <1>3, AcksAppend
<1> QED
  BY <1>2, <1>3

\* A station in data transfer sends by itself.
LEMMA MovesLink ==
  ASSUME NEW a, NEW b, NEW ca, NEW cb, Link(a, b, ca, cb), a.state = 3,
         NEW q, Steady(q), Moves(a, q, a.va), q.vr = a.vr
  PROVE  Link(Flush(q), b, ca, cb \o q.out)
<1> DEFINE z == Flush(q)
           d == cb \o q.out
<1>1. /\ Sound(a) /\ Sound(b) /\ Traffic(ca) /\ Traffic(cb)
      /\ Phase(a, b, ca, cb) /\ ca \in Seq(Frame) /\ cb \in Seq(Frame)
  BY DEF Link, Traffic
<1>2. /\ Sound(z) /\ z.state = 3 /\ z.va = a.va /\ z.vs = q.vs /\ z.vr = a.vr
      /\ q.out \in Seq(Frame)
  BY Flushed DEF Moves
<1>3. /\ a.va \in Seqno /\ a.vs \in Seqno /\ a.vr \in Seqno
      /\ b.va \in Seqno /\ b.vs \in Seqno /\ b.vr \in Seqno
      /\ q.vs \in Seqno /\ Dist(a.va, q.vs) <= Window
  <2>1. q.va = a.va
    BY DEF Moves
  <2> QED
    BY <1>1, <2>1, SoundNumbers DEF Sound
<1>4. Dist(a.va, a.vs) <= Dist(a.va, q.vs) /\ Plain(q.out, a.va, q.vs, a.vr)
  BY DEF Moves
<1>5. Traffic(q.out) /\ AllNumbered(q.out)
  BY <1>2, <1>4, PlainTraffic
<1>6. Traffic(d) /\ (AllNumbered(cb) => AllNumbered(d))
  BY <1>1, <1>5, TrafficConcat
<1>7. ASSUME NEW k \in Nat
      PROVE  /\ \A vr \in Seqno :
                  Dist(a.va, vr) <= Dist(a.va, a.vs) /\ IFramesFit(cb, k, vr, a.vs)
                    => IFramesFit(d, k, vr, q.vs)
             /\ \A ba \in Seqno :
                  AcksFit(cb, k, ba, a.vr) => AcksFit(d, k, ba, a.vr)
  <2>1. \A ba \in Seqno : Dist(ba, a.vr) <= Dist(ba, a.vr)
    <3>1. \A ba \in Seqno : Dist(ba, a.vr) \in Nat
      BY <1>3, DistNat
    <3> QED
      BY <3>1
  <2> QED
    BY <1>1, <1>2, <1>3, <1>4, <2>1, FitsSend
<1> HIDE DEF z, d
<1>8. CASE Calm(a, b, ca, cb)
  <2>1. CASE b.state # 3
    <3>1. Calm(z, b, ca, d)
      BY <1>2, <1>6, <1>8, <2>1 DEF Calm
    <3> QED
      BY <1>1, <1>2, <1>6, <3>1 DEF Link, Phase, z, d
  <2>2. CASE b.state = 3
    <3>1. /\ Fits(a.va, a.vs, b.vr, cb, 0, ca, 0)
          /\ Fits(b.va, b.vs, a.vr, ca, 0, cb, 0)
      BY <1>8, <2>2 DEF Calm
    <3>2. /\ Dist(a.va, b.vr) <= Dist(a.va, a.vs)
          /\ IFramesFit(cb, 0, b.vr, a.vs) /\ AcksFit(ca, 0, a.va, b.vr)
      BY <3>1 DEF Fits
    <3>3. Dist(a.va, b.vr) <= Dist(a.va, q.vs)
      <4>1. /\ Dist(a.va, b.vr) \in Nat /\ Dist(a.va, a.vs) \in Nat
            /\ Dist(a.va, q.vs) \in Nat
        BY <1>3, DistNat
      <4> QED
        BY <1>4, <3>2, <4>1
    <3>4. Fits(a.va, q.vs, b.vr, d, 0, ca, 0)
      <4>1. 0 \in Nat
        OBVIOUS
      <4>2. IFramesFit(d, 0, b.vr, q.vs)
        BY <1>3, <1>7, <3>2, <4>1
      <4> QED
        BY <3>2, <3>3, <4>2 DEF Fits
    <3>5. Fits(b.va, b.vs, a.vr, ca, 0, d, 0)
      BY <1>3, <1>7, <3>1 DEF Fits
    <3>6. Calm(z, b, ca, d)
      BY <1>2, <1>6, <1>8, <3>4, <3>5 DEF Calm
    <3> QED
      BY <1>1, <1>2, <1>6, <3>6 DEF Link, Phase, z, d
  <2> QED
    BY <2>1, <2>2
<1>9. CASE Asked(b, ca, cb)
  <2>1. Asked(b, ca, d)
    BY <1>6, <1>9 DEF Asked
  <2> QED
    BY <1>1, <1>2, <1>6, <2>1 DEF Link, Phase, z, d
<1>10. CASE Asked(a, cb, ca)
  BY <1>10 DEF Asked
<1>11. CASE Granted(a, b, ca, cb)
  BY <1>11 DEF Granted
<1>12. CASE Granted(b, a, cb, ca)
  <2>1. PICK i \in DOMAIN cb : UAAt(a, cb, i)
    BY <1>12 DEF Granted
  <2>2. /\ cb[i].type = "UA"
        /\ \A j \in DOMAIN cb : j # i => cb[j].type \in Numbered
        /\ a.va = 0 /\ a.vr = 0
        /\ IFramesFit(cb, i, 0, a.vs) /\ AcksFit(cb, i, 0, 0)
    BY <2>1 DEF UAAt
  <2>3. i \in Nat /\ 0 \in Seqno /\ Dist(0, 0) = 0 /\ Dist(0, a.vs) \in Nat
    <3>1. i \in Nat
      BY <1>1
    <3> QED
      BY <1>3, <3>1, Zeros, DistNat
  <2>4. Dist(0, 0) <= Dist(0, a.vs)
    BY <2>3
  <2>5. IFramesFit(d, i, 0, q.vs) /\ AcksFit(d, i, 0, 0)
    BY <1>7, <2>2, <2>3, <2>4
  <2>6. /\ i \in DOMAIN d /\ d[i] = cb[i]
        /\ \A j \in DOMAIN d : j # i => d[j].type \in Numbered
    <3>1. /\ \A j \in DOMAIN cb : j \in DOMAIN d /\ d[j] = cb[j]
          /\ \A j \in DOMAIN d :
               \/ j \in DOMAIN cb
               \/ j - Len(cb) \in DOMAIN q.out /\ d[j] = q.out[j - Len(cb)]
      BY <1>1, <1>2, ConcatOf DEF d
    <3> QED
      BY <1>5, <2>2, <3>1 DEF AllNumbered
  <2>7. UAAt(z, d, i)
    BY <1>2, <2>2, <2>5, <2>6 DEF UAAt
  <2>8. Granted(b, z, d, ca)
    BY <1>12, <2>6, <2>7 DEF Granted
  <2> QED
    BY <1>1, <1>2, <1>6, <2>8 DEF Link, Phase, z, d
<1> QED
  BY <1>1, <1>8, <1>9, <1>10, <1>11, <1>12 DEF Phase

\* A numbered frame between two stations in data transfer: its N(R) is one
\* that a accepts.
LEMMA TransferReceive ==
  ASSUME NEW a, NEW b, NEW ca, NEW cb, Link(a, b, ca, cb), Calm(a, b, ca, cb),
         a.state = 3, b.state = 3, ca # <<>>
  PROVE  LET q == x75_data_input(a, Head(ca))
         IN  Link(Flush(q), b, Tail(ca), cb \o q.out)
<1> DEFINE f == Head(ca)
           q == x75_data_input(a, f)
           z == Flush(q)
           c == Tail(ca)
           d == cb \o q.out
<1>1. /\ Sound(a) /\ Sound(b) /\ Traffic(ca) /\ Traffic(cb)
      /\ ca \in Seq(Frame) /\ cb \in Seq(Frame)
      /\ AllNumbered(ca) /\ AllNumbered(cb)
      /\ Fits(a.va, a.vs, b.vr, cb, 0, ca, 0)
      /\ Fits(b.va, b.vs, a.vr, ca, 0, cb, 0)
  BY DEF Link, Traffic, Calm
<1>2. /\ Traffic(c) /\ AllNumbered(c) /\ f = ca[1] /\ f \in Frame
      /\ f.type \in Numbered /\ (f.type = "I" => f.data \in Data)
      /\ 1 \in DOMAIN ca
  <2>1. /\ Traffic(c) /\ (AllNumbered(ca) => AllNumbered(c)) /\ f = ca[1]
        /\ ca[1] \in Frame /\ (ca[1].type = "I" => ca[1].data \in Data)
        /\ 1 \in DOMAIN ca
    BY <1>1, TrafficTail, Zenon
  <2>2. ca[1].type \in Numbered
    BY <1>1, <2>1 DEF AllNumbered
  <2> HIDE DEF f
  <2> QED
    BY <1>1, <2>1, <2>2
<1>3. /\ a.va \in Seqno /\ a.vs \in Seqno /\ a.vr \in Seqno
      /\ b.va \in Seqno /\ b.vs \in Seqno /\ b.vr \in Seqno
      /\ f.nr \in Seqno
  <2>1. Steady(a) /\ Steady(b)
    BY <1>1 DEF Sound
  <2>2. f.nr \in Seqno
    <3> HIDE DEF f
    <3> QED
      BY <1>2 DEF Frame
  <2> QED
    BY <2>1, <2>2, SoundNumbers
<1>4. /\ Dist(a.va, b.vr) <= Dist(a.va, a.vs) /\ IFramesFit(cb, 0, b.vr, a.vs)
      /\ AcksFit(ca, 0, a.va, b.vr)
      /\ Dist(b.va, a.vr) <= Dist(b.va, b.vs) /\ IFramesFit(ca, 0, a.vr, b.vs)
      /\ AcksFit(cb, 0, b.va, a.vr)
  BY <1>1 DEF Fits
<1>5. Dist(a.va, f.nr) <= Dist(a.va, b.vr) /\ AcksFit(c, 0, f.nr, b.vr)
  BY <1>1, <1>2, <1>3, <1>4, AcksAdvance
<1>6. /\ Dist(a.va, f.nr) \in Nat /\ Dist(a.va, b.vr) \in Nat
      /\ Dist(a.va, a.vs) \in Nat
  BY <1>3, DistNat
<1>7. Dist(a.va, f.nr) <= Dist(a.va, a.vs)
  BY <1>4, <1>5, <1>6
<1>8. /\ Inv(a) /\ Exact(a) /\ a.out = <<>> /\ a.rx = <<>>
      /\ "PEER_RX_BUSY" \notin a.condition
  BY <1>1, SoundFacts
<1>9. /\ Moves(a, q, f.nr)
      /\ q.vr = IF InSequence(a, f) THEN Plus(a.vr, 1) ELSE a.vr
  <2>1. x75_validate_nr(a, f.nr)
    BY <1>7 DEF x75_validate_nr
  <2> HIDE DEF f
  <2> QED
    BY <1>2, <1>8, <2>1, NumberedInput
<1>10. Inv(q)
  <2> HIDE DEF f
  <2> QED
    BY <1>2, <1>8, DataInput
<1> HIDE DEF f, q
<1>11. Steady(q)
  BY <1>1, <1>9, <1>10, MovesSteady
<1>12. /\ Sound(z) /\ z.state = 3 /\ z.va = f.nr /\ z.vs = q.vs /\ z.vr = q.vr
       /\ q.out \in Seq(Frame)
  BY <1>9, <1>11, Flushed DEF Moves
<1>13. /\ q.vs \in Seqno /\ q.vr \in Seqno /\ Dist(f.nr, q.vs) <= Window
       /\ Dist(f.nr, a.vs) <= Dist(f.nr, q.vs)
       /\ Plain(q.out, f.nr, q.vs, q.vr)
  BY <1>9, <1>11, SoundNumbers DEF Moves
<1>14. Traffic(q.out) /\ AllNumbered(q.out)
  BY <1>12, <1>13, PlainTraffic
<1>15. Traffic(d) /\ AllNumbered(d)
  BY <1>1, <1>14, TrafficConcat
<1>16. 0 \in Nat
  OBVIOUS
<1>17. Fits(f.nr, q.vs, b.vr, d, 0, c, 0)
  <2>1. /\ Dist(f.nr, b.vr) = Dist(a.va, b.vr) - Dist(a.va, f.nr)
        /\ Dist(f.nr, a.vs) = Dist(a.va, a.vs) - Dist(a.va, f.nr)
    BY <1>3, <1>5, <1>7, DistOrder
  <2>2. Dist(f.nr, b.vr) <= Dist(f.nr, a.vs)
    BY <1>4, <1>6, <2>1
  <2>3. Dist(f.nr, b.vr) <= Dist(f.nr, q.vs)
    <3>1. /\ Dist(f.nr, b.vr) \in Nat /\ Dist(f.nr, a.vs) \in Nat
          /\ Dist(f.nr, q.vs) \in Nat
      BY <1>3, <1>13, DistNat
    <3> QED
      BY <1>13, <2>2, <3>1
  <2>4. IFramesFit(d, 0, b.vr, q.vs)
    BY <1>1, <1>3, <1>4, <1>12, <1>13, <1>16, <2>2, FitsSend
  <2> QED
    BY <1>5, <2>3, <2>4 DEF Fits
<1>18. Fits(b.va, b.vs, q.vr, c, 0, d, 0)
  <2>1. ASSUME Dist(b.va, a.vr) <= Dist(b.va, q.vr)
        PROVE  AcksFit(d, 0, b.va, q.vr)
    BY <1>1, <1>3, <1>4, <1>12, <1>13, <1>16, <2>1, FitsSend
  <2>2. Dist(b.va, a.vr) \in Nat
    BY <1>3, DistNat
  <2>3. CASE InSequence(a, f)
    <3>1. 0 < Dist(a.vr, b.vs) /\ IFramesFit(c, 0, q.vr, b.vs)
      BY <1>1, <1>2, <1>3, <1>4, <1>9, <2>3, IFramesAccept DEF InSequence
    <3>2. /\ Dist(b.va, q.vr) = Dist(b.va, a.vr) + 1
          /\ Dist(b.va, q.vr) <= Dist(b.va, b.vs)
      BY <1>3, <1>4, <1>9, <2>3, <3>1, DistNext
    <3>3. AcksFit(d, 0, b.va, q.vr)
      BY <2>1, <2>2, <3>2
    <3> QED
      BY <3>1, <3>2, <3>3 DEF Fits
  <2>4. CASE ~ InSequence(a, f)
    <3>1. q.vr = a.vr
      BY <1>9, <2>4
    <3>2. 0 >= 0 - 1 /\ Dist(b.va, a.vr) <= Dist(b.va, a.vr)
      BY <2>2
    <3>3. IFramesFit(c, 0, a.vr, b.vs)
      BY <1>1, <1>4, <1>16, <3>2, IFramesTail
    <3>4. AcksFit(d, 0, b.va, a.vr)
      BY <2>1, <3>1, <3>2
    <3> QED
      BY <1>4, <3>1, <3>3, <3>4 DEF Fits
  <2> QED
    BY <2>3, <2>4
<1> HIDE DEF z, c, d
<1>19. Calm(z, b, c, d)
  BY <1>2, <1>12, <1>15, <1>17, <1>18 DEF Calm
<1> QED
  BY <1>1, <1>2, <1>12, <1>15, <1>19 DEF Link, Phase, z, c, d, q, f

\* A station that is not in data transfer drops numbered frames.
LEMMA DroppedLink ==
  ASSUME NEW a, NEW b, NEW ca, NEW cb, Link(a, b, ca, cb), ca # <<>>,
         a.state \in {0, 1}, ca[1].type \in Numbered
  PROVE  LET q == x75_data_input(a, Head(ca))
         IN  Link(Flush(q), b, Tail(ca), cb \o q.out)
<1> DEFINE f == Head(ca)
           q == x75_data_input(a, f)
           z == Flush(q)
<1>1. /\ f \in Frame /\ f.type \in Numbered
      /\ f.type = "I" => f.data \in Data
  <2>1. Traffic(ca)
    BY DEF Link
  <2>2. /\ f = ca[1] /\ ca[1] \in Frame
        /\ (ca[1].type = "I" => ca[1].data \in Data)
    BY <2>1, TrafficTail
  <2> HIDE DEF f
  <2> QED
    BY <2>2
<1>2. f.type \in Numbered \cup Unnumbered /\ f.type \notin {SetMode, "UA", "DM"}
  <2> HIDE DEF f
  <2> QED
    BY <1>1, ModeTypes DEF Numbered
<1>3. Sound(a) /\ Traffic(cb)
  BY DEF Link
<1> HIDE DEF f
<1>4. Steady(q) /\ q.state = a.state /\ q.out = <<>>
  <2>1. CASE a.state = 0
    BY <1>1, <1>2, <1>3, <2>1, Input0
  <2>2. CASE a.state = 1
    BY <1>1, <1>2, <1>3, <2>2, Input1
  <2> QED
    BY <2>1, <2>2
<1> HIDE DEF q
<1>5. Sound(z) /\ z.state = a.state
  BY <1>4, Flushed
<1> HIDE DEF z
<1>6. Link(z, b, ca, cb)
  BY <1>5, SameLink
<1>7. Link(z, b, Tail(ca), cb)
  BY <1>6, LoseLink
<1>8. cb \o q.out = cb
  BY <1>3, <1>4, NothingSent
<1> QED
  BY <1>7, <1>8 DEF z, q, f

\* A UA and what its sender sends behind it.
LEMMA UAStart ==
  ASSUME NEW c, Traffic(c), AllNumbered(c), NEW u, Single(u, "UA"),
         NEW o \in Seq(Frame), NEW vs \in Seqno, Dist(0, vs) <= Window,
         Plain(o, 0, vs, 0)
  PROVE  LET d == c \o (u \o o)
             i == Len(c) + 1
         IN  /\ Traffic(d) /\ i \in DOMAIN d /\ d[i].type = "UA"
             /\ \A j \in DOMAIN d : j # i => d[j].type \in Numbered
             /\ o = <<>> => i = Len(d)
             /\ IFramesFit(d, i, 0, vs) /\ AcksFit(d, i, 0, 0)
<1> DEFINE e == c \o u
           d == e \o o
           i == Len(c) + 1
<1>1. /\ c \in Seq(Frame) /\ u \in Seq(Frame) /\ Len(u) = 1 /\ u[1].type = "UA"
  BY DEF Traffic, Single
<1>2. c \o (u \o o) = d
  BY <1>1, ConcatAssociative
<1>3. Traffic(u) /\ Traffic(o) /\ AllNumbered(o)
  <2>1. "UA" \in Unnumbered
    BY DEF Unnumbered
  <2> QED
    BY <2>1, SingleTraffic, PlainTraffic
<1>4. Traffic(d) /\ Traffic(e) /\ e \in Seq(Frame)
  <2>1. Traffic(e)
    BY <1>3, TrafficConcat
  <2> HIDE DEF e
  <2> QED
    BY <1>3, <2>1, TrafficConcat DEF Traffic
<1>5. /\ Len(c) \in Nat /\ Len(e) = i /\ i \in Nat /\ DOMAIN c = 1 .. Len(c)
      /\ DOMAIN e = 1 .. i
  <2>1. Len(c) \in Nat /\ DOMAIN c = 1 .. Len(c)
    BY <1>1
  <2>2. Len(e) = Len(c) + Len(u)
    BY <1>1, ConcatProperties
  <2> HIDE DEF e
  <2> QED
    BY <1>1, <1>4, <2>1, <2>2
<1>6. /\ \A j \in DOMAIN c : e[j] = c[j]
      /\ \A j \in DOMAIN e :
           j \in DOMAIN c \/ (j - Len(c) \in DOMAIN u /\ e[j] = u[j - Len(c)])
  BY <1>1, ConcatOf
<1> HIDE DEF e
<1>7. /\ e[i].type = "UA"
      /\ \A j \in DOMAIN e : j # i => e[j].type \in Numbered
  <2>1. i \in DOMAIN e /\ i \notin DOMAIN c /\ i - Len(c) = 1
    BY <1>5
  <2>2. \A j \in DOMAIN e : j # i => j \in DOMAIN c
    BY <1>5
  <2> QED
    BY <1>1, <1>6, <2>1, <2>2 DEF AllNumbered
<1>8. /\ \A j \in DOMAIN e : j \in DOMAIN d /\ d[j] = e[j]
      /\ \A j \in DOMAIN d :
           j \in DOMAIN e \/ (j - Len(e) \in DOMAIN o /\ d[j] = o[j - Len(e)])
  BY <1>4, ConcatOf
<1>9. /\ i \in DOMAIN d /\ d[i].type = "UA"
      /\ \A j \in DOMAIN d : j # i => d[j].type \in Numbered
  <2>1. i \in DOMAIN e
    BY <1>5
  <2> HIDE DEF d, i
  <2> QED
    BY <1>3, <1>7, <1>8, <2>1 DEF AllNumbered
<1>10. o = <<>> => i = Len(d)
  <2>1. o = <<>> => d = e
    BY <1>4, ConcatEmptySeq
  <2> HIDE DEF d
  <2> QED
    BY <1>5, <2>1
<1>11. IFramesFit(e, i, 0, 0) /\ AcksFit(e, i, 0, 0)
  <2>1. \A j \in DOMAIN e : ~ (j > i)
    BY <1>5
  <2> HIDE DEF i
  <2> QED
    BY <1>4, <2>1, NoIFrames, NoAcks
<1>12. IFramesFit(d, i, 0, vs) /\ AcksFit(d, i, 0, 0)
  <2>1. 0 \in Seqno /\ Dist(0, 0) = 0 /\ Dist(0, vs) \in Nat
    BY Zeros, DistNat
  <2>2. Dist(0, 0) <= Dist(0, vs) /\ Dist(0, 0) <= Dist(0, 0)
    BY <2>1
  <2> HIDE DEF i
  <2> QED
    BY <1>4, <1>5, <1>11, <2>1, <2>2, FitsSend
<1> QED
  BY <1>2, <1>4, <1>9, <1>10, <1>12

\* The answer to a SABM(E), in whatever state it arrives, grants the peer.
LEMMA SetModeLink ==
  ASSUME NEW a, NEW b, NEW ca, NEW cb, Link(a, b, ca, cb), Asked(b, ca, cb),
         ca[1].type = SetMode, ca # <<>>
  PROVE  LET q == x75_data_input(a, Head(ca))
         IN  Link(Flush(q), b, Tail(ca), cb \o q.out)
<1> DEFINE f == Head(ca)
           q == x75_data_input(a, f)
           z == Flush(q)
           d == cb \o q.out
<1>1. Sound(a) /\ Sound(b) /\ Traffic(ca) /\ Traffic(cb)
  BY DEF Link
<1>2. f \in Frame /\ f.type = SetMode
  <2>1. f = ca[1] /\ ca[1] \in Frame
    BY <1>1, TrafficTail
  <2> HIDE DEF f
  <2> QED
    BY <2>1
<1>3. /\ SetMode \notin {"UA", "DM", "I"} /\ SetMode \in Numbered \cup Unnumbered
      /\ {1, 3} \cap {0} = {}
  BY ModeTypes DEF Unnumbered
<1>4. b.state = 1 /\ AllNumbered(cb) /\ Len(ca) = 1
  BY <1>3 DEF Asked
<1>5. Tail(ca) = <<>> /\ Traffic(<<>>)
  <2>1. ca \in Seq(Frame)
    BY <1>1 DEF Traffic
  <2> QED
    BY <1>1, <1>4, <2>1, OneGone, NothingSent
<1> HIDE DEF f
<1>6. /\ Steady(q)
      /\ \/ q.state = 1 /\ Single(q.out, "UA")
         \/ /\ q.state = 3 /\ q.va = 0 /\ q.vr = 0
            /\ \E u, o \in Seq(Frame) :
                 /\ q.out = u \o o /\ Single(u, "UA")
                 /\ Plain(o, 0, q.vs, 0)
  <2>1. CASE a.state = 0
    <3>1. Steady(q) /\ Fresh(q) /\ Single(q.out, "UA")
      BY <1>1, <1>2, <1>3, <2>1, Input0
    <3> HIDE DEF q
    <3>2. /\ q.out \in Seq(Frame) /\ <<>> \in Seq(Frame)
          /\ q.out = q.out \o <<>> /\ Plain(<<>>, 0, q.vs, 0)
      BY <3>1 DEF Single, Plain
    <3> QED
      BY <3>1, <3>2 DEF Fresh
  <2>2. CASE a.state = 1
    BY <1>1, <1>2, <1>3, <2>2, Input1
  <2>3. CASE a.state = 3
    <3>1. /\ Steady(q) /\ q.state = 3 /\ q.va = 0 /\ q.vr = 0
          /\ \E u, o \in Seq(Frame) :
               /\ q.out = u \o o /\ Single(u, "UA") /\ IFrames(o, 0, q.vs, 0)
      BY <1>1, <1>2, <2>3, Input3SetMode
    <3> HIDE DEF q
    <3>2. \A o : IFrames(o, 0, q.vs, 0) => Plain(o, 0, q.vs, 0)
      BY DEF IFrames, Plain, Numbered
    <3> QED
      BY <3>1, <3>2
  <2>4. a.state \in {0, 1, 3}
    BY <1>1, SoundFacts
  <2> QED
    BY <2>1, <2>2, <2>3, <2>4
<1> HIDE DEF q
<1>7. /\ Sound(z) /\ z.state = q.state
      /\ z.va = q.va /\ z.vs = q.vs /\ z.vr = q.vr /\ q.out \in Seq(Frame)
  BY <1>6, Flushed
<1> HIDE DEF z
<1>8. Traffic(d) /\ \E i \in DOMAIN d : UAAt(z, d, i)
  <2> DEFINE i == Len(cb) + 1
  <2>1. CASE q.state = 1 /\ Single(q.out, "UA")
    <3>1. /\ <<>> \in Seq(Frame) /\ q.out \o <<>> = q.out /\ Plain(<<>>, 0, 0, 0)
      BY <1>7 DEF Plain
    <3>2. 0 \in Seqno /\ Dist(0, 0) <= Window
      BY Zeros
    <3>3. /\ Traffic(d) /\ i \in DOMAIN d /\ d[i].type = "UA"
          /\ \A j \in DOMAIN d : j # i => d[j].type \in Numbered
          /\ i = Len(d)
      <4> DEFINE e == cb \o (q.out \o <<>>)
      <4>1. /\ Traffic(e) /\ i \in DOMAIN e /\ e[i].type = "UA"
            /\ \A j \in DOMAIN e : j # i => e[j].type \in Numbered
            /\ <<>> = <<>> => i = Len(e)
        BY <1>1, <1>4, <2>1, <3>1, <3>2, UAStart, Zenon
      <4>2. e = d
        BY <3>1
      <4> HIDE DEF e, d
      <4> QED
        BY <4>1, <4>2
    <3> HIDE DEF d, i
    <3>4. UAAt(z, d, i)
      BY <1>7, <2>1, <3>3 DEF UAAt
    <3> QED
      BY <3>3, <3>4
  <2>2. ASSUME q.state = 3, q.va = 0, q.vr = 0,
               NEW u \in Seq(Frame), NEW o \in Seq(Frame),
               q.out = u \o o, Single(u, "UA"), Plain(o, 0, q.vs, 0)
        PROVE  Traffic(d) /\ i \in DOMAIN d /\ UAAt(z, d, i)
    <3>1. q.vs \in Seqno /\ Dist(0, q.vs) <= Window
      BY <1>6, <2>2, SoundNumbers
    <3>2. /\ Traffic(d) /\ i \in DOMAIN d /\ d[i].type = "UA"
          /\ \A j \in DOMAIN d : j # i => d[j].type \in Numbered
          /\ IFramesFit(d, i, 0, q.vs) /\ AcksFit(d, i, 0, 0)
      BY <1>1, <1>4, <2>2, <3>1, UAStart
    <3> HIDE DEF d, i
    <3> QED
      BY <1>7, <2>2, <3>2 DEF UAAt
  <2> HIDE DEF d, i
  <2> QED
    BY <1>6, <2>1, <2>2
<1>9. Granted(b, z, d, <<>>)
  BY <1>4, <1>8 DEF Granted
<1>10. Link(z, b, <<>>, d)
  BY <1>1, <1>5, <1>7, <1>8, <1>9 DEF Link, Phase
<1> QED
  BY <1>5, <1>10 DEF z, q, f

\* A DM ends the data transfer of a station whose peer is in state 0.
LEMMA DMLink ==
  ASSUME NEW a, NEW b, NEW ca, NEW cb, Link(a, b, ca, cb), Asked(b, ca, cb),
         ca[1].type = "DM", ca # <<>>
  PROVE  LET q == x75_data_input(a, Head(ca))
         IN  Link(Flush(q), b, Tail(ca), cb \o q.out)
<1> DEFINE f == Head(ca)
           q == x75_data_input(a, f)
           z == Flush(q)
<1>1. Sound(a) /\ Sound(b) /\ Traffic(ca) /\ Traffic(cb)
  BY DEF Link
<1>2. f \in Frame /\ f.type = "DM"
  <2>1. f = ca[1] /\ ca[1] \in Frame
    BY <1>1, TrafficTail
  <2> HIDE DEF f
  <2> QED
    BY <2>1
<1>3. SetMode # "DM" /\ "DM" \in Numbered \cup Unnumbered
  BY ModeTypes DEF Unnumbered
<1>4. b.state = 0 /\ AllNumbered(cb) /\ Len(ca) = 1
  BY <1>3 DEF Asked
<1>5. Tail(ca) = <<>> /\ Traffic(<<>>) /\ AllNumbered(<<>>)
  <2>1. ca \in Seq(Frame)
    BY <1>1 DEF Traffic
  <2> QED
    BY <1>1, <1>4, <2>1, OneGone, NothingSent
<1> HIDE DEF f
<1>6. Steady(q) /\ q.state \in {0, 1} /\ q.out = <<>>
  <2>1. CASE a.state = 0
    BY <1>1, <1>2, <1>3, <2>1, Input0
  <2>2. CASE a.state = 1
    BY <1>1, <1>2, <1>3, <2>2, Input1
  <2>3. CASE a.state = 3
    BY <1>1, <1>2, <2>3, Input3DM
  <2>4. a.state \in {0, 1, 3}
    BY <1>1, SoundFacts
  <2> QED
    BY <2>1, <2>2, <2>3, <2>4
<1> HIDE DEF q
<1>7. Sound(z) /\ z.state \in {0, 1}
  BY <1>6, Flushed
<1>8. cb \o q.out = cb
  BY <1>1, <1>6, NothingSent
<1> HIDE DEF z
<1>9. Calm(z, b, <<>>, cb)
  BY <1>4, <1>5, <1>7 DEF Calm
<1>10. Link(z, b, <<>>, cb)
  BY <1>1, <1>5, <1>7, <1>9 DEF Link, Phase
<1> QED
  BY <1>5, <1>8, <1>10 DEF z, q, f

\* The UA arrives.
LEMMA UALink ==
  ASSUME NEW a, NEW b, NEW ca, NEW cb, Link(a, b, ca, cb), a.state = 1,
         cb = <<>>, ca # <<>>, UAAt(b, ca, 1)
  PROVE  LET q == x75_data_input(a, Head(ca))
         IN  Link(Flush(q), b, Tail(ca), cb \o q.out)
<1> DEFINE f == Head(ca)
           q == x75_data_input(a, f)
           z == Flush(q)
           c == Tail(ca)
<1>1. Sound(a) /\ Sound(b) /\ Traffic(ca) /\ Traffic(cb)
  BY DEF Link
<1>2. f \in Frame /\ f.type = "UA" /\ Traffic(c) /\ 1 \in DOMAIN ca
  <2>1. f = ca[1] /\ ca[1] \in Frame /\ Traffic(c) /\ 1 \in DOMAIN ca
    BY <1>1, TrafficTail
  <2>2. ca[1].type = "UA"
    BY DEF UAAt
  <2> HIDE DEF f, c
  <2> QED
    BY <2>1, <2>2
<1>3. SetMode # "UA" /\ "UA" \in Numbered \cup Unnumbered
  BY ModeTypes DEF Unnumbered
<1>4. /\ AllNumbered(c)
      /\ b.state = 1 => c = <<>>
      /\ b.state = 3 => /\ b.va = 0 /\ b.vr = 0
                        /\ IFramesFit(c, 0, 0, b.vs) /\ AcksFit(c, 0, 0, 0)
  BY <1>1, <1>2, UATail
<1>5. b.state \in {1, 3}
  BY DEF UAAt
<1> HIDE DEF f, c
<1>6. /\ Steady(q) /\ q.out = <<>> /\ (q.state = 1 \/ Fresh(q))
  BY <1>1, <1>2, <1>3, Input1
<1> HIDE DEF q
<1>7. /\ Sound(z) /\ z.state = q.state
      /\ z.va = q.va /\ z.vs = q.vs /\ z.vr = q.vr
  BY <1>6, Flushed
<1>8. cb \o q.out = cb /\ AllNumbered(cb)
  BY <1>1, <1>6, NothingSent
<1> HIDE DEF z
<1>9. CASE q.state = 1
  <2>1. Calm(z, b, c, cb)
    BY <1>4, <1>7, <1>8, <1>9 DEF Calm
  <2> QED
    BY <1>1, <1>2, <1>7, <1>8, <2>1 DEF Link, Phase, z, c, q, f
<1>10. CASE Fresh(q)
  <2>1. z.state = 3 /\ z.va = 0 /\ z.vs = 0 /\ z.vr = 0
    BY <1>7, <1>10 DEF Fresh
  <2>2. CASE b.state = 1
    <3>1. Calm(z, b, c, cb)
      BY <1>4, <1>8, <2>1, <2>2 DEF Calm
    <3> QED
      BY <1>1, <1>2, <1>7, <1>8, <3>1 DEF Link, Phase, z, c, q, f
  <2>3. CASE b.state = 3
    <3>1. Dist(0, 0) = 0 /\ Dist(0, b.vs) \in Nat
      BY <1>1, Zeros, DistNat, SoundNumbers DEF Sound
    <3>2. Dist(0, 0) <= Dist(0, 0) /\ Dist(0, 0) <= Dist(0, b.vs)
      BY <3>1
    <3>3. IFramesFit(<<>>, 0, 0, 0) /\ AcksFit(<<>>, 0, 0, 0)
      <4>1. DOMAIN <<>> = {} /\ <<>> \in Seq(Frame)
        OBVIOUS
      <4> QED
        BY <4>1, NoIFrames, NoAcks
    <3>4. Fits(z.va, z.vs, b.vr, cb, 0, c, 0)
      BY <1>4, <2>1, <2>3, <3>2, <3>3 DEF Fits
    <3>5. Fits(b.va, b.vs, z.vr, c, 0, cb, 0)
      BY <1>4, <2>1, <2>3, <3>2, <3>3 DEF Fits
    <3>6. Calm(z, b, c, cb)
      BY <1>4, <1>8, <2>1, <2>3, <3>4, <3>5 DEF Calm
    <3> QED
      BY <1>1, <1>2, <1>7, <1>8, <3>6 DEF Link, Phase, z, c, q, f
  <2> QED
    BY <1>5, <2>2, <2>3
<1> QED
  BY <1>6, <1>9, <1>10

LEMMA ReceiveLink ==
  ASSUME NEW a, NEW b, NEW ca, NEW cb, Link(a, b, ca, cb), ca # <<>>
  PROVE  LET q == x75_data_input(a, Head(ca))
         IN  Link(Flush(q), b, Tail(ca), cb \o q.out)
<1>1. /\ Sound(a) /\ Traffic(ca) /\ Phase(a, b, ca, cb) /\ 1 \in DOMAIN ca
      /\ a.state \in {0, 1, 3}
  <2>1. Sound(a) /\ Traffic(ca) /\ Phase(a, b, ca, cb)
    BY DEF Link
  <2> QED
    BY <2>1, TrafficTail, SoundFacts
<1>2. CASE Calm(a, b, ca, cb)
  <2>1. ca[1].type \in Numbered
    BY <1>1, <1>2 DEF Calm, AllNumbered
  <2>2. CASE a.state = 3
    <3>1. b.state = 3
      BY <1>2, <2>2 DEF Calm
    <3> QED
      BY <1>2, <2>2, <3>1, TransferReceive
  <2>3. CASE a.state \in {0, 1}
    BY <2>1, <2>3, DroppedLink
  <2> QED
    BY <1>1, <2>2, <2>3
<1>3. CASE Asked(b, ca, cb)
  <2>1. ca[1].type = SetMode \/ ca[1].type = "DM"
    BY <1>3 DEF Asked
  <2> QED
    BY <1>3, <2>1, SetModeLink, DMLink
<1>4. CASE Asked(a, cb, ca)
  <2>1. ca[1].type \in Numbered /\ a.state \in {0, 1}
    BY <1>1, <1>4 DEF Asked, AllNumbered
  <2> QED
    BY <2>1, DroppedLink
<1>5. CASE Granted(a, b, ca, cb)
  <2>1. PICK i \in DOMAIN ca : UAAt(b, ca, i)
    BY <1>5 DEF Granted
  <2>2. a.state = 1 /\ cb = <<>>
    BY <1>5 DEF Granted
  <2>3. CASE i = 1
    <3>1. UAAt(b, ca, 1)
      BY <2>1, <2>3
    <3> QED
      BY <2>2, <3>1, UALink
  <2>4. CASE i # 1
    <3>1. ca[1].type \in Numbered
      BY <1>1, <2>1, <2>4 DEF UAAt
    <3>2. a.state \in {0, 1}
      BY <2>2
    <3> QED
      BY <3>1, <3>2, DroppedLink
  <2> QED
    BY <2>3, <2>4
<1>6. CASE Granted(b, a, cb, ca)
  BY <1>6 DEF Granted
<1> QED
  BY <1>1, <1>2, <1>3, <1>4, <1>5, <1>6 DEF Phase

\* T1 expires while nothing is under way.
LEMMA T1Link ==
  ASSUME NEW a, NEW b, Link(a, b, <<>>, <<>>), a.t1_pending = TRUE
  PROVE  LET q == T1Expires(a)
         IN  Link(Flush(q), b, <<>>, <<>> \o q.out)
<1> DEFINE q == T1Expires(a)
           z == Flush(q)
           d == <<>> \o q.out
<1>1. /\ Sound(a) /\ Sound(b) /\ Traffic(<<>>) /\ AllNumbered(<<>>)
      /\ a.state \in {0, 1, 3} /\ Calm(a, b, <<>>, <<>>)
  <2>1. Sound(a) /\ Sound(b) /\ Traffic(<<>>) /\ Phase(a, b, <<>>, <<>>)
    BY DEF Link
  <2> QED
    BY <2>1, QuietCalm, SoundFacts, NothingSent
<1>2. ASSUME NEW t \in {SetMode, "DM"}, Steady(q), Single(q.out, t),
             t = SetMode => q.state = 1, t = "DM" => q.state = 0
      PROVE  Link(z, b, <<>>, d)
  <2> HIDE DEF q
  <2>1. Traffic(q.out) /\ q.out # <<>>
    <3>1. t \in Unnumbered
      BY DEF Unnumbered
    <3> QED
      BY <1>2, <3>1, SingleTraffic
  <2>2. d = q.out
    BY <2>1 DEF Traffic
  <2>3. Sound(z) /\ z.state = q.state
    BY <1>2, Flushed
  <2> HIDE DEF z, d
  <2>4. Asked(z, d, <<>>)
    BY <1>1, <1>2, <2>2, <2>3 DEF Asked, Single
  <2> QED
    BY <1>1, <2>1, <2>2, <2>3, <2>4 DEF Link, Phase
<1>3. ASSUME Steady(q), q.state = 0, q.out = <<>>
      PROVE  Link(z, b, <<>>, d)
  <2> HIDE DEF q
  <2>1. Sound(z) /\ z.state = 0
    BY <1>3, Flushed
  <2>2. d = <<>>
    BY <1>3
  <2> HIDE DEF z, d
  <2>3. Calm(z, b, <<>>, <<>>)
    BY <1>1, <2>1 DEF Calm
  <2> QED
    BY <1>1, <2>1, <2>2, <2>3 DEF Link, Phase
<1>4. CASE a.state \in {0, 1}
  <2>1. /\ Steady(q)
        /\ \/ q.state = 0 /\ Single(q.out, "DM")
           \/ q.state = 1 /\ Single(q.out, SetMode)
           \/ q.state = 0 /\ q.out = <<>>
    BY <1>1, <1>4, T1Waiting
  <2>2. SetMode # "DM"
    BY ModeTypes
  <2> HIDE DEF q, z, d
  <2>3. CASE q.state = 0 /\ Single(q.out, "DM")
    BY <1>2, <2>1, <2>2, <2>3 DEF q, z, d
  <2>4. CASE q.state = 1 /\ Single(q.out, SetMode)
    BY <1>2, <2>1, <2>2, <2>4 DEF q, z, d
  <2>5. CASE q.state = 0 /\ q.out = <<>>
    BY <1>3, <2>1, <2>5 DEF q, z, d
  <2> QED
    BY <2>1, <2>3, <2>4, <2>5
<1>5. CASE a.state = 3
  <2>1. /\ Steady(q)
        /\ \/ q.state = 0 /\ q.out = <<>>
           \/ Moves(a, q, a.va) /\ q.vr = a.vr
    BY <1>1, <1>5, T1Transfer
  <2>2. CASE q.state = 0 /\ q.out = <<>>
    BY <1>3, <2>1, <2>2
  <2>3. CASE Moves(a, q, a.va) /\ q.vr = a.vr
    <3> HIDE DEF q
    <3>1. Link(Flush(q), b, <<>>, <<>> \o q.out)
      BY <1>5, <2>1, <2>3, MovesLink
    <3> QED
      BY <3>1 DEF q
  <2> QED
    BY <2>1, <2>2, <2>3
<1> QED
  BY <1>1, <1>4, <1>5

LEMMA T2Link ==
  ASSUME NEW a, NEW b, NEW ca, NEW cb, Link(a, b, ca, cb)
  PROVE  LET q == T2Expires(a)
         IN  Link(Flush(q), b, ca, cb \o q.out)
<1> DEFINE q == T2Expires(a)
           z == Flush(q)
<1>1. Sound(a) /\ Traffic(cb)
  BY DEF Link
<1>2. Steady(q) /\ Still(a, q)
  BY <1>1, T2Idle
<1> HIDE DEF q
<1>3. /\ Sound(z) /\ z.state = a.state
      /\ z.va = a.va /\ z.vs = a.vs /\ z.vr = a.vr
  BY <1>2, Flushed DEF Still, SameRest
<1>4. cb \o q.out = cb
  <2>1. q.out = <<>>
    BY <1>1, <1>2, SoundFacts DEF Still
  <2> QED
    BY <1>1, <2>1, NothingSent
<1> HIDE DEF z
<1>5. Link(z, b, ca, cb)
  BY <1>3, SameLink
<1> QED
  BY <1>4, <1>5 DEF z, q

LEMMA SubmitLink ==
  ASSUME NEW a, NEW b, NEW ca, NEW cb, Link(a, b, ca, cb), a.state \in {3, 4},
         NEW x \in Data
  PROVE  LET q == x75_data_request(a, x)
         IN  Link(Flush(q), b, ca, cb \o q.out)
<1> DEFINE q == x75_data_request(a, x)
<1>1. Sound(a)
  BY DEF Link
<1>2. /\ a.state = 3 /\ Inv(a) /\ Exact(a) /\ a.out = <<>> /\ a.rx = <<>>
      /\ "PEER_RX_BUSY" \notin a.condition
  <2>1. a.state = 3
    BY <1>1, SoundState
  <2> QED
    BY <1>1, <2>1, SoundFacts
<1>3. Moves(a, q, a.va) /\ q.vr = a.vr
  BY <1>2, SubmitMoves
<1>4. Inv(q)
  BY <1>2, DataInv
<1> HIDE DEF q
<1>5. Steady(q)
  BY <1>1, <1>3, <1>4, MovesSteady
<1>6. Link(Flush(q), b, ca, cb \o q.out)
  BY <1>2, <1>3, <1>5, MovesLink
<1> QED
  BY <1>6 DEF q

-----------------------------------------------------------------------------
(* The theorem.                                                            *)

\* The types of the variables, and what the load allows.
LinkTypes ==
  /\ load \in Loads
  /\ DOMAIN st = Side /\ DOMAIN chan = Side
  /\ sent \in [Side -> Nat]
  /\ \A p \in Side : sent[p] <= load.send[p]

LinkInv ==
  load.patient => Link(st["dce"], st["dte"], chan["dce"], chan["dte"])

\* Seen from either side.
LEMMA LinkOfSide ==
  LinkInv /\ load.patient =>
    \A p \in Side : Link(st[p], st[Other(p)], chan[p], chan[Other(p)])
  BY LinkSwap DEF LinkInv, Side, Other

\* Likewise after a step that changed what is at p and what p has sent.
LEMMA SideOfLink ==
  ASSUME NEW p \in Side, load' = load, LinkTypes,
         load.patient =>
           Link(st'[p], st'[Other(p)], chan'[p], chan'[Other(p)])
  PROVE  LinkInv'
<1>1. CASE p = "dce"
  BY <1>1 DEF LinkInv, Other
<1>2. CASE p = "dte"
  BY <1>2, LinkSwap DEF LinkInv, Other
<1> QED
  BY <1>1, <1>2 DEF Side

LEMMA Sides ==
  \A p \in Side : Other(p) \in Side /\ Other(p) # p /\ Other(Other(p)) = p
  BY DEF Side, Other

\* The channels and the control blocks after Handle.
LEMMA HandleFields ==
  ASSUME NEW p \in Side, DOMAIN st = Side, NEW q, NEW in, DOMAIN in = Side,
         Handle(p, q, in)
  PROVE  /\ DOMAIN st' = Side /\ DOMAIN chan' = Side
         /\ st'[p] = Flush(q) /\ st'[Other(p)] = st[Other(p)]
         /\ chan'[p] = in[p] /\ chan'[Other(p)] = in[Other(p)] \o q.out
  BY Sides DEF Handle

LEMMA RegisterSound ==
  ASSUME NEW dce \in BOOLEAN
  PROVE  Sound(x75_register(dce))
<1> DEFINE s == x75_register(dce)
<1>1. /\ s.state = 0 /\ s.t2_cb = "NULL" /\ s.condition = {}
      /\ s.out = <<>> /\ s.rx = <<>> /\ s.write_queue = <<>>
      /\ s.ack_queue = <<>> /\ s.t1_cb = "x75_t1timer_expiry"
      /\ s.t1_running = TRUE /\ s.t1_pending = TRUE /\ s.up = "none"
      /\ s.write_queue_count = 0 /\ s.ack_queue_count = 0
      /\ s.va = 0 /\ s.vs = 0
  BY DEF x75_register, x75_start_t1timer
<1>2. s \in Station
  <2> DEFINE r == [state |-> 0, dce |-> dce, vs |-> 0, vr |-> 0, va |-> 0,
                   condition |-> {}, n2count |-> 0,
                   t1_pending |-> FALSE, t1_cb |-> "NULL", t1_running |-> FALSE,
                   t2_pending |-> FALSE, t2_cb |-> "NULL", t2_running |-> FALSE,
                   write_queue |-> <<>>, write_queue_count |-> 0,
                   ack_queue |-> <<>>, ack_queue_count |-> 0,
                   up |-> "none", crashed |-> FALSE, out |-> <<>>, rx |-> <<>>]
  <2>1. /\ <<>> \in Seq(Data) /\ <<>> \in Seq(Frame) /\ 0 \in 0 .. 4 /\ 0 \in Nat
        /\ {} \in SUBSET Conditions /\ "NULL" \in Callbacks
        /\ "x75_t1timer_expiry" \in Callbacks
    BY DEF Callbacks
  <2>2. r \in Station
    BY <2>1, Zeros DEF Station
  <2>3. s = x75_start_t1timer(r)
    BY DEF x75_register
  <2> HIDE DEF r, s
  <2> QED
    BY <2>1, <2>2, <2>3 DEF Station, x75_start_t1timer
<1> HIDE DEF s
<1>3. Inv(s)
  <2>1. Numbers(s)
    BY <1>1, Zeros, EmptyQueue DEF Numbers
  <2> QED
    BY <1>1, <1>2, <2>1 DEF Inv, Core, Supervised, Informed
<1>4. Sound(s)
  BY <1>1, <1>3 DEF Sound, Steady
<1> QED
  BY <1>4 DEF s

LEMMA LinkInit ==
  Init => LinkTypes /\ LinkInv
<1> SUFFICES ASSUME Init
             PROVE  LinkTypes /\ LinkInv
  OBVIOUS
<1>1. LinkTypes
  BY LinkAssumption DEF Init, LinkTypes
<1>2. /\ st["dce"] = x75_register(TRUE) /\ st["dte"] = x75_register(FALSE)
      /\ chan["dce"] = <<>> /\ chan["dte"] = <<>>
  BY DEF Init, Side
<1>3. /\ Sound(st["dce"]) /\ Sound(st["dte"])
      /\ st["dce"].state = 0 /\ st["dte"].state = 0
  <2>1. /\ x75_register(TRUE).state = 0 /\ x75_register(FALSE).state = 0
    BY DEF x75_register, x75_start_t1timer
  <2> QED
    BY <1>2, <2>1, RegisterSound
<1>4. Traffic(<<>>) /\ AllNumbered(<<>>)
  BY DEF Traffic, AllNumbered
<1>5. Calm(st["dce"], st["dte"], <<>>, <<>>)
  BY <1>3, <1>4 DEF Calm
<1> QED
  BY <1>1, <1>2, <1>3, <1>4, <1>5 DEF LinkInv, Link, Phase

LEMMA LinkStep ==
  LinkTypes /\ LinkInv /\ [Next]_vars => LinkTypes' /\ LinkInv'
<1> SUFFICES ASSUME LinkTypes, LinkInv, [Next]_vars
             PROVE  LinkTypes' /\ LinkInv'
  OBVIOUS
<1>1. CASE UNCHANGED vars
  BY <1>1 DEF vars, LinkTypes, LinkInv
<1>2. ASSUME NEW p \in Side, Receive(p)
      PROVE  LinkTypes' /\ LinkInv'
  <2> DEFINE in == [chan EXCEPT ![p] = Tail(@)]
             q  == x75_data_input(st[p], Head(chan[p]))
  <2>1. /\ chan[p] # <<>> /\ Handle(p, q, in)
        /\ load' = load /\ sent' = sent
    BY <1>2 DEF Receive
  <2>2. /\ DOMAIN in = Side /\ in[p] = Tail(chan[p])
        /\ in[Other(p)] = chan[Other(p)]
    BY Sides DEF LinkTypes
  <2> HIDE DEF in, q
  <2>3. /\ DOMAIN st' = Side /\ DOMAIN chan' = Side
        /\ st'[p] = Flush(q) /\ st'[Other(p)] = st[Other(p)]
        /\ chan'[p] = Tail(chan[p])
        /\ chan'[Other(p)] = chan[Other(p)] \o q.out
    <3>1. DOMAIN st = Side /\ DOMAIN in = Side /\ Handle(p, q, in)
      BY <2>1, <2>2 DEF LinkTypes
    <3>2. /\ DOMAIN st' = Side /\ DOMAIN chan' = Side
          /\ st'[p] = Flush(q) /\ st'[Other(p)] = st[Other(p)]
          /\ chan'[p] = in[p] /\ chan'[Other(p)] = in[Other(p)] \o q.out
      BY <3>1, HandleFields
    <3> QED
      BY <2>2, <3>2
  <2>4. load.patient =>
          Link(Flush(q), st[Other(p)], Tail(chan[p]), chan[Other(p)] \o q.out)
    BY <2>1, LinkOfSide, ReceiveLink DEF q
  <2> QED
    BY <2>1, <2>3, <2>4, SideOfLink DEF LinkTypes
<1>3. ASSUME NEW p \in Side, T1Fires(p)
      PROVE  LinkTypes' /\ LinkInv'
  <2> DEFINE q == T1Expires(st[p])
  <2>1. /\ st[p].t1_pending /\ (load.patient => Quiet) /\ Handle(p, q, chan)
        /\ load' = load /\ sent' = sent
    BY <1>3 DEF T1Fires
  <2> HIDE DEF q
  <2>2. /\ DOMAIN st' = Side /\ DOMAIN chan' = Side
        /\ st'[p] = Flush(q) /\ st'[Other(p)] = st[Other(p)]
        /\ chan'[p] = chan[p]
        /\ chan'[Other(p)] = chan[Other(p)] \o q.out
    BY <2>1, HandleFields DEF LinkTypes
  <2>3. ASSUME load.patient
        PROVE  Link(Flush(q), st[Other(p)], chan[p], chan[Other(p)] \o q.out)
    <3>1. Link(st[p], st[Other(p)], chan[p], chan[Other(p)])
      BY <2>3, LinkOfSide
    <3>2. chan[p] = <<>> /\ chan[Other(p)] = <<>>
      BY <2>1, <2>3, Sides DEF Quiet
    <3>3. st[p].t1_pending = TRUE
      BY <2>1, <3>1, SoundFacts DEF Link, Station
    <3> QED
      BY <3>1, <3>2, <3>3, T1Link DEF q
  <2> QED
    BY <2>1, <2>2, <2>3, SideOfLink DEF LinkTypes
<1>4. ASSUME NEW p \in Side, T2Fires(p)
      PROVE  LinkTypes' /\ LinkInv'
  <2> DEFINE q == T2Expires(st[p])
  <2>1. /\ Handle(p, q, chan) /\ load' = load /\ sent' = sent
    BY <1>4 DEF T2Fires
  <2> HIDE DEF q
  <2>2. /\ DOMAIN st' = Side /\ DOMAIN chan' = Side
        /\ st'[p] = Flush(q) /\ st'[Other(p)] = st[Other(p)]
        /\ chan'[p] = chan[p]
        /\ chan'[Other(p)] = chan[Other(p)] \o q.out
    BY <2>1, HandleFields DEF LinkTypes
  <2>3. load.patient =>
          Link(Flush(q), st[Other(p)], chan[p], chan[Other(p)] \o q.out)
    BY LinkOfSide, T2Link DEF q
  <2> QED
    BY <2>1, <2>2, <2>3, SideOfLink DEF LinkTypes
<1>5. ASSUME NEW p \in Side, Submit(p)
      PROVE  LinkTypes' /\ LinkInv'
  <2> DEFINE x == sent[p] + 1
             q == x75_data_request(st[p], x)
  <2>1. /\ st[p].state \in {3, 4} /\ sent[p] < load.send[p]
        /\ Handle(p, q, chan) /\ load' = load
        /\ sent' = [sent EXCEPT ![p] = @ + 1]
    BY <1>5 DEF Submit
  <2>2. /\ load.send \in [Side -> Nat] /\ 1 .. load.send[p] \subseteq Data
    BY LinkAssumption DEF LinkTypes
  <2>3. /\ x \in Data /\ sent' \in [Side -> Nat]
        /\ \A r \in Side : sent'[r] <= load.send[r]
    BY <2>1, <2>2 DEF LinkTypes
  <2> HIDE DEF x, q
  <2>4. /\ DOMAIN st' = Side /\ DOMAIN chan' = Side
        /\ st'[p] = Flush(q) /\ st'[Other(p)] = st[Other(p)]
        /\ chan'[p] = chan[p]
        /\ chan'[Other(p)] = chan[Other(p)] \o q.out
    <3>1. DOMAIN st = Side /\ DOMAIN chan = Side /\ Handle(p, q, chan)
      BY <2>1 DEF LinkTypes
    <3> QED
      BY <3>1, HandleFields
  <2>5. load.patient =>
          Link(Flush(q), st[Other(p)], chan[p], chan[Other(p)] \o q.out)
    BY <2>1, <2>3, LinkOfSide, SubmitLink DEF q
  <2> QED
    BY <2>1, <2>3, <2>4, <2>5, SideOfLink DEF LinkTypes
<1>6. ASSUME NEW p \in Side, Lose(p)
      PROVE  LinkTypes' /\ LinkInv'
  <2>1. /\ chan[p] # <<>> /\ chan' = [chan EXCEPT ![p] = Tail(@)]
        /\ load' = load /\ st' = st /\ sent' = sent
    BY <1>6 DEF Lose
  <2>2. /\ DOMAIN chan' = Side /\ chan'[p] = Tail(chan[p])
        /\ chan'[Other(p)] = chan[Other(p)]
    BY <2>1, Sides DEF LinkTypes
  <2>3. load.patient =>
          Link(st'[p], st'[Other(p)], chan'[p], chan'[Other(p)])
    BY <2>1, <2>2, LinkOfSide, LoseLink
  <2> QED
    BY <2>1, <2>2, <2>3, SideOfLink DEF LinkTypes
<1> QED
  BY <1>1, <1>2, <1>3, <1>4, <1>5, <1>6 DEF Next

\* X75Link.NoFrameReject, for every modulus, window, retry limit, load and
\* number of losses: as long as T1 outlasts what is under way, losses and
\* retransmissions never make x75_validate_nr refuse an N(R) of the peer, so
\* that neither station ever enters state 4.
THEOREM NeverFrameReject == Spec => []NoFrameReject
<1>1. LinkTypes /\ LinkInv => NoFrameReject
  <2>1. \A s : Sound(s) => s.state # 4
    BY SoundState
  <2> QED
    BY <2>1, LinkOfSide DEF NoFrameReject, Link
<1> QED
  BY <1>1, LinkInit, LinkStep, PTL DEF Spec

-----------------------------------------------------------------------------
(* Within a window: the link is an X75Service.  While no side hands over   *)
(* more than Window payloads the numbers do not wrap, every payload is     *)
(* sent at once and a burst sends again exactly what is not acknowledged,  *)
(* so that payload k always travels as I frame k - 1, whatever is lost and *)
(* however impatient T1 is.                                                *)

\* The queues of a station that was given the payloads 1 .. n: what is not
\* acknowledged yet, oldest first, and no counter is off.
Queues(s, n) ==
  /\ s.write_queue_count = Len(s.write_queue)
  /\ s.ack_queue_count = Len(s.ack_queue)
  /\ s.va + Len(s.ack_queue) + Len(s.write_queue) = n
  /\ \A i \in 1 .. Len(s.ack_queue) : s.ack_queue[i] = s.va + i
  /\ \A i \in 1 .. Len(s.write_queue) :
       s.write_queue[i] = s.va + Len(s.ack_queue) + i

\* All of them were sent.
Settled(s, n) == Queues(s, n) /\ s.write_queue = <<>> /\ s.vs = n

\* The I frames of o carry payloads of 1 .. n under their own numbers.
Counted(o, n) ==
  \A i \in DOMAIN o : o[i].type = "I" =>
    o[i].ns < n /\ o[i].data = o[i].ns + 1

\* The numbers of a burst behind l frames in the ack queue.
LEMMA InOrderNumbers ==
  ASSUME NEW va \in Seqno, NEW l \in Nat, NEW len \in Nat, len > 0,
         NEW n \in Nat, n <= Window, va + l + len = n
  PROVE  LET start == va + l
             end   == Plus(va, Window)
         IN  /\ start \in Seqno /\ start # end
             /\ Min2(len, Dist(start, end)) = len
             /\ Plus(start, len) = n
             /\ \A i \in 1 .. len :
                  /\ Plus(start, i - 1) = start + i - 1
                  /\ start + i - 1 < n
  BY ModulusAssumption, WindowAssumption DEF Plus, Dist, Min2, Seqno

LEMMA KickInOrder ==
  ASSUME NEW s, Core(s), "PEER_RX_BUSY" \notin s.condition,
         NEW n \in Nat, n <= Window, Queues(s, n),
         s.write_queue = <<>> => s.vs = n,
         s.ack_queue # <<>> => s.vs = s.va + Len(s.ack_queue)
  PROVE  LET q == x75_kick(s)
         IN  /\ Settled(q, n)
             /\ \E b \in Seq(Frame) : q.out = s.out \o b /\ Counted(b, n)
<1> DEFINE l     == Len(s.ack_queue)
           len   == Len(s.write_queue)
           start == IF s.ack_queue_count = 0 THEN s.va ELSE s.vs
           end   == Plus(s.va, Window)
           b     == [i \in 1 .. len |-> IFrame(s, i, Plus(start, i - 1))]
           q     == x75_kick(s)
<1>1. /\ s \in Station /\ s.va \in Seqno /\ s.vs \in Seqno /\ s.vr \in Seqno
      /\ s.write_queue \in Seq(Data) /\ len \in Nat
      /\ s.ack_queue \in Seq(Data) /\ l \in Nat /\ s.out \in Seq(Frame)
  <2>1. s \in Station
    BY DEF Core
  <2> QED
    BY <2>1, CoreTypes DEF Station
<1>2. /\ s.write_queue_count = len /\ s.ack_queue_count = l
      /\ s.va + l + len = n
      /\ \A i \in 1 .. l : s.ack_queue[i] = s.va + i
      /\ \A i \in 1 .. len : s.write_queue[i] = s.va + l + i
  BY DEF Queues
<1>3. CASE s.write_queue = <<>>
  <2>1. len = 0
    BY <1>3
  <2>2. q = s
    BY <1>2, <2>1 DEF x75_kick
  <2>3. <<>> \in Seq(Frame) /\ s.out = s.out \o <<>> /\ Counted(<<>>, n)
    BY <1>1 DEF Counted
  <2> HIDE DEF q
  <2> QED
    BY <1>3, <2>2, <2>3 DEF Settled, q
<1>4. CASE s.write_queue # <<>>
  <2>1. len # 0
    BY <1>1, <1>4, EmptySeq
  <2>2. start = s.va + l
    <3>1. CASE l = 0
      <4>1. start = s.va
        BY <1>2, <3>1
      <4>2. \A v \in Seqno : v = v + 0
        BY DEF Seqno
      <4> HIDE DEF l, start
      <4> QED
        BY <1>1, <3>1, <4>1, <4>2
    <3>2. CASE l # 0
      <4>1. s.ack_queue # <<>>
        BY <3>2
      <4> QED
        BY <1>2, <3>2, <4>1
    <3> QED
      BY <3>1, <3>2
  <2>3. /\ start \in Seqno /\ start # end
        /\ Min2(len, Dist(start, end)) = len
        /\ Plus(start, len) = n
        /\ \A i \in 1 .. len :
             Plus(start, i - 1) = start + i - 1 /\ start + i - 1 < n
    <3>1. len > 0
      BY <1>1, <2>1
    <3> HIDE DEF l, len
    <3>2. /\ s.va + l \in Seqno /\ s.va + l # end
          /\ Min2(len, Dist(s.va + l, end)) = len
          /\ Plus(s.va + l, len) = n
          /\ \A i \in 1 .. len :
               /\ Plus(s.va + l, i - 1) = s.va + l + i - 1
               /\ s.va + l + i - 1 < n
      BY <1>1, <1>2, <3>1, InOrderNumbers
    <3> HIDE DEF start, end
    <3> QED
      BY <2>2, <3>2
  <2>4. q = SendBurst(s, start, len)
    <3> HIDE DEF len
    <3> QED
      BY <1>2, <1>4, <2>1, <2>3 DEF x75_kick, len
  <2> HIDE DEF q, start, end
  <2>5. /\ q.va = s.va /\ q.vs = n
        /\ q.out = s.out \o b
        /\ q.ack_queue = s.ack_queue \o SubSeq(s.write_queue, 1, len)
        /\ q.ack_queue_count = s.ack_queue_count + len
        /\ q.write_queue = SubSeq(s.write_queue, len + 1, len)
        /\ q.write_queue_count = s.write_queue_count - len
    <3> HIDE DEF len
    <3>1. /\ q.va = s.va /\ q.vs = Plus(start, len)
          /\ q.out = s.out \o b
          /\ q.ack_queue = s.ack_queue \o SubSeq(s.write_queue, 1, len)
          /\ q.ack_queue_count = s.ack_queue_count + len
          /\ q.write_queue = SubSeq(s.write_queue, len + 1, Len(s.write_queue))
          /\ q.write_queue_count = s.write_queue_count - len
      BY <1>1, <2>4 DEF Station, SendBurst, x75_start_t1timer
    <3> QED
      BY <2>3, <3>1 DEF len
  <2>6. /\ SubSeq(s.write_queue, 1, len) = s.write_queue
        /\ SubSeq(s.write_queue, len + 1, len) = <<>>
    <3>1. SubSeq(s.write_queue, 1, len) = s.write_queue
      BY <1>1
    <3>2. /\ SubSeq(s.write_queue, len + 1, len) \in Seq(Data)
          /\ Len(SubSeq(s.write_queue, len + 1, len)) = 0
      BY <1>1, SubSeqProperties
    <3> QED
      BY <3>1, <3>2, EmptySeq
  <2>7. /\ Len(q.ack_queue) = l + len
        /\ \A i \in 1 .. l + len :
             q.ack_queue[i] = IF i <= l THEN s.ack_queue[i]
                              ELSE s.write_queue[i - l]
    <3> DEFINE a == s.ack_queue \o s.write_queue
    <3>1. /\ Len(a) = l + len
          /\ \A i \in 1 .. l + len :
               a[i] = IF i <= l THEN s.ack_queue[i] ELSE s.write_queue[i - l]
      <4>1. s.ack_queue \in Seq(Data) /\ s.write_queue \in Seq(Data)
        BY <1>1
      <4>2. \A u, v \in Seq(Data) :
              /\ Len(u \o v) = Len(u) + Len(v)
              /\ \A i \in 1 .. Len(u) + Len(v) :
                   (u \o v)[i] = IF i <= Len(u) THEN u[i] ELSE v[i - Len(u)]
        BY ConcatProperties
      <4> QED
        BY <4>1, <4>2, Zenon
    <3>2. q.ack_queue = a
      BY <2>5, <2>6
    <3> HIDE DEF a, l, len
    <3> QED
      BY <3>1, <3>2
  <2>8. Settled(q, n)
    <3> HIDE DEF l, len
    <3>1. /\ q.write_queue = <<>> /\ q.write_queue_count = 0
          /\ Len(q.write_queue) = 0
      BY <1>1, <1>2, <2>5, <2>6
    <3>2. \A i \in 1 .. Len(q.ack_queue) : q.ack_queue[i] = q.va + i
      <4>1. ASSUME NEW i \in 1 .. l + len
            PROVE  q.ack_queue[i] = s.va + i
        <5>1. CASE i <= l
          BY <1>1, <1>2, <2>7, <5>1
        <5>2. CASE ~ (i <= l)
          <6>1. i - l \in 1 .. len
            BY <1>1, <5>2
          <6>2. q.ack_queue[i] = s.va + l + (i - l)
            BY <1>2, <2>7, <5>2, <6>1
          <6> QED
            BY <1>1, <6>2 DEF Seqno
        <5> QED
          BY <5>1, <5>2
      <4> QED
        BY <2>5, <2>7, <4>1
    <3>3. /\ q.ack_queue_count = Len(q.ack_queue)
          /\ q.va + Len(q.ack_queue) + Len(q.write_queue) = n
      <4>1. \A v \in Seqno, j, k \in Nat : v + (j + k) + 0 = v + j + k
        BY DEF Seqno
      <4>2. s.va + (l + len) + 0 = n
        BY <1>1, <1>2, <4>1
      <4> QED
        BY <1>2, <2>5, <2>7, <3>1, <4>2
    <3>4. \A i \in 1 .. Len(q.write_queue) :
            q.write_queue[i] = q.va + Len(q.ack_queue) + i
      BY <3>1
    <3> QED
      BY <2>5, <3>1, <3>2, <3>3, <3>4 DEF Settled, Queues
  <2>9. b \in Seq(Frame) /\ Counted(b, n)
    <3> HIDE DEF len, l
    <3>1. ASSUME NEW i \in 1 .. len
          PROVE  /\ IFrame(s, i, Plus(start, i - 1)) \in Frame
                 /\ IFrame(s, i, Plus(start, i - 1)).ns < n
                 /\ IFrame(s, i, Plus(start, i - 1)).data
                      = IFrame(s, i, Plus(start, i - 1)).ns + 1
      <4>1. s.write_queue[i] \in Data /\ s.write_queue[i] = s.va + l + i
        BY <1>1, <1>2 DEF len
      <4>2. /\ Plus(start, i - 1) = start + i - 1 /\ start + i - 1 < n
            /\ start \in Nat
        BY <2>3 DEF Seqno
      <4>3. start + i - 1 \in Seqno
        BY <1>1, <4>2, WindowAssumption, ModulusAssumption DEF Seqno
      <4>4. s.write_queue[i] = (start + i - 1) + 1
        BY <1>1, <2>2, <4>1, <4>2
      <4> HIDE DEF start
      <4> QED
        BY <1>1, <4>1, <4>2, <4>3, <4>4 DEF IFrame, Frame, FrameType
    <3>2. b \in Seq(Frame) /\ DOMAIN b = 1 .. len
      <4>1. \A i \in 1 .. len : IFrame(s, i, Plus(start, i - 1)) \in Frame
        BY <3>1
      <4>2. len \in Nat
        BY <1>1
      <4> QED
        BY <4>1, <4>2
    <3>3. \A i \in 1 .. len : b[i] = IFrame(s, i, Plus(start, i - 1))
      OBVIOUS
    <3> HIDE DEF b
    <3> QED
      BY <3>1, <3>2, <3>3 DEF Counted
  <2> HIDE DEF b
  <2> QED
    BY <2>5, <2>8, <2>9 DEF q
<1> QED
  BY <1>3, <1>4

\* What waits for x75_kick: a station that gave back some frames to be sent
\* again or none, and has sent no I frame in this handler.
NoI(o) == \A i \in DOMAIN o : o[i].type # "I"

Primed(r, n) ==
  /\ Core(r) /\ "PEER_RX_BUSY" \notin r.condition /\ Queues(r, n)
  /\ r.write_queue = <<>> => r.vs = n
  /\ r.ack_queue # <<>> => r.vs = r.va + Len(r.ack_queue)
  /\ NoI(r.out)

\* What x75_kick leaves.
Tidy(q, n) == Settled(q, n) /\ Counted(q.out, n)

LEMMA PrimedTidy ==
  ASSUME NEW n \in Nat, n <= Window, NEW r, Primed(r, n)
  PROVE  Tidy(x75_kick(r), n)
<1> DEFINE q == x75_kick(r)
<1>1. /\ Settled(q, n)
      /\ \E b \in Seq(Frame) : q.out = r.out \o b /\ Counted(b, n)
  BY KickInOrder DEF Primed
<1> HIDE DEF q
<1>2. PICK b \in Seq(Frame) : q.out = r.out \o b /\ Counted(b, n)
  BY <1>1
<1>3. r.out \in Seq(Frame) /\ NoI(r.out)
  BY DEF Primed, Core, Station
<1> DEFINE c == r.out
<1>4. c \in Seq(Frame) /\ NoI(c)
  BY <1>3
<1> HIDE DEF c
<1>5. \A i \in DOMAIN (c \o b) :
        \/ i \in DOMAIN c /\ (c \o b)[i] = c[i]
        \/ i - Len(c) \in DOMAIN b /\ (c \o b)[i] = b[i - Len(c)]
  BY <1>4, ConcatOf
<1>6. Counted(c \o b, n)
  <2> DEFINE t == c \o b
  <2> HIDE DEF t
  <2>1. \A i \in DOMAIN t : t[i].type = "I" =>
          t[i].ns < n /\ t[i].data = t[i].ns + 1
    BY <1>2, <1>4, <1>5 DEF t, NoI, Counted
  <2> QED
    BY <2>1, Zenon DEF Counted, t
<1> QED
  BY <1>1, <1>2, <1>6 DEF Tidy, c, q

\* The numbers of a settled station.
LEMMA SettledNumbers ==
  ASSUME NEW s, Core(s), NEW n \in Nat, Settled(s, n)
  PROVE  /\ s.va \in Seqno /\ s.va \in Nat /\ s.va <= n
         /\ s.vs = n /\ n \in Seqno
         /\ s.ack_queue \in Seq(Data) /\ Len(s.ack_queue) \in Nat
         /\ s.va + Len(s.ack_queue) = n /\ Len(s.write_queue) = 0
         /\ Dist(s.va, s.vs) = Len(s.ack_queue)
         /\ Exact(s)
<1>1. /\ s.va \in Seqno /\ s.vs \in Seqno
      /\ s.ack_queue \in Seq(Data) /\ Len(s.ack_queue) \in Nat
  BY CoreTypes
<1>2. s.va \in Nat
  BY <1>1 DEF Seqno
<1>3. s.write_queue = <<>> /\ Len(s.write_queue) = 0 /\ s.vs = n
  BY DEF Settled
<1>4. s.va + Len(s.ack_queue) + 0 = n
  BY <1>3 DEF Settled, Queues
<1>5. /\ s.va + Len(s.ack_queue) = n /\ s.va <= n
      /\ Dist(s.va, n) = Len(s.ack_queue)
  BY <1>1, <1>2, <1>4 DEF Dist
<1>6. Exact(s)
  BY <1>3, <1>5 DEF Exact
<1> QED
  BY <1>1, <1>2, <1>3, <1>5, <1>6

LEMMA SettledPrimed ==
  ASSUME NEW r, Core(r), "PEER_RX_BUSY" \notin r.condition, NEW n \in Nat,
         Settled(r, n), NoI(r.out)
  PROVE  Primed(r, n)
<1>1. r.vs = n /\ r.va + Len(r.ack_queue) = n
  BY SettledNumbers
<1> QED
  BY <1>1 DEF Primed, Settled

LEMMA SettledSame ==
  ASSUME NEW s, NEW q, NEW n, Settled(s, n), SameQueues(s, q),
         q.va = s.va, q.vs = s.vs
  PROVE  Settled(q, n)
  BY DEF Settled, Queues, SameQueues

\* An acknowledgement from the window takes the payloads up to N(R) away.
LEMMA AckInOrder ==
  ASSUME NEW s, Core(s), NEW n \in Nat, n <= Window, Settled(s, n),
         NEW nr \in Seqno, x75_validate_nr(s, nr)
  PROVE  Settled(x75_frames_acked(s, nr), n)
<1> DEFINE d    == Dist(s.va, nr)
           len  == Len(s.ack_queue)
           rest == SubSeq(s.ack_queue, d + 1, len)
           a    == x75_frames_acked(s, nr)
<1>1. /\ s \in Station /\ s.va \in Nat /\ s.va \in Seqno /\ s.vs = n
      /\ s.ack_queue \in Seq(Data) /\ len \in Nat
      /\ s.va + len = n /\ Dist(s.va, s.vs) = len /\ Exact(s)
      /\ s.write_queue = <<>> /\ s.write_queue_count = 0
      /\ s.ack_queue_count = len
      /\ \A i \in 1 .. len : s.ack_queue[i] = s.va + i
  <2>1. s \in Station /\ Len(s.write_queue) = 0
    BY SettledNumbers DEF Core
  <2> QED
    BY <2>1, SettledNumbers DEF Settled, Queues
<1>2. d \in Nat /\ d <= len
  BY <1>1, DistNat DEF x75_validate_nr
<1>3. nr = s.va + d
  <2>1. s.va + len <= Window
    BY <1>1
  <2> HIDE DEF len
  <2> QED
    BY <1>1, <1>2, <2>1, ModulusAssumption, WindowAssumption
       DEF Dist, Seqno, d
<1>4. /\ a.va = nr /\ a.vs = s.vs /\ a.write_queue = s.write_queue
  BY <1>1, AckExact
<1>5. /\ a.ack_queue = rest /\ a.ack_queue_count = len - d
      /\ a.write_queue_count = s.write_queue_count
  <2>1. Min2(d, len) = d
    <3> HIDE DEF d, len
    <3> QED
      BY <1>2 DEF Min2
  <2> HIDE DEF d
  <2>2. a = [s EXCEPT !.va = Plus(s.va, d), !.ack_queue = rest,
                      !.ack_queue_count = s.ack_queue_count - d]
    BY <1>1, <2>1 DEF x75_frames_acked, d
  <2> HIDE DEF a, rest
  <2> QED
    BY <1>1, <2>2 DEF Station
<1>6. /\ Len(rest) = len - d
      /\ \A i \in 1 .. len - d : rest[i] = s.ack_queue[d + i]
  <2> HIDE DEF d
  <2>1. /\ Len(rest) = len - d
        /\ \A i \in 1 .. len - d : rest[i] = s.ack_queue[d + 1 + i - 1]
    BY <1>1, <1>2, SubSeqProperties
  <2>2. \A i \in 1 .. len - d : d + 1 + i - 1 = d + i
    BY <1>1, <1>2
  <2> QED
    BY <2>1, <2>2
<1> HIDE DEF a, rest, len, d
<1>7. \A i \in 1 .. Len(a.ack_queue) : a.ack_queue[i] = a.va + i
  <2>1. ASSUME NEW i \in 1 .. len - d
        PROVE  rest[i] = nr + i
    <3>1. d + i \in 1 .. len
      BY <1>1, <1>2
    <3>2. rest[i] = s.va + (d + i)
      BY <1>1, <1>6, <3>1
    <3> QED
      BY <1>1, <1>2, <1>3, <3>2
  <2> QED
    BY <1>4, <1>5, <1>6, <2>1
<1>8. /\ Len(a.write_queue) = 0 /\ a.write_queue = <<>>
      /\ a.write_queue_count = 0
      /\ a.ack_queue_count = Len(a.ack_queue)
  BY <1>1, <1>4, <1>5, <1>6
<1>9. a.va + Len(a.ack_queue) + Len(a.write_queue) = n
  BY <1>1, <1>2, <1>3, <1>4, <1>5, <1>6, <1>8
<1> QED
  BY <1>1, <1>4, <1>7, <1>8, <1>9 DEF Settled, Queues, a

LEMMA CheckInOrder ==
  ASSUME NEW s, Core(s), NEW n \in Nat, n <= Window, Settled(s, n),
         NEW nr \in Seqno, x75_validate_nr(s, nr)
  PROVE  Settled(x75_check_iframes_acked(s, nr), n)
<1> DEFINE a == x75_frames_acked(s, nr)
           b == [x75_stop_t1timer(a) EXCEPT !.n2count = 0]
           c == x75_start_t1timer(a)
<1>1. Settled(a, n)
  BY AckInOrder
<1>2. a \in Station
  BY FramesAcked, CoreFacts DEF Keeps
<1> HIDE DEF a
<1>3. /\ SameQueues(a, b) /\ b.vs = a.vs /\ b.va = a.va
      /\ SameQueues(a, c) /\ c.vs = a.vs /\ c.va = a.va
  BY <1>2 DEF Station, SameQueues, x75_stop_t1timer, x75_start_t1timer
<1> HIDE DEF b, c
<1>4. Settled(b, n) /\ Settled(c, n)
  BY <1>1, <1>3, SettledSame
<1> QED
  BY <1>4 DEF x75_check_iframes_acked, a, b, c

\* What is not acknowledged goes back, in order.
LEMMA RequeueInOrder ==
  ASSUME NEW s, Core(s), NEW n \in Nat, Queues(s, n), s.write_queue = <<>>,
         s.ack_queue = <<>> => s.vs = n,
         "PEER_RX_BUSY" \notin s.condition, NoI(s.out)
  PROVE  Primed(x75_requeue_frames(s), n)
<1> DEFINE q == x75_requeue_frames(s)
<1>1. /\ s \in Station /\ s.va \in Nat
      /\ s.ack_queue \in Seq(Data) /\ Len(s.ack_queue) \in Nat
  BY CoreTypes DEF Seqno
<1>2. Core(q)
  BY Requeue, KeepsCore, CoreFacts
<1>3. <<>> \o s.ack_queue = s.ack_queue
  BY <1>1
<1>4. /\ s.write_queue_count = 0 /\ s.ack_queue_count = Len(s.ack_queue)
      /\ s.va + Len(s.ack_queue) + 0 = n
      /\ \A i \in 1 .. Len(s.ack_queue) : s.ack_queue[i] = s.va + i
  <2>1. Len(s.write_queue) = 0
    OBVIOUS
  <2> QED
    BY <2>1 DEF Queues
<1>5. q = [s EXCEPT !.write_queue = s.ack_queue,
                    !.write_queue_count = s.write_queue_count
                                            + Len(s.ack_queue),
                    !.ack_queue = <<>>,
                    !.ack_queue_count = s.ack_queue_count
                                          - Len(s.ack_queue)]
  BY <1>3 DEF x75_requeue_frames
<1> HIDE DEF q
<1>6. /\ q.va = s.va /\ q.vs = s.vs /\ q.out = s.out
      /\ q.condition = s.condition
      /\ q.write_queue = s.ack_queue
      /\ q.write_queue_count = Len(s.ack_queue)
      /\ q.ack_queue = <<>> /\ q.ack_queue_count = 0
  <2>1. /\ q.va = s.va /\ q.vs = s.vs /\ q.out = s.out
        /\ q.condition = s.condition
        /\ q.write_queue = s.ack_queue
        /\ q.write_queue_count = s.write_queue_count + Len(s.ack_queue)
        /\ q.ack_queue = <<>>
        /\ q.ack_queue_count = s.ack_queue_count - Len(s.ack_queue)
    BY <1>1, <1>5 DEF Station
  <2> QED
    BY <1>1, <1>4, <2>1
<1>7. Queues(q, n)
  <2>1. Len(q.ack_queue) = 0
    BY <1>6
  <2>2. q.va + Len(q.ack_queue) + Len(q.write_queue) = n
    BY <1>1, <1>4, <1>6, <2>1
  <2>3. \A i \in 1 .. Len(q.write_queue) :
          q.write_queue[i] = q.va + Len(q.ack_queue) + i
    BY <1>1, <1>4, <1>6, <2>1
  <2>4. \A i \in 1 .. Len(q.ack_queue) : q.ack_queue[i] = q.va + i
    BY <2>1
  <2> QED
    BY <1>6, <2>1, <2>2, <2>3, <2>4 DEF Queues
<1> QED
  BY <1>2, <1>6, <1>7 DEF Primed, q

\* A station whose layer above was not told of a disconnection and has
\* handed over the payloads 1 .. n.
Serving(s, n) ==
  /\ Sound(s) /\ Settled(s, n) /\ s.up # "disconnected"
  /\ s.state # 3 => n = 0 /\ s.vr = 0

\* The handlers of numbered frames, up to the kick.
LEMMA ReadyInOrder ==
  ASSUME NEW s, Core(s), s.state = 3, NEW n \in Nat, n <= Window,
         Settled(s, n), s.out = <<>>, NEW f \in Frame, f.type = "RR",
         x75_validate_nr(s, f.nr)
  PROVE  Settled(ReceiveReady(s, f), n)
<1> DEFINE c == s.condition \ {"PEER_RX_BUSY"}
           b == [s EXCEPT !.condition = c]
           r == x75_check_need_response(b, f.cr, f.pf)
<1>1. s \in Station /\ f.nr \in Seqno
  BY DEF Core, Frame
<1>2. c \in SUBSET Conditions
  BY <1>1 DEF Station
<1>3. Core(b)
  BY <1>2, ConditionKeeps DEF Keeps
<1>4. b.va = s.va /\ b.vs = s.vs /\ SameQueues(s, b) /\ b.out = <<>>
  BY <1>1 DEF Station, SameQueues
<1> HIDE DEF b
<1>5. Core(r)
  BY <1>3, NeedResponse DEF Keeps
<1>6. r.va = b.va /\ r.vs = b.vs /\ SameQueues(b, r)
  BY <1>3, <1>4, ResponseFields DEF Core
<1> HIDE DEF r
<1>7. /\ r.va = s.va /\ r.vs = s.vs /\ SameQueues(s, r)
      /\ x75_validate_nr(r, f.nr)
  BY <1>4, <1>6 DEF SameQueues, x75_validate_nr
<1>8. Settled(r, n)
  BY <1>7, SettledSame
<1>9. Settled(x75_check_iframes_acked(r, f.nr), n)
  BY <1>1, <1>5, <1>7, <1>8, CheckInOrder
<1> QED
  BY <1>7, <1>9 DEF ReceiveReady, r, b

LEMMA RejectInOrder ==
  ASSUME NEW s, Core(s), s.state = 3, NEW n \in Nat, n <= Window,
         Settled(s, n), s.out = <<>>, NEW f \in Frame, f.type = "REJ",
         x75_validate_nr(s, f.nr)
  PROVE  Primed(ReceiveReject(s, f), n)
<1> DEFINE c == s.condition \ {"PEER_RX_BUSY"}
           b == [s EXCEPT !.condition = c]
           r == x75_check_need_response(b, f.cr, f.pf)
           a == x75_frames_acked(r, f.nr)
           z == [x75_stop_t1timer(a) EXCEPT !.n2count = 0]
<1>1. s \in Station /\ f.nr \in Seqno
  BY DEF Core, Frame
<1>2. c \in SUBSET Conditions
  BY <1>1 DEF Station
<1>3. Core(b) /\ b.state = 3
  BY <1>2, ConditionKeeps DEF Keeps
<1>4. /\ b.va = s.va /\ b.vs = s.vs /\ SameQueues(s, b) /\ b.out = <<>>
      /\ "PEER_RX_BUSY" \notin b.condition
  BY <1>1 DEF Station, SameQueues
<1> HIDE DEF b
<1>5. Core(r) /\ r.state = 3
  BY <1>3, NeedResponse DEF Keeps
<1>6. /\ r.va = b.va /\ r.vs = b.vs /\ SameQueues(b, r)
      /\ SameRest(b, r) /\ Replies(r.out, b.vr)
  BY <1>3, <1>4, ResponseFields DEF Core
<1> HIDE DEF r
<1>7. /\ r.va = s.va /\ r.vs = s.vs /\ SameQueues(s, r)
      /\ x75_validate_nr(r, f.nr)
      /\ "PEER_RX_BUSY" \notin r.condition
  BY <1>4, <1>6 DEF SameQueues, SameRest, x75_validate_nr
<1>8. Settled(r, n)
  BY <1>7, SettledSame
<1>9. Settled(a, n)
  BY <1>1, <1>5, <1>7, <1>8, AckInOrder
<1>10. Core(a) /\ a.state = 3
  <2>1. Keeps(r, a)
    BY <1>1, <1>5, <1>7, FramesAcked, CoreFacts
  <2> QED
    BY <1>5, <2>1 DEF Keeps
<1>11. Exact(r)
  BY <1>5, <1>8, SettledNumbers
<1>12. a.out = r.out /\ a.condition = r.condition
  BY <1>1, <1>5, <1>7, <1>11, AckExact
<1> HIDE DEF a
<1>13. /\ SameQueues(a, z) /\ z.va = a.va /\ z.vs = a.vs
       /\ z.out = a.out /\ z.condition = a.condition
  BY <1>10 DEF Core, Station, x75_stop_t1timer, SameQueues
<1>14. Core(z)
  <2>1. Core(x75_stop_t1timer(a))
    BY <1>10, TimersKeep, KeepsCore
  <2> QED
    BY <2>1, TimersKeep, KeepsCore, Zeros
<1> HIDE DEF z
<1>15. Settled(z, n)
  BY <1>9, <1>13, SettledSame
<1>16. NoI(z.out)
  <2>1. z.out = r.out
    BY <1>12, <1>13
  <2> QED
    BY <1>6, <2>1 DEF Replies, NoI
<1>17. Primed(x75_requeue_frames(z), n)
  BY <1>7, <1>12, <1>13, <1>14, <1>15, <1>16, RequeueInOrder DEF Settled
<1> QED
  BY <1>7, <1>17 DEF ReceiveReject, z, a, r, b

LEMMA IFrameInOrder ==
  ASSUME NEW s, Core(s), s.state = 3, NEW n \in Nat, n <= Window,
         Settled(s, n), s.out = <<>>, "PEER_RX_BUSY" \notin s.condition,
         NEW f \in Frame, f.type = "I", x75_validate_nr(s, f.nr)
  PROVE  Settled(ReceiveIFrame(s, f), n)
<1> DEFINE a == x75_check_iframes_acked(s, f.nr)
<1>1. f.nr \in Seqno
  BY DEF Frame
<1>2. Settled(a, n)
  BY <1>1, CheckInOrder
<1>3. Exact(s)
  BY SettledNumbers
<1>4. a.out = s.out /\ a \in Station
  BY <1>1, <1>3, CheckExact, CheckAcked, CoreFacts DEF Keeps
<1> HIDE DEF a
<1> DEFINE q1 == AcceptIFrame(a, f)
           q2 == RefuseIFrame(a, f)
<1>5. /\ q1.va = a.va /\ q1.vs = a.vs /\ SameQueues(a, q1)
      /\ q2.va = a.va /\ q2.vs = a.vs /\ SameQueues(a, q2)
  BY <1>4, AcceptFields, RefuseFields
<1> HIDE DEF q1, q2
<1>6. Settled(q1, n) /\ Settled(q2, n)
  BY <1>2, <1>5, SettledSame
<1> QED
  BY <1>6 DEF ReceiveIFrame, a, q1, q2

\* A numbered frame in data transfer.
LEMMA NumberedTidy ==
  ASSUME NEW n \in Nat, n <= Window, NEW s, Serving(s, n), s.state = 3,
         NEW f \in Frame, f.type \in Numbered, f.type = "I" => f.data \in Data,
         x75_validate_nr(s, f.nr)
  PROVE  Tidy(x75_data_input(s, f), n)
<1> DEFINE r == x75_state3_machine(s, f)
<1>1. /\ Inv(s) /\ Core(s) /\ s.out = <<>> /\ Exact(s)
      /\ "PEER_RX_BUSY" \notin s.condition /\ Settled(s, n)
  BY SoundFacts, Zenon DEF Serving
<1>2. SetMode \in {"SABM", "SABME"} /\ OtherMode \in {"SABM", "SABME"}
  BY DEF SetMode, OtherMode
<1>3. Core(r)
  BY <1>1, State3 DEF Inv
<1>4. Primed(r, n)
  <2>1. CASE f.type = "I"
    <3>1. r = ReceiveIFrame(s, f)
      BY <1>2, <2>1 DEF x75_state3_machine
    <3> HIDE DEF r
    <3>2. Takes(s, f, r) /\ Settled(r, n)
      BY <1>1, <2>1, <3>1, IFrameTakes, IFrameInOrder
    <3>3. NoI(r.out) /\ "PEER_RX_BUSY" \notin r.condition
      BY <3>2 DEF Takes, Replies, NoI
    <3> QED
      BY <1>3, <3>2, <3>3, SettledPrimed
  <2>2. CASE f.type = "RR"
    <3>1. r = ReceiveReady(s, f)
      BY <1>2, <2>2 DEF x75_state3_machine
    <3> HIDE DEF r
    <3>2. Takes(s, f, r) /\ Settled(r, n)
      BY <1>1, <2>2, <3>1, ReadyTakes, ReadyInOrder
    <3>3. NoI(r.out) /\ "PEER_RX_BUSY" \notin r.condition
      BY <3>2 DEF Takes, Replies, NoI
    <3> QED
      BY <1>3, <3>2, <3>3, SettledPrimed
  <2>3. CASE f.type = "REJ"
    <3>1. r = ReceiveReject(s, f)
      BY <1>2, <2>3 DEF x75_state3_machine
    <3> QED
      BY <1>1, <2>3, <3>1, RejectInOrder
  <2> QED
    BY <2>1, <2>2, <2>3 DEF Numbered
<1>5. x75_data_input(s, f) = x75_kick(r)
  BY DEF x75_data_input
<1> HIDE DEF r
<1> QED
  BY <1>4, <1>5, PrimedTidy

\* A SABM(E) in data transfer, when nothing was acknowledged yet.
LEMMA SetModeTidy ==
  ASSUME NEW n \in Nat, n <= Window, NEW s, Serving(s, n), s.state = 3,
         s.va = 0, NEW f \in Frame, f.type = SetMode
  PROVE  Tidy(x75_data_input(s, f), n)
<1> DEFINE u == Respond(s, "UA", f)
           z == ResetLink(u)
           r == x75_requeue_frames(z)
<1>1. s \in Station /\ Inv(s) /\ Core(s) /\ s.out = <<>> /\ Settled(s, n)
  BY SoundFacts DEF Serving
<1>2. Core(u) /\ Single(u.out, "UA") /\ SameQueues(s, u)
  <2>1. Core(u)
    BY <1>1, Answer, KeepsCore DEF FrameType
  <2> QED
    BY <1>1, <2>1, RespondFields
<1>3. x75_state3_machine(s, f) = r
  BY ModeTypes DEF x75_state3_machine
<1>4. x75_data_input(s, f) = x75_kick(r)
  BY <1>3 DEF x75_data_input
<1> HIDE DEF u
<1>5. /\ Core(z) /\ z.va = 0 /\ z.vs = 0 /\ z.condition = {}
      /\ z.out = u.out /\ SameQueues(u, z)
  BY <1>2, Reset, StartFields DEF Core
<1> HIDE DEF z
<1>6. /\ Queues(z, n) /\ z.write_queue = <<>>
  BY <1>1, <1>2, <1>5 DEF Settled, Queues, SameQueues
<1>7. z.ack_queue = <<>> => z.vs = n
  <2> SUFFICES ASSUME z.ack_queue = <<>>
               PROVE  n = 0
    BY <1>5
  <2>1. Len(z.ack_queue) = 0 /\ Len(z.write_queue) = 0
    BY <1>6
  <2>2. 0 + 0 + 0 = n
    BY <1>5, <1>6, <2>1 DEF Queues
  <2> QED
    BY <2>2
<1>8. NoI(z.out)
  <2>1. DOMAIN u.out = 1 .. 1 /\ u.out[1].type = "UA"
    BY <1>2 DEF Single
  <2> QED
    BY <1>5, <2>1 DEF NoI
<1>9. "PEER_RX_BUSY" \notin z.condition
  BY <1>5
<1>10. Primed(r, n)
  BY <1>5, <1>6, <1>7, <1>8, <1>9, RequeueInOrder
<1> QED
  BY <1>4, <1>10, PrimedTidy

\* The numbers and queues of a station before its first data transfer.
Blank(s) ==
  /\ s.va = 0 /\ s.vs = 0 /\ s.vr = 0
  /\ s.write_queue = <<>> /\ s.write_queue_count = 0
  /\ s.ack_queue = <<>> /\ s.ack_queue_count = 0

LEMMA BlankSettled ==
  ASSUME NEW s, Blank(s)
  PROVE  Settled(s, 0)
<1>1. Len(s.write_queue) = 0 /\ Len(s.ack_queue) = 0
  BY DEF Blank
<1> QED
  BY <1>1 DEF Blank, Settled, Queues

LEMMA ServingBlank ==
  ASSUME NEW n \in Nat, NEW s, Serving(s, n), s.state # 3
  PROVE  n = 0 /\ Blank(s) /\ s \in Station /\ s.state \in {0, 1}
<1>1. /\ s \in Station /\ Core(s) /\ s.state \in {0, 1, 3} /\ Settled(s, 0)
      /\ s.write_queue = <<>> /\ s.ack_queue = <<>> /\ n = 0 /\ s.vr = 0
  BY SoundFacts, Zenon DEF Serving
<1>2. /\ s.va + Len(s.ack_queue) = 0 /\ s.va \in Nat /\ s.vs = 0
  BY <1>1, SettledNumbers
<1>3. Len(s.ack_queue) = 0 /\ Len(s.write_queue) = 0
  BY <1>1
<1>4. s.va = 0
  BY <1>2, <1>3
<1> QED
  BY <1>1, <1>2, <1>3, <1>4 DEF Blank, Settled, Queues

\* No frame changes this but one after which the link is down.
LEMMA BlankInput ==
  ASSUME NEW s \in Station, Blank(s), s.state \in {0, 1}, NEW f,
         x75_data_input(s, f).up # "disconnected"
  PROVE  Blank(x75_data_input(s, f))
<1> DEFINE r == IF s.state = 0 THEN x75_state0_machine(s, f)
                ELSE x75_state1_machine(s, f)
           d == x75_disconnect_indication(Disconnected(x75_clear_queues(s)))
<1>1. x75_data_input(s, f) = x75_kick(r)
  BY DEF x75_data_input
<1>2. ASSUME NEW t PROVE Blank(Respond(s, t, f))
                         /\ Blank(ResetLink(Respond(s, t, f)))
  <2> DEFINE e == [type |-> t, pf |-> f.pf, cr |-> "RESPONSE", ns |-> 0,
                   nr |-> IF t \in {"RR", "RNR", "REJ"} THEN s.vr ELSE 0,
                   data |-> NoData]
             o == Append(s.out, e)
             u == Respond(s, t, f)
  <2>1. u = [s EXCEPT !.out = o]
    BY DEF Respond, x75_send_control, x75_transmit_buffer
  <2> HIDE DEF o, u
  <2>2. Blank(u)
    BY <2>1 DEF Station, Blank
  <2>3. Blank(ResetLink(u))
    BY <2>1 DEF Station, Blank, ResetLink, x75_stop_t1timer,
                x75_stop_t2timer
  <2> QED
    BY <2>2, <2>3 DEF u
<1>3. Blank(x75_connect_confirmation([ResetLink(s) EXCEPT !.state = 3]))
  BY DEF Station, Blank, ResetLink, x75_stop_t1timer, x75_stop_t2timer,
         x75_connect_confirmation
<1>4. ASSUME NEW t
      PROVE  Blank(x75_connect_indication(
                     [ResetLink(Respond(s, t, f)) EXCEPT !.state = 3]))
  <2> DEFINE e == [type |-> t, pf |-> f.pf, cr |-> "RESPONSE", ns |-> 0,
                   nr |-> IF t \in {"RR", "RNR", "REJ"} THEN s.vr ELSE 0,
                   data |-> NoData]
             o == Append(s.out, e)
             u == Respond(s, t, f)
  <2>1. u = [s EXCEPT !.out = o]
    BY DEF Respond, x75_send_control, x75_transmit_buffer
  <2> HIDE DEF o, u
  <2>2. Blank(x75_connect_indication([ResetLink(u) EXCEPT !.state = 3]))
    BY <2>1 DEF Station, Blank, ResetLink, x75_stop_t1timer,
                x75_stop_t2timer, x75_connect_indication
  <2> QED
    BY <2>2 DEF u
<1>5. d.up = "disconnected"
  BY DEF Station, Disconnected, x75_clear_queues, x75_disconnect_indication,
         x75_stop_t2timer, x75_start_t1timer
<1>6. d.write_queue_count = 0
  BY DEF Station, Blank, Disconnected, x75_clear_queues,
         x75_disconnect_indication, x75_stop_t2timer, x75_start_t1timer
<1>7. x75_kick(d) = d
  <2> HIDE DEF d
  <2> QED
    BY <1>6 DEF x75_kick
<1>8. Blank(r) \/ r = d
  <2>1. CASE s.state = 0
    <3>1. \/ r = s \/ r = Respond(s, "DM", f) \/ r = Respond(s, "UA", f)
          \/ r = x75_connect_indication(
                   [ResetLink(Respond(s, "UA", f)) EXCEPT !.state = 3])
      BY <2>1 DEF x75_state0_machine
    <3> HIDE DEF r
    <3> QED
      BY <1>2, <1>4, <3>1
  <2>2. CASE s.state = 1
    <3>1. \/ r = s \/ r = Respond(s, "DM", f) \/ r = Respond(s, "UA", f)
          \/ r = x75_connect_confirmation([ResetLink(s) EXCEPT !.state = 3])
          \/ r = d
      BY <2>2 DEF x75_state1_machine
    <3> HIDE DEF r
    <3> QED
      BY <1>2, <1>3, <3>1
  <2> QED
    BY <2>1, <2>2
<1> HIDE DEF r
<1>9. Blank(r) => x75_kick(r) = r
  BY DEF x75_kick, Blank
<1> HIDE DEF d
<1> QED
  BY <1>1, <1>5, <1>7, <1>8, <1>9

\* Nor does T1.
LEMMA BlankT1 ==
  ASSUME NEW s, Sound(s), Blank(s), s.state \in {0, 1}, s.t1_pending = TRUE,
         T1Expires(s).up # "disconnected"
  PROVE  Blank(T1Expires(s))
<1> DEFINE p == [s EXCEPT !.t1_pending = FALSE]
           q == T1Expires(s)
<1>1. /\ s \in Station /\ Inv(s)
      /\ s.state = 0 => s.t1_cb = "x75_t1timer_expiry"
  BY SoundFacts
<1>2. s.t1_cb = "x75_t1timer_expiry" /\ s.t1_running = TRUE
  BY <1>1 DEF Inv, Supervised, T1Set
<1>3. /\ p \in Station /\ Blank(p) /\ p.state = s.state
      /\ p.t1_pending = FALSE /\ p.t1_running = TRUE
  BY <1>1, <1>2 DEF Station, Blank
<1>4. q = x75_t1timer_expiry(p)
  BY <1>2 DEF T1Expires, RunCallback
<1> HIDE DEF p, q
<1>5. CASE s.state = 0
  <2>1. q = x75_start_t1timer(T1Disconnected(p))
    BY <1>3, <1>4, <1>5 DEF x75_t1timer_expiry
  <2>2. CASE p.dce /\ p.n2count # N2
    <3> DEFINE e == [type |-> "DM", pf |-> FALSE, cr |-> "RESPONSE",
                     ns |-> 0, nr |-> 0, data |-> NoData]
               m == p.n2count + 1
               o == Append(p.out, e)
               v == T1Disconnected(p)
    <3>1. v = [p EXCEPT !.n2count = m, !.out = o]
      BY <1>3, <2>2 DEF T1Disconnected, x75_send_control,
         x75_transmit_buffer, Station
    <3> HIDE DEF o, m, v
    <3>2. Blank(x75_start_t1timer(v))
      BY <1>3, <3>1 DEF Station, Blank, x75_start_t1timer
    <3> QED
      BY <2>1, <3>2 DEF v, q
  <2>3. CASE ~ (p.dce /\ p.n2count # N2)
    <3> DEFINE b == [p EXCEPT !.state = 1]
               g == [b EXCEPT !.condition = {}, !.n2count = 0]
               e == [type |-> IF Extended THEN "SABME" ELSE "SABM",
                     pf |-> TRUE, cr |-> "COMMAND",
                     ns |-> 0, nr |-> 0, data |-> NoData]
               o == Append(g.out, e)
               v == [g EXCEPT !.out = o]
    <3>1. T1Disconnected(p) = x75_stop_t2timer(x75_start_t1timer(v))
      <4>1. x75_send_control(g, IF Extended THEN "SABME" ELSE "SABM", TRUE,
                             "COMMAND") = v
        BY DEF x75_send_control, x75_transmit_buffer
      <4>2. T1Disconnected(p) = x75_establish_data_link(b)
        BY <2>3 DEF T1Disconnected
      <4> HIDE DEF v, b
      <4> QED
        BY <4>1, <4>2 DEF x75_establish_data_link
    <3> HIDE DEF o
    <3>2. Blank(v) /\ DOMAIN v = DOMAIN p
      BY <1>3 DEF Station, Blank
    <3>3. v = [p EXCEPT !.state = 1, !.condition = {}, !.n2count = 0,
                        !.out = o]
      BY <1>3 DEF Station
    <3> HIDE DEF v
    <3>4. Blank(x75_start_t1timer(x75_stop_t2timer(x75_start_t1timer(v))))
      BY <1>3, <3>3 DEF Station, Blank, x75_start_t1timer, x75_stop_t2timer
    <3> QED
      BY <2>1, <3>1, <3>4 DEF q
  <2> QED
    BY <2>2, <2>3
<1>6. CASE s.state = 1
  <2>1. CASE p.n2count = N2
    <3> DEFINE c == [x75_clear_queues(p) EXCEPT !.state = 0,
                                                !.t1_running = FALSE]
    <3>1. q = T1GiveUp(p) /\ p.state = 1
      BY <1>3, <1>4, <1>6, <2>1 DEF x75_t1timer_expiry
    <3>2. q = x75_disconnect_indication(c)
      BY <3>1 DEF T1GiveUp
    <3>3. q.up = "disconnected"
      BY <1>3, <3>2 DEF x75_clear_queues, x75_disconnect_indication, Station
    <3> QED
      BY <3>3 DEF q
  <2>2. CASE p.n2count # N2
    <3> DEFINE m == p.n2count + 1
               e == [type |-> SetMode, pf |-> TRUE, cr |-> "COMMAND",
                     ns |-> 0, nr |-> 0, data |-> NoData]
               c == [p EXCEPT !.n2count = m]
               o == Append(c.out, e)
               v == [c EXCEPT !.out = o]
    <3>1. x75_send_control(c, SetMode, TRUE, "COMMAND") = v
      BY DEF x75_send_control, x75_transmit_buffer, SetMode
    <3>2. q = x75_start_t1timer(T1Retry(p)) /\ p.state = 1
      BY <1>3, <1>4, <1>6, <2>2 DEF x75_t1timer_expiry
    <3>3. T1Retry(p) = x75_send_control(c, SetMode, TRUE, "COMMAND")
      BY <3>2 DEF T1Retry
    <3> HIDE DEF o, m
    <3>4. v = [p EXCEPT !.n2count = m, !.out = o]
      BY <1>3 DEF Station
    <3> HIDE DEF v
    <3>5. Blank(x75_start_t1timer(v))
      BY <1>3, <3>4 DEF Station, Blank, x75_start_t1timer
    <3> QED
      BY <3>1, <3>2, <3>3, <3>5 DEF q
  <2> QED
    BY <2>1, <2>2
<1> QED
  BY <1>5, <1>6

\* A handler of the station a whose layer above has handed over k payloads:
\* it leaves q, and a disconnection is not reported.
Serves(a, q, k) ==
  /\ Steady(q) /\ Tidy(q, k) /\ Traffic(q.out)
  /\ q.state # 3 => k = 0 /\ q.vr = 0
  /\ a.state = 3 => q.state = 3
  /\ \A i \in DOMAIN q.out :
       /\ q.out[i].type \in Numbered => q.state = 3 /\ q.out[i].nr = q.vr
       /\ q.out[i].type = SetMode => a.state # 3 /\ q.state # 3

\* It acknowledges nothing and delivers nothing.
Rests(a, q) == q.va = a.va /\ q.vr = a.vr /\ q.rx = <<>>

LEMMA FrameKinds ==
  /\ SetMode \notin Numbered /\ "UA" \notin Numbered /\ "DM" \notin Numbered
  /\ SetMode # "UA" /\ SetMode # "DM" /\ SetMode # "I"
  BY ModeTypes DEF Numbered

\* A handler that moves on in data transfer.
LEMMA MovesServes ==
  ASSUME NEW s, Sound(s), NEW q, NEW va, Moves(s, q, va), Inv(q),
         NEW k, Tidy(q, k)
  PROVE  Serves(s, q, k)
<1>1. Steady(q) /\ q.state = 3 /\ q.out \in Seq(Frame)
  BY MovesSteady DEF Moves, Inv, Core, Station
<1>2. Plain(q.out, va, q.vs, q.vr)
  BY DEF Moves
<1>3. /\ Traffic(q.out) /\ AllNumbered(q.out)
      /\ \A i \in DOMAIN q.out :
           q.out[i].type \in Numbered => q.out[i].nr = q.vr
  BY <1>1, <1>2, PlainTraffic
<1>4. \A i \in DOMAIN q.out : q.out[i].type # SetMode
  BY <1>3, FrameKinds DEF AllNumbered
<1> QED
  BY <1>1, <1>3, <1>4 DEF Serves

\* A handler that sends nothing, or one unnumbered frame.
LEMMA SingleServes ==
  ASSUME NEW s, NEW q, Steady(q), NEW k, Settled(q, k),
         q.state # 3 => k = 0 /\ q.vr = 0, s.state = 3 => q.state = 3,
         \/ q.out = <<>>
         \/ Single(q.out, "UA") \/ Single(q.out, "DM")
         \/ Single(q.out, SetMode) /\ s.state # 3 /\ q.state # 3
  PROVE  Serves(s, q, k)
<1>1. CASE q.out = <<>>
  BY <1>1 DEF Serves, Tidy, Counted, Traffic
<1>2. ASSUME NEW t \in Unnumbered, Single(q.out, t),
             t = SetMode => s.state # 3 /\ q.state # 3
      PROVE  Serves(s, q, k)
  <2>1. Traffic(q.out)
    BY <1>2, SingleTraffic
  <2>2. \A i \in DOMAIN q.out : q.out[i].type = t
    <3>1. Len(q.out) = 1 /\ q.out \in Seq(Frame) /\ q.out[1].type = t
      BY <1>2 DEF Single
    <3>2. DOMAIN q.out = 1 .. 1
      BY <3>1
    <3> QED
      BY <3>1, <3>2
  <2>3. t \notin Numbered /\ t # "I"
    BY FrameKinds DEF Unnumbered
  <2>4. Counted(q.out, k)
    BY <2>2, <2>3 DEF Counted
  <2> QED
    BY <1>2, <2>1, <2>2, <2>3, <2>4 DEF Serves, Tidy
<1>3. "UA" \in Unnumbered /\ "DM" \in Unnumbered /\ SetMode \in Unnumbered
  BY DEF Unnumbered
<1> QED
  BY <1>1, <1>2, <1>3, FrameKinds

\* A numbered frame in data transfer.
LEMMA InputTakes ==
  ASSUME NEW n \in Nat, n <= Window, NEW s, Serving(s, n), s.state = 3,
         NEW f \in Frame, f.type \in Numbered, f.type = "I" => f.data \in Data,
         x75_validate_nr(s, f.nr)
  PROVE  LET q == x75_data_input(s, f)
         IN  /\ Serves(s, q, n) /\ q.up = s.up /\ q.va = f.nr
             /\ q.vr = IF InSequence(s, f) THEN Plus(s.vr, 1) ELSE s.vr
             /\ q.rx = IF InSequence(s, f) THEN <<f.data>> ELSE <<>>
<1> DEFINE q == x75_data_input(s, f)
<1>1. /\ Sound(s) /\ Inv(s) /\ Exact(s) /\ s.out = <<>> /\ s.rx = <<>>
      /\ "PEER_RX_BUSY" \notin s.condition
  BY SoundFacts, Zenon DEF Serving
<1>2. Inv(q)
  BY <1>1, DataInput
<1>3. /\ Moves(s, q, f.nr)
      /\ q.vr = IF InSequence(s, f) THEN Plus(s.vr, 1) ELSE s.vr
      /\ q.rx = IF InSequence(s, f) THEN <<f.data>> ELSE <<>>
  BY <1>1, NumberedInput
<1>4. Tidy(q, n)
  BY NumberedTidy
<1> HIDE DEF q
<1>5. Serves(s, q, n)
  BY <1>1, <1>2, <1>3, <1>4, MovesServes
<1> QED
  BY <1>3, <1>5 DEF q, Moves

\* A DM in data transfer is reported.
LEMMA DMReported ==
  ASSUME NEW s, Sound(s), s.state = 3, NEW f \in Frame, f.type = "DM"
  PROVE  x75_data_input(s, f).up = "disconnected"
<1> DEFINE r == x75_state3_machine(s, f)
           q == x75_data_input(s, f)
<1>1. s \in Station /\ Inv(s)
  BY SoundFacts
<1>2. q = x75_kick(r)
  BY DEF x75_data_input
<1>3. r \in Station
  BY <1>1, State3 DEF Inv, Core
<1>4. r = x75_disconnect_indication(Disconnected(x75_clear_queues(s)))
  BY ModeTypes DEF x75_state3_machine
<1> HIDE DEF q, r
<1>5. r.up = "disconnected" /\ r.write_queue = <<>>
  BY <1>1, <1>4 DEF Station, Disconnected, x75_clear_queues,
     x75_disconnect_indication, x75_stop_t2timer, x75_start_t1timer
<1>6. Still(r, q)
  BY <1>2, <1>3, <1>5, KickEmpty
<1> QED
  BY <1>5, <1>6 DEF Still, SameRest, q

\* A UA in data transfer is ignored.
LEMMA UAIgnored ==
  ASSUME NEW n \in Nat, NEW s, Serving(s, n), s.state = 3,
         NEW f \in Frame, f.type = "UA"
  PROVE  LET q == x75_data_input(s, f)
         IN  Serves(s, q, n) /\ Rests(s, q)
<1> DEFINE q == x75_data_input(s, f)
<1>1. /\ s \in Station /\ Inv(s) /\ s.out = <<>> /\ s.rx = <<>>
      /\ s.t2_cb = "NULL" /\ "PEER_RX_BUSY" \notin s.condition
      /\ Settled(s, n) /\ s.write_queue = <<>> /\ s.write_queue_count = 0
      /\ Sound(s)
  <2>1. Sound(s) /\ Settled(s, n) /\ s.write_queue = <<>>
    BY DEF Serving, Settled
  <2>2. s.write_queue_count = 0
    <3>1. Len(s.write_queue) = 0
      BY <2>1
    <3> QED
      BY <2>1, <3>1 DEF Settled, Queues
  <2> QED
    BY <2>1, <2>2, SoundFacts
<1>2. x75_state3_machine(s, f) = s
  BY ModeTypes DEF x75_state3_machine
<1>3. q = s
  BY <1>1, <1>2 DEF x75_data_input, x75_kick
<1> HIDE DEF q
<1>4. Steady(s)
  BY <1>1 DEF Sound
<1>5. Serves(s, s, n)
  BY <1>1, <1>4, SingleServes
<1> QED
  BY <1>1, <1>3, <1>5 DEF Rests, q

\* Any other frame, once it does not end in a disconnection.
LEMMA InputRests ==
  ASSUME NEW n \in Nat, n <= Window, NEW s, Serving(s, n),
         NEW f \in Frame, f.type \in Numbered \cup Unnumbered,
         f.type = "I" => f.data \in Data,
         ~ (s.state = 3 /\ f.type \in Numbered),
         f.type = SetMode => s.va = 0 /\ s.vr = 0,
         x75_data_input(s, f).up # "disconnected"
  PROVE  LET q == x75_data_input(s, f)
         IN  Serves(s, q, n) /\ Rests(s, q)
<1> DEFINE q == x75_data_input(s, f)
<1>1. Sound(s) /\ s.state \in {0, 1, 3}
  BY SoundFacts DEF Serving
<1>2. CASE s.state # 3
  <2>1. n = 0 /\ Blank(s) /\ s \in Station /\ s.state \in {0, 1}
    BY <1>2, ServingBlank
  <2>2. Blank(q)
    BY <2>1, BlankInput
  <2>3. /\ Steady(q) /\ q.rx = <<>>
        /\ q.out = <<>> \/ Single(q.out, "UA")
    <3>1. CASE s.state = 0
      BY <1>1, <3>1, Input0
    <3>2. CASE s.state = 1
      BY <1>1, <3>2, Input1
    <3> QED
      BY <2>1, <3>1, <3>2
  <2> HIDE DEF q
  <2>4. Settled(q, n) /\ q.vr = 0 /\ q.va = s.va /\ q.vr = s.vr
    BY <2>1, <2>2, BlankSettled DEF Blank
  <2>5. Serves(s, q, n)
    BY <1>2, <2>1, <2>3, <2>4, SingleServes
  <2> QED
    BY <2>3, <2>4, <2>5 DEF Rests, q
<1>3. CASE s.state = 3 /\ f.type = SetMode
  <2>1. /\ Steady(q) /\ q.rx = <<>>
        /\ q.state = 3 /\ q.va = 0 /\ q.vr = 0
        /\ \E u, b \in Seq(Frame) :
             q.out = u \o b /\ Single(u, "UA") /\ IFrames(b, 0, q.vs, 0)
    BY <1>1, <1>3, Input3SetMode
  <2>2. Tidy(q, n)
    BY <1>3, SetModeTidy
  <2> HIDE DEF q
  <2>3. PICK u, b \in Seq(Frame) :
          q.out = u \o b /\ Single(u, "UA") /\ IFrames(b, 0, q.vs, 0)
    BY <2>1
  <2>4. Traffic(u) /\ \A i \in DOMAIN u : u[i].type = "UA"
    <3>1. "UA" \in Unnumbered
      BY DEF Unnumbered
    <3>2. Len(u) = 1 /\ u[1].type = "UA" /\ DOMAIN u = 1 .. Len(u)
      BY <2>3 DEF Single
    <3> QED
      BY <2>3, <3>1, <3>2, SingleTraffic
  <2>5. Traffic(b) /\ \A i \in DOMAIN b : b[i].type = "I" /\ b[i].nr = 0
    BY <2>3 DEF IFrames, Traffic, Numbered
  <2>6. Traffic(q.out)
    BY <2>3, <2>4, <2>5, TrafficConcat
  <2>7. \A i \in DOMAIN q.out :
          \/ q.out[i].type = "UA"
          \/ q.out[i].type = "I" /\ q.out[i].nr = 0
    <3>1. \A i \in DOMAIN (u \o b) :
            \/ i \in DOMAIN u /\ (u \o b)[i] = u[i]
            \/ i - Len(u) \in DOMAIN b /\ (u \o b)[i] = b[i - Len(u)]
      BY ConcatOf
    <3>2. \A i \in DOMAIN (u \o b) :
            \/ (u \o b)[i].type = "UA"
            \/ (u \o b)[i].type = "I" /\ (u \o b)[i].nr = 0
      BY <2>4, <2>5, <3>1
    <3> QED
      BY <2>3, <3>2
  <2>8. Serves(s, q, n)
    BY <2>1, <2>2, <2>6, <2>7, FrameKinds DEF Serves
  <2> QED
    BY <1>3, <2>1, <2>8 DEF Rests, q
<1>4. CASE s.state = 3 /\ f.type = "UA"
  BY <1>4, UAIgnored
<1>5. CASE s.state = 3 /\ f.type = "DM"
  BY <1>1, <1>5, DMReported
<1> QED
  BY <1>2, <1>3, <1>4, <1>5 DEF Unnumbered

\* T1 in data transfer: everything is sent again under the same numbers, or
\* the link is given up.
LEMMA T1Tidy ==
  ASSUME NEW n \in Nat, n <= Window, NEW s, Serving(s, n), s.state = 3,
         s.t1_pending = TRUE
  PROVE  LET q == T1Expires(s)
         IN  q.up = "disconnected" \/ (q.state = 3 /\ Tidy(q, n))
<1> DEFINE p == [s EXCEPT !.t1_pending = FALSE]
           q == T1Expires(s)
<1>1. /\ s \in Station /\ Inv(s) /\ Core(s) /\ s.out = <<>>
      /\ "PEER_RX_BUSY" \notin s.condition /\ Settled(s, n)
  BY SoundFacts, Zenon DEF Serving
<1>2. s.t1_running = TRUE
  BY <1>1 DEF Inv, Supervised
<1>3. /\ p \in Station /\ p.t1_pending = FALSE /\ p.t1_running = TRUE
      /\ p.state = 3 /\ p.out = <<>> /\ p.condition = s.condition
      /\ p.va = s.va /\ p.vs = s.vs /\ SameQueues(s, p)
      /\ p.n2count \in 0 .. N2
  BY <1>1, <1>2 DEF Station, SameQueues
<1>4. /\ s.t1_cb = "x75_t1timer_expiry" => q = x75_t1timer_expiry(p)
      /\ s.t1_cb = "x75_t2timer_expiry" => q = x75_t2timer_expiry(p)
      /\ s.t1_cb \notin {"x75_t1timer_expiry", "x75_t2timer_expiry"} => q = p
  BY DEF T1Expires, RunCallback
<1> HIDE DEF p, q
<1>5. Settled(p, n) /\ NoI(p.out) /\ Counted(p.out, n)
  BY <1>1, <1>3, SettledSame DEF NoI, Counted
<1>6. CASE s.t1_cb \notin {"x75_t1timer_expiry", "x75_t2timer_expiry"}
  BY <1>3, <1>4, <1>5, <1>6 DEF Tidy, q
<1>7. CASE s.t1_cb = "x75_t2timer_expiry"
  <2> DEFINE e == [type |-> "RR", pf |-> FALSE, cr |-> "RESPONSE", ns |-> 0,
                   nr |-> p.vr, data |-> NoData]
             c == p.condition \ {"ACK_PENDING"}
             t == [p EXCEPT !.out = <<e>>, !.condition = c,
                            !.t2_running = FALSE]
             u == [p EXCEPT !.t2_running = FALSE]
  <2>1. q = p \/ q = u \/ q = t
    <3>1. x75_timeout_response(p) = [p EXCEPT !.out = <<e>>, !.condition = c]
      <4>1. Append(p.out, e) = <<e>>
        BY <1>3
      <4>2. x75_send_control(p, "RR", FALSE, "RESPONSE")
              = [p EXCEPT !.out = Append(p.out, e)]
        BY DEF x75_send_control, x75_transmit_buffer
      <4> HIDE DEF e
      <4>3. x75_send_control(p, "RR", FALSE, "RESPONSE")
              = [p EXCEPT !.out = <<e>>]
        BY <4>1, <4>2
      <4> QED
        BY <1>3, <4>3 DEF x75_timeout_response, ClearAckPending, Station
    <3> QED
      BY <1>4, <1>7, <3>1 DEF x75_t2timer_expiry
  <2>2. Counted(<<e>>, n)
    BY DEF Counted
  <2> HIDE DEF e, c
  <2>3. /\ t.state = 3 /\ t.out = <<e>> /\ SameQueues(p, t)
        /\ t.va = p.va /\ t.vs = p.vs
        /\ u.state = 3 /\ u.out = p.out /\ SameQueues(p, u)
        /\ u.va = p.va /\ u.vs = p.vs
    BY <1>3 DEF Station, SameQueues
  <2> HIDE DEF t, u
  <2>4. Settled(t, n) /\ Settled(u, n)
    BY <1>5, <2>3, SettledSame
  <2>5. Tidy(t, n) /\ Tidy(u, n) /\ Tidy(p, n)
    BY <1>5, <2>2, <2>3, <2>4 DEF Tidy
  <2> QED
    BY <1>3, <2>1, <2>3, <2>5 DEF q
<1>8. CASE s.t1_cb = "x75_t1timer_expiry" /\ p.n2count = N2
  <2> DEFINE c == [x75_clear_queues(p) EXCEPT !.state = 0,
                                              !.t1_running = FALSE]
  <2>1. q = x75_disconnect_indication(x75_stop_t2timer(c))
    <3>1. T1GiveUp(p) = x75_disconnect_indication(x75_stop_t2timer(c))
      BY <1>3 DEF T1GiveUp
    <3> QED
      BY <1>3, <1>4, <1>8, <3>1 DEF x75_t1timer_expiry
  <2>2. q.up = "disconnected"
    BY <1>3, <2>1 DEF Station, x75_clear_queues, x75_disconnect_indication,
                      x75_stop_t2timer
  <2> QED
    BY <2>2 DEF q
<1>9. CASE s.t1_cb = "x75_t1timer_expiry" /\ p.n2count # N2
  <2> DEFINE m == p.n2count + 1
             c == [p EXCEPT !.n2count = m]
             r == x75_requeue_frames(c)
             k == x75_kick(r)
  <2>1. m \in 0 .. N2
    BY <1>3, <1>9, N2Assumption
  <2>2. q = x75_start_t1timer(k)
    <3>1. T1Retry(p) = k
      BY <1>3 DEF T1Retry
    <3> HIDE DEF k
    <3> QED
      BY <1>3, <1>4, <1>9, <3>1 DEF x75_t1timer_expiry
  <2> HIDE DEF m
  <2>3. /\ c \in Station /\ c.out = <<>> /\ c.state = 3
        /\ c.condition = s.condition
        /\ c.va = p.va /\ c.vs = p.vs /\ SameQueues(p, c)
    BY <1>1, <1>3, <2>1 DEF Station, SameQueues
  <2> HIDE DEF c
  <2>4. Settled(c, n) /\ NoI(c.out)
    BY <1>5, <2>3, SettledSame DEF NoI
  <2>5. Core(c)
    BY <1>1, <1>3, <2>3 DEF Core, Numbers, SameQueues
  <2>6. Primed(r, n)
    BY <1>1, <2>3, <2>4, <2>5, RequeueInOrder DEF Settled
  <2>7. Tidy(k, n)
    BY <2>6, PrimedTidy
  <2>8. Keeps(r, k) /\ Keeps(c, r)
    BY <2>5, <2>6, Requeue, Kick, CoreFacts DEF Primed
  <2> HIDE DEF r, k
  <2>9. k \in Station /\ k.state = 3
    BY <2>3, <2>8 DEF Keeps, Core
  <2>10. /\ q.state = 3 /\ q.va = k.va /\ q.vs = k.vs
         /\ q.out = k.out /\ SameQueues(k, q)
    BY <2>2, <2>9 DEF Station, x75_start_t1timer, SameQueues
  <2>11. Settled(q, n)
    BY <2>7, <2>10, SettledSame DEF Tidy
  <2> QED
    BY <2>7, <2>10, <2>11 DEF Tidy, q
<1> QED
  BY <1>6, <1>7, <1>8, <1>9

LEMMA T1Serves ==
  ASSUME NEW n \in Nat, n <= Window, NEW s, Serving(s, n),
         s.t1_pending = TRUE, T1Expires(s).up # "disconnected"
  PROVE  LET q == T1Expires(s)
         IN  Serves(s, q, n) /\ Rests(s, q)
<1> DEFINE q == T1Expires(s)
<1>1. Sound(s) /\ Inv(s) /\ s.state \in {0, 1, 3}
  BY SoundFacts DEF Serving
<1>2. CASE s.state # 3
  <2>1. n = 0 /\ Blank(s) /\ s \in Station /\ s.state \in {0, 1}
    BY <1>2, ServingBlank
  <2>2. Blank(q)
    BY <1>1, <2>1, BlankT1
  <2>3. /\ Steady(q) /\ q.rx = <<>>
        /\ \/ q.state = 0 /\ Single(q.out, "DM")
           \/ q.state = 1 /\ Single(q.out, SetMode)
           \/ q.state = 0 /\ q.out = <<>>
    BY <1>1, <2>1, T1Waiting
  <2> HIDE DEF q
  <2>4. Settled(q, n) /\ q.vr = 0 /\ q.va = s.va /\ q.vr = s.vr
    BY <2>1, <2>2, BlankSettled DEF Blank
  <2>5. Serves(s, q, n)
    BY <1>2, <2>1, <2>3, <2>4, SingleServes
  <2> QED
    BY <2>3, <2>4, <2>5 DEF Rests, q
<1>3. CASE s.state = 3
  <2>1. q.state = 3 /\ Tidy(q, n)
    BY <1>3, T1Tidy
  <2>2. Moves(s, q, s.va) /\ q.vr = s.vr /\ q.rx = <<>>
    <3>1. /\ Steady(q) /\ q.rx = <<>>
          /\ \/ q.state = 0 /\ q.out = <<>>
             \/ Moves(s, q, s.va) /\ q.vr = s.vr
      BY <1>1, <1>3, T1Transfer
    <3> QED
      BY <2>1, <3>1
  <2>3. Inv(q)
    BY <1>1, T1ExpiresInv
  <2> HIDE DEF q
  <2>4. Serves(s, q, n)
    BY <1>1, <2>1, <2>2, <2>3, MovesServes
  <2> QED
    BY <2>2, <2>4 DEF Rests, Moves, q
<1> QED
  BY <1>2, <1>3

LEMMA T2Serves ==
  ASSUME NEW n \in Nat, NEW s, Serving(s, n)
  PROVE  LET q == T2Expires(s)
         IN  Serves(s, q, n) /\ Rests(s, q)
<1> DEFINE q == T2Expires(s)
<1>1. Sound(s) /\ s.out = <<>> /\ Settled(s, n)
  BY SoundFacts DEF Serving
<1>2. Steady(q) /\ q.rx = <<>> /\ Still(s, q)
  BY <1>1, T2Idle
<1> HIDE DEF q
<1>3. /\ q.state = s.state /\ q.vr = s.vr /\ q.va = s.va /\ q.vs = s.vs
      /\ q.out = <<>> /\ SameQueues(s, q)
  BY <1>1, <1>2 DEF Still, SameRest
<1>4. Settled(q, n)
  BY <1>1, <1>3, SettledSame
<1>5. q.state # 3 => n = 0 /\ q.vr = 0
  BY <1>3 DEF Serving
<1>6. Serves(s, q, n)
  BY <1>2, <1>3, <1>4, <1>5, SingleServes
<1> QED
  BY <1>2, <1>3, <1>6 DEF Rests, q

\* The next payload is sent at once: there is room in the window.
LEMMA SubmitServes ==
  ASSUME NEW n \in Nat, n + 1 <= Window, NEW s, Serving(s, n), s.state = 3,
         n + 1 \in Data
  PROVE  LET q == x75_data_request(s, n + 1)
         IN  Serves(s, q, n + 1) /\ Rests(s, q) /\ q.up = s.up
<1> DEFINE d == n + 1
           c == s.write_queue_count + 1
           w == Append(s.write_queue, d)
           r == [s EXCEPT !.write_queue = w, !.write_queue_count = c]
           q == x75_data_request(s, d)
<1>1. /\ s \in Station /\ Inv(s) /\ Core(s) /\ s.out = <<>> /\ Sound(s)
      /\ s.rx = <<>> /\ Exact(s)
      /\ "PEER_RX_BUSY" \notin s.condition /\ Settled(s, n)
  BY SoundFacts, Zenon DEF Serving
<1>2. /\ s.write_queue = <<>> /\ s.write_queue_count = 0 /\ s.vs = n
      /\ s.ack_queue_count = Len(s.ack_queue)
      /\ \A i \in 1 .. Len(s.ack_queue) : s.ack_queue[i] = s.va + i
      /\ s.va + Len(s.ack_queue) = n
      /\ s.va \in Nat /\ Len(s.ack_queue) \in Nat
  <2>1. /\ Len(s.write_queue) = 0 /\ s.va + Len(s.ack_queue) = n
        /\ s.va \in Nat /\ Len(s.ack_queue) \in Nat
    BY <1>1, SettledNumbers
  <2> QED
    BY <1>1, <2>1 DEF Settled, Queues
<1>3. Moves(s, q, s.va) /\ q.vr = s.vr /\ q.rx = <<>> /\ Inv(q)
  BY <1>1, SubmitMoves, DataInv
<1>4. q = x75_kick(r)
  BY DEF x75_data_request
<1>5. /\ d \in Data /\ d \in Nat /\ w = <<d>> /\ c = 1
      /\ <<d>> \in Seq(Data) /\ Len(<<d>>) = 1 /\ <<d>>[1] = d
      /\ <<d>> # <<>> /\ d <= Window
  BY <1>2
<1> HIDE DEF w, c, q
<1>6. /\ r \in Station /\ r.write_queue = <<d>> /\ r.write_queue_count = 1
      /\ r.va = s.va /\ r.vs = s.vs /\ r.out = <<>>
      /\ r.condition = s.condition /\ r.ack_queue = s.ack_queue
      /\ r.ack_queue_count = s.ack_queue_count
  BY <1>1, <1>5 DEF Station
<1> HIDE DEF r
<1>7. Core(r)
  <2>1. /\ s.ack_queue_count >= Len(s.ack_queue) /\ Dist(s.va, s.vs) <= Window
    BY <1>1 DEF Core, Numbers
  <2>2. r.write_queue_count >= Len(r.write_queue)
    BY <1>5, <1>6
  <2> QED
    BY <1>6, <2>1, <2>2 DEF Core, Numbers
<1>8. Queues(r, d)
  <2>1. Len(r.write_queue) = 1 /\ r.write_queue[1] = d
    BY <1>5, <1>6
  <2>2. \A i \in 1 .. 1 : i = 1
    OBVIOUS
  <2>3. r.va + Len(r.ack_queue) + Len(r.write_queue) = d
    BY <1>2, <1>6, <2>1
  <2>4. \A i \in 1 .. Len(r.write_queue) :
          r.write_queue[i] = r.va + Len(r.ack_queue) + i
    BY <2>1, <2>2, <2>3
  <2> HIDE DEF d
  <2> QED
    BY <1>2, <1>6, <2>1, <2>3, <2>4 DEF Queues
<1>9. Primed(r, d)
  <2>1. NoI(r.out)
    BY <1>6 DEF NoI
  <2>2. r.write_queue # <<>>
    BY <1>5, <1>6
  <2>3. r.vs = r.va + Len(r.ack_queue)
    BY <1>2, <1>6
  <2> HIDE DEF d
  <2> QED
    BY <1>1, <1>6, <1>7, <1>8, <2>1, <2>2, <2>3 DEF Primed
<1>10. Tidy(q, d)
  BY <1>4, <1>5, <1>9, PrimedTidy
<1>11. Serves(s, q, d)
  <2> HIDE DEF d
  <2> QED
    BY <1>1, <1>3, <1>10, MovesServes
<1> QED
  BY <1>3, <1>11 DEF Rests, Moves, q

-----------------------------------------------------------------------------
(* One half of the link: a station a, its peer b, the frames c on their    *)
(* way to a, the numbers n and m of payloads the two sides have handed     *)
(* over, and what was delivered at a.                                      *)

\* Payloads 1 .. k.
Served(g, k) == Len(g) = k /\ \A i \in DOMAIN g : g[i] = i

\* The acknowledgements under way do not go back, and reach from what a has
\* seen to what b has received; no SABM(E) is behind them.
Acks(a, b, c) ==
  \A i \in DOMAIN c : c[i].type \in Numbered =>
    /\ b.state = 3 /\ a.va <= c[i].nr /\ c[i].nr <= b.vr
    /\ \A j \in DOMAIN c : j > i =>
         /\ c[j].type # SetMode
         /\ c[j].type \in Numbered => c[i].nr <= c[j].nr

\* A SABM(E) under way finds a station that can start again from 0.
Restartable(a, c) ==
  \A i \in DOMAIN c : c[i].type = SetMode => a.va = 0 /\ a.vr = 0

Half(a, b, c, n, m, g) ==
  /\ Serving(a, n) /\ Traffic(c) /\ g \in Seq(Data) /\ Served(g, a.vr)
  /\ a.vr <= m /\ a.va <= b.vr
  /\ Counted(c, m) /\ Acks(a, b, c) /\ Restartable(a, c)

\* The numbers of a half.
LEMMA HalfNumbers ==
  ASSUME NEW s, NEW n, Serving(s, n)
  PROVE  /\ s.va \in Seqno /\ s.vr \in Seqno /\ s.va \in Nat /\ s.vr \in Nat
         /\ s.state \in {0, 1, 3}
<1>1. s \in Station /\ s.state \in {0, 1, 3}
  BY SoundFacts DEF Serving
<1> QED
  BY <1>1 DEF Station, Seqno

LEMMA HalfRest ==
  ASSUME NEW a, NEW b, NEW c, NEW n, NEW m, NEW g, Half(a, b, c, n, m, g),
         NEW z, NEW k, Serving(z, k), z.va = a.va, z.vr = a.vr
  PROVE  Half(z, b, c, k, m, g)
  BY DEF Half, Acks, Restartable

LEMMA HalfTail ==
  ASSUME NEW a, NEW b, NEW c, NEW n, NEW m, NEW g, Half(a, b, c, n, m, g),
         c # <<>>
  PROVE  Half(a, b, Tail(c), n, m, g)
<1> DEFINE t == Tail(c)
<1>1. Traffic(c)
  BY DEF Half
<1>2. /\ Traffic(t)
      /\ \A i \in DOMAIN t : i + 1 \in DOMAIN c /\ t[i] = c[i + 1]
      /\ DOMAIN t \subseteq Nat
  <2>1. t \in Seq(Frame)
    BY <1>1, TailOf DEF Traffic
  <2>2. DOMAIN t \subseteq Nat
    <3> HIDE DEF t
    <3> QED
      BY <2>1
  <2> QED
    BY <1>1, <2>2, TailOf, TrafficTail DEF Traffic
<1> HIDE DEF t
<1>3. \A i, j \in DOMAIN t : j > i => j + 1 > i + 1
  BY <1>2
<1>4. Counted(t, m)
  BY <1>2 DEF Half, Counted
<1>5. Acks(a, b, t)
  <2>1. ASSUME NEW i \in DOMAIN t, t[i].type \in Numbered
        PROVE  /\ b.state = 3 /\ a.va <= t[i].nr /\ t[i].nr <= b.vr
               /\ \A j \in DOMAIN t : j > i =>
                    /\ t[j].type # SetMode
                    /\ t[j].type \in Numbered => t[i].nr <= t[j].nr
    <3>1. i + 1 \in DOMAIN c /\ t[i] = c[i + 1]
      BY <1>2
    <3>2. /\ b.state = 3 /\ a.va <= c[i + 1].nr /\ c[i + 1].nr <= b.vr
          /\ \A j \in DOMAIN c : j > i + 1 =>
               /\ c[j].type # SetMode
               /\ c[j].type \in Numbered => c[i + 1].nr <= c[j].nr
      BY <2>1, <3>1 DEF Half, Acks
    <3> QED
      BY <1>2, <1>3, <3>1, <3>2
  <2> QED
    BY <2>1 DEF Acks
<1>6. Restartable(a, t)
  BY <1>2 DEF Half, Restartable
<1> QED
  BY <1>2, <1>4, <1>5, <1>6 DEF Half, t

\* What the peer sends, it sends behind what is under way.
LEMMA HalfSend ==
  ASSUME NEW a, NEW b, NEW c, NEW n \in Nat, NEW m, NEW g,
         Half(b, a, c, m, n, g), Serving(a, n),
         NEW k \in Nat, n <= k, NEW q, Serves(a, q, k),
         NEW z, Serving(z, k), z.vr = q.vr, z.state = q.state, a.vr <= z.vr
  PROVE  Half(b, z, c \o q.out, m, k, g)
<1> DEFINE o == q.out
           t == c \o o
<1>1. /\ Traffic(c) /\ Traffic(o) /\ Counted(c, n) /\ Counted(o, k)
      /\ Acks(b, a, c) /\ Restartable(b, c) /\ Serving(b, m)
      /\ g \in Seq(Data) /\ Served(g, b.vr) /\ b.vr <= n /\ b.va <= a.vr
  BY DEF Half, Serves, Tidy
<1>2. /\ \A i \in DOMAIN o : o[i].type \in Numbered =>
           z.state = 3 /\ o[i].nr = z.vr
      /\ \A i \in DOMAIN o : o[i].type = SetMode =>
           a.state # 3 /\ z.state # 3
      /\ a.state = 3 => z.state = 3
  BY DEF Serves
<1> HIDE DEF o
<1>3. /\ t \in Seq(Frame) /\ Len(c) \in Nat /\ DOMAIN c = 1 .. Len(c)
      /\ DOMAIN t = 1 .. Len(c) + Len(o)
      /\ \A i \in DOMAIN t :
           \/ i \in DOMAIN c /\ t[i] = c[i]
           \/ i \notin DOMAIN c /\ i - Len(c) \in DOMAIN o
              /\ t[i] = o[i - Len(c)]
  <2>1. /\ t \in Seq(Frame) /\ Len(c) \in Nat /\ DOMAIN c = 1 .. Len(c)
        /\ DOMAIN t = 1 .. Len(c) + Len(o)
        /\ \A i \in DOMAIN c : i \in DOMAIN t /\ t[i] = c[i]
        /\ \A i \in DOMAIN t :
             \/ i \in DOMAIN c /\ t[i] = c[i]
             \/ i - Len(c) \in DOMAIN o /\ t[i] = o[i - Len(c)]
    BY <1>1, ConcatOf DEF Traffic
  <2> HIDE DEF t
  <2> QED
    BY <2>1
<1>4. Traffic(t)
  BY <1>1, TrafficConcat
<1> HIDE DEF t
<1>5. /\ a.va \in Nat /\ a.vr \in Nat /\ z.vr \in Nat
      /\ b.va \in Nat /\ b.vr \in Nat
  BY <1>1, HalfNumbers
<1>6. \A i \in DOMAIN c : c[i] \in Frame
  BY <1>1 DEF Traffic
<1>7. \A i \in DOMAIN c : c[i].nr \in Nat /\ c[i].ns \in Nat
  BY <1>6 DEF Frame, Seqno
<1>8. Counted(t, k)
  <2>1. ASSUME NEW i \in DOMAIN t, t[i].type = "I"
        PROVE  t[i].ns < k /\ t[i].data = t[i].ns + 1
    <3>1. CASE i \in DOMAIN c /\ t[i] = c[i]
      <4>1. c[i].ns < n /\ c[i].data = c[i].ns + 1 /\ c[i].ns \in Nat
        BY <1>1, <1>7, <2>1, <3>1 DEF Counted
      <4> QED
        BY <3>1, <4>1
    <3>2. CASE i - Len(c) \in DOMAIN o /\ t[i] = o[i - Len(c)]
      BY <1>1, <2>1, <3>2 DEF Counted
    <3> QED
      BY <1>3, <3>1, <3>2
  <2> QED
    BY <2>1, Zenon DEF Counted
<1>9. Acks(b, z, t)
  <2>1. ASSUME NEW i \in DOMAIN t, t[i].type \in Numbered
        PROVE  /\ z.state = 3 /\ b.va <= t[i].nr /\ t[i].nr <= z.vr
               /\ \A j \in DOMAIN t : j > i =>
                    /\ t[j].type # SetMode
                    /\ t[j].type \in Numbered => t[i].nr <= t[j].nr
    <3>1. CASE i \in DOMAIN c /\ t[i] = c[i]
      <4>1. /\ a.state = 3 /\ b.va <= c[i].nr /\ c[i].nr <= a.vr
            /\ \A j \in DOMAIN c : j > i =>
                 /\ c[j].type # SetMode
                 /\ c[j].type \in Numbered => c[i].nr <= c[j].nr
        BY <1>1, <2>1, <3>1 DEF Acks
      <4>2. c[i].nr \in Nat /\ c[i].nr <= z.vr
        BY <1>5, <1>7, <3>1, <4>1
      <4>3. ASSUME NEW j \in DOMAIN t, j > i
            PROVE  /\ t[j].type # SetMode
                   /\ t[j].type \in Numbered => t[i].nr <= t[j].nr
        <5>1. CASE j \in DOMAIN c /\ t[j] = c[j]
          BY <3>1, <4>1, <4>3, <5>1
        <5>2. CASE j - Len(c) \in DOMAIN o /\ t[j] = o[j - Len(c)]
          BY <1>2, <3>1, <4>1, <4>2, <5>2
        <5> QED
          BY <1>3, <5>1, <5>2
      <4> QED
        BY <1>2, <3>1, <4>1, <4>2, <4>3
    <3>2. CASE /\ i \notin DOMAIN c /\ i - Len(c) \in DOMAIN o
               /\ t[i] = o[i - Len(c)]
      <4>1. z.state = 3 /\ t[i].nr = z.vr
        BY <1>2, <2>1, <3>2
      <4>2. b.va <= z.vr
        BY <1>1, <1>5
      <4>3. ASSUME NEW j \in DOMAIN t, j > i
            PROVE  /\ t[j].type # SetMode
                   /\ t[j].type \in Numbered => t[i].nr <= t[j].nr
        <5>1. j \notin DOMAIN c
          BY <1>3, <3>2, <4>3
        <5>2. j - Len(c) \in DOMAIN o /\ t[j] = o[j - Len(c)]
          BY <1>3, <5>1
        <5>3. /\ t[j].type # SetMode
              /\ t[j].type \in Numbered => t[j].nr = z.vr
          BY <1>2, <4>1, <5>2
        <5> QED
          BY <1>5, <4>1, <5>3
      <4> QED
        BY <1>5, <4>1, <4>2, <4>3
    <3> QED
      BY <1>3, <3>1, <3>2
  <2> QED
    BY <2>1 DEF Acks
<1>10. Restartable(b, t)
  <2>1. ASSUME NEW i \in DOMAIN t, t[i].type = SetMode
        PROVE  b.va = 0 /\ b.vr = 0
    <3>1. CASE i \in DOMAIN c /\ t[i] = c[i]
      BY <1>1, <2>1, <3>1 DEF Restartable
    <3>2. CASE i - Len(c) \in DOMAIN o /\ t[i] = o[i - Len(c)]
      <4>1. a.state # 3
        BY <1>2, <2>1, <3>2
      <4>2. n = 0 /\ a.vr = 0
        BY <4>1 DEF Serving
      <4> QED
        BY <1>1, <1>5, <4>2
    <3> QED
      BY <1>3, <3>1, <3>2
  <2> QED
    BY <2>1 DEF Restartable
<1>11. b.vr <= k /\ b.va <= z.vr
  BY <1>1, <1>5
<1> QED
  BY <1>1, <1>4, <1>8, <1>9, <1>10, <1>11 DEF Half, t, o

\* A numbered frame arrives: its N(R) becomes V(A), and what it delivers is
\* the next payload.
LEMMA HalfTake ==
  ASSUME NEW a, NEW b, NEW c, NEW n, NEW m \in Nat, m <= Window, NEW g,
         Half(a, b, c, n, m, g), c # <<>>, c[1].type \in Numbered,
         NEW z, Serving(z, n), z.va = c[1].nr,
         NEW r, z.vr = IF InSequence(a, c[1]) THEN Plus(a.vr, 1) ELSE a.vr,
         r = IF InSequence(a, c[1]) THEN <<c[1].data>> ELSE <<>>
  PROVE  /\ Half(z, b, Tail(c), n, m, g \o r)
         /\ a.vr <= z.vr
         /\ InSequence(a, c[1]) =>
              a.vr < m /\ g \o r = Append(g, Len(g) + 1)
         /\ ~ InSequence(a, c[1]) => g \o r = g
<1> DEFINE f == c[1]
           t == Tail(c)
           h == g \o r
<1>1. /\ Traffic(c) /\ Serving(a, n) /\ g \in Seq(Data) /\ Served(g, a.vr)
      /\ a.vr <= m /\ Counted(c, m) /\ Acks(a, b, c)
  BY DEF Half
<1>2. Half(a, b, t, n, m, g)
  BY HalfTail
<1>3. /\ \A i \in DOMAIN t : i + 1 \in DOMAIN c /\ t[i] = c[i + 1]
      /\ 1 \in DOMAIN c /\ f \in Frame
      /\ f.type = "I" => f.data \in Data
      /\ DOMAIN t \subseteq Nat \ {0}
  <2>1. t \in Seq(Frame)
    BY <1>1, TailOf DEF Traffic
  <2>2. DOMAIN t \subseteq Nat \ {0}
    <3> HIDE DEF t
    <3> QED
      BY <2>1
  <2> QED
    BY <1>1, <2>2, TailOf, TrafficTail DEF Traffic
<1>4. /\ b.state = 3 /\ f.nr <= b.vr
      /\ \A j \in DOMAIN c : j > 1 =>
           /\ c[j].type # SetMode
           /\ c[j].type \in Numbered => f.nr <= c[j].nr
  BY <1>1, <1>3 DEF Acks
<1>5. a.vr \in Nat /\ Len(g) = a.vr /\ \A i \in DOMAIN g : g[i] = i
  BY <1>1, HalfNumbers DEF Served
<1> HIDE DEF t
<1>6. \A i \in DOMAIN t : i + 1 > 1
  BY <1>3
<1>7. Acks(z, b, t)
  <2>1. \A i \in DOMAIN t : t[i].type \in Numbered => z.va <= t[i].nr
    BY <1>3, <1>4, <1>6
  <2> QED
    BY <1>2, <2>1 DEF Half, Acks
<1>8. Restartable(z, t)
  BY <1>3, <1>4, <1>6 DEF Restartable
<1>9. CASE InSequence(a, f)
  <2>1. f.ns < m /\ f.data = f.ns + 1 /\ f.ns = a.vr /\ f.data \in Data
    BY <1>1, <1>3, <1>9 DEF Counted, InSequence
  <2>2. a.vr < m /\ f.data = Len(g) + 1 /\ Len(g) \in Nat
    BY <1>5, <2>1
  <2>3. Plus(a.vr, 1) = a.vr + 1
    BY <1>5, <2>2, WindowAssumption, ModulusAssumption DEF Plus
  <2>4. z.vr = a.vr + 1 /\ r = <<f.data>>
    BY <1>9, <2>3
  <2>5. h = Append(g, f.data)
    <3>1. \A x \in Data : g \o <<x>> = Append(g, x)
      BY <1>1
    <3>2. h = g \o <<f.data>>
      BY <2>4
    <3> HIDE DEF h, f
    <3> QED
      BY <2>1, <3>1, <3>2
  <2> HIDE DEF h, f
  <2>6. /\ h \in Seq(Data) /\ Len(h) = Len(g) + 1
        /\ \A i \in 1 .. Len(g) : h[i] = g[i]
        /\ h[Len(g) + 1] = f.data
    BY <1>1, <2>1, <2>5
  <2>7. DOMAIN h = 1 .. Len(g) + 1 /\ DOMAIN g = 1 .. Len(g)
    BY <1>1, <2>6
  <2>8. \A i \in DOMAIN h : h[i] = i
    <3>1. \A i \in 1 .. Len(g) + 1 : i \in 1 .. Len(g) \/ i = Len(g) + 1
      BY <2>2
    <3> QED
      BY <1>5, <2>2, <2>6, <2>7, <3>1
  <2>9. Served(h, z.vr)
    BY <1>5, <2>4, <2>6, <2>8 DEF Served
  <2>10. z.vr <= m /\ a.vr <= z.vr
    BY <1>5, <2>2, <2>4
  <2>11. h = Append(g, Len(g) + 1)
    BY <2>2, <2>5
  <2>12. z.va <= b.vr /\ Traffic(t) /\ Counted(t, m)
    BY <1>2, <1>4 DEF Half, f
  <2>13. Half(z, b, t, n, m, h)
    BY <1>7, <1>8, <2>6, <2>9, <2>10, <2>12 DEF Half
  <2> QED
    BY <1>9, <2>2, <2>10, <2>11, <2>13 DEF h, t, f
<1>10. CASE ~ InSequence(a, f)
  <2>1. z.vr = a.vr /\ h = g
    BY <1>1, <1>10
  <2> HIDE DEF h, f
  <2>2. z.va <= b.vr /\ Traffic(t) /\ Counted(t, m) /\ z.vr <= m
    BY <1>1, <1>2, <1>4, <2>1 DEF Half, f
  <2>3. Half(z, b, t, n, m, h)
    BY <1>1, <1>7, <1>8, <2>1, <2>2 DEF Half
  <2>4. a.vr <= z.vr
    BY <1>5, <2>1
  <2> QED
    BY <1>10, <2>1, <2>3, <2>4 DEF h, t, f
<1> QED
  BY <1>9, <1>10

-----------------------------------------------------------------------------
(* The two stations.                                                       *)

ServiceTypes == got = [p \in Side |-> got[p]] /\ broken \in BOOLEAN

ServiceInv ==
  ~ broken =>
    \A p \in Side :
      Half(st[p], st[Other(p)], chan[p], sent[p], sent[Other(p)], got[p])

\* What a step may do to the service.
ServiceStep == [Service!Next]_(Service!serviceVars)

LEMMA PeerIsOther ==
  \A p \in Side : Service!Peer(p) = Other(p)
<1> SUFFICES ASSUME NEW p \in Side
             PROVE  Service!Peer(p) = Other(p)
  OBVIOUS
<1>1. \A q \in Side : q # p <=> q = Other(p)
  BY DEF Side, Other
<1>2. Other(p) \in Side
  BY Sides
<1> QED
  BY <1>1, <1>2 DEF Service!Peer

\* What a station no longer has in a queue was acknowledged.
LEMMA ServingConfirmed ==
  ASSUME NEW n \in Nat, NEW s, Serving(s, n)
  PROVE  n - Len(s.write_queue) - Len(s.ack_queue) = s.va
<1>1. Core(s) /\ Settled(s, n)
  BY SoundFacts DEF Serving
<1>2. /\ s.va \in Nat /\ Len(s.ack_queue) \in Nat
      /\ s.va + Len(s.ack_queue) = n /\ Len(s.write_queue) = 0
  BY <1>1, SettledNumbers
<1> QED
  BY <1>2

LEMMA ConfirmedIsVA ==
  ASSUME ServiceInv, ~ broken, sent \in [Side -> Nat]
  PROVE  [p \in Side |-> Confirmed(p)] = [p \in Side |-> st[p].va]
<1>1. ASSUME NEW p \in Side
      PROVE  Confirmed(p) = st[p].va
  <2>1. Serving(st[p], sent[p]) /\ sent[p] \in Nat
    BY DEF ServiceInv, Half
  <2>2. sent[p] - Len(st[p].write_queue) - Len(st[p].ack_queue) = st[p].va
    BY <2>1, ServingConfirmed
  <2> QED
    BY <2>2 DEF Confirmed
<1> QED
  BY <1>1

LEMMA ConfirmedNext ==
  ASSUME ServiceInv', ~ broken', sent' \in [Side -> Nat]
  PROVE  [p \in Side |-> Confirmed(p)]' = [p \in Side |-> st'[p].va]
<1>1. ASSUME NEW p \in Side
      PROVE  Confirmed(p)' = st'[p].va
  <2>1. Serving(st'[p], sent'[p]) /\ sent'[p] \in Nat
    BY DEF ServiceInv, Half
  <2>2. sent'[p] - Len(st'[p].write_queue) - Len(st'[p].ack_queue)
          = st'[p].va
    BY <2>1, ServingConfirmed
  <2> QED
    BY <2>2 DEF Confirmed
<1> QED
  BY <1>1

\* Behind a disconnection nothing is promised.
LEMMA AfterBreak ==
  ASSUME broken, broken'
  PROVE  ServiceInv' /\ ServiceStep
  BY DEF ServiceInv, ServiceStep, Service!Next, Service!Anything

LEMMA AtBreak ==
  ASSUME ~ broken, broken', sent' = sent, got' = got
  PROVE  ServiceInv' /\ ServiceStep
  BY DEF ServiceInv, ServiceStep, Service!Next, Service!Break

\* The control block after a handler.
LEMMA FlushServing ==
  ASSUME NEW a, NEW q, NEW k, Serves(a, q, k), q.up # "disconnected"
  PROVE  LET z == Flush(q)
         IN  /\ Serving(z, k) /\ z.va = q.va /\ z.vr = q.vr
             /\ z.state = q.state
<1> DEFINE z == Flush(q)
<1>1. Steady(q) /\ Settled(q, k) /\ (q.state # 3 => k = 0 /\ q.vr = 0)
  BY DEF Serves, Tidy
<1>2. /\ Sound(z) /\ z.state = q.state
      /\ z.va = q.va /\ z.vs = q.vs /\ z.vr = q.vr
  BY <1>1, Flushed
<1>3. q \in Station
  BY <1>1 DEF Steady, Inv, Core
<1>4. SameQueues(q, z) /\ z.up = q.up
  BY <1>3 DEF Flush, Station, SameQueues
<1> HIDE DEF z
<1>5. Settled(z, k)
  BY <1>1, <1>2, <1>4, SettledSame
<1> QED
  BY <1>1, <1>2, <1>4, <1>5 DEF Serving, z

\* The invariant after a handler of p, when the half of p is as it should.
LEMMA HandleServes ==
  ASSUME LinkTypes, ServiceTypes, ServiceInv, ~ broken,
         NEW p \in Side, NEW q, NEW in, Handle(p, q, in), DOMAIN in = Side,
         in[Other(p)] = chan[Other(p)], q.up # "disconnected",
         NEW k \in Nat, sent[p] <= k, Serves(st[p], q, k), st[p].vr <= q.vr,
         sent'[p] = k, sent'[Other(p)] = sent[Other(p)],
         Half(Flush(q), st[Other(p)], in[p], k, sent[Other(p)],
              got[p] \o q.rx)
  PROVE  /\ ServiceInv' /\ ~ broken'
         /\ st'[p].va = q.va /\ st'[Other(p)] = st[Other(p)]
<1> DEFINE r == Other(p)
<1>1. /\ DOMAIN st = Side /\ DOMAIN got = Side /\ sent[p] \in Nat
      /\ r \in Side /\ r # p /\ Other(r) = p
  BY Sides DEF LinkTypes, ServiceTypes
<1>2. /\ st'[p] = Flush(q) /\ st'[r] = st[r]
      /\ chan'[p] = in[p] /\ chan'[r] = chan[r] \o q.out
  <2>1. DOMAIN st = Side /\ DOMAIN in = Side /\ Handle(p, q, in)
    BY <1>1
  <2>2. /\ st'[p] = Flush(q) /\ st'[Other(p)] = st[Other(p)]
        /\ chan'[p] = in[p] /\ chan'[Other(p)] = in[Other(p)] \o q.out
    BY <2>1, HandleFields
  <2> QED
    BY <2>2
<1>3. /\ got'[p] = got[p] \o q.rx /\ got'[r] = got[r] /\ broken' = FALSE
  BY <1>1 DEF Handle
<1>4. /\ Half(st[p], st[r], chan[p], sent[p], sent[r], got[p])
      /\ Half(st[r], st[p], chan[r], sent[r], sent[p], got[r])
  BY <1>1 DEF ServiceInv
<1>5. /\ Serving(Flush(q), k) /\ Flush(q).va = q.va /\ Flush(q).vr = q.vr
      /\ Flush(q).state = q.state
  BY FlushServing
<1>6. Half(st[r], Flush(q), chan[r] \o q.out, sent[r], k, got[r])
  <2> DEFINE a == st[p]
             b == st[r]
             c == chan[r]
             n == sent[p]
             m == sent[r]
             g == got[r]
             z == Flush(q)
  <2>1. /\ n \in Nat /\ Half(b, a, c, m, n, g) /\ Serving(a, n) /\ n <= k
        /\ Serves(a, q, k) /\ Serving(z, k) /\ z.vr = q.vr
        /\ z.state = q.state /\ a.vr <= z.vr
    BY <1>1, <1>4, <1>5 DEF Half
  <2> HIDE DEF a, b, c, n, m, g, z, r
  <2>2. Half(b, z, c \o q.out, m, k, g)
    BY <2>1, HalfSend
  <2> QED
    BY <2>2 DEF a, b, c, n, m, g, z
<1> HIDE DEF r
<1>7. \A s \in Side : s = p \/ s = r
  BY DEF Side, Other, r
<1>8. /\ Half(st'[p], st'[r], chan'[p], sent'[p], sent'[r], got'[p])
      /\ Half(st'[r], st'[p], chan'[r], sent'[r], sent'[p], got'[r])
  <2>1. sent'[p] = k /\ sent'[r] = sent[r]
    BY DEF r
  <2>2. Half(Flush(q), st[r], in[p], k, sent[r], got[p] \o q.rx)
    BY DEF r
  <2> QED
    BY <1>2, <1>3, <1>6, <2>1, <2>2
<1>9. \A s \in Side :
        Half(st'[s], st'[Other(s)], chan'[s], sent'[s], sent'[Other(s)],
             got'[s])
  BY <1>1, <1>7, <1>8 DEF r
<1> QED
  BY <1>2, <1>3, <1>5, <1>9 DEF ServiceInv, r

\* A handler that delivers nothing and acknowledges nothing.
LEMMA RestStep ==
  ASSUME LinkTypes, ServiceTypes, ServiceInv, ~ broken,
         NEW p \in Side, NEW q, NEW in, Handle(p, q, in), DOMAIN in = Side,
         in[Other(p)] = chan[Other(p)], sent' = sent, q.rx = <<>>,
         q.up # "disconnected" =>
           Serves(st[p], q, sent[p]) /\ Rests(st[p], q),
         Half(st[p], st[Other(p)], in[p], sent[p], sent[Other(p)], got[p])
  PROVE  ServiceInv' /\ ServiceStep
<1> DEFINE g == got[p]
           a == st[p]
           n == sent[p]
           m == sent[Other(p)]
<1>1. /\ n \in Nat /\ m \in Nat /\ g \in Seq(Data) /\ Serving(a, n)
      /\ sent \in [Side -> Nat] /\ DOMAIN got = Side /\ Other(p) \in Side
  <2>1. Half(a, st[Other(p)], in[p], n, m, g)
    OBVIOUS
  <2>2. g \in Seq(Data) /\ Serving(a, n)
    <3> HIDE DEF a, g, n, m
    <3> QED
      BY <2>1 DEF Half
  <2> QED
    BY <2>2, Sides DEF LinkTypes, ServiceTypes
<1>2. g \o q.rx = g
  <2> HIDE DEF g
  <2> QED
    BY <1>1
<1>3. got' = got
  <2>1. got' = [got EXCEPT ![p] = got[p] \o q.rx]
    BY DEF Handle
  <2>2. got' = [got EXCEPT ![p] = got[p]]
    BY <1>2, <2>1
  <2> QED
    BY <2>2 DEF ServiceTypes
<1>4. CASE q.up = "disconnected"
  <2>1. broken'
    BY <1>4 DEF Handle
  <2> QED
    BY <1>3, <2>1, AtBreak
<1>5. CASE q.up # "disconnected"
  <2>1. Serves(a, q, n) /\ Rests(a, q)
    BY <1>5
  <2>2. a.vr \in Nat /\ q.vr = a.vr /\ q.va = a.va
    BY <1>1, <2>1, HalfNumbers DEF Rests
  <2>3. Half(Flush(q), st[Other(p)], in[p], n, m, g \o q.rx)
    <3>1. Serving(Flush(q), n) /\ Flush(q).va = q.va /\ Flush(q).vr = q.vr
      BY <1>5, <2>1, FlushServing
    <3>2. Half(a, st[Other(p)], in[p], n, m, g)
      OBVIOUS
    <3>3. Half(Flush(q), st[Other(p)], in[p], n, m, g)
      <4> DEFINE z == Flush(q)
      <4>1. Serving(z, n) /\ z.va = a.va /\ z.vr = a.vr
        BY <2>2, <3>1
      <4> HIDE DEF a, n, m, g, z
      <4>2. Half(z, st[Other(p)], in[p], n, m, g)
        BY <3>2, <4>1, HalfRest
      <4> QED
        BY <4>2 DEF z
    <3> QED
      BY <1>2, <3>3
  <2>4. /\ ServiceInv' /\ ~ broken'
        /\ st'[p].va = q.va /\ st'[Other(p)] = st[Other(p)]
    <3>1. /\ n \in Nat /\ sent[p] <= n /\ Serves(st[p], q, n)
          /\ st[p].vr <= q.vr /\ sent'[p] = n
          /\ sent'[Other(p)] = sent[Other(p)]
          /\ Half(Flush(q), st[Other(p)], in[p], n, sent[Other(p)],
                  got[p] \o q.rx)
      BY <1>1, <2>1, <2>2, <2>3
    <3> HIDE DEF n
    <3> QED
      BY <1>5, <3>1, HandleServes
  <2>5. \A s \in Side : st'[s].va = st[s].va
    <3>1. \A s \in Side : s = p \/ s = Other(p)
      BY DEF Side, Other
    <3> QED
      BY <2>2, <2>4, <3>1
  <2>6. [s \in Side |-> Confirmed(s)]' = [s \in Side |-> Confirmed(s)]
    <3>1. [s \in Side |-> Confirmed(s)] = [s \in Side |-> st[s].va]
      BY <1>1, ConfirmedIsVA
    <3>2. [s \in Side |-> Confirmed(s)]' = [s \in Side |-> st'[s].va]
      BY <1>1, <2>4, ConfirmedNext
    <3>3. [s \in Side |-> st'[s].va] = [s \in Side |-> st[s].va]
      BY <2>5
    <3> QED
      BY <3>1, <3>2, <3>3
  <2>7. broken' = broken
    BY <1>5 DEF Handle, ServiceTypes
  <2>8. UNCHANGED Service!serviceVars
    BY <1>3, <2>6, <2>7 DEF Service!serviceVars
  <2> QED
    BY <2>4, <2>8 DEF ServiceStep
<1> QED
  BY <1>4, <1>5

\* Nothing but a numbered frame in data transfer delivers.
LEMMA InputQuiet ==
  ASSUME NEW n \in Nat, NEW s, Serving(s, n),
         NEW f \in Frame, f.type \in Numbered \cup Unnumbered,
         f.type = "I" => f.data \in Data,
         ~ (s.state = 3 /\ f.type \in Numbered)
  PROVE  x75_data_input(s, f).rx = <<>>
<1>1. Sound(s) /\ s.state \in {0, 1, 3}
  BY SoundFacts DEF Serving
<1>2. CASE s.state = 0
  BY <1>1, <1>2, Input0
<1>3. CASE s.state = 1
  BY <1>1, <1>3, Input1
<1>4. CASE s.state = 3 /\ f.type = SetMode
  BY <1>1, <1>4, Input3SetMode
<1>5. CASE s.state = 3 /\ f.type = "DM"
  BY <1>1, <1>5, Input3DM
<1>6. CASE s.state = 3 /\ f.type = "UA"
  BY <1>6, UAIgnored DEF Rests
<1> QED
  BY <1>1, <1>2, <1>3, <1>4, <1>5, <1>6 DEF Unnumbered

\* T1 delivers nothing.
LEMMA T1Quiet ==
  ASSUME NEW n \in Nat, NEW s, Serving(s, n), s.t1_pending = TRUE
  PROVE  T1Expires(s).rx = <<>>
<1>1. Sound(s) /\ s.state \in {0, 1, 3}
  BY SoundFacts DEF Serving
<1>2. CASE s.state = 3
  BY <1>1, <1>2, T1Transfer
<1>3. CASE s.state # 3
  BY <1>1, <1>3, T1Waiting
<1> QED
  BY <1>2, <1>3

\* The N(R) under way are from the window.
LEMMA InOrderValid ==
  ASSUME NEW n \in Nat, n <= Window, NEW a, Serving(a, n),
         NEW nr \in Seqno, a.va <= nr, nr <= n
  PROVE  x75_validate_nr(a, nr)
<1>1. Core(a) /\ Settled(a, n)
  BY SoundFacts DEF Serving
<1>2. a.va \in Seqno /\ a.va \in Nat /\ a.va <= n /\ a.vs = n
  BY <1>1, SettledNumbers
<1> QED
  BY <1>2 DEF x75_validate_nr, Dist, Seqno

\* A numbered frame in data transfer: Serve.
LEMMA NumberedStep ==
  ASSUME LinkTypes, ServiceTypes, ServiceInv, ~ broken,
         NEW p \in Side, sent[p] <= Window, sent[Other(p)] <= Window,
         Receive(p), st[p].state = 3, chan[p][1].type \in Numbered
  PROVE  ServiceInv' /\ ServiceStep
<1> DEFINE r  == Other(p)
           a  == st[p]
           b  == st[r]
           c  == chan[p]
           n  == sent[p]
           m  == sent[r]
           g  == got[p]
           f  == c[1]
           q  == x75_data_input(a, f)
           in == [chan EXCEPT ![p] = Tail(@)]
<1>1. /\ n \in Nat /\ m \in Nat /\ sent \in [Side -> Nat]
      /\ DOMAIN got = Side /\ r \in Side /\ r # p /\ Other(r) = p
  BY Sides DEF LinkTypes, ServiceTypes
<1>2. /\ c # <<>> /\ Handle(p, x75_data_input(a, Head(c)), in)
      /\ sent' = sent
  BY DEF Receive
<1>3. /\ Half(a, b, c, n, m, g) /\ Half(b, a, chan[r], m, n, got[r])
  BY <1>1 DEF ServiceInv
<1>4. DOMAIN in = Side /\ in[r] = chan[r] /\ in[p] = Tail(c)
  BY <1>1 DEF LinkTypes
<1>5. /\ n <= Window /\ m <= Window
      /\ a.state = 3 /\ c[1].type \in Numbered
  OBVIOUS
<1>6. ServiceTypes /\ got' = [got EXCEPT ![p] = g \o x75_data_input(a, Head(c)).rx]
  BY <1>2 DEF Handle
<1>7. [s \in Side |-> Confirmed(s)] = [s \in Side |-> st[s].va]
  BY <1>1, ConfirmedIsVA
<1> HIDE DEF a, b, c, n, m, g, in, r
<1>8. /\ Serving(a, n) /\ Traffic(c) /\ Acks(a, b, c) /\ b.vr <= n
      /\ Len(got[r]) = b.vr /\ Serving(b, m) /\ Len(g) = a.vr
  BY <1>3 DEF Half, Served
<1>9. /\ Head(c) = f /\ 1 \in DOMAIN c /\ f \in Frame
      /\ f.type = "I" => f.data \in Data
  <2>1. /\ Head(c) = c[1] /\ 1 \in DOMAIN c /\ c[1] \in Frame
        /\ c[1].type = "I" => c[1].data \in Data
    BY <1>2, <1>8, TrafficTail
  <2> QED
    BY <2>1
<1>10. f.nr \in Seqno /\ f.nr \in Nat
  BY <1>9 DEF Frame, Seqno
<1>11. a.va <= f.nr /\ f.nr <= b.vr
  BY <1>5, <1>8, <1>9 DEF Acks
<1>12. /\ a.va \in Nat /\ a.vr \in Nat /\ b.vr \in Nat
  BY <1>8, HalfNumbers
<1>13. x75_validate_nr(a, f.nr)
  <2>1. f.nr <= n
    BY <1>1, <1>8, <1>10, <1>11, <1>12
  <2> HIDE DEF f
  <2> QED
    BY <1>1, <1>5, <1>8, <1>10, <1>11, <2>1, InOrderValid
<1>14. Handle(p, q, in)
  BY <1>2, <1>9
<1>15. /\ Serves(a, q, n) /\ q.up = a.up /\ q.va = f.nr
       /\ q.vr = IF InSequence(a, f) THEN Plus(a.vr, 1) ELSE a.vr
       /\ q.rx = IF InSequence(a, f) THEN <<f.data>> ELSE <<>>
  <2>1. f.type \in Numbered
    BY <1>5
  <2> HIDE DEF f
  <2> QED
    BY <1>1, <1>5, <1>8, <1>9, <1>13, <2>1, InputTakes
<1>16. q.up # "disconnected"
  BY <1>8, <1>15 DEF Serving
<1> HIDE DEF q
<1>17. /\ Serving(Flush(q), n) /\ Flush(q).va = q.va /\ Flush(q).vr = q.vr
  BY <1>15, <1>16, FlushServing
<1>18. /\ Half(Flush(q), b, Tail(c), n, m, g \o q.rx)
       /\ a.vr <= q.vr
       /\ InSequence(a, f) =>
            a.vr < m /\ g \o q.rx = Append(g, Len(g) + 1)
       /\ ~ InSequence(a, f) => g \o q.rx = g
  <2> DEFINE z == Flush(q)
             x == q.rx
  <2>1. /\ Serving(z, n) /\ z.va = c[1].nr
        /\ z.vr = IF InSequence(a, c[1]) THEN Plus(a.vr, 1) ELSE a.vr
        /\ x = IF InSequence(a, c[1]) THEN <<c[1].data>> ELSE <<>>
        /\ z.vr = q.vr
    BY <1>15, <1>17
  <2> HIDE DEF z, x
  <2>2. /\ Half(z, b, Tail(c), n, m, g \o x)
        /\ a.vr <= z.vr
        /\ InSequence(a, c[1]) =>
             a.vr < m /\ g \o x = Append(g, Len(g) + 1)
        /\ ~ InSequence(a, c[1]) => g \o x = g
    <3>1. /\ m \in Nat /\ m <= Window /\ Half(a, b, c, n, m, g)
          /\ c # <<>> /\ c[1].type \in Numbered
          /\ Serving(z, n) /\ z.va = c[1].nr
      BY <1>1, <1>2, <1>3, <1>5, <2>1
    <3>2. /\ z.vr = IF InSequence(a, c[1]) THEN Plus(a.vr, 1) ELSE a.vr
          /\ x = IF InSequence(a, c[1]) THEN <<c[1].data>> ELSE <<>>
      BY <2>1
    <3> QED
      BY <3>1, <3>2, HalfTake
  <2> QED
    BY <2>1, <2>2 DEF z, x
<1>19. /\ ServiceInv' /\ ~ broken'
       /\ st'[p].va = q.va /\ st'[r] = st[r]
  <2>1. /\ n \in Nat /\ sent[p] <= n /\ Serves(st[p], q, n)
        /\ st[p].vr <= q.vr /\ sent'[p] = n
        /\ sent'[Other(p)] = sent[Other(p)]
        /\ in[Other(p)] = chan[Other(p)]
        /\ Half(Flush(q), st[Other(p)], in[p], n, sent[Other(p)],
                got[p] \o q.rx)
    BY <1>1, <1>2, <1>4, <1>15, <1>18 DEF a, b, c, n, m, g, r
  <2>2. ServiceTypes /\ DOMAIN in = Side
    BY <1>4
  <2> QED
    BY <1>14, <1>16, <2>1, <2>2, HandleServes DEF r
<1> DEFINE conf == [s \in Side |-> st[s].va]
<1>20. [s \in Side |-> Confirmed(s)]' = [conf EXCEPT ![p] = f.nr]
  <2>1. [s \in Side |-> Confirmed(s)]' = [s \in Side |-> st'[s].va]
    BY <1>1, <1>2, <1>19, ConfirmedNext
  <2>2. \A s \in Side : s = p \/ s = r
    BY DEF Side, Other, r
  <2>3. [s \in Side |-> st'[s].va] = [conf EXCEPT ![p] = f.nr]
    BY <1>15, <1>19, <2>2
  <2> QED
    BY <2>1, <2>3
<1>21. conf[p] = a.va
  BY DEF a
<1>22. f.nr \in conf[p] .. Len(got[r])
  BY <1>8, <1>10, <1>11, <1>12, <1>21
<1>23. \/ got' = got
       \/ Len(got[p]) < sent[r] /\ got' = [got EXCEPT ![p] = Append(@, Len(@) + 1)]
  <2>1. got' = [got EXCEPT ![p] = g \o q.rx]
    BY <1>6, <1>9 DEF q
  <2>2. CASE InSequence(a, f)
    BY <1>8, <1>18, <2>1, <2>2 DEF g, m
  <2>3. CASE ~ InSequence(a, f)
    <3>1. got' = [got EXCEPT ![p] = got[p]]
      BY <1>18, <2>1, <2>3 DEF g
    <3> QED
      BY <1>6, <3>1 DEF ServiceTypes
  <2> QED
    BY <2>2, <2>3
<1>24. broken' = broken /\ sent' = sent
  BY <1>2, <1>14, <1>16 DEF Handle, ServiceTypes
<1>25. Service!Peer(p) = r
  BY PeerIsOther DEF r
<1> HIDE DEF f, conf
<1>26. Service!Serve(p)
  <2>1. \E k \in conf[p] .. Len(got[r]) :
          [s \in Side |-> Confirmed(s)]' = [conf EXCEPT ![p] = k]
    BY <1>20, <1>22
  <2>2. [s \in Side |-> Confirmed(s)] = conf
    BY <1>7 DEF conf
  <2> QED
    BY <1>23, <1>24, <1>25, <2>1, <2>2 DEF Service!Serve
<1> QED
  BY <1>19, <1>26 DEF ServiceStep, Service!Next

LEMMA ReceiveStep ==
  ASSUME LinkTypes, ServiceTypes, ServiceInv, ~ broken,
         NEW p \in Side, sent[p] <= Window, sent[Other(p)] <= Window,
         Receive(p)
  PROVE  ServiceInv' /\ ServiceStep
<1>1. CASE st[p].state = 3 /\ chan[p][1].type \in Numbered
  BY <1>1, NumberedStep
<1>2. CASE ~ (st[p].state = 3 /\ chan[p][1].type \in Numbered)
  <2> DEFINE r  == Other(p)
             a  == st[p]
             c  == chan[p]
             n  == sent[p]
             f  == c[1]
             q  == x75_data_input(a, f)
             in == [chan EXCEPT ![p] = Tail(@)]
  <2>1. n \in Nat /\ r \in Side /\ r # p /\ n <= Window
    BY Sides DEF LinkTypes
  <2>2. /\ c # <<>> /\ Handle(p, x75_data_input(a, Head(c)), in)
        /\ sent' = sent
    BY DEF Receive
  <2>3. Half(a, st[r], c, n, sent[r], got[p])
    BY DEF ServiceInv
  <2>4. DOMAIN in = Side /\ in[r] = chan[r] /\ in[p] = Tail(c)
    BY <2>1 DEF LinkTypes
  <2>5. ~ (a.state = 3 /\ f.type \in Numbered)
    BY <1>2
  <2> HIDE DEF a, c, n, in
  <2>6. Serving(a, n) /\ Traffic(c) /\ Restartable(a, c)
    BY <2>3 DEF Half
  <2>7. /\ Head(c) = f /\ 1 \in DOMAIN c /\ f \in Frame
        /\ f.type \in Numbered \cup Unnumbered
        /\ f.type = "I" => f.data \in Data
    <3>1. /\ Head(c) = c[1] /\ 1 \in DOMAIN c /\ c[1] \in Frame
          /\ c[1].type \in Numbered \cup Unnumbered
          /\ c[1].type = "I" => c[1].data \in Data
      BY <2>2, <2>6, TrafficTail
    <3> QED
      BY <3>1
  <2>8. f.type = SetMode => a.va = 0 /\ a.vr = 0
    BY <2>6, <2>7 DEF Restartable
  <2>9. Handle(p, q, in)
    BY <2>2, <2>7
  <2> HIDE DEF f
  <2>10. q.rx = <<>>
    BY <2>1, <2>5, <2>6, <2>7, InputQuiet
  <2>11. q.up # "disconnected" => Serves(a, q, n) /\ Rests(a, q)
    BY <2>1, <2>5, <2>6, <2>7, <2>8, InputRests
  <2>12. Half(a, st[r], Tail(c), n, sent[r], got[p])
    <3> DEFINE b == st[r]
               m == sent[r]
               g == got[p]
    <3>1. Half(a, b, c, n, m, g) /\ c # <<>>
      BY <2>2, <2>3
    <3> HIDE DEF b, m, g
    <3>2. Half(a, b, Tail(c), n, m, g)
      BY <3>1, HalfTail
    <3> QED
      BY <3>2 DEF b, m, g
  <2> HIDE DEF q
  <2>13. /\ q.up # "disconnected" =>
              Serves(st[p], q, sent[p]) /\ Rests(st[p], q)
         /\ Half(st[p], st[Other(p)], in[p], sent[p], sent[Other(p)], got[p])
         /\ in[Other(p)] = chan[Other(p)]
    BY <2>4, <2>11, <2>12 DEF a, c, n
  <2> QED
    BY <2>2, <2>4, <2>9, <2>10, <2>13, RestStep
<1> QED
  BY <1>1, <1>2

LEMMA TimerStep ==
  ASSUME LinkTypes, ServiceTypes, ServiceInv, ~ broken,
         NEW p \in Side, sent[p] <= Window, T1Fires(p) \/ T2Fires(p)
  PROVE  ServiceInv' /\ ServiceStep
<1> DEFINE r  == Other(p)
           a  == st[p]
           n  == sent[p]
<1>1. n \in Nat /\ n <= Window /\ DOMAIN chan = Side
  BY DEF LinkTypes
<1>2. Half(a, st[r], chan[p], n, sent[r], got[p])
  BY DEF ServiceInv
<1>3. Serving(a, n)
  <2> HIDE DEF a, n
  <2> QED
    BY <1>2 DEF Half
<1>4. CASE T1Fires(p)
  <2> DEFINE q == T1Expires(a)
  <2>1. Handle(p, q, chan) /\ sent' = sent /\ a.t1_pending
    BY <1>4 DEF T1Fires
  <2>2. a.t1_pending = TRUE
    <3> HIDE DEF a
    <3>1. a \in Station
      BY <1>3, SoundFacts DEF Serving
    <3> QED
      BY <2>1, <3>1 DEF Station
  <2>3. /\ q.rx = <<>>
        /\ q.up # "disconnected" => Serves(a, q, n) /\ Rests(a, q)
    <3> HIDE DEF a, n
    <3> QED
      BY <1>1, <1>3, <2>2, T1Quiet, T1Serves
  <2> HIDE DEF q
  <2> QED
    BY <1>1, <1>2, <2>1, <2>3, RestStep
<1>5. CASE T2Fires(p)
  <2> DEFINE q == T2Expires(a)
  <2>1. Handle(p, q, chan) /\ sent' = sent
    BY <1>5 DEF T2Fires
  <2>2. /\ q.rx = <<>> /\ Serves(a, q, n) /\ Rests(a, q)
    <3> HIDE DEF a, n
    <3>1. Serves(a, q, n) /\ Rests(a, q)
      BY <1>1, <1>3, T2Serves
    <3> HIDE DEF q
    <3> QED
      BY <3>1 DEF Rests
  <2> HIDE DEF q
  <2> QED
    BY <1>1, <1>2, <2>1, <2>2, RestStep
<1> QED
  BY <1>4, <1>5

\* The layer above hands over its next payload: Request.
LEMMA SubmitStep ==
  ASSUME LinkTypes, ServiceTypes, ServiceInv, ~ broken, LinkTypes',
         NEW p \in Side, sent[p] < Window, sent[p] + 1 \in Data, Submit(p)
  PROVE  ServiceInv' /\ ServiceStep
<1> DEFINE r == Other(p)
           a == st[p]
           b == st[r]
           n == sent[p]
           m == sent[r]
           g == got[p]
           k == n + 1
           q == x75_data_request(a, k)
<1>1. /\ n \in Nat /\ n + 1 <= Window /\ n + 1 \in Data
      /\ DOMAIN chan = Side /\ r \in Side /\ r # p
      /\ sent \in [Side -> Nat] /\ sent' \in [Side -> Nat]
  BY Sides, WindowAssumption DEF LinkTypes
<1>2. /\ a.state \in {3, 4} /\ Handle(p, q, chan)
      /\ sent' = [sent EXCEPT ![p] = @ + 1]
  BY DEF Submit
<1>3. Half(a, b, chan[p], n, m, g)
  BY DEF ServiceInv
<1>4. sent'[p] = k /\ sent'[r] = m
  BY <1>1, <1>2
<1> HIDE DEF a, b, n, m, g
<1>5. /\ Serving(a, n) /\ a.state = 3 /\ a.vr \in Nat /\ g \in Seq(Data)
  <2>1. Serving(a, n) /\ g \in Seq(Data)
    BY <1>3 DEF Half
  <2>2. a.state \in {0, 1, 3} /\ a.vr \in Nat
    BY <2>1, HalfNumbers
  <2> QED
    BY <1>2, <2>1, <2>2
<1>6. Serves(a, q, k) /\ Rests(a, q) /\ q.up = a.up
  BY <1>1, <1>5, SubmitServes
<1>7. k \in Nat /\ n <= k
  BY <1>1
<1> HIDE DEF q, k
<1>8. /\ q.up # "disconnected" /\ q.va = a.va /\ q.vr = a.vr /\ q.rx = <<>>
  BY <1>5, <1>6 DEF Serving, Rests
<1>9. g \o q.rx = g
  BY <1>5, <1>8
<1>10. Half(Flush(q), b, chan[p], k, m, g \o q.rx)
  <2> DEFINE z == Flush(q)
  <2>1. Serving(z, k) /\ z.va = a.va /\ z.vr = a.vr
    BY <1>6, <1>8, FlushServing
  <2> HIDE DEF z
  <2>2. Half(z, b, chan[p], k, m, g)
    BY <1>3, <2>1, HalfRest
  <2> QED
    BY <1>9, <2>2 DEF z
<1>11. /\ ServiceInv' /\ ~ broken'
       /\ st'[p].va = q.va /\ st'[r] = st[r]
  <2>1. /\ k \in Nat /\ sent[p] <= k /\ Serves(st[p], q, k)
        /\ st[p].vr <= q.vr /\ sent'[p] = k
        /\ sent'[Other(p)] = sent[Other(p)]
        /\ Half(Flush(q), st[Other(p)], chan[p], k, sent[Other(p)],
                got[p] \o q.rx)
    BY <1>4, <1>5, <1>6, <1>7, <1>8, <1>10 DEF a, b, n, m, g
  <2> QED
    BY <1>1, <1>2, <1>8, <2>1, HandleServes
<1>12. got' = got
  <2>1. got' = [got EXCEPT ![p] = got[p] \o q.rx]
    BY <1>2 DEF Handle
  <2>2. got' = [got EXCEPT ![p] = got[p]]
    BY <1>9, <2>1 DEF g
  <2> QED
    BY <2>2 DEF ServiceTypes
<1>13. [s \in Side |-> Confirmed(s)]' = [s \in Side |-> Confirmed(s)]
  <2>1. \A s \in Side : s = p \/ s = Other(p)
    BY DEF Side, Other
  <2>2. \A s \in Side : st'[s].va = st[s].va
    BY <1>8, <1>11, <2>1 DEF a
  <2>3. [s \in Side |-> Confirmed(s)] = [s \in Side |-> st[s].va]
    BY <1>1, ConfirmedIsVA
  <2>4. [s \in Side |-> Confirmed(s)]' = [s \in Side |-> st'[s].va]
    BY <1>1, <1>11, ConfirmedNext
  <2>5. [s \in Side |-> st'[s].va] = [s \in Side |-> st[s].va]
    BY <2>2
  <2> QED
    BY <2>3, <2>4, <2>5
<1>14. broken' = broken
  BY <1>2, <1>8 DEF Handle, ServiceTypes
<1>15. Service!Request(p)
  BY <1>2, <1>12, <1>13, <1>14 DEF Service!Request
<1> QED
  BY <1>11, <1>15 DEF ServiceStep, Service!Next

LEMMA LoseStep ==
  ASSUME LinkTypes, ServiceInv, ~ broken, NEW p \in Side, Lose(p)
  PROVE  ServiceInv' /\ ServiceStep
<1>1. /\ chan[p] # <<>> /\ chan' = [chan EXCEPT ![p] = Tail(@)]
      /\ st' = st /\ sent' = sent /\ got' = got /\ broken' = broken
  BY DEF Lose
<1>2. ASSUME NEW s \in Side
      PROVE  Half(st[s], st[Other(s)], chan'[s], sent[s], sent[Other(s)],
                  got[s])
  <2> DEFINE a == st[s]
             b == st[Other(s)]
             c == chan[s]
             n == sent[s]
             m == sent[Other(s)]
             g == got[s]
  <2>1. Half(a, b, c, n, m, g)
    BY DEF ServiceInv
  <2>2. chan'[s] = IF s = p THEN Tail(c) ELSE c
    BY <1>1 DEF LinkTypes
  <2>3. s = p => c # <<>>
    BY <1>1
  <2> HIDE DEF a, b, c, n, m, g
  <2>4. c # <<>> => Half(a, b, Tail(c), n, m, g)
    BY <2>1, HalfTail
  <2>5. Half(a, b, chan'[s], n, m, g)
    BY <2>1, <2>2, <2>3, <2>4
  <2> QED
    BY <2>5 DEF a, b, n, m, g
<1>3. ServiceInv'
  BY <1>1, <1>2 DEF ServiceInv
<1>4. UNCHANGED Service!serviceVars
  BY <1>1 DEF Service!serviceVars, Confirmed
<1> QED
  BY <1>3, <1>4 DEF ServiceStep

-----------------------------------------------------------------------------
(* The refinement.                                                         *)

\* No load asks a side for more payloads than a window holds.
InWindow == \A l \in Loads, p \in Side : l.send[p] <= Window

LEMMA ServiceInit ==
  Init => ServiceTypes /\ ServiceInv /\ Service!Init
<1> SUFFICES ASSUME Init
             PROVE  ServiceTypes /\ ServiceInv /\ Service!Init
  OBVIOUS
<1>1. ASSUME NEW dce \in BOOLEAN
      PROVE  Serving(x75_register(dce), 0) /\ Blank(x75_register(dce))
  <2> DEFINE s == x75_register(dce)
  <2>1. Blank(s) /\ s.up = "none"
    BY DEF x75_register, x75_start_t1timer, Blank
  <2>2. Sound(s)
    BY RegisterSound
  <2> HIDE DEF s
  <2>3. Settled(s, 0)
    BY <2>1, BlankSettled
  <2>4. Serving(s, 0)
    BY <2>1, <2>2, <2>3 DEF Serving, Blank
  <2> QED
    BY <2>1, <2>4 DEF s
<1>2. ASSUME NEW p \in Side
      PROVE  /\ Serving(st[p], 0) /\ Blank(st[p])
             /\ chan[p] = <<>> /\ sent[p] = 0 /\ got[p] = <<>>
  BY <1>1 DEF Init
<1>3. ASSUME NEW a, NEW b, Serving(a, 0), Blank(a), Blank(b)
      PROVE  Half(a, b, <<>>, 0, 0, <<>>)
  <2>1. /\ Traffic(<<>>) /\ <<>> \in Seq(Data) /\ Served(<<>>, 0)
        /\ Counted(<<>>, 0) /\ Acks(a, b, <<>>) /\ Restartable(a, <<>>)
    BY DEF Traffic, Served, Counted, Acks, Restartable
  <2>2. a.va = 0 /\ a.vr = 0 /\ b.vr = 0
    BY <1>3 DEF Blank
  <2> QED
    BY <1>3, <2>1, <2>2 DEF Half
<1>4. \A p \in Side :
        Half(st[p], st[Other(p)], chan[p], sent[p], sent[Other(p)], got[p])
  BY <1>2, <1>3, Sides
<1>5. ServiceInv
  BY <1>4 DEF ServiceInv
<1>6. ServiceTypes
  BY DEF Init, ServiceTypes
<1>7. [p \in Side |-> Confirmed(p)] = [p \in Side |-> 0]
  <2>1. ASSUME NEW p \in Side
        PROVE  Confirmed(p) = 0
    <3>1. /\ sent[p] = 0 /\ Len(st[p].write_queue) = 0
          /\ Len(st[p].ack_queue) = 0
      BY <1>2 DEF Blank
    <3> QED
      BY <3>1 DEF Confirmed
  <2> QED
    BY <2>1
<1>8. Service!Init
  BY <1>7 DEF Init, Service!Init
<1> QED
  BY <1>5, <1>6, <1>8

LEMMA ServiceTypesStep ==
  ServiceTypes /\ [Next]_vars => ServiceTypes'
<1> SUFFICES ASSUME ServiceTypes, [Next]_vars
             PROVE  ServiceTypes'
  OBVIOUS
<1>1. CASE UNCHANGED <<got, broken>>
  BY <1>1 DEF ServiceTypes
<1>2. ASSUME NEW p \in Side, NEW s, NEW in, Handle(p, s, in)
      PROVE  ServiceTypes'
  <2>1. /\ got' = [got EXCEPT ![p] = @ \o s.rx]
        /\ broken' = (broken \/ s.up = "disconnected")
    BY <1>2 DEF Handle
  <2>2. DOMAIN got = Side /\ broken \in BOOLEAN
    BY DEF ServiceTypes
  <2>3. broken' \in BOOLEAN
    BY <2>1, Zenon
  <2>4. got' = [r \in Side |-> got'[r]]
    BY <2>1, <2>2
  <2> QED
    BY <2>3, <2>4 DEF ServiceTypes
<1> QED
  BY <1>1, <1>2 DEF Next, Receive, T1Fires, T2Fires, Submit, Lose, vars

\* Once down, down.
LEMMA BreakLasts ==
  broken /\ [Next]_vars => broken'
<1>1. ASSUME broken, NEW p \in Side, NEW s, NEW in, Handle(p, s, in)
      PROVE  broken'
  BY <1>1, Zenon DEF Handle
<1>2. ASSUME broken, NEW p \in Side, Lose(p)
      PROVE  broken'
  BY <1>2, Zenon DEF Lose
<1>3. ASSUME broken, UNCHANGED vars
      PROVE  broken'
  BY <1>3, Zenon DEF vars
<1> QED
  BY <1>1, <1>2, <1>3 DEF Next, Receive, T1Fires, T2Fires, Submit

LEMMA ServiceNext ==
  ASSUME InWindow, LinkTypes, LinkTypes', ServiceTypes, ServiceInv,
         [Next]_vars
  PROVE  ServiceInv' /\ ServiceStep
<1>1. CASE broken
  BY <1>1, BreakLasts, AfterBreak
<1>2. CASE UNCHANGED vars
  BY <1>2 DEF vars, ServiceInv, ServiceStep, Service!serviceVars, Confirmed
<1>3. ASSUME ~ broken, Next
      PROVE  ServiceInv' /\ ServiceStep
  <2>1. load \in Loads /\ load.send \in [Side -> Nat] /\ Window \in Nat
    BY LinkAssumption, WindowAssumption DEF LinkTypes
  <2>2. \A p \in Side : sent[p] <= load.send[p] /\ load.send[p] <= Window
    BY <2>1 DEF LinkTypes, InWindow
  <2>3. \A p \in Side : sent[p] \in Nat /\ load.send[p] \in Nat
    BY <2>1 DEF LinkTypes
  <2>4. \A p \in Side : sent[p] <= Window /\ sent[Other(p)] <= Window
    BY <2>1, <2>2, <2>3, Sides
  <2>5. PICK p \in Side :
          Receive(p) \/ T1Fires(p) \/ T2Fires(p) \/ Submit(p) \/ Lose(p)
    BY <1>3 DEF Next
  <2>6. CASE Receive(p)
    BY <1>3, <2>4, <2>6, ReceiveStep
  <2>7. CASE T1Fires(p) \/ T2Fires(p)
    BY <1>3, <2>4, <2>7, TimerStep
  <2>8. CASE Submit(p)
    <3>1. sent[p] < load.send[p]
      BY <2>8 DEF Submit
    <3>2. sent[p] < Window /\ sent[p] + 1 \in 1 .. load.send[p]
      BY <2>1, <2>2, <2>3, <3>1
    <3>3. sent[p] + 1 \in Data
      BY <2>1, <3>2, LinkAssumption
    <3> QED
      BY <1>3, <2>8, <3>2, <3>3, SubmitStep
  <2>9. CASE Lose(p)
    BY <1>3, <2>9, LoseStep
  <2> QED
    BY <2>5, <2>6, <2>7, <2>8, <2>9
<1> QED
  BY <1>1, <1>2, <1>3

\* X75Link.IsService, for every modulus, window, retry limit, number of
\* losses and T1, while no side hands over more than Window payloads: every
\* handler of the two stations is a step of X75Service, so that payloads
\* arrive in order, each once, and leave the ack queue only when they have
\* arrived.  The hypothesis is where the code stops keeping the promise: with
\* more than a window handed over, x75_data_request moves I frames into the
\* ack queue ahead of ones that are still to be sent again.
THEOREM LinkIsService ==
  ASSUME InWindow
  PROVE  Spec => IsService
<1> DEFINE I == LinkTypes /\ LinkInv /\ ServiceTypes /\ ServiceInv
<1>1. Init => I /\ Service!Init
  BY LinkInit, ServiceInit
<1>2. I /\ [Next]_vars => I' /\ [Service!Next]_(Service!serviceVars)
  <2> SUFFICES ASSUME I, [Next]_vars
               PROVE  I' /\ [Service!Next]_(Service!serviceVars)
    OBVIOUS
  <2>1. LinkTypes' /\ LinkInv'
    BY LinkStep
  <2>2. ServiceTypes'
    BY ServiceTypesStep
  <2>3. ServiceInv' /\ ServiceStep
    BY <2>1, ServiceNext
  <2> QED
    BY <2>1, <2>2, <2>3 DEF ServiceStep
<1> HIDE DEF I
<1> QED
  BY <1>1, <1>2, PTL DEF Spec, IsService, Service!Spec

\* X75Link.NoGap, within a window: up to the first disconnection the layer
\* above receives payload 1, 2, 3, ... of its peer, none twice and none left
\* out, however many frames are lost and however often T1 expires early.
THEOREM NothingMissing ==
  ASSUME InWindow
  PROVE  Spec => []NoGap
<1> DEFINE I == LinkTypes /\ LinkInv /\ ServiceTypes /\ ServiceInv
<1>1. Init => I
  BY LinkInit, ServiceInit
<1>2. I /\ [Next]_vars => I'
  <2> SUFFICES ASSUME I, [Next]_vars
               PROVE  I'
    OBVIOUS
  <2>1. LinkTypes' /\ LinkInv'
    BY LinkStep
  <2>2. ServiceTypes'
    BY ServiceTypesStep
  <2>3. ServiceInv'
    BY <2>1, ServiceNext
  <2> QED
    BY <2>1, <2>2, <2>3
<1>3. I => NoGap
  BY DEF ServiceInv, Half, Served, NoGap
<1> HIDE DEF I
<1> QED
  BY <1>1, <1>2, <1>3, PTL DEF Spec
=============================================================================
