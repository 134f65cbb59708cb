--------------------------------- MODULE V110 -------------------------------
(***************************************************************************)
(* The bits of V.110 frames that carry RLP, and the frame_bits_cb that     *)
(* joins four of them to an RLP frame (yate_v110.c).                       *)
(***************************************************************************)
EXTENDS Integers, Sequences, FiniteSets

CONSTANT MaxSubs   \* bound: V.110 frames

ASSUME SubsAssumption == MaxSubs \in Nat

VARIABLES
  place,           \* the number of a bit of a V.110 frame
  frames,          \* V.110 frames that were on the line
  missed,          \* history: those that the synchroniser missed
  rlp_frame_bits,  \* the quarters: for each the V.110 frame it is from, or 0
  rlp_frame        \* the RLP frame sent last, and the V.110 frame it ended with

rlpVars == <<frames, missed, rlp_frame_bits, rlp_frame>>

-----------------------------------------------------------------------------
(* The bits of a V.110 frame: ten octets, numbered from 0.                 *)

Columns(row, from, to) == [n \in 1 .. to - from + 1 |-> row * 8 + from + n - 1]

\* Where osmo_v110_decode_rlp_frame takes e_bits and d_bits from.
e_bits == Columns(5, 1, 3)

\* Mutant: the bits of the fifth octet are taken one place early.
DBitsEarly ==
  Columns(1, 1, 7) \o Columns(2, 1, 7) \o Columns(3, 1, 7) \o Columns(4, 1, 7)
    \o Columns(5, 3, 6)
    \o Columns(6, 1, 7) \o Columns(7, 1, 7) \o Columns(8, 1, 7) \o Columns(9, 1, 7)

d_bits ==
  Columns(1, 1, 7) \o Columns(2, 1, 7) \o Columns(3, 1, 7) \o Columns(4, 1, 7)
    \o Columns(5, 4, 7)
    \o Columns(6, 1, 7) \o Columns(7, 1, 7) \o Columns(8, 1, 7) \o Columns(9, 1, 7)

\* The alignment pattern of V.110: the first octet and the first bit of
\* every other one.
Alignment == {n \in 0 .. 79 : n < 8 \/ n % 8 = 0}

EBits == 41 .. 43
DBits == (0 .. 79) \ (Alignment \cup EBits)

\* osmo_v110_decode_rlp_frame takes every bit of the frame that is not part
\* of the alignment pattern for exactly one of D and E, in the order of the
\* line: 60 data bits, four times which is an RLP frame of 240.
EveryBitOnce ==
  LET as_d == {n \in DOMAIN d_bits : d_bits[n] = place}
      as_e == {n \in DOMAIN e_bits : e_bits[n] = place}
  IN  /\ as_d = IF place \in DBits THEN {Cardinality(DBits \cap 0 .. place)} ELSE {}
      /\ as_e = IF place \in EBits THEN {place - 40} ELSE {}

-----------------------------------------------------------------------------
(* An RLP frame is four V.110 frames, numbered by E2 and E3.               *)

\* Mutant: the two bits are exchanged.
FsiSwapped(e) == e[3] * 2 + e[2]

rlp_fsi(e) == e[2] * 2 + e[3]

\* The E bits of V.110 frame n of a stream.
EOf(n) == <<0, ((n - 1) % 4) \div 2, (n - 1) % 2>>

\* The next V.110 frame is decoded.  With the last quarter, as its number
\* says, the RLP frame goes out, bit order reversed.
frame_bits_cb ==
  /\ frames < MaxSubs /\ frames' = frames + 1
  /\ LET fsi == rlp_fsi(EOf(frames'))
     IN  /\ rlp_frame_bits' = [rlp_frame_bits EXCEPT ![fsi] = frames']
         /\ rlp_frame' = IF fsi = 3 THEN [bits |-> rlp_frame_bits', end |-> frames']
                         ELSE rlp_frame
  /\ UNCHANGED missed

\* The synchroniser misses it.
Miss ==
  /\ frames < MaxSubs /\ frames' = frames + 1
  /\ missed' = missed \cup {frames'}
  /\ UNCHANGED <<rlp_frame_bits, rlp_frame>>

RlpInit ==
  /\ frames = 0 /\ missed = {}
  /\ rlp_frame_bits = [quarter \in 0 .. 3 |-> 0]
  /\ rlp_frame = [bits |-> rlp_frame_bits, end |-> 0]

SubFrame == frame_bits_cb \/ Miss

RlpSpec == RlpInit /\ [][SubFrame]_rlpVars

FrameBit == place' = (place + 1) % 80

\* The last of the V.110 frames up to n of this quarter that was not missed.
LastOf(quarter, n) ==
  LET came == {k \in (1 .. n) \ missed : (k - 1) % 4 = quarter}
  IN  IF came = {} THEN 0 ELSE CHOOSE k \in came : \A l \in came : l <= k

\* A V.110 frame that the synchroniser misses is not noticed.  What goes out
\* as an RLP frame has in each quarter the V.110 frame of this number that
\* came last: all of its own exactly if none was missed, else an older one,
\* four, eight, ... before, for each that was, and never a later one.  A
\* missed last quarter takes the whole RLP frame with it.
OnlyMissedAreOld ==
  /\ rlp_frame.end = LastOf(3, frames)
  /\ \A quarter \in 0 .. 3 :
       rlp_frame.bits[quarter] = LastOf(quarter, rlp_frame.end)
=============================================================================
