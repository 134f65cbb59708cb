------------------------------ MODULE FaxTest -------------------------------
(***************************************************************************)
(* The offline fax decoder fax_test.c: v110_bits_cb looks for the          *)
(* synchronisation word in the D bits of V.110 frames, cuts what follows   *)
(* into blocks, and hands the blocks behind the first training pattern to  *)
(* the T.4 decoder (fax_decode.c).  Word and blocks have 64 bits in the    *)
(* code, and BlockSize here.                                               *)
(***************************************************************************)
EXTENDS Integers, Sequences

CONSTANTS
  syncword_bits,  \* the synchronisation word
  Training,       \* the block 33 0f 33 0f ...
  MaxBits         \* bound: D bits

VARIABLES
  fax,   \* the variables of fax_test.c; at, synced and blocks are history
  bits   \* history: the D bits so far

BlockSize == Len(syncword_bits)

ASSUME FaxAssumption ==
  /\ syncword_bits \in Seq({0, 1}) /\ syncword_bits # <<>>
  /\ Training \in [1 .. BlockSize -> {0, 1}]
  /\ MaxBits \in Nat

NewFax ==
  [syncpos |-> 0, frame_bits |-> <<>>, in_sync |-> FALSE, data_mode |-> FALSE,
   pages |-> 0, blocks |-> <<>>, at |-> 0, synced |-> 0]

\* A bit that does not go on with the word may be the first one of it.
NextSyncpos(pos, b) ==
  IF syncword_bits[pos + 1] = b THEN pos + 1
  ELSE IF syncword_bits[1] = b THEN 1 ELSE 0

\* Mutant: the word found does not start a block.
AtSyncNoReset(s) ==
  IF s.syncpos < BlockSize THEN s
  ELSE [s EXCEPT !.syncpos = 0, !.synced = s.at,
                 !.in_sync = TRUE, !.pages = IF s.in_sync THEN @ ELSE @ + 1]

\* The word is complete.  Only the first one starts a page: span_in_sync.
AtSync(s) ==
  IF s.syncpos < BlockSize THEN s
  ELSE [s EXCEPT !.syncpos = 0, !.frame_bits = <<>>, !.synced = s.at,
                 !.in_sync = TRUE, !.pages = IF s.in_sync THEN @ ELSE @ + 1]

\* A block is complete.  span_fax_bits gets it with the bits it is made of;
\* from and base are history.
AtBlock(s) ==
  IF Len(s.frame_bits) < BlockSize THEN s
  ELSE LET done == [s EXCEPT !.frame_bits = <<>>]
       IN  IF s.frame_bits = Training THEN [done EXCEPT !.data_mode = TRUE]
           ELSE IF ~ s.data_mode THEN done
           ELSE [done EXCEPT !.blocks = Append(@,
                   [bits |-> s.frame_bits, from |-> s.at - BlockSize, base |-> s.synced])]

\* v110_bits_cb for one D bit.
v110_bits_cb(s, b) ==
  AtBlock(AtSync([s EXCEPT !.syncpos = NextSyncpos(@, b),
                           !.frame_bits = Append(@, b), !.at = @ + 1]))

FaxInit == fax = NewFax /\ bits = <<>>

FaxBit ==
  /\ Len(bits) < MaxBits
  /\ \E b \in {0, 1} : fax' = v110_bits_cb(fax, b) /\ bits' = Append(bits, b)

FaxSpec == FaxInit /\ [][FaxBit]_<<fax, bits>>

Ends(n) == n >= BlockSize /\ SubSeq(bits, n - BlockSize + 1, n) = syncword_bits

\* Whatever bits come, the decoder is synchronised only by the word itself;
\* every block that the T.4 decoder gets is a run of consecutive bits that
\* begins a whole number of blocks behind the word found last (or behind
\* the beginning), comes after a training pattern, and follows on the block
\* before: none is doubled.  A word can be missed, when a part of it is
\* taken for an earlier word: 0 in front of a word that begins 0 0 1.
BlocksAligned ==
  /\ fax.in_sync => fax.pages = 1 /\ Ends(fax.synced)
  /\ \A n \in DOMAIN fax.blocks :
       LET block == fax.blocks[n]
       IN  /\ block.bits = SubSeq(bits, block.from + 1, block.from + BlockSize)
           /\ (block.from - block.base) % BlockSize = 0
           /\ \E k \in 0 .. block.from - BlockSize :
                SubSeq(bits, k + 1, k + BlockSize) = Training
           /\ n > 1 => block.from >= fax.blocks[n - 1].from + BlockSize
=============================================================================
