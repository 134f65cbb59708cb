---------------------------- MODULE YateTty_proofs --------------------------
(***************************************************************************)
(* Proofs about yate_tty: for every size of the buffers and of the pipes,  *)
(* every text of Yate, and whatever the minimodems and the TCP peer do.    *)
(*                                                                         *)
(* The parser of messages works with the places of marks in a line.  That  *)
(* what it stores are texts again needs that the n-th smallest number of a *)
(* finite set exists, and the largest; neither is proved by induction:     *)
(* a number's rank in the set is an injection of the set into the numbers  *)
(* up to its size, so it is onto.                                          *)
(*                                                                         *)
(* For CallsAsSent the parser and its reference are brought together in    *)
(* Parsed: the buffer is the last line of the text so far, the values are  *)
(* those of the complete lines, and the calls are those the reference      *)
(* reads from the text.  A field that the parser finds by the rank of a    *)
(* ":" in its line is the field that the reference finds by counting the   *)
(* ":" before a place in the whole text.                                   *)
(***************************************************************************)
EXTENDS YateTty, FiniteSetTheorems, SequenceTheorems, TLAPS

-----------------------------------------------------------------------------
(* Numbers and finite sets of them.                                        *)

\* What a read takes: the smaller of what is asked for and what is there.
LEMMA MinOfTwo ==
  ASSUME NEW a \in Int, NEW b \in Int
  PROVE  Min({a, b}) = IF a <= b THEN a ELSE b
<1>1. \E x \in {a, b} : \A y \in {a, b} : x =< y
  OBVIOUS
<1> QED
  BY <1>1 DEF Min

\* The numbers of a finite set up to p are as many as p's place in it.
Rank(S, p) == Cardinality({q \in S : q <= p})

\* A larger number has a larger rank.
LEMMA RankGrows ==
  ASSUME NEW S \in SUBSET Int, IsFiniteSet(S), NEW p \in S, NEW r \in S, p < r
  PROVE  Rank(S, p) < Rank(S, r)
<1> DEFINE P == {q \in S : q <= p}
           R == {q \in S : q <= r}
<1>1. P \in SUBSET R /\ R \in SUBSET S /\ r \in R /\ r \notin P
  <2>1. \A q \in S : q \in Int
    OBVIOUS
  <2>2. p \in Int /\ r \in Int
    BY <2>1
  <2>3. \A q \in S : q <= p => q <= r
    BY <2>1, <2>2
  <2>4. r <= r /\ ~ (r <= p)
    BY <2>2
  <2> QED
    BY <2>3, <2>4
<1>2. IsFiniteSet(R)
  BY <1>1, FS_Subset
<1>3. IsFiniteSet(P) /\ Cardinality(P) <= Cardinality(R) /\ Cardinality(P) # Cardinality(R)
  BY <1>1, <1>2, FS_Subset
<1>4. Cardinality(P) \in Nat /\ Cardinality(R) \in Nat
  BY <1>2, <1>3, FS_CardinalityType
<1> QED
  BY <1>3, <1>4 DEF Rank

LEMMA RankType ==
  ASSUME NEW S \in SUBSET Int, IsFiniteSet(S), NEW p \in S
  PROVE  Rank(S, p) \in 1 .. Cardinality(S)
<1> DEFINE P == {q \in S : q <= p}
<1>1. P \in SUBSET S /\ p \in P
  OBVIOUS
<1>2. IsFiniteSet(P) /\ Cardinality(P) <= Cardinality(S)
  BY <1>1, FS_Subset
<1>3. Cardinality(P) \in Nat /\ Cardinality(S) \in Nat
  BY <1>2, FS_CardinalityType
<1>5. Cardinality(P) # 0
  BY <1>1, <1>2, FS_EmptySet
<1> QED
  BY <1>2, <1>3, <1>5 DEF Rank

\* Every rank up to the size of the set is that of some number of it.
LEMMA EveryRank ==
  ASSUME NEW S \in SUBSET Int, IsFiniteSet(S), NEW n \in 1 .. Cardinality(S)
  PROVE  \E p \in S : Rank(S, p) = n
<1> DEFINE T == 1 .. Cardinality(S)
           f == [p \in S |-> Rank(S, p)]
<1>1. Cardinality(S) \in Nat
  BY FS_CardinalityType
<1>2. IsFiniteSet(T) /\ Cardinality(T) = Cardinality(S)
  BY <1>1, FS_Interval
<1>3. f \in [S -> T]
  BY RankType
<1>4. ASSUME NEW p \in S, NEW r \in S, f[p] = f[r] PROVE p = r
  <2>1. p < r \/ r < p \/ p = r
    OBVIOUS
  <2>2. ~ (p < r) /\ ~ (r < p)
    BY <1>4, RankGrows, RankType
  <2> QED
    BY <2>1, <2>2
<1>5. f \in Injection(S, T)
  BY <1>3, <1>4 DEF Injection, IsInjective
<1>6. f \in Surjection(S, T)
  BY <1>2, <1>5, FS_Injection
<1> QED
  BY <1>6 DEF Surjection

\* Max finds the largest number of a finite set: the one of the last rank.
LEMMA MaxIn ==
  ASSUME NEW S \in SUBSET Int, IsFiniteSet(S), S # {}
  PROVE  Max(S) \in S /\ \A x \in S : x <= Max(S)
<1>1. Cardinality(S) \in Nat /\ Cardinality(S) # 0
  BY FS_CardinalityType, FS_EmptySet
<1>2. PICK p \in S : Rank(S, p) = Cardinality(S)
  BY <1>1, EveryRank
<1>3. {q \in S : q <= p} = S
  BY <1>2, FS_Subset DEF Rank
<1>4. \A x \in S : p >= x
  BY <1>3
<1> QED
  BY <1>4 DEF Max

LEMMA FiniteInInterval ==
  ASSUME NEW m \in Int, NEW n \in Int, NEW S \in SUBSET (m .. n)
  PROVE  IsFiniteSet(S) /\ S \in SUBSET Int
<1>1. IsFiniteSet(m .. n)
  BY FS_Interval
<1>2. IsFiniteSet(S)
  BY <1>1, FS_Subset
<1> QED
  BY <1>2

-----------------------------------------------------------------------------
(* The parser.                                                             *)

\* InOrder puts the numbers of a finite set into a sequence of its size.
LEMMA InOrderType ==
  ASSUME NEW S \in SUBSET Int, IsFiniteSet(S)
  PROVE  /\ InOrder(S) \in [1 .. Cardinality(S) -> S]
         /\ Cardinality(S) \in Nat /\ Len(InOrder(S)) = Cardinality(S)
<1>1. \A n \in 1 .. Cardinality(S) : \E p \in S : Cardinality({q \in S : q <= p}) = n
  BY EveryRank DEF Rank
<1>2. InOrder(S) \in [1 .. Cardinality(S) -> S]
  BY <1>1 DEF InOrder
<1>3. Cardinality(S) \in Nat
  BY FS_CardinalityType
<1>4. InOrder(S) \in Seq(S)
  BY <1>2, <1>3
<1> QED
  BY <1>2, <1>3, <1>4

\* A line is cut into pieces of text.
LEMMA FieldsType ==
  ASSUME NEW text \in Seq(STRING)
  PROVE  Fields(text) \in Seq(Seq(STRING))
<1> DEFINE places == Colons(text) \cup {0, Len(text) + 1}
           cuts   == InOrder(places)
<1>1. Len(text) \in Nat
  OBVIOUS
<1>2. places \in SUBSET (0 .. Len(text) + 1)
  BY <1>1 DEF Colons
<1>3. IsFiniteSet(places) /\ places \in SUBSET Int
  <2> DEFINE last == Len(text) + 1
  <2>1. 0 \in Int /\ last \in Int
    BY <1>1
  <2>2. places \in SUBSET (0 .. last)
    BY <1>2
  <2> HIDE DEF places, last
  <2> QED
    BY <2>1, <2>2, FiniteInInterval
<1>4. /\ cuts \in [1 .. Cardinality(places) -> places]
      /\ Cardinality(places) \in Nat /\ Len(cuts) = Cardinality(places)
  BY <1>3, InOrderType
<1>5. ASSUME NEW n \in 1 .. Len(cuts) - 1
      PROVE  SubSeq(text, cuts[n] + 1, cuts[n + 1] - 1) \in Seq(STRING)
  <2>1. cuts[n] \in 0 .. Len(text) + 1 /\ cuts[n + 1] \in 0 .. Len(text) + 1
    <3> HIDE DEF cuts, places
    <3>1. n \in 1 .. Cardinality(places) /\ n + 1 \in 1 .. Cardinality(places)
      BY <1>4
    <3>2. cuts[n] \in places /\ cuts[n + 1] \in places
      BY <1>4, <3>1
    <3> QED
      BY <1>2, <3>2
  <2> DEFINE from == cuts[n] + 1
             to   == cuts[n + 1] - 1
  <2>2. from \in Int /\ to \in Int /\ 1 <= from /\ to <= Len(text)
    BY <1>1, <2>1
  <2> HIDE DEF from, to, cuts, places
  <2>3. \A i \in from .. to : text[i] \in STRING
    BY <1>1, <2>2
  <2>4. SubSeq(text, from, to) \in Seq(STRING)
    BY <2>2, <2>3, SubSeqProperties
  <2> QED
    BY <2>4 DEF from, to
<1>6. Fields(text) = [n \in 1 .. Len(cuts) - 1 |-> SubSeq(text, cuts[n] + 1, cuts[n + 1] - 1)]
  BY DEF Fields
<1> HIDE DEF cuts, places
<1>7. CASE Len(cuts) = 0
  BY <1>5, <1>6, <1>7
<1>8. CASE Len(cuts) # 0
  <2>1. Len(cuts) - 1 \in Nat
    BY <1>4, <1>8
  <2> QED
    BY <1>5, <1>6, <2>1
<1> QED
  BY <1>7, <1>8

\* The parameters stay texts.
LEMMA ParseTypes ==
  ASSUME NEW text \in Seq(STRING), params \in [Keys -> Seq(STRING)]
  PROVE  /\ yate_message_parse_incoming(text).call \in BOOLEAN
         /\ yate_message_parse_incoming(text).id \in Seq(STRING)
         /\ yate_message_parse_incoming(text).params \in [Keys -> Seq(STRING)]
<1> DEFINE fields == Fields(text)
           args   == SubSeq(fields, 3, Len(fields))
<1>1. fields \in Seq(Seq(STRING)) /\ Len(fields) \in Nat
  BY FieldsType
<1>2. args \in Seq(Seq(STRING))
  <2> HIDE DEF fields
  <2>1. \A i \in 3 .. Len(fields) : fields[i] \in Seq(STRING)
    BY <1>1
  <2> QED
    BY <1>1, <2>1, SubSeqProperties
<1> HIDE DEF args
<1>3. ASSUME NEW key \in Keys
      PROVE  yate_message_parse_parameter(params, args)[key] \in Seq(STRING)
  <2> DEFINE at == {n \in DOMAIN args : Sets(key, args[n])}
  <2>1. CASE at = {}
    BY <2>1 DEF yate_message_parse_parameter
  <2>2. CASE at # {}
    <3>1. DOMAIN args = 1 .. Len(args) /\ Len(args) \in Nat
      BY <1>2
    <3>2. at \in SUBSET (1 .. Len(args))
      BY <3>1
    <3>3. IsFiniteSet(at) /\ at \in SUBSET Int
      <4> HIDE DEF at
      <4>1. 1 \in Int /\ Len(args) \in Int
        BY <3>1
      <4> QED
        BY <3>2, <4>1, FiniteInInterval
    <3>4. Max(at) \in at
      BY <2>2, <3>3, MaxIn
    <3>5. args[Max(at)] \in Seq(STRING) /\ args[Max(at)] # <<>>
      BY <1>2, <3>4 DEF Sets
    <3>6. Tail(args[Max(at)]) \in Seq(STRING)
      BY <3>5, HeadTailProperties
    <3> QED
      BY <2>2, <3>6 DEF yate_message_parse_parameter
  <2> QED
    BY <2>1, <2>2
<1>4. yate_message_parse_parameter(params, args) \in [Keys -> Seq(STRING)]
  BY <1>3 DEF yate_message_parse_parameter
<1>5. yate_message_parse_parameters(args) \in BOOLEAN
  BY DEF yate_message_parse_parameters
<1>6. Len(fields) >= 3 => fields[2] \in Seq(STRING)
  <2> HIDE DEF fields
  <2> QED
    BY <1>1
<1>7. <<>> \in Seq(STRING)
  OBVIOUS
<1> QED
  BY <1>4, <1>5, <1>6, <1>7 DEF yate_message_parse_incoming, args
-----------------------------------------------------------------------------
(* The specification.                                                      *)

\* The line buffer, the reads and the history hold text.
MessageIInv ==
  /\ MessageTypeOK /\ LinesWhole
  /\ stream \in Seq(STRING) /\ msg_buf \in Seq(STRING) /\ line \in Seq(STRING)
  /\ replies \in Seq(Seq(STRING)) /\ calls \in Seq([Keys -> Seq(STRING)])

\* TypeOK for the channels, and that the process writes to three of them
\* only.
TtyTypes ==
  /\ held \in [Channels -> Nat] /\ \A c \in Channels : held[c] <= Room[c]
  /\ writing \in [to : {"data_in", "sample_in", "tcp_out"}, n : 0 .. TextSize]
  /\ telnet \in [sock : {"none", "up", "eof"}, ofd : BOOLEAN]
  /\ tcp_disconnected \in BOOLEAN /\ force_exit_timer \in BOOLEAN
  /\ exited \in BOOLEAN /\ tone \in 0 .. Tone /\ ear \in {0, 1}
  /\ peer \in [sent : 0 .. MaxSent, closed : BOOLEAN]
  /\ spoken \in Nat /\ decoded \in Nat /\ printed \in Nat

\* The inductive invariant.
IInv == MessageIInv /\ TtyTypes /\ TextKept

LEMMA InitIInv == Init => IInv
<1> SUFFICES ASSUME Init PROVE IInv
  OBVIOUS
<1>1. MessageIInv
  <2>1. <<>> \in Seq(STRING) /\ <<>> \in Seq(Seq(STRING)) /\ <<>> \in Seq([Keys -> Seq(STRING)])
    OBVIOUS
  <2>2. stream \in Seq(STRING)
    BY MessageAssumption DEF Init, MessageInit
  <2>3. params \in [Keys -> Seq(STRING)]
    BY <2>1 DEF Init, MessageInit
  <2>4. Len(msg_buf) <= STR_BUF_SIZE - 1 /\ Len(replies) = Len(calls)
    BY MessageAssumption DEF Init, MessageInit
  <2> QED
    BY <2>1, <2>2, <2>3, <2>4 DEF Init, MessageInit, MessageIInv, MessageTypeOK, LinesWhole
<1>2. TtyTypes
  <2>1. 0 \in 0 .. TextSize /\ 0 \in 0 .. Tone /\ 0 \in 0 .. MaxSent /\ 0 \in Nat
    BY TtyAssumption
  <2>2. \A c \in Channels : 0 <= Room[c]
    BY TtyAssumption
  <2> QED
    BY <2>1, <2>2 DEF Init, TtyTypes, Nothing, Writes
<1>3. TextKept
  BY DEF Init, TextKept, WritingTo, Nothing, Writes, Channels
<1> QED
  BY <1>1, <1>2, <1>3 DEF IInv

(* What yate_message_read_cb does to the line: it stays whole, or whole    *)
(* says that it did not.                                                   *)

LEMMA ReadKeeps ==
  ASSUME MessageIInv, ReadStdin \/ StdinEnds
  PROVE  MessageIInv'
<1>1. CASE ReadStdin
  <2>1. PICK n \in 1 .. Min({ReadSize, Len(stream)}) :
           chunk' = SubSeq(stream, 1, n) /\ stream' = SubSeq(stream, n + 1, Len(stream))
    BY <1>1 DEF ReadStdin
  <2>2. stream \in Seq(STRING) /\ Len(stream) \in Nat
    BY DEF MessageIInv
  <2>3. n \in Int /\ 1 <= n /\ n <= Len(stream)
    BY <2>2, MinOfTwo, MessageAssumption
  <2>4. \A i \in 1 .. n : stream[i] \in STRING
    BY <2>2, <2>3
  <2>5. \A i \in n + 1 .. Len(stream) : stream[i] \in STRING
    BY <2>2, <2>3
  <2>6. chunk' \in Seq(STRING)
    BY <2>1, <2>3, <2>4, SubSeqProperties
  <2>7. stream' \in Seq(STRING)
    <3> DEFINE from == n + 1
    <3>1. from \in Int /\ Len(stream) \in Int
      BY <2>2, <2>3
    <3> HIDE DEF from
    <3>2. SubSeq(stream, from, Len(stream)) \in Seq(STRING)
      BY <2>5, <3>1, SubSeqProperties DEF from
    <3> QED
      BY <2>1, <3>2 DEF from
  <2> QED
    BY <1>1, <2>6, <2>7 DEF ReadStdin, MessageIInv, MessageTypeOK, LinesWhole
<1>2. CASE StdinEnds
  BY <1>2 DEF StdinEnds, MessageIInv, MessageTypeOK, LinesWhole
<1> QED
  BY <1>1, <1>2

\* What lies behind the last end of line.
LEMMA LastLineType ==
  ASSUME NEW text \in Seq(STRING)
  PROVE  LastLine(text) \in Seq(STRING)
<1> DEFINE ends == {n \in DOMAIN text : text[n] = "\n"} \cup {0}
<1>1. Len(text) \in Int /\ 0 \in Int
  OBVIOUS
<1>2. ends \in SUBSET (0 .. Len(text)) /\ ends # {}
  OBVIOUS
<1>3. LastLine(text) = SubSeq(text, Max(ends) + 1, Len(text))
  BY DEF LastLine
<1> HIDE DEF ends
<1>4. IsFiniteSet(ends) /\ ends \in SUBSET Int
  BY <1>1, <1>2, FiniteInInterval
<1>5. Max(ends) \in 0 .. Len(text)
  BY <1>2, <1>4, MaxIn
<1> DEFINE from == Max(ends) + 1
<1>6. from \in Int /\ 1 <= from
  BY <1>5
<1> HIDE DEF from
<1>7. \A i \in from .. Len(text) : text[i] \in STRING
  BY <1>1, <1>6
<1> QED
  BY <1>1, <1>3, <1>6, <1>7, SubSeqProperties DEF from

LEMMA DropKeeps ==
  ASSUME MessageIInv, DropRead
  PROVE  MessageIInv'
<1>1. chunk \in Seq(STRING) /\ line \in Seq(STRING)
  BY DEF MessageIInv, MessageTypeOK
<1>2. line \o chunk \in Seq(STRING)
  BY <1>1
<1>3. line' \in Seq(STRING)
  BY <1>2, LastLineType DEF DropRead
<1>4. whole' \in BOOLEAN /\ (whole' => line' = <<>>)
  BY DEF DropRead
<1>5. chunk' = <<>> /\ msg_buf' = <<>> /\ <<>> \in Seq(STRING) /\ Len(<<>>) <= STR_BUF_SIZE - 1
  BY MessageAssumption DEF DropRead
<1> QED
  BY <1>3, <1>4, <1>5 DEF DropRead, MessageIInv, MessageTypeOK, LinesWhole

LEMMA OctetKeeps ==
  ASSUME MessageIInv, TakeOctet
  PROVE  MessageIInv'
<1>1. /\ chunk \in Seq(STRING) /\ chunk # <<>>
      /\ msg_buf \in Seq(STRING) /\ line \in Seq(STRING)
      /\ Len(msg_buf) <= STR_BUF_SIZE - 1 /\ Len(msg_buf) # STR_BUF_SIZE - 1
  BY DEF MessageIInv, MessageTypeOK, TakeOctet, Overflow
<1>2. Head(chunk) \in STRING /\ Tail(chunk) \in Seq(STRING)
  BY <1>1, HeadTailProperties
<1>3. /\ Append(msg_buf, Head(chunk)) \in Seq(STRING)
      /\ Append(line, Head(chunk)) \in Seq(STRING)
      /\ Len(Append(msg_buf, Head(chunk))) = Len(msg_buf) + 1
  BY <1>1, <1>2
<1>4. Len(msg_buf) + 1 <= STR_BUF_SIZE - 1
  BY <1>1, MessageAssumption
<1>5. LinesWhole'
  BY DEF MessageIInv, LinesWhole, TakeOctet
<1> QED
  BY <1>2, <1>3, <1>4, <1>5 DEF TakeOctet, MessageIInv, MessageTypeOK

LEMMA LineKeeps ==
  ASSUME MessageIInv, TakeLine
  PROVE  MessageIInv'
<1> DEFINE r == yate_message_parse_incoming(msg_buf)
<1>1. /\ chunk \in Seq(STRING) /\ chunk # <<>> /\ msg_buf \in Seq(STRING)
      /\ params \in [Keys -> Seq(STRING)]
      /\ replies \in Seq(Seq(STRING)) /\ calls \in Seq([Keys -> Seq(STRING)])
      /\ Len(replies) = Len(calls)
  BY DEF MessageIInv, MessageTypeOK, TakeLine
<1>2. r.call \in BOOLEAN /\ r.id \in Seq(STRING) /\ r.params \in [Keys -> Seq(STRING)]
  BY <1>1, ParseTypes
<1>3. /\ params' = r.params
      /\ replies' = IF r.call THEN Append(replies, r.id) ELSE replies
      /\ calls' = IF r.call THEN Append(calls, r.params) ELSE calls
  BY DEF TakeLine
<1> HIDE DEF r
<1>4. /\ replies' \in Seq(Seq(STRING)) /\ calls' \in Seq([Keys -> Seq(STRING)])
      /\ Len(replies') = Len(calls')
  <2>1. CASE r.call
    <3>1. Len(Append(replies, r.id)) = Len(replies) + 1 /\ Append(replies, r.id) \in Seq(Seq(STRING))
      BY <1>1, <1>2, AppendProperties
    <3>2. /\ Len(Append(calls, r.params)) = Len(calls) + 1
          /\ Append(calls, r.params) \in Seq([Keys -> Seq(STRING)])
      BY <1>1, <1>2, AppendProperties
    <3> QED
      BY <1>1, <1>3, <2>1, <3>1, <3>2
  <2>2. CASE ~ r.call
    BY <1>1, <1>3, <2>2
  <2> QED
    BY <2>1, <2>2
<1>5. params' \in [Keys -> Seq(STRING)]
  BY <1>2, <1>3
<1>6. chunk' \in Seq(STRING)
  BY <1>1, HeadTailProperties DEF TakeLine
<1>7. msg_buf' = <<>> /\ line' = <<>> /\ <<>> \in Seq(STRING) /\ Len(<<>>) <= STR_BUF_SIZE - 1
  BY MessageAssumption DEF TakeLine
<1>8. whole' \in BOOLEAN /\ UNCHANGED <<stream, stdin_on>>
  BY DEF TakeLine
<1> QED
  BY <1>4, <1>5, <1>6, <1>7, <1>8 DEF MessageIInv, MessageTypeOK, LinesWhole

\* What the arithmetic of the channels needs to know of them.
LEMMA HeldTypes ==
  ASSUME TtyTypes
  PROVE  /\ \A c \in Channels : held[c] \in Nat /\ Room[c] \in Nat /\ held[c] <= Room[c]
         /\ TextSize \in Nat /\ 1 <= TextSize /\ Tone \in Nat /\ MaxSent \in Nat
         /\ writing.n \in 0 .. TextSize /\ writing.to \in {"data_in", "sample_in", "tcp_out"}
  BY TtyAssumption DEF TtyTypes

(* A callback takes as much text as it has a buffer for, and writes it.    *)

LEMMA telnet_rx_cbKeeps ==
  ASSUME TtyTypes, TextKept, telnet_rx_cb
  PROVE  TtyTypes' /\ TextKept'
<1> DEFINE n == Min({TextSize, held["tcp_in"]})
<1>1. held["tcp_in"] \in Nat /\ TextSize \in Nat
  BY HeldTypes DEF Channels
<1>2. n \in Nat /\ n <= TextSize /\ n <= held["tcp_in"]
  BY <1>1, MinOfTwo
<1>3. /\ writing.n = 0 /\ writing' = [to |-> "data_in", n |-> n]
      /\ held' = [held EXCEPT !["tcp_in"] = @ - n]
  BY DEF telnet_rx_cb, Waiting, Writes
<1>4. UNCHANGED <<telnet, tcp_disconnected, force_exit_timer, exited, tone, peer,
                  ear, spoken, decoded, printed>>
  BY DEF telnet_rx_cb
<1> HIDE DEF n
<1>5. TtyTypes'
  BY <1>2, <1>3, <1>4, HeldTypes DEF TtyTypes, Channels
<1>6. TextKept'
  BY <1>2, <1>3, <1>4, HeldTypes DEF TtyTypes, TextKept, WritingTo, Channels
<1> QED
  BY <1>5, <1>6

LEMMA minimodem_rx_cbKeeps ==
  ASSUME TtyTypes, TextKept, minimodem_rx_cb
  PROVE  TtyTypes' /\ TextKept'
<1> DEFINE n == Min({TextSize, held["data_out"]})
<1>1. held["data_out"] \in Nat /\ TextSize \in Nat
  BY HeldTypes DEF Channels
<1>2. n \in Nat /\ n <= TextSize /\ n <= held["data_out"]
  BY <1>1, MinOfTwo
<1>3. /\ writing.n = 0 /\ writing' = [to |-> "tcp_out", n |-> n]
      /\ held' = [held EXCEPT !["data_out"] = @ - n]
  BY DEF minimodem_rx_cb, Waiting, Writes
<1>4. UNCHANGED <<telnet, tcp_disconnected, force_exit_timer, exited, tone, peer,
                  ear, spoken, decoded, printed>>
  BY DEF minimodem_rx_cb
<1> HIDE DEF n
<1>5. TtyTypes'
  BY <1>2, <1>3, <1>4, HeldTypes DEF TtyTypes, Channels
<1>6. TextKept'
  BY <1>2, <1>3, <1>4, HeldTypes DEF TtyTypes, TextKept, WritingTo, Channels
<1> QED
  BY <1>5, <1>6

(* The kernel takes a unit of a write, or the connection is gone.          *)

LEMMA WriteOnKeeps ==
  ASSUME TtyTypes, TextKept, WriteOn
  PROVE  TtyTypes' /\ TextKept'
<1> DEFINE read == IF writing.to = "sample_in" THEN Min({1, held["sample_out"]}) ELSE 0
<1>1. held["sample_out"] \in Nat
  BY HeldTypes DEF Channels
<1>2. read \in Nat /\ read <= held["sample_out"]
  BY <1>1, MinOfTwo
<1>3. /\ writing.n > 0 /\ held[writing.to] < Room[writing.to]
      /\ writing' = [writing EXCEPT !.n = @ - 1]
      /\ held' = [held EXCEPT ![writing.to] = @ + 1, !["sample_out"] = @ - read]
  BY DEF WriteOn
<1>4. UNCHANGED <<telnet, tcp_disconnected, force_exit_timer, exited, tone, peer,
                  ear, spoken, decoded, printed>>
  BY DEF WriteOn
<1> HIDE DEF read
<1>5. TtyTypes'
  <2>1. held' \in [Channels -> Nat]
    BY <1>2, <1>3, HeldTypes DEF TtyTypes, Channels
  <2>2. \A c \in Channels : held'[c] <= Room[c]
    BY <1>2, <1>3, HeldTypes DEF TtyTypes, Channels
  <2>3. writing' \in [to : {"data_in", "sample_in", "tcp_out"}, n : 0 .. TextSize]
    BY <1>3, HeldTypes DEF TtyTypes
  <2> QED
    BY <1>4, <2>1, <2>2, <2>3 DEF TtyTypes
<1>6. TextKept'
  BY <1>2, <1>3, <1>4, HeldTypes DEF TtyTypes, TextKept, WritingTo, Channels
<1> QED
  BY <1>5, <1>6

LEMMA WriteToClosedKeeps ==
  ASSUME TtyTypes, TextKept, WriteToClosed
  PROVE  TtyTypes' /\ TextKept'
<1>1. TtyTypes'
  <2>1. Nothing \in [to : {"data_in", "sample_in", "tcp_out"}, n : 0 .. TextSize]
    BY TtyAssumption DEF Nothing, Writes
  <2>2. writing' \in [to : {"data_in", "sample_in", "tcp_out"}, n : 0 .. TextSize]
    BY <2>1 DEF WriteToClosed, TtyTypes
  <2>3. exited' \in BOOLEAN
    BY DEF WriteToClosed, TtyTypes
  <2> QED
    BY <2>2, <2>3 DEF WriteToClosed, TtyTypes
<1>2. TextKept'
  BY HeldTypes DEF TtyTypes, TextKept, WritingTo, WriteToClosed, Channels, Writes, Nothing
<1> QED
  BY <1>1, <1>2

(* The other callbacks, and the other processes.                           *)

LEMMA handle_sample_bufferKeeps ==
  ASSUME TtyTypes, TextKept, handle_sample_buffer
  PROVE  TtyTypes' /\ TextKept'
<1>1. TtyTypes'
  BY HeldTypes DEF TtyTypes, handle_sample_buffer, Channels, Writes, Waiting
<1>2. TextKept'
  BY HeldTypes DEF TtyTypes, TextKept, WritingTo, handle_sample_buffer, Channels, Writes, Waiting
<1> QED
  BY <1>1, <1>2

LEMMA telnet_rx_eofKeeps ==
  ASSUME TtyTypes, TextKept, telnet_rx_eof
  PROVE  TtyTypes' /\ TextKept'
<1>1. TtyTypes'
  BY HeldTypes DEF TtyTypes, telnet_rx_eof, Channels, Writes, Waiting
<1>2. TextKept'
  BY HeldTypes DEF TtyTypes, TextKept, WritingTo, telnet_rx_eof, Channels, Writes, Waiting
<1> QED
  BY <1>1, <1>2

LEMMA AfterSelectKeeps ==
  ASSUME TtyTypes, TextKept, AfterSelect
  PROVE  TtyTypes' /\ TextKept'
<1>1. TtyTypes'
  BY HeldTypes DEF TtyTypes, AfterSelect, Channels, Writes, Waiting
<1>2. TextKept'
  BY HeldTypes DEF TtyTypes, TextKept, WritingTo, AfterSelect, Channels, Writes, Waiting
<1> QED
  BY <1>1, <1>2

LEMMA force_exit_cbKeeps ==
  ASSUME TtyTypes, TextKept, force_exit_cb
  PROVE  TtyTypes' /\ TextKept'
<1>1. TtyTypes'
  BY HeldTypes DEF TtyTypes, force_exit_cb, Channels, Writes, Waiting
<1>2. TextKept'
  BY HeldTypes DEF TtyTypes, TextKept, WritingTo, force_exit_cb, Channels, Writes, Waiting
<1> QED
  BY <1>1, <1>2

LEMMA PeerSendsKeeps ==
  ASSUME TtyTypes, TextKept, PeerSends
  PROVE  TtyTypes' /\ TextKept'
<1>1. TtyTypes'
  BY HeldTypes DEF TtyTypes, PeerSends, Channels, Writes, Waiting
<1>2. TextKept'
  BY HeldTypes DEF TtyTypes, TextKept, WritingTo, PeerSends, Channels, Writes, Waiting
<1> QED
  BY <1>1, <1>2

LEMMA PeerReadsKeeps ==
  ASSUME TtyTypes, TextKept, PeerReads
  PROVE  TtyTypes' /\ TextKept'
<1>1. TtyTypes'
  BY HeldTypes DEF TtyTypes, PeerReads, Channels, Writes, Waiting
<1>2. TextKept'
  BY HeldTypes DEF TtyTypes, TextKept, WritingTo, PeerReads, Channels, Writes, Waiting
<1> QED
  BY <1>1, <1>2

LEMMA PeerClosesKeeps ==
  ASSUME TtyTypes, TextKept, PeerCloses
  PROVE  TtyTypes' /\ TextKept'
<1>1. TtyTypes'
  BY HeldTypes DEF TtyTypes, PeerCloses, Channels, Writes, Waiting
<1>2. TextKept'
  BY HeldTypes DEF TtyTypes, TextKept, WritingTo, PeerCloses, Channels, Writes, Waiting
<1> QED
  BY <1>1, <1>2

LEMMA TxTakesKeeps ==
  ASSUME TtyTypes, TextKept, TxTakes
  PROVE  TtyTypes' /\ TextKept'
<1>1. TtyTypes'
  BY HeldTypes DEF TtyTypes, TxTakes, Channels, Writes, Waiting
<1>2. TextKept'
  BY HeldTypes DEF TtyTypes, TextKept, WritingTo, TxTakes, Channels, Writes, Waiting
<1> QED
  BY <1>1, <1>2

LEMMA TxSoundsKeeps ==
  ASSUME TtyTypes, TextKept, TxSounds
  PROVE  TtyTypes' /\ TextKept'
<1>1. TtyTypes'
  BY HeldTypes DEF TtyTypes, TxSounds, Channels, Writes, Waiting
<1>2. TextKept'
  BY HeldTypes DEF TtyTypes, TextKept, WritingTo, TxSounds, Channels, Writes, Waiting
<1> QED
  BY <1>1, <1>2

LEMMA RxHearsKeeps ==
  ASSUME TtyTypes, TextKept, RxHears
  PROVE  TtyTypes' /\ TextKept'
<1>1. TtyTypes'
  BY HeldTypes DEF TtyTypes, RxHears, Channels, Writes, Waiting
<1>2. TextKept'
  BY HeldTypes DEF TtyTypes, TextKept, WritingTo, RxHears, Channels, Writes, Waiting
<1> QED
  BY <1>1, <1>2

LEMMA RxWritesKeeps ==
  ASSUME TtyTypes, TextKept, RxWrites
  PROVE  TtyTypes' /\ TextKept'
<1>1. TtyTypes'
  BY HeldTypes DEF TtyTypes, RxWrites, Channels, Writes, Waiting
<1>2. TextKept'
  BY HeldTypes DEF TtyTypes, TextKept, WritingTo, RxWrites, Channels, Writes, Waiting
<1> QED
  BY <1>1, <1>2

\* call_initialize connects or ends the process.
LEMMA CallKeeps ==
  ASSUME TtyTypes, TextKept, call_initialize
  PROVE  TtyTypes' /\ TextKept'
<1>1. telnet' \in [sock : {"none", "up", "eof"}, ofd : BOOLEAN] /\ exited' \in BOOLEAN
  BY DEF call_initialize, TtyTypes
<1> QED
  BY <1>1 DEF call_initialize, TtyTypes, TextKept, WritingTo

LEMMA TtyUnchanged ==
  ASSUME TtyTypes, TextKept, UNCHANGED ttyVars
  PROVE  TtyTypes' /\ TextKept'
  BY DEF ttyVars, TtyTypes, TextKept, WritingTo

LEMMA MessageUnchanged ==
  ASSUME MessageIInv, UNCHANGED msgVars
  PROVE  MessageIInv'
  BY DEF msgVars, MessageIInv, MessageTypeOK, LinesWhole

\* Every step preserves the invariant.
LEMMA NextIInv == IInv /\ [Next]_vars => IInv'
<1> SUFFICES ASSUME MessageIInv, TtyTypes, TextKept, [Next]_vars
             PROVE  MessageIInv' /\ TtyTypes' /\ TextKept'
  BY DEF IInv
<1>1. CASE Reading
  BY <1>1, ReadKeeps, TtyUnchanged DEF Reading
<1>2. CASE Scanning
  BY <1>2, DropKeeps, OctetKeeps, TtyUnchanged DEF Scanning
<1>3. CASE Message
  BY <1>3, LineKeeps, CallKeeps, TtyUnchanged DEF Message
<1>4. CASE WriteOn
  <2>1. UNCHANGED msgVars
    BY <1>4 DEF WriteOn
  <2> QED
    BY <1>4, <2>1, WriteOnKeeps, MessageUnchanged
<1>5. CASE WriteToClosed
  <2>1. UNCHANGED msgVars
    BY <1>5 DEF WriteToClosed
  <2> QED
    BY <1>5, <2>1, WriteToClosedKeeps, MessageUnchanged
<1>6. CASE telnet_rx_cb
  <2>1. UNCHANGED msgVars
    BY <1>6 DEF telnet_rx_cb
  <2> QED
    BY <1>6, <2>1, telnet_rx_cbKeeps, MessageUnchanged
<1>7. CASE telnet_rx_eof
  <2>1. UNCHANGED msgVars
    BY <1>7 DEF telnet_rx_eof
  <2> QED
    BY <1>7, <2>1, telnet_rx_eofKeeps, MessageUnchanged
<1>8. CASE AfterSelect
  <2>1. UNCHANGED msgVars
    BY <1>8 DEF AfterSelect
  <2> QED
    BY <1>8, <2>1, AfterSelectKeeps, MessageUnchanged
<1>9. CASE force_exit_cb
  <2>1. UNCHANGED msgVars
    BY <1>9 DEF force_exit_cb
  <2> QED
    BY <1>9, <2>1, force_exit_cbKeeps, MessageUnchanged
<1>10. CASE minimodem_rx_cb
  <2>1. UNCHANGED msgVars
    BY <1>10 DEF minimodem_rx_cb
  <2> QED
    BY <1>10, <2>1, minimodem_rx_cbKeeps, MessageUnchanged
<1>11. CASE handle_sample_buffer
  <2>1. UNCHANGED msgVars
    BY <1>11 DEF handle_sample_buffer
  <2> QED
    BY <1>11, <2>1, handle_sample_bufferKeeps, MessageUnchanged
<1>12. CASE TxTakes
  <2>1. UNCHANGED msgVars
    BY <1>12 DEF TxTakes
  <2> QED
    BY <1>12, <2>1, TxTakesKeeps, MessageUnchanged
<1>13. CASE TxSounds
  <2>1. UNCHANGED msgVars
    BY <1>13 DEF TxSounds
  <2> QED
    BY <1>13, <2>1, TxSoundsKeeps, MessageUnchanged
<1>14. CASE RxHears
  <2>1. UNCHANGED msgVars
    BY <1>14 DEF RxHears
  <2> QED
    BY <1>14, <2>1, RxHearsKeeps, MessageUnchanged
<1>15. CASE RxWrites
  <2>1. UNCHANGED msgVars
    BY <1>15 DEF RxWrites
  <2> QED
    BY <1>15, <2>1, RxWritesKeeps, MessageUnchanged
<1>16. CASE PeerSends
  <2>1. UNCHANGED msgVars
    BY <1>16 DEF PeerSends
  <2> QED
    BY <1>16, <2>1, PeerSendsKeeps, MessageUnchanged
<1>17. CASE PeerReads
  <2>1. UNCHANGED msgVars
    BY <1>17 DEF PeerReads
  <2> QED
    BY <1>17, <2>1, PeerReadsKeeps, MessageUnchanged
<1>18. CASE PeerCloses
  <2>1. UNCHANGED msgVars
    BY <1>18 DEF PeerCloses
  <2> QED
    BY <1>18, <2>1, PeerClosesKeeps, MessageUnchanged
<1>19. CASE UNCHANGED vars
  BY <1>19, TtyUnchanged, MessageUnchanged DEF vars
<1> QED
  BY <1>1, <1>2, <1>3, <1>4, <1>5, <1>6, <1>7, <1>8, <1>9, <1>10, <1>11, <1>12, <1>13, <1>14, <1>15, <1>16, <1>17, <1>18, <1>19
     DEF Next, Process, InCallback, Serving, Minimodems

-----------------------------------------------------------------------------

\* The variables have their types; in particular the line buffer keeps room
\* for the terminating zero, no channel holds more than it has room for, and
\* there is an answer for every call.
THEOREM TypeCorrect == Spec => []TypeOK
<1>1. IInv => TypeOK
  BY TtyAssumption DEF IInv, MessageIInv, TtyTypes, TypeOK, Channels
<1> QED
  BY <1>1, InitIInv, NextIInv, PTL DEF Spec

\* What yate_message_read_cb parses as a line is a line of the stream from
\* its beginning: an overflow of the buffer destroys only the lines that it
\* drops octets of, however long the reads are.
THEOREM LinesKeptWhole == Spec => []LinesWhole
<1>1. IInv => LinesWhole
  BY DEF IInv, MessageIInv
<1> QED
  BY <1>1, InitIInv, NextIInv, PTL DEF Spec

\* No octet of text is lost or doubled between the TCP peer and the sending
\* minimodem, nor from the receiving minimodem to a peer that is still
\* there, for every size of text_buf and every room in the pipes.
THEOREM NoTextLost == Spec => []TextKept
<1>1. IInv => TextKept
  BY DEF IInv
<1> QED
  BY <1>1, InitIInv, NextIInv, PTL DEF Spec

-----------------------------------------------------------------------------
(* CallsAsSent.  The reference reads the text as a whole, by the places of *)
(* its marks; the parser reads it line by line, by the ranks of the ":" in *)
(* the buffer.  The rank of a ":" in its line is what the reference counts *)
(* as the ":" before a field, and a line is judged by what is before its   *)
(* end only.                                                               *)

LEMMA MaxIs ==
  ASSUME NEW S \in SUBSET Int, NEW x \in S, \A y \in S : y <= x
  PROVE  Max(S) = x
<1>1. \A z \in S : (\A y \in S : z >= y) => z = x
  OBVIOUS
<1>2. \A y \in S : x >= y
  OBVIOUS
<1> QED
  BY <1>1, <1>2 DEF Max

LEMMA MinIs ==
  ASSUME NEW S \in SUBSET Int, NEW x \in S, \A y \in S : x <= y
  PROVE  Min(S) = x
<1>1. \A z \in S : (\A y \in S : z =< y) => z = x
  OBVIOUS
<1>2. \A y \in S : x =< y
  OBVIOUS
<1> QED
  BY <1>1, <1>2 DEF Min

\* The place of a number in InOrder is its rank.
LEMMA InOrderAt ==
  ASSUME NEW S \in SUBSET Int, IsFiniteSet(S), NEW n \in 1 .. Cardinality(S)
  PROVE  InOrder(S)[n] \in S /\ Rank(S, InOrder(S)[n]) = n
<1>1. PICK p \in S : Rank(S, p) = n
  BY EveryRank
<1>2. InOrder(S)[n] = CHOOSE q \in S : Rank(S, q) = n
  BY DEF InOrder, Rank
<1> QED
  BY <1>1, <1>2

LEMMA RankIs ==
  ASSUME NEW S \in SUBSET Int, IsFiniteSet(S), NEW p \in S, NEW r \in S,
         Rank(S, p) = Rank(S, r)
  PROVE  p = r
<1>1. p < r \/ r < p \/ p = r
  OBVIOUS
<1>2. /\ p < r => Rank(S, p) < Rank(S, r)
      /\ r < p => Rank(S, r) < Rank(S, p)
  BY RankGrows
<1>3. Rank(S, p) \in Int /\ Rank(S, r) \in Int
  BY RankType, FS_CardinalityType
<1> QED
  BY <1>1, <1>2, <1>3

LEMMA InOrderIs ==
  ASSUME NEW S \in SUBSET Int, IsFiniteSet(S), NEW p \in S
  PROVE  InOrder(S)[Rank(S, p)] = p
<1> DEFINE n == Rank(S, p)
<1>1. n \in 1 .. Cardinality(S)
  BY RankType
<1> DEFINE c == InOrder(S)[n]
<1>2. c \in S /\ Rank(S, c) = Rank(S, p)
  BY <1>1, InOrderAt
<1> HIDE DEF c, n
<1>3. c = p
  BY <1>2, RankIs
<1> QED
  BY <1>3 DEF c, n

\* The numbers are in order, and none is left out between two.
LEMMA InOrderNext ==
  ASSUME NEW S \in SUBSET Int, IsFiniteSet(S), NEW n \in 1 .. Cardinality(S),
         NEW p \in S
  PROVE  /\ InOrder(S)[n] < p <=> n < Rank(S, p)
         /\ p < InOrder(S)[n] <=> Rank(S, p) < n
<1> DEFINE c == InOrder(S)[n]
<1>1. c \in S /\ Rank(S, c) = n
  BY InOrderAt
<1> HIDE DEF c
<1>2. c < p \/ p < c \/ p = c
  BY <1>1
<1>3. /\ p < c => Rank(S, p) < Rank(S, c)
      /\ c < p => Rank(S, c) < Rank(S, p)
  BY <1>1, RankGrows
<1>4. Rank(S, p) \in Int /\ n \in Int /\ c \in Int /\ p \in Int
  BY <1>1, RankType, FS_CardinalityType
<1>5. /\ c < p <=> n < Rank(S, p)
      /\ p < c <=> Rank(S, p) < n
  BY <1>1, <1>2, <1>3, <1>4
<1> QED
  BY <1>5 DEF c

\* A number larger than all is put at the end.
LEMMA InOrderMore ==
  ASSUME NEW S \in SUBSET Int, IsFiniteSet(S), NEW x \in Int,
         \A y \in S : y < x
  PROVE  /\ InOrder(S) \in Seq(S)
         /\ InOrder(S \cup {x}) = Append(InOrder(S), x)
<1> DEFINE T == S \cup {x}
           k == Cardinality(S)
<1>1. /\ IsFiniteSet(T) /\ Cardinality(T) = k + 1 /\ T \in SUBSET Int
      /\ k \in Nat
  <2>1. x \notin S
    OBVIOUS
  <2> QED
    BY <2>1, FS_AddElement, FS_CardinalityType
<1>2. /\ InOrder(S) \in [1 .. k -> S] /\ Len(InOrder(S)) = k
      /\ InOrder(T) \in [1 .. k + 1 -> T]
  BY <1>1, InOrderType
<1>3. ASSUME NEW p \in S
      PROVE  Rank(T, p) = Rank(S, p)
  <2>1. {q \in T : q <= p} = {q \in S : q <= p}
    OBVIOUS
  <2> QED
    BY <2>1 DEF Rank
<1>4. Rank(T, x) = k + 1
  <2>1. \A q \in T : q <= x
    OBVIOUS
  <2>2. {q \in T : q <= x} = T
    BY <2>1
  <2> QED
    BY <1>1, <2>2 DEF Rank
<1>5. ASSUME NEW n \in 1 .. k
      PROVE  InOrder(T)[n] = InOrder(S)[n]
  <2> DEFINE p == InOrder(S)[n]
  <2>1. p \in S /\ Rank(S, p) = n
    BY InOrderAt
  <2> HIDE DEF p
  <2>2. p \in T /\ Rank(T, p) = n
    BY <1>3, <2>1
  <2> HIDE DEF T
  <2>3. InOrder(T)[Rank(T, p)] = p
    BY <1>1, <2>2, InOrderIs
  <2> QED
    BY <2>2, <2>3 DEF p
<1>6. InOrder(T)[k + 1] = x
  <2>1. x \in T
    OBVIOUS
  <2> HIDE DEF T
  <2>2. InOrder(T)[Rank(T, x)] = x
    BY <1>1, <2>1, InOrderIs
  <2> QED
    BY <1>4, <2>2
<1>7. InOrder(S) \in Seq(S)
  BY <1>1, <1>2
<1> HIDE DEF T, k
<1>8. Append(InOrder(S), x) \in [1 .. k + 1 -> S \cup {x}]
  <2>1. Append(InOrder(S), x) \in Seq(S \cup {x})
    BY <1>7
  <2>2. Len(Append(InOrder(S), x)) = k + 1
    BY <1>2, <1>7
  <2> QED
    BY <2>1, <2>2, LenProperties
<1>9. ASSUME NEW n \in 1 .. k + 1
      PROVE  Append(InOrder(S), x)[n] = IF n = k + 1 THEN x ELSE InOrder(S)[n]
  BY <1>1, <1>2, <1>7
<1>10. ASSUME NEW n \in 1 .. k + 1
       PROVE  InOrder(T)[n] = Append(InOrder(S), x)[n]
  <2>1. n = k + 1 \/ n \in 1 .. k
    BY <1>1
  <2>2. n \in 1 .. k => n # k + 1
    BY <1>1
  <2> QED
    BY <1>5, <1>6, <1>9, <2>1, <2>2
<1>11. InOrder(T) = Append(InOrder(S), x)
  BY <1>2, <1>8, <1>10
<1> QED
  BY <1>7, <1>11 DEF T

\* The parts of CallsAsSent.  What was read and looked at:
Text == SubSeq(seen, 1, Len(seen) - Len(chunk))

\* the end of the last complete line, or 0;
LineFrom(text) == Max(Ends(text) \cup {0})

\* the value given last for key up to the end of line n;
Value(text, n, key) ==
  LET places == ValuePlaces(text, n, key)
  IN  IF places = {} THEN <<>> ELSE ValueAt(text, Max(places))

\* no complete line is too long for the buffer;
Short(text) == \A n \in Ends(text) : n - LineStart(text, n) < STR_BUF_SIZE - 1

\* the calls to expect.
Reference(text) ==
  LET ends == InOrder(CallLines(text))
  IN  [c \in DOMAIN ends |-> [key \in Keys |-> Value(text, ends[c], key)]]

LEMMA EndsFinite ==
  ASSUME NEW text \in Seq(STRING)
  PROVE  /\ Ends(text) \in SUBSET (1 .. Len(text)) /\ Ends(text) \in SUBSET Int
         /\ CallLines(text) \in SUBSET Ends(text)
         /\ IsFiniteSet(CallLines(text)) /\ CallLines(text) \in SUBSET Int
<1>1. Ends(text) \in SUBSET (1 .. Len(text))
  BY DEF Ends
<1>2. CallLines(text) \in SUBSET Ends(text)
  BY DEF CallLines
<1>3. CallLines(text) \in SUBSET (1 .. Len(text)) /\ Len(text) \in Int /\ 1 \in Int
  BY <1>1, <1>2
<1> QED
  BY <1>1, <1>2, <1>3, FiniteInInterval

\* Where a line starts: behind the last end before n.
LEMMA LineStartType ==
  ASSUME NEW text \in Seq(STRING), NEW n \in Nat \ {0}
  PROVE  /\ LineStart(text, n) \in 1 .. n
         /\ \A m \in Ends(text) : m < n => m < LineStart(text, n)
         /\ LineStart(text, n) = 1 \/ LineStart(text, n) - 1 \in Ends(text)
<1> DEFINE S == {m \in Ends(text) : m < n} \cup {0}
           e == Max(S)
<1>1. S \in SUBSET (0 .. n) /\ S # {} /\ 0 \in Int /\ n \in Int
  BY EndsFinite
<1> HIDE DEF S
<1>2. IsFiniteSet(S) /\ S \in SUBSET Int
  BY <1>1, FiniteInInterval
<1>3. e \in S /\ \A x \in S : x <= e
  BY <1>1, <1>2, MaxIn
<1>4. LineStart(text, n) = e + 1
  BY DEF LineStart, S
<1> HIDE DEF e
<1>5. e \in Nat /\ e < n /\ (e = 0 \/ e \in Ends(text))
  BY <1>3, EndsFinite DEF S
<1>6. \A m \in Ends(text) : m < n => m <= e /\ m \in Int
  BY <1>3, EndsFinite DEF S
<1> QED
  BY <1>4, <1>5, <1>6

LEMMA LineStartIs ==
  ASSUME NEW text \in Seq(STRING), NEW n \in Nat, NEW e \in Nat, e < n,
         e = 0 \/ e \in Ends(text), \A m \in Ends(text) : m < n => m <= e
  PROVE  LineStart(text, n) = e + 1
<1> DEFINE S == {m \in Ends(text) : m < n} \cup {0}
<1>1. S \in SUBSET Int /\ e \in S /\ \A y \in S : y <= e
  BY EndsFinite
<1> HIDE DEF S
<1>2. Max(S) = e
  BY <1>1, MaxIs
<1> QED
  BY <1>2 DEF LineStart, S

LEMMA LineFromType ==
  ASSUME NEW text \in Seq(STRING)
  PROVE  /\ LineFrom(text) \in 0 .. Len(text)
         /\ LineFrom(text) = 0 \/ LineFrom(text) \in Ends(text)
         /\ \A m \in Ends(text) : m <= LineFrom(text)
<1> DEFINE S == Ends(text) \cup {0}
<1>1. S \in SUBSET (0 .. Len(text)) /\ S # {} /\ 0 \in Int /\ Len(text) \in Int
  BY EndsFinite
<1>2. LineFrom(text) = Max(S)
  BY DEF LineFrom
<1> HIDE DEF S
<1>3. IsFiniteSet(S) /\ S \in SUBSET Int
  BY <1>1, FiniteInInterval
<1>4. Max(S) \in S /\ \A x \in S : x <= Max(S)
  BY <1>1, <1>3, MaxIn
<1> QED
  BY <1>1, <1>2, <1>4 DEF S

LEMMA LineFromIs ==
  ASSUME NEW text \in Seq(STRING), NEW e \in Nat,
         e = 0 \/ e \in Ends(text), \A m \in Ends(text) : m <= e
  PROVE  LineFrom(text) = e
<1> DEFINE S == Ends(text) \cup {0}
<1>1. S \in SUBSET Int /\ e \in S /\ \A y \in S : y <= e
  BY EndsFinite
<1> HIDE DEF S
<1>2. Max(S) = e
  BY <1>1, MaxIs
<1> QED
  BY <1>2 DEF LineFrom, S

-----------------------------------------------------------------------------
(* What is read later does not change what a complete line says.           *)

Begins(s, t) ==
  /\ s \in Seq(STRING) /\ t \in Seq(STRING) /\ Len(s) <= Len(t)
  /\ \A i \in 1 .. Len(s) : t[i] = s[i]

LEMMA SameEnds ==
  ASSUME NEW s, NEW t, Begins(s, t)
  PROVE  \A n \in 1 .. Len(s) : n \in Ends(s) <=> n \in Ends(t)
  BY DEF Begins, Ends

LEMMA SameLine ==
  ASSUME NEW s, NEW t, Begins(s, t), NEW n \in 1 .. Len(s) + 1
  PROVE  LineStart(t, n) = LineStart(s, n)
<1>1. s \in Seq(STRING) /\ t \in Seq(STRING) /\ Len(s) \in Nat
  BY DEF Begins
<1>2. \A m : (m \in Ends(s) /\ m < n) <=> (m \in Ends(t) /\ m < n)
  <2>1. \A m : m \in Ends(s) => m \in 1 .. Len(s)
    BY <1>1, EndsFinite
  <2>2. \A m : m \in Ends(t) /\ m < n => m \in 1 .. Len(s)
    BY <1>1, EndsFinite
  <2> QED
    BY <2>1, <2>2, SameEnds
<1>3. {m \in Ends(s) : m < n} = {m \in Ends(t) : m < n}
  BY <1>2
<1> QED
  BY <1>3 DEF LineStart

LEMMA SameColons ==
  ASSUME NEW s, NEW t, Begins(s, t), NEW n \in 1 .. Len(s) + 1
  PROVE  ColonsBefore(t, n) = ColonsBefore(s, n)
<1> DEFINE l == LineStart(s, n)
<1>1. LineStart(t, n) = l
  BY SameLine
<1>2. s \in Seq(STRING) /\ Len(s) \in Nat /\ n \in Nat \ {0}
  BY DEF Begins
<1>3. l \in 1 .. n
  BY <1>2, LineStartType
<1> HIDE DEF l
<1>4. \A m \in l .. n - 1 : m \in 1 .. Len(s)
  BY <1>2, <1>3
<1>5. {m \in l .. n - 1 : t[m] = ":"} = {m \in l .. n - 1 : s[m] = ":"}
  BY <1>4 DEF Begins
<1>6. /\ ColonsBefore(s, n) = Cardinality({m \in l .. n - 1 : s[m] = ":"})
      /\ ColonsBefore(t, n) = Cardinality({m \in l .. n - 1 : t[m] = ":"})
  BY <1>1 DEF ColonsBefore, l
<1> QED
  BY <1>5, <1>6

LEMMA SameCalls ==
  ASSUME NEW s, NEW t, Begins(s, t)
  PROVE  \A n \in 1 .. Len(s) : n \in CallLines(s) <=> n \in CallLines(t)
<1> SUFFICES ASSUME NEW n \in 1 .. Len(s)
             PROVE  n \in CallLines(s) <=> n \in CallLines(t)
  OBVIOUS
<1>1. /\ s \in Seq(STRING) /\ t \in Seq(STRING) /\ Len(s) \in Nat
      /\ Len(t) \in Nat /\ Len(s) <= Len(t) /\ n \in Nat \ {0}
      /\ n \in 1 .. Len(s) + 1
  BY DEF Begins
<1>2. n \in Ends(s) <=> n \in Ends(t)
  BY SameEnds
<1> DEFINE l == LineStart(s, n)
<1>3. LineStart(t, n) = l /\ l \in 1 .. n
  BY <1>1, SameLine, LineStartType
<1> HIDE DEF l
<1>4. ASSUME NEW m \in l .. n - 1
      PROVE  /\ t[m] = s[m] /\ ColonsBefore(t, m) = ColonsBefore(s, m)
             /\ Alone(t, m) <=> Alone(s, m)
  <2>1. m \in 1 .. Len(s) /\ m + 1 \in 1 .. Len(s) /\ m \in 1 .. Len(s) + 1
    BY <1>1, <1>3
  <2>2. t[m] = s[m] /\ t[m + 1] = s[m + 1]
    BY <2>1 DEF Begins
  <2>3. m > 1 => t[m - 1] = s[m - 1]
    <3>1. m > 1 => m - 1 \in 1 .. Len(s)
      BY <2>1, <1>1
    <3> QED
      BY <3>1 DEF Begins
  <2>4. m < Len(s) /\ m < Len(t)
    BY <1>1, <2>1
  <2>5. ColonsBefore(t, m) = ColonsBefore(s, m)
    BY <2>1, SameColons
  <2> QED
    BY <2>2, <2>3, <2>4, <2>5 DEF Alone
<1>5. /\ n \in CallLines(s) <=>
           n \in Ends(s) /\ \E m \in l .. n - 1 :
             s[m] = "call.execute" /\ ColonsBefore(s, m) = 3 /\ Alone(s, m)
      /\ n \in CallLines(t) <=>
           n \in Ends(t) /\ \E m \in l .. n - 1 :
             t[m] = "call.execute" /\ ColonsBefore(t, m) = 3 /\ Alone(t, m)
  BY <1>3 DEF CallLines, l
<1> QED
  BY <1>2, <1>4, <1>5

\* The places where key has a value up to the end of line n.
LEMMA SamePlaces ==
  ASSUME NEW s, NEW t, Begins(s, t), NEW key, NEW n \in 0 .. Len(s)
  PROVE  ValuePlaces(t, n, key) = ValuePlaces(s, n, key)
<1>1. ASSUME NEW m \in 2 .. n
      PROVE  /\ t[m] = s[m] /\ t[m - 1] = s[m - 1]
             /\ ColonsBefore(t, m) = ColonsBefore(s, m)
  <2>1. /\ m \in 1 .. Len(s) /\ m - 1 \in 1 .. Len(s)
        /\ m \in 1 .. Len(s) + 1
    BY DEF Begins
  <2> QED
    BY <2>1, SameColons DEF Begins
<1> QED
  BY <1>1 DEF ValuePlaces

LEMMA PlacesType ==
  ASSUME NEW text \in Seq(STRING), NEW key, NEW n \in 0 .. Len(text),
         ValuePlaces(text, n, key) # {}
  PROVE  LET m == Max(ValuePlaces(text, n, key))
         IN  /\ m \in ValuePlaces(text, n, key) /\ m \in 2 .. n
             /\ \A x \in ValuePlaces(text, n, key) : x <= m
<1> DEFINE S == ValuePlaces(text, n, key)
<1>1. S \in SUBSET (2 .. n) /\ n \in Int /\ 2 \in Int
  BY DEF ValuePlaces
<1> HIDE DEF S
<1>2. IsFiniteSet(S) /\ S \in SUBSET Int
  BY <1>1, FiniteInInterval
<1>3. S # {}
  BY DEF S
<1>4. Max(S) \in S /\ \A x \in S : x <= Max(S)
  BY <1>2, <1>3, MaxIn
<1> QED
  BY <1>1, <1>4 DEF S

LEMMA ValueAtIs ==
  ASSUME NEW text \in Seq(STRING), NEW m \in 1 .. Len(text),
         NEW k \in m .. Len(text), text[k] \in {":", "\n"},
         \A i \in m .. k - 1 : text[i] \notin {":", "\n"}
  PROVE  ValueAt(text, m) = SubSeq(text, m + 1, k - 1)
<1> DEFINE S == {i \in m .. Len(text) : text[i] \in {":", "\n"}}
<1>1. S \in SUBSET Int /\ k \in S
  OBVIOUS
<1>2. \A i \in S : k <= i
  <2>1. \A i \in S : i \notin m .. k - 1 /\ i \in m .. Len(text)
    OBVIOUS
  <2> QED
    BY <2>1
<1> HIDE DEF S
<1>3. Min(S) = k
  BY <1>1, <1>2, MinIs
<1> QED
  BY <1>3 DEF ValueAt, S

\* Every text before an end of line has a first mark.
LEMMA FirstMark ==
  ASSUME NEW text \in Seq(STRING), NEW n \in Ends(text), NEW m \in 1 .. n
  PROVE  \E k \in m .. n : /\ text[k] \in {":", "\n"}
                           /\ \A i \in m .. k - 1 : text[i] \notin {":", "\n"}
<1> DEFINE S == {i \in m .. n : text[i] \in {":", "\n"}}
<1>1. n \in 1 .. Len(text) /\ text[n] = "\n" /\ n \in Int /\ m \in Int
  BY EndsFinite DEF Ends
<1>2. S \in SUBSET (m .. n) /\ n \in S
  BY <1>1
<1> HIDE DEF S
<1>3. IsFiniteSet(S) /\ S \in SUBSET Int
  BY <1>1, <1>2, FiniteInInterval
<1>4. Cardinality(S) \in Nat /\ Cardinality(S) # 0
  BY <1>2, <1>3, FS_CardinalityType, FS_EmptySet
<1>5. PICK k \in S : Rank(S, k) = 1
  BY <1>3, <1>4, EveryRank
<1>6. \A i \in S : ~ (i < k)
  BY <1>3, <1>4, <1>5, RankGrows, RankType
<1>7. k \in m .. n /\ text[k] \in {":", "\n"}
  BY DEF S
<1>8. \A i \in m .. k - 1 : i \in m .. n /\ i < k
  BY <1>1, <1>7
<1>9. \A i \in m .. k - 1 : text[i] \notin {":", "\n"}
  BY <1>6, <1>8 DEF S
<1> QED
  BY <1>7, <1>9

LEMMA SameValue ==
  ASSUME NEW s, NEW t, Begins(s, t), NEW key,
         NEW n \in 0 .. Len(s), n = 0 \/ n \in Ends(s)
  PROVE  Value(t, n, key) = Value(s, n, key)
<1> DEFINE S == ValuePlaces(s, n, key)
           m == Max(S)
<1>1. ValuePlaces(t, n, key) = S
  BY SamePlaces
<1>2. CASE S = {}
  BY <1>1, <1>2 DEF Value
<1>3. CASE S # {}
  <2>1. /\ s \in Seq(STRING) /\ t \in Seq(STRING) /\ Len(s) \in Nat
        /\ Len(t) \in Nat /\ Len(s) <= Len(t)
    BY DEF Begins
  <2>2. m \in 2 .. n
    BY <1>3, <2>1, PlacesType
  <2>3. Value(t, n, key) = ValueAt(t, m) /\ Value(s, n, key) = ValueAt(s, m)
    BY <1>1, <1>3 DEF Value
  <2> HIDE DEF m, S
  <2>4. n \in Ends(s) /\ m \in 1 .. n /\ m \in 1 .. Len(s) /\ m \in 1 .. Len(t)
    BY <2>1, <2>2
  <2>5. PICK k \in m .. n : /\ s[k] \in {":", "\n"}
                            /\ \A i \in m .. k - 1 : s[i] \notin {":", "\n"}
    BY <2>1, <2>4, FirstMark
  <2>6. k \in m .. Len(s) /\ k \in m .. Len(t)
    BY <2>1, <2>2
  <2>7. \A i \in m .. k : t[i] = s[i]
    <3>1. \A i \in m .. k : i \in 1 .. Len(s)
      BY <2>1, <2>4, <2>6
    <3> QED
      BY <3>1 DEF Begins
  <2>8. /\ t[k] \in {":", "\n"}
        /\ \A i \in m .. k - 1 : t[i] \notin {":", "\n"}
    BY <2>5, <2>6, <2>7
  <2>9. /\ ValueAt(s, m) = SubSeq(s, m + 1, k - 1)
        /\ ValueAt(t, m) = SubSeq(t, m + 1, k - 1)
    BY <2>1, <2>4, <2>5, <2>6, <2>8, ValueAtIs
  <2>10. SubSeq(t, m + 1, k - 1) = SubSeq(s, m + 1, k - 1)
    <3>1. \A i \in m + 1 .. k - 1 : t[i] = s[i]
      BY <2>4, <2>6, <2>7
    <3> QED
      BY <2>4, <2>6, <3>1
  <2> QED
    BY <2>3, <2>9, <2>10
<1> QED
  BY <1>2, <1>3

-----------------------------------------------------------------------------
(* One line: b is the last line of text, which ends behind it and goes on  *)
(* from l.                                                                 *)

LineIn(text, l, b) ==
  /\ text \in Seq(STRING) /\ b \in Seq(STRING) /\ l \in Nat
  /\ Len(text) = l + Len(b) + 1 /\ text[Len(text)] = "\n"
  /\ \A i \in 1 .. Len(b) : text[l + i] = b[i] /\ b[i] # "\n"
  /\ l = 0 \/ l \in Ends(text)

Places(b) == Colons(b) \cup {0, Len(b) + 1}

Cuts(b) == InOrder(Places(b))

LEMMA LineNumbers ==
  ASSUME NEW text, NEW l, NEW b, LineIn(text, l, b)
  PROVE  /\ Len(b) \in Nat /\ Len(text) \in Nat /\ l \in Nat
         /\ Len(text) = l + Len(b) + 1 /\ Len(text) \in Ends(text)
         /\ \A n \in Ends(text) : n <= l \/ n = Len(text)
         /\ \A k \in 0 .. Len(b) : LineStart(text, l + k + 1) = l + 1
<1>1. /\ text \in Seq(STRING) /\ Len(b) \in Nat /\ Len(text) \in Nat
      /\ l \in Nat /\ Len(text) = l + Len(b) + 1 /\ text[Len(text)] = "\n"
      /\ l = 0 \/ l \in Ends(text)
  BY DEF LineIn
<1>2. Len(text) \in Ends(text)
  BY <1>1 DEF Ends
<1>3. ASSUME NEW n \in Ends(text), n > l, n # Len(text)
      PROVE  FALSE
  <2>1. n \in 1 .. Len(text) /\ text[n] = "\n"
    BY <1>1 DEF Ends
  <2>2. n - l \in 1 .. Len(b) /\ l + (n - l) = n
    BY <1>1, <1>3, <2>1
  <2> QED
    BY <2>1, <2>2 DEF LineIn
<1>4. \A n \in Ends(text) : n \in Int
  BY <1>1, EndsFinite
<1>5. \A n \in Ends(text) : n <= l \/ n = Len(text)
  BY <1>1, <1>3, <1>4
<1>6. ASSUME NEW k \in 0 .. Len(b)
      PROVE  LineStart(text, l + k + 1) = l + 1
  <2> DEFINE n == l + k + 1
  <2>1. n \in Nat /\ l < n /\ n <= Len(text)
    BY <1>1
  <2>2. \A m \in Ends(text) : m < n => m <= l
    BY <1>1, <1>4, <1>5, <2>1
  <2> HIDE DEF n
  <2>3. LineStart(text, n) = l + 1
    BY <1>1, <2>1, <2>2, LineStartIs
  <2> QED
    BY <2>3 DEF n
<1> QED
  BY <1>1, <1>2, <1>5, <1>6

LEMMA PlacesFinite ==
  ASSUME NEW b \in Seq(STRING)
  PROVE  /\ Places(b) \in SUBSET (0 .. Len(b) + 1) /\ Places(b) \in SUBSET Int
         /\ IsFiniteSet(Places(b)) /\ Len(b) \in Nat
         /\ 0 \in Places(b) /\ Len(b) + 1 \in Places(b)
<1> DEFINE k == Len(b) + 1
<1>1. Places(b) \in SUBSET (0 .. k) /\ 0 \in Int /\ k \in Int /\ Len(b) \in Nat
  BY DEF Places, Colons
<1> HIDE DEF k
<1>2. IsFiniteSet(Places(b)) /\ Places(b) \in SUBSET Int
  BY <1>1, FiniteInInterval
<1> QED
  BY <1>1, <1>2 DEF Places, k

\* Where the fields are cut.
LEMMA CutsFacts ==
  ASSUME NEW b \in Seq(STRING)
  PROVE  LET N == Cardinality(Places(b))
             c == Cuts(b)
         IN  /\ N \in Nat /\ 2 <= N
             /\ \A j \in 1 .. N : c[j] \in Places(b) /\ c[j] \in 0 .. Len(b) + 1
             /\ \A i \in 1 .. N, j \in 1 .. N : i < j => c[i] < c[j]
             /\ \A p \in Places(b) :
                  Rank(Places(b), p) \in 1 .. N /\ c[Rank(Places(b), p)] = p
             /\ \A j \in 1 .. N - 1 : c[j] <= Len(b)
             /\ \A j \in 2 .. N - 1 : c[j] \in 1 .. Len(b) /\ b[c[j]] = ":"
             /\ \A j \in 1 .. N - 1, p \in Places(b) :
                  ~ (c[j] < p /\ p < c[j + 1])
             /\ c[1] = 0 /\ c[N] = Len(b) + 1
<1> DEFINE P == Places(b)
           N == Cardinality(P)
           c == Cuts(b)
           e == Len(b) + 1
<1>1. /\ P \in SUBSET (0 .. e) /\ P \in SUBSET Int /\ IsFiniteSet(P)
      /\ e \in Nat /\ 1 <= e /\ 0 \in P /\ e \in P /\ Len(b) \in Nat
  BY PlacesFinite
<1>2. c = InOrder(P)
  BY DEF Cuts
<1>3. N \in Nat
  BY <1>1, FS_CardinalityType
<1>4. \A x \in P : x \in P /\ (x = 0 \/ x = e \/ (x \in 1 .. Len(b) /\ b[x] = ":"))
  BY DEF Places, Colons
<1> HIDE DEF P, c, e, N
<1>5. \A j \in 1 .. N : c[j] \in P /\ Rank(P, c[j]) = j
  BY <1>1, <1>2, InOrderAt DEF N
<1>6. \A p \in P : Rank(P, p) \in 1 .. N /\ c[Rank(P, p)] = p
  BY <1>1, <1>2, InOrderIs, RankType DEF N
<1>7. \A j \in 1 .. N, p \in P :
        /\ c[j] < p <=> j < Rank(P, p)
        /\ p < c[j] <=> Rank(P, p) < j
  BY <1>1, <1>2, InOrderNext DEF N
<1>8. \A i \in 1 .. N, j \in 1 .. N : i < j => c[i] < c[j]
  BY <1>5, <1>7
<1>9. \A j \in 1 .. N : c[j] \in 0 .. e
  BY <1>1, <1>5
<1>10. 1 <= N
  BY <1>1, <1>3, <1>6
<1>11. c[1] = 0
  <2>1. 1 \in 1 .. N /\ Rank(P, 0) \in 1 .. N /\ c[Rank(P, 0)] = 0
    BY <1>1, <1>3, <1>6, <1>10
  <2>2. 1 < Rank(P, 0) => c[1] < 0
    BY <1>1, <1>7, <2>1
  <2>3. c[1] >= 0 /\ c[1] \in Int
    BY <1>9, <2>1
  <2> QED
    BY <2>1, <2>2, <2>3
<1>12. c[N] = e
  <2>1. N \in 1 .. N /\ Rank(P, e) \in 1 .. N /\ c[Rank(P, e)] = e
    BY <1>1, <1>3, <1>6, <1>10
  <2>2. Rank(P, e) < N => e < c[N]
    BY <1>1, <1>7, <2>1
  <2>3. c[N] <= e /\ c[N] \in Int /\ e \in Int
    BY <1>1, <1>9, <2>1
  <2> QED
    BY <1>3, <2>1, <2>2, <2>3
<1>13. 2 <= N
  BY <1>1, <1>3, <1>10, <1>11, <1>12
<1>14. \A j \in 1 .. N - 1 : c[j] < e
  <2>1. \A j \in 1 .. N - 1 : j \in 1 .. N /\ j < N /\ N \in 1 .. N
    BY <1>3, <1>10
  <2> QED
    BY <1>8, <1>12, <2>1
<1>15. \A j \in 1 .. N - 1 : c[j] <= Len(b)
  <2>1. \A j \in 1 .. N - 1 : j \in 1 .. N
    BY <1>3
  <2>2. \A j \in 1 .. N - 1 : c[j] \in Int
    BY <1>9, <2>1
  <2> QED
    BY <1>1, <1>14, <2>2 DEF e
<1>16. \A j \in 2 .. N - 1 : c[j] \in 1 .. Len(b) /\ b[c[j]] = ":"
  <2> SUFFICES ASSUME NEW j \in 2 .. N - 1
               PROVE  c[j] \in 1 .. Len(b) /\ b[c[j]] = ":"
    OBVIOUS
  <2>1. j \in 1 .. N /\ 1 \in 1 .. N /\ 1 < j /\ j \in 1 .. N - 1
    BY <1>3
  <2>2. c[j] \in P /\ c[j] # 0 /\ c[j] # e
    <3>1. c[1] < c[j] /\ c[j] < e /\ c[j] \in Int
      BY <1>8, <1>9, <1>14, <2>1
    <3> QED
      BY <1>1, <1>5, <1>11, <2>1, <3>1
  <2> QED
    BY <1>4, <2>2
<1>17. \A j \in 1 .. N - 1, p \in P : ~ (c[j] < p /\ p < c[j + 1])
  <2> SUFFICES ASSUME NEW j \in 1 .. N - 1, NEW p \in P, c[j] < p, p < c[j + 1]
               PROVE  FALSE
    OBVIOUS
  <2>1. j \in 1 .. N /\ j + 1 \in 1 .. N
    BY <1>3
  <2>2. j < Rank(P, p) /\ Rank(P, p) < j + 1 /\ Rank(P, p) \in Int
    BY <1>6, <1>7, <2>1
  <2> QED
    BY <2>1, <2>2
<1> QED
  BY <1>3, <1>5, <1>6, <1>8, <1>9, <1>11, <1>12, <1>13, <1>15, <1>16, <1>17
     DEF P, N, c, e

\* The ":" that the reference counts before a place of the line.
LEMMA ColonsAre ==
  ASSUME NEW text, NEW l, NEW b, LineIn(text, l, b), NEW p \in 0 .. Len(b)
  PROVE  ColonsBefore(text, l + p + 1) = Rank(Places(b), p) - 1
<1> DEFINE C == {m \in l + 1 .. l + p : text[m] = ":"}
           B == {q \in 1 .. p : b[q] = ":"}
           R == {q \in Places(b) : q <= p}
<1>1. /\ b \in Seq(STRING) /\ Len(b) \in Nat /\ l \in Nat
      /\ \A i \in 1 .. Len(b) : text[l + i] = b[i]
  BY LineNumbers DEF LineIn
<1>2. ColonsBefore(text, l + p + 1) = Cardinality(C)
  <2> DEFINE d == l + p + 1
  <2>1. LineStart(text, d) = l + 1
    BY LineNumbers
  <2>2. d - 1 = l + p
    BY <1>1
  <2> HIDE DEF d
  <2>3. ColonsBefore(text, d) = Cardinality(C)
    BY <2>1, <2>2, Zenon DEF ColonsBefore
  <2> QED
    BY <2>3 DEF d
<1>3. IsFiniteSet(B)
  <2>1. B \in SUBSET (1 .. p) /\ 1 \in Int /\ p \in Int
    OBVIOUS
  <2> HIDE DEF B
  <2> QED
    BY <2>1, FiniteInInterval
<1>4. Cardinality(C) = Cardinality(B)
  <2> DEFINE f == [q \in B |-> l + q]
  <2>1. \A q \in B : l + q \in C
    BY <1>1
  <2>2. \A m \in C : m - l \in B /\ l + (m - l) = m
    <3> SUFFICES ASSUME NEW m \in C
                 PROVE  m - l \in B /\ l + (m - l) = m
      OBVIOUS
    <3>1. m - l \in 1 .. p /\ l + (m - l) = m /\ m - l \in 1 .. Len(b)
      BY <1>1
    <3>2. b[m - l] = text[m]
      BY <1>1, <3>1
    <3> QED
      BY <3>1, <3>2
  <2>3. \A q \in B, r \in B : l + q = l + r => q = r
    BY <1>1
  <2> HIDE DEF B, C
  <2>4. f \in Bijection(B, C)
    <3>1. f \in [B -> C]
      BY <2>1
    <3>2. \A q, r \in B : f[q] = f[r] => q = r
      BY <2>3
    <3>3. \A m \in C : \E q \in B : f[q] = m
      BY <2>2
    <3> QED
      BY <3>1, <3>2, <3>3 DEF Bijection, Injection, Surjection, IsInjective
  <2> HIDE DEF f
  <2> QED
    BY <1>3, <2>4, FS_Bijection DEF ExistsBijection
<1>5. R = B \cup {0} /\ 0 \notin B
  BY <1>1 DEF Places, Colons
<1>6. Cardinality(R) = Cardinality(B) + 1 /\ Cardinality(B) \in Nat
  <2> HIDE DEF B, R
  <2> QED
    BY <1>3, <1>5, FS_AddElement, FS_CardinalityType
<1> QED
  BY <1>2, <1>4, <1>6 DEF Rank

\* The fields of a line.
LEMMA FieldsAre ==
  ASSUME NEW b \in Seq(STRING)
  PROVE  /\ Len(Fields(b)) = Cardinality(Places(b)) - 1
         /\ \A j \in 1 .. Cardinality(Places(b)) - 1 :
              Fields(b)[j] = SubSeq(b, Cuts(b)[j] + 1, Cuts(b)[j + 1] - 1)
<1> DEFINE N == Cardinality(Places(b))
           c == Cuts(b)
<1>1. N \in Nat /\ 2 <= N /\ Len(c) = N
  BY PlacesFinite, CutsFacts, InOrderType DEF Cuts
<1>2. Fields(b) = [j \in 1 .. Len(c) - 1 |-> SubSeq(b, c[j] + 1, c[j + 1] - 1)]
  BY DEF Fields, Cuts, Places
<1> HIDE DEF N, c
<1>3. Fields(b) = [j \in 1 .. N - 1 |-> SubSeq(b, c[j] + 1, c[j + 1] - 1)]
  BY <1>1, <1>2
<1>4. N - 1 \in Nat
  BY <1>1
<1>5. Len(Fields(b)) = N - 1
  BY <1>3, <1>4, FieldsType
<1>6. \A j \in 1 .. N - 1 : Fields(b)[j] = SubSeq(b, c[j] + 1, c[j + 1] - 1)
  BY <1>3
<1> QED
  BY <1>5, <1>6 DEF N, c

\* A field that is not empty and not the first, in the line and in the text.
FieldFrom(text, l, b, j, m, e) ==
  /\ m \in 2 .. Len(b) /\ e \in m + 1 .. Len(b) + 1
  /\ e \in Places(b)
  /\ b[m] = Head(Fields(b)[j]) /\ b[m - 1] = ":"
  /\ \A i \in m .. e - 1 : i \in 1 .. Len(b) /\ b[i] # ":"
  /\ Fields(b)[j] = SubSeq(b, m, e - 1)
  /\ Tail(Fields(b)[j]) = SubSeq(b, m + 1, e - 1)
  /\ ColonsBefore(text, l + m) = j - 1

LEMMA FieldHead ==
  ASSUME NEW text, NEW l, NEW b, LineIn(text, l, b),
         NEW j \in 2 .. Len(Fields(b)), Fields(b)[j] # <<>>
  PROVE  FieldFrom(text, l, b, j, Cuts(b)[j] + 1, Cuts(b)[j + 1])
<1> DEFINE N == Cardinality(Places(b))
           c == Cuts(b)
           m == c[j] + 1
           e == c[j + 1]
<1>1. b \in Seq(STRING) /\ Len(b) \in Nat /\ l \in Nat
  BY DEF LineIn
<1>2. /\ N \in Nat /\ Len(Fields(b)) = N - 1
      /\ Fields(b)[j] = SubSeq(b, c[j] + 1, c[j + 1] - 1)
  BY <1>1, FieldsAre, CutsFacts
<1>3. j \in 2 .. N - 1 /\ j \in 1 .. N - 1 /\ j \in 1 .. N /\ j + 1 \in 1 .. N
  BY <1>2
<1>4. /\ c[j] \in 1 .. Len(b) /\ b[c[j]] = ":" /\ c[j] \in Places(b)
      /\ e \in Places(b) /\ e \in 0 .. Len(b) + 1 /\ c[j] < e
  BY <1>1, <1>2, <1>3, CutsFacts
<1>5. \A p \in Places(b) : ~ (c[j] < p /\ p < e)
  BY <1>1, <1>3, CutsFacts
<1>6. /\ m \in Nat /\ m - 1 = c[j] /\ e \in Nat /\ m <= e
      /\ Fields(b)[j] = SubSeq(b, m, e - 1)
  <2> DEFINE x == c[j]
             y == c[j + 1]
  <2>1. x \in Nat /\ y \in Nat /\ x < y
    BY <1>1, <1>4
  <2> HIDE DEF x, y
  <2>2. x + 1 \in Nat /\ x + 1 - 1 = x /\ x + 1 <= y
    BY <2>1
  <2> QED
    BY <1>2, <2>1, <2>2 DEF x, y
<1>7. Rank(Places(b), c[j]) = j
  BY <1>1, <1>3, PlacesFinite, InOrderAt DEF Cuts
<1>8. ColonsBefore(text, l + m) = j - 1
  <2> DEFINE p == c[j]
  <2>1. p \in 0 .. Len(b) /\ l + m = l + p + 1
    BY <1>1, <1>4
  <2>2. Rank(Places(b), p) = j
    BY <1>7
  <2> HIDE DEF p, m
  <2>3. ColonsBefore(text, l + p + 1) = j - 1
    BY <2>1, <2>2, ColonsAre
  <2> QED
    BY <2>1, <2>3
<1> HIDE DEF m, e
<1>9. m # e
  <2>1. m = e => SubSeq(b, m, e - 1) = <<>>
    BY <1>1, <1>6
  <2> QED
    BY <1>6, <2>1
<1>10. m \in 2 .. Len(b) /\ e \in m + 1 .. Len(b) + 1
  BY <1>1, <1>4, <1>6, <1>9
<1>11. ASSUME NEW i \in m .. e - 1
       PROVE  i \in 1 .. Len(b) /\ b[i] # ":"
  <2>1. i \in 1 .. Len(b) /\ m - 1 < i /\ i < e
    BY <1>1, <1>6, <1>10
  <2>2. i \notin Places(b)
    BY <1>5, <1>6, <2>1
  <2> QED
    BY <1>1, <2>1, <2>2 DEF Places, Colons
<1>12. /\ Head(SubSeq(b, m, e - 1)) = b[m]
       /\ Tail(SubSeq(b, m, e - 1)) = SubSeq(b, m + 1, e - 1)
  <2> DEFINE z == e - 1
  <2>1. z \in Nat /\ m <= z /\ z <= Len(b) /\ 1 <= m /\ m \in Nat
    BY <1>1, <1>10
  <2> HIDE DEF z
  <2>2. /\ Head(SubSeq(b, m, z)) = b[m]
        /\ Tail(SubSeq(b, m, z)) = SubSeq(b, m + 1, z)
    BY <1>1, <2>1
  <2> QED
    BY <2>2 DEF z
<1>13. b[m - 1] = ":"
  BY <1>4, <1>6
<1> QED
  BY <1>4, <1>6, <1>8, <1>10, <1>11, <1>12, <1>13 DEF FieldFrom, m, e, c

\* A place behind a ":" is the beginning of a field.
LEMMA HeadField ==
  ASSUME NEW text, NEW l, NEW b, LineIn(text, l, b),
         NEW m \in 2 .. Len(b), b[m - 1] = ":", b[m] # ":"
  PROVE  LET j == ColonsBefore(text, l + m) + 1
         IN  /\ j \in 2 .. Len(Fields(b)) /\ Cuts(b)[j] = m - 1
             /\ Fields(b)[j] # <<>> /\ Head(Fields(b)[j]) = b[m]
<1> DEFINE N == Cardinality(Places(b))
           c == Cuts(b)
           p == m - 1
           j == Rank(Places(b), p)
           e == c[j + 1]
<1>1. /\ b \in Seq(STRING) /\ Len(b) \in Nat /\ l \in Nat
      /\ p \in 1 .. Len(b) /\ p \in 0 .. Len(b) /\ p \in Places(b)
      /\ l + p + 1 = l + m /\ p \in Nat /\ p < m
  BY DEF LineIn, Places, Colons
<1> HIDE DEF p
<1>2. ColonsBefore(text, l + m) = j - 1
  BY <1>1, ColonsAre
<1>3. /\ N \in Nat /\ j \in 1 .. N /\ c[j] = p /\ Len(Fields(b)) = N - 1
      /\ c[1] = 0 /\ c[N] = Len(b) + 1
  BY <1>1, CutsFacts, FieldsAre
<1>4. j \in 2 .. N - 1
  <2>1. j # 1 /\ j # N
    BY <1>1, <1>3
  <2> QED
    BY <1>3, <2>1
<1>5. /\ Fields(b)[j] = SubSeq(b, c[j] + 1, c[j + 1] - 1)
      /\ e \in 0 .. Len(b) + 1 /\ e \in Places(b) /\ c[j] < e
  <2>1. j \in 1 .. N - 1 /\ j + 1 \in 1 .. N /\ j < j + 1
    BY <1>3, <1>4
  <2> QED
    BY <1>1, <1>3, <2>1, CutsFacts, FieldsAre
<1>6. m \notin Places(b)
  BY <1>1 DEF Places, Colons
<1>7. /\ Fields(b)[j] = SubSeq(b, m, e - 1) /\ e \in Int /\ m < e
  <2>1. c[j] + 1 = m
    BY <1>1, <1>3 DEF p
  <2>2. m # e
    BY <1>5, <1>6
  <2>3. e \in Int /\ p < e
    <3>1. c[j] = p /\ c[j] < e /\ e \in 0 .. Len(b) + 1
      BY <1>3, <1>5
    <3> HIDE DEF c, e, j
    <3> QED
      BY <1>1, <3>1
  <2> HIDE DEF e
  <2>4. m < e
    BY <1>1, <2>2, <2>3 DEF p
  <2> QED
    BY <1>5, <2>1, <2>3, <2>4 DEF e
<1> HIDE DEF e, j
<1>8. /\ SubSeq(b, m, e - 1) # <<>> /\ Head(SubSeq(b, m, e - 1)) = b[m]
  <2> DEFINE z == e - 1
  <2>1. z \in Nat /\ m <= z /\ z <= Len(b) /\ 1 <= m /\ m \in Nat
    BY <1>1, <1>5, <1>7
  <2> HIDE DEF z
  <2>2. SubSeq(b, m, z) # <<>> /\ Head(SubSeq(b, m, z)) = b[m]
    BY <1>1, <2>1
  <2> QED
    BY <2>2 DEF z
<1>9. ColonsBefore(text, l + m) + 1 = j
  BY <1>2, <1>3
<1> QED
  BY <1>3, <1>4, <1>7, <1>8, <1>9 DEF p, c

LEMMA OnePiece ==
  ASSUME NEW b \in Seq(STRING), NEW m \in 1 .. Len(b)
  PROVE  SubSeq(b, m, m) = <<b[m]>>
<1> DEFINE s == SubSeq(b, m, m)
<1>1. m \in Int /\ \A i \in m .. m : b[i] \in STRING
  OBVIOUS
<1>2. /\ s \in Seq(STRING) /\ Len(s) = 1
      /\ \A i \in 1 .. m - m + 1 : s[i] = b[m + i - 1]
  BY <1>1, SubSeqProperties
<1>3. 1 \in 1 .. m - m + 1 /\ m + 1 - 1 = m
  BY <1>1
<1>4. s[1] = b[m]
  BY <1>2, <1>3
<1> HIDE DEF s
<1>5. s = <<b[m]>>
  BY <1>2, <1>4
<1> QED
  BY <1>5 DEF s

\* The line starts a call for the parser when it does for the reference.
LEMMA CallParsed ==
  ASSUME NEW text, NEW l, NEW b, LineIn(text, l, b)
  PROVE  yate_message_parse_incoming(b).call <=> Len(text) \in CallLines(text)
<1> DEFINE fields == Fields(b)
           n      == Len(text)
           c      == Cuts(b)
           Call   == Len(fields) >= 5 /\ fields[4] = <<"call.execute">>
           Marks(m) == /\ text[m] = "call.execute" /\ ColonsBefore(text, m) = 3
                       /\ Alone(text, m)
<1>1. /\ b \in Seq(STRING) /\ Len(b) \in Nat /\ l \in Nat /\ n \in Nat
      /\ n = l + Len(b) + 1 /\ n \in Ends(text) /\ LineStart(text, n) = l + 1
      /\ text[n] = "\n" /\ \A i \in 1 .. Len(b) : text[l + i] = b[i]
  <2> DEFINE k == Len(b)
  <2>1. /\ b \in Seq(STRING) /\ k \in 0 .. Len(b) /\ k \in Nat /\ text[n] = "\n"
        /\ \A i \in 1 .. Len(b) : text[l + i] = b[i]
    BY DEF LineIn
  <2>2. /\ l \in Nat /\ n \in Nat /\ n = l + k + 1 /\ n \in Ends(text)
    BY LineNumbers
  <2>3. LineStart(text, l + k + 1) = l + 1
    BY <2>1, LineNumbers
  <2> QED
    BY <2>1, <2>2, <2>3
<1>2. fields \in Seq(Seq(STRING)) /\ Len(fields) \in Nat
  BY <1>1, FieldsType
<1>3. yate_message_parse_incoming(b).call <=> Call
  <2> DEFINE args == SubSeq(fields, 3, Len(fields))
  <2>1. yate_message_parse_incoming(b).call <=>
          Len(fields) >= 3 /\ Len(args) >= 3 /\ args[2] = <<"call.execute">>
    BY DEF yate_message_parse_incoming, yate_message_parse_parameters
  <2> HIDE DEF fields
  <2>2. Len(fields) >= 3 => Len(args) = Len(fields) - 2
    BY <1>2
  <2>3. Len(fields) >= 5 => args[2] = fields[4]
    BY <1>2
  <2> HIDE DEF args
  <2>4. Len(fields) >= 3 /\ Len(args) >= 3 <=> Len(fields) >= 5
    BY <1>2, <2>2
  <2> QED
    BY <2>1, <2>3, <2>4
<1>4. n \in CallLines(text) <=> \E m \in l + 1 .. n - 1 : Marks(m)
  BY <1>1 DEF CallLines
<1>5. ASSUME Call
      PROVE  \E m \in l + 1 .. n - 1 : Marks(m)
  <2> DEFINE m == c[4] + 1
             e == c[5]
  <2>1. 4 \in 2 .. Len(fields) /\ fields[4] # <<>> /\ Len(fields) >= 5
    BY <1>2, <1>5
  <2>2. /\ m \in 2 .. Len(b) /\ e \in m + 1 .. Len(b) + 1
        /\ b[m] = Head(fields[4]) /\ b[m - 1] = ":"
        /\ fields[4] = SubSeq(b, m, e - 1)
        /\ ColonsBefore(text, l + m) = 3
    <3>1. 4 + 1 = 5 /\ 4 - 1 = 3
      OBVIOUS
    <3>2. FieldFrom(text, l, b, 4, c[4] + 1, c[4 + 1])
      BY <2>1, FieldHead
    <3>3. FieldFrom(text, l, b, 4, m, e)
      BY <3>1, <3>2
    <3> HIDE DEF m, e
    <3> QED
      BY <3>1, <3>3 DEF FieldFrom
  <2>3. e \in 1 .. Len(b) /\ b[e] = ":"
    <3>1. 5 \in 2 .. Cardinality(Places(b)) - 1
      BY <1>1, <2>1, FieldsAre, CutsFacts
    <3> QED
      BY <1>1, <3>1, CutsFacts
  <2>4. Head(fields[4]) = "call.execute" /\ Len(fields[4]) = 1
    BY <1>5
  <2> HIDE DEF m, e
  <2>5. Len(SubSeq(b, m, e - 1)) = e - m
    BY <1>1, <2>2, <2>3
  <2>6. e = m + 1
    BY <2>2, <2>3, <2>4, <2>5
  <2> DEFINE M == l + m
  <2>7. M \in l + 1 .. n - 1 /\ M > 1 /\ M < n /\ M \in Nat
    BY <1>1, <2>2
  <2>8. text[M] = "call.execute" /\ text[M - 1] = ":" /\ text[M + 1] = ":"
    <3>1. /\ m \in 1 .. Len(b) /\ m - 1 \in 1 .. Len(b)
          /\ m + 1 \in 1 .. Len(b)
          /\ l + (m - 1) = M - 1 /\ l + (m + 1) = M + 1
      BY <1>1, <2>2, <2>3, <2>6
    <3>2. text[l + m] = b[m]
      BY <1>1, <3>1
    <3>3. text[l + (m - 1)] = b[m - 1] /\ text[l + (m + 1)] = b[m + 1]
      BY <1>1, <3>1
    <3> QED
      BY <2>2, <2>3, <2>4, <2>6, <3>1, <3>2, <3>3
  <2>9. Marks(M)
    BY <2>2, <2>7, <2>8 DEF Alone
  <2> QED
    BY <2>7, <2>9
<1>6. ASSUME NEW M \in Int, M \in l + 1 .. n - 1, Marks(M)
      PROVE  Call
  <2> DEFINE m == M - l
  <2>1. /\ m \in 1 .. Len(b) /\ l + m = M /\ M > 1 /\ M < n
        /\ text[M] = "call.execute" /\ ColonsBefore(text, M) = 3
        /\ text[M - 1] = ":" /\ text[M + 1] = ":"
    BY <1>1, <1>6 DEF Alone
  <2> HIDE DEF m
  <2>2. b[m] = "call.execute"
    BY <1>1, <2>1
  <2>3. m # 1
    <3>1. 0 \in 0 .. Len(b) /\ 0 \in Places(b)
      BY <1>1, PlacesFinite
    <3>2. ColonsBefore(text, l + 0 + 1) = Rank(Places(b), 0) - 1
      BY <3>1, ColonsAre
    <3>3. l + 0 + 1 = l + 1
      BY <1>1
    <3>4. Rank(Places(b), 0) = 1
      <4>1. {q \in Places(b) : q <= 0} = {0}
        BY <1>1, <3>1, PlacesFinite
      <4> QED
        BY <4>1, FS_Singleton DEF Rank
    <3> QED
      BY <2>1, <3>2, <3>3, <3>4
  <2>4. /\ m \in 2 .. Len(b) /\ b[m - 1] = ":"
    <3>1. m \in 2 .. Len(b) /\ m - 1 \in 1 .. Len(b) /\ l + (m - 1) = M - 1
      BY <1>1, <2>1, <2>3
    <3>2. text[l + (m - 1)] = b[m - 1]
      BY <1>1, <3>1
    <3> QED
      BY <2>1, <3>1, <3>2
  <2>5. /\ 4 \in 2 .. Len(fields) /\ c[4] = m - 1 /\ fields[4] # <<>>
    <3>1. ColonsBefore(text, l + m) + 1 = 4 /\ b[m] # ":"
      BY <2>1, <2>2
    <3> QED
      BY <2>4, <3>1, HeadField
  <2>6. m + 1 \in 1 .. Len(b) /\ b[m + 1] = ":"
    <3>1. M + 1 # n
      BY <1>1, <2>1
    <3>2. m + 1 \in 1 .. Len(b) /\ l + (m + 1) = M + 1
      BY <1>1, <2>1, <3>1
    <3>3. text[l + (m + 1)] = b[m + 1]
      BY <1>1, <3>2
    <3> QED
      BY <2>1, <3>2, <3>3
  <2> DEFINE e == c[5]
  <2>7. /\ e \in m + 1 .. Len(b) + 1 /\ fields[4] = SubSeq(b, m, e - 1)
        /\ \A i \in m .. e - 1 : b[i] # ":"
    <3>1. 4 + 1 = 5 /\ c[4] + 1 = m
      BY <2>4, <2>5
    <3> DEFINE j == 4
               x == c[j] + 1
               y == c[j + 1]
    <3>2. j \in 2 .. Len(fields) /\ fields[j] # <<>> /\ x = m /\ y = e
      BY <2>5, <3>1
    <3> HIDE DEF j
    <3>3. /\ y \in x + 1 .. Len(b) + 1 /\ fields[j] = SubSeq(b, x, y - 1)
          /\ \A i \in x .. y - 1 : b[i] # ":"
      <4>1. FieldFrom(text, l, b, j, x, y)
        BY <3>2, FieldHead
      <4> HIDE DEF x, y
      <4> QED
        BY <4>1 DEF FieldFrom
    <3> HIDE DEF x, y, e, fields
    <3> QED
      BY <3>2, <3>3 DEF j
  <2>8. e = m + 1
    <3>1. ~ (m + 1 \in m .. e - 1)
      BY <2>6, <2>7
    <3> HIDE DEF e
    <3> QED
      BY <1>1, <2>4, <2>7, <3>1
  <2>9. Len(fields) >= 5
    <3>1. Len(fields) = 4 => e = Len(b) + 1
      <4>1. Len(fields) = Cardinality(Places(b)) - 1
        BY <1>1, FieldsAre
      <4>2. Cardinality(Places(b)) \in Nat /\ c[Cardinality(Places(b))] = Len(b) + 1
        BY <1>1, CutsFacts
      <4>3. Len(fields) = 4 => Cardinality(Places(b)) = 5
        <5> DEFINE k == Len(fields)
                   d == Cardinality(Places(b))
        <5>1. d \in Nat /\ k = d - 1
          BY <4>1, <4>2
        <5> HIDE DEF k, d
        <5>2. k = 4 => d = 5
          BY <5>1
        <5> QED
          BY <5>2 DEF k, d
      <4> QED
        BY <4>2, <4>3
    <3>2. e # Len(b) + 1
      <4> HIDE DEF e
      <4> QED
        BY <1>1, <2>6, <2>8
    <3>3. Len(fields) >= 4
      BY <1>2, <2>5
    <3>4. Len(fields) # 4
      BY <3>1, <3>2
    <3> DEFINE k == Len(fields)
    <3>5. k \in Nat /\ k >= 4 /\ k # 4
      BY <1>2, <3>3, <3>4
    <3> HIDE DEF k
    <3>6. k >= 5
      BY <3>5
    <3> QED
      BY <3>6 DEF k
  <2>10. SubSeq(b, m, m) = <<b[m]>>
    <3>1. b \in Seq(STRING) /\ m \in 1 .. Len(b)
      BY <1>1, <2>4
    <3> QED
      BY <3>1, OnePiece
  <2>11. e - 1 = m
    BY <1>1, <2>4, <2>8
  <2> QED
    BY <2>2, <2>7, <2>9, <2>10, <2>11
<1>7. \A M \in l + 1 .. n - 1 : M \in Int
  BY <1>1
<1> QED
  BY <1>3, <1>4, <1>5, <1>6, <1>7

\* A piece of the line is a piece of the text.
PiecesFrom(text, l, b) ==
  \A x \in 1 .. Len(b) + 1, y \in 0 .. Len(b) :
    SubSeq(text, l + x, l + y) = SubSeq(b, x, y)

LEMMA Shifted ==
  ASSUME NEW text, NEW l, NEW b, LineIn(text, l, b)
  PROVE  PiecesFrom(text, l, b)
<1> SUFFICES ASSUME NEW x \in 1 .. Len(b) + 1, NEW y \in 0 .. Len(b)
             PROVE  SubSeq(text, l + x, l + y) = SubSeq(b, x, y)
  BY DEF PiecesFrom
<1> DEFINE s == SubSeq(text, l + x, l + y)
           r == SubSeq(b, x, y)
<1>1. /\ text \in Seq(STRING) /\ b \in Seq(STRING) /\ l \in Nat
      /\ Len(b) \in Nat /\ Len(text) = l + Len(b) + 1
      /\ \A i \in 1 .. Len(b) : text[l + i] = b[i]
  BY DEF LineIn
<1>2. /\ x \in Int /\ y \in Int /\ l + x \in Int /\ l + y \in Int
  BY <1>1
<1>3. \A i \in x .. y : i \in 1 .. Len(b) /\ b[i] \in STRING
  BY <1>1
<1>4. \A i \in l + x .. l + y : text[i] \in STRING
  <2>1. \A i \in l + x .. l + y : i \in 1 .. Len(text)
    BY <1>1
  <2> QED
    BY <1>1, <2>1
<1>5. /\ r \in Seq(STRING) /\ Len(r) = IF x <= y THEN y - x + 1 ELSE 0
      /\ \A i \in 1 .. y - x + 1 : r[i] = b[x + i - 1]
  BY <1>2, <1>3, SubSeqProperties
<1>6. /\ s \in Seq(STRING) /\ Len(s) = IF x <= y THEN y - x + 1 ELSE 0
      /\ \A i \in 1 .. y - x + 1 : s[i] = text[l + x + i - 1]
  <2> DEFINE u == l + x
             v == l + y
  <2>3. v - u = y - x /\ (u <= v <=> x <= y)
    BY <1>1, <1>2
  <2>1. u \in Int /\ v \in Int /\ \A i \in u .. v : text[i] \in STRING
    BY <1>2, <1>4
  <2> HIDE DEF u, v
  <2>2. /\ SubSeq(text, u, v) \in Seq(STRING)
        /\ Len(SubSeq(text, u, v)) = IF u <= v THEN v - u + 1 ELSE 0
        /\ \A i \in 1 .. v - u + 1 : SubSeq(text, u, v)[i] = text[u + i - 1]
    BY <2>1, SubSeqProperties
  <2>4. /\ SubSeq(text, u, v) \in Seq(STRING)
        /\ Len(SubSeq(text, u, v)) = IF x <= y THEN y - x + 1 ELSE 0
        /\ \A i \in 1 .. y - x + 1 : SubSeq(text, u, v)[i] = text[u + i - 1]
    BY <2>2, <2>3
  <2> QED
    BY <2>4 DEF u, v
<1> HIDE DEF s, r
<1>8. Len(s) = Len(r)
  BY <1>5, <1>6
<1>9. ASSUME NEW i \in 1 .. Len(r)
      PROVE  s[i] = r[i]
  <2>1. i \in 1 .. y - x + 1 /\ i \in Int /\ x <= y
    BY <1>2, <1>5
  <2>2. s[i] = text[l + x + i - 1] /\ r[i] = b[x + i - 1]
    BY <1>5, <1>6, <2>1
  <2>3. x + i - 1 \in 1 .. Len(b) /\ l + x + i - 1 = l + (x + i - 1)
    BY <1>1, <1>2, <2>1
  <2>4. text[l + (x + i - 1)] = b[x + i - 1]
    BY <1>1, <2>3
  <2> QED
    BY <2>2, <2>3, <2>4
<1>10. s = r
  BY <1>5, <1>6, <1>8, <1>9, SeqEqual
<1> QED
  BY <1>10 DEF s, r

LEMMA NotMarks ==
  \A key \in Keys : key # ":" /\ key # "\n"
<1>1. "callednr=" # ":" /\ "caller=" # ":" /\ "format=" # ":"
  OBVIOUS
<1>2. "callednr=" # "\n" /\ "caller=" # "\n" /\ "format=" # "\n"
  OBVIOUS
<1> QED
  BY <1>1, <1>2 DEF Keys

\* Before the line the reference finds what it found before it.
LEMMA PlacesBefore ==
  ASSUME NEW text, NEW l, NEW b, LineIn(text, l, b), NEW key
  PROVE  \A m : m \in ValuePlaces(text, l, key) <=>
                  m \in ValuePlaces(text, Len(text), key) /\ m <= l
<1>1. l \in Nat /\ Len(text) \in Nat /\ l <= Len(text)
  BY LineNumbers
<1>2. \A m : m \in 2 .. l <=> m \in 2 .. Len(text) /\ m <= l
  BY <1>1
<1> QED
  BY <1>2 DEF ValuePlaces

\* The fields of the line that have key, and where.
LEMMA PlaceField ==
  ASSUME NEW text, NEW l, NEW b, LineIn(text, l, b), NEW key \in Keys,
         NEW M \in Int, M \in ValuePlaces(text, Len(text), key), l < M
  PROVE  LET j == ColonsBefore(text, M) + 1
         IN  /\ j \in 3 .. Len(Fields(b)) /\ Sets(key, Fields(b)[j])
             /\ M = l + Cuts(b)[j] + 1
<1> DEFINE m == M - l
           n == Len(text)
           j == ColonsBefore(text, M) + 1
<1>1. /\ b \in Seq(STRING) /\ Len(b) \in Nat /\ l \in Nat /\ n \in Nat
      /\ n = l + Len(b) + 1 /\ text[n] = "\n"
      /\ \A i \in 1 .. Len(b) : text[l + i] = b[i]
  BY LineNumbers DEF LineIn
<1>2. /\ M \in 2 .. n /\ text[M] = key /\ text[M - 1] = ":"
      /\ ColonsBefore(text, M) >= 2
  BY DEF ValuePlaces
<1>3. M # n
  BY <1>1, <1>2, NotMarks
<1>4. m \in 1 .. Len(b) /\ l + m = M
  BY <1>1, <1>2, <1>3
<1>5. \A p \in 0 .. Len(b) : ColonsBefore(text, l + p + 1) = Rank(Places(b), p) - 1
  BY ColonsAre
<1> HIDE DEF m
<1>6. m # 1
  <2>1. 0 \in 0 .. Len(b) /\ 0 \in Places(b)
    BY <1>1, PlacesFinite
  <2>2. ColonsBefore(text, l + 0 + 1) = Rank(Places(b), 0) - 1
    BY <1>5, <2>1
  <2>3. l + 0 + 1 = l + 1
    BY <1>1
  <2>4. {q \in Places(b) : q <= 0} = {0}
    BY <1>1, <2>1, PlacesFinite
  <2>5. Rank(Places(b), 0) = 1
    BY <2>4, FS_Singleton DEF Rank
  <2>6. m = 1 => ColonsBefore(text, M) = 0
    BY <1>4, <2>2, <2>3, <2>5
  <2> QED
    BY <1>2, <2>6
<1>7. m \in 2 .. Len(b) /\ m - 1 \in 1 .. Len(b) /\ l + (m - 1) = M - 1
  BY <1>1, <1>4, <1>6
<1>8. b[m] = key /\ b[m - 1] = ":" /\ b[m] # ":"
  <2>1. text[l + m] = b[m] /\ text[l + (m - 1)] = b[m - 1]
    BY <1>1, <1>4, <1>7
  <2> QED
    BY <1>2, <1>4, <1>7, <2>1, NotMarks
<1>9. ColonsBefore(text, l + m) + 1 = j
  BY <1>4
<1>10. /\ j \in 2 .. Len(Fields(b)) /\ Cuts(b)[j] = m - 1
       /\ Fields(b)[j] # <<>> /\ Head(Fields(b)[j]) = b[m]
  BY <1>7, <1>8, <1>9, HeadField
<1>11. j >= 3
  <2> DEFINE k == ColonsBefore(text, M)
  <2>1. k + 1 \in 2 .. Len(Fields(b)) /\ k >= 2
    BY <1>2, <1>10
  <2>2. k \in Int
    <3> DEFINE p == m - 1
    <3>1. p \in 0 .. Len(b) /\ l + p + 1 = M /\ p \in Places(b)
      BY <1>1, <1>4, <1>7, <1>8 DEF Places, Colons
    <3> HIDE DEF p
    <3>2. k = Rank(Places(b), p) - 1
      BY <1>5, <3>1
    <3>3. Rank(Places(b), p) \in Int
      BY <1>1, <3>1, CutsFacts
    <3> QED
      BY <3>2, <3>3
  <2> HIDE DEF k
  <2>3. k + 1 >= 3
    BY <2>1, <2>2
  <2> QED
    BY <2>3 DEF k
<1>12. j \in 3 .. Len(Fields(b))
  <2> HIDE DEF j
  <2>1. Len(Fields(b)) \in Nat
    BY <1>1, FieldsType
  <2> QED
    BY <1>10, <1>11, <2>1
<1>13. M = l + Cuts(b)[j] + 1
  <2> HIDE DEF j
  <2> QED
    BY <1>1, <1>4, <1>7, <1>10
<1>14. Sets(key, Fields(b)[j])
  BY <1>8, <1>10 DEF Sets
<1> QED
  BY <1>12, <1>13, <1>14

LEMMA FieldPlace ==
  ASSUME NEW text, NEW l, NEW b, LineIn(text, l, b), NEW key \in Keys,
         NEW j \in 3 .. Len(Fields(b)), Sets(key, Fields(b)[j])
  PROVE  LET M == l + Cuts(b)[j] + 1
         IN  /\ M \in ValuePlaces(text, Len(text), key) /\ M \in Int /\ l < M
             /\ ValueAt(text, M) = Tail(Fields(b)[j])
<1> DEFINE m == Cuts(b)[j] + 1
           e == Cuts(b)[j + 1]
           n == Len(text)
           M == l + m
<1>1. /\ b \in Seq(STRING) /\ Len(b) \in Nat /\ l \in Nat /\ n \in Nat
      /\ n = l + Len(b) + 1 /\ text[n] = "\n" /\ text \in Seq(STRING)
      /\ \A i \in 1 .. Len(b) : text[l + i] = b[i] /\ b[i] # "\n"
  BY LineNumbers DEF LineIn
<1>2. j \in 2 .. Len(Fields(b)) /\ Fields(b)[j] # <<>> /\ j \in Int /\ j >= 3
  <2>1. Len(Fields(b)) \in Nat
    BY <1>1, FieldsType
  <2> QED
    BY <2>1 DEF Sets
<1>3. /\ m \in 2 .. Len(b) /\ e \in m + 1 .. Len(b) + 1
      /\ e \in Places(b)
      /\ b[m] = Head(Fields(b)[j]) /\ b[m - 1] = ":"
      /\ \A i \in m .. e - 1 : i \in 1 .. Len(b) /\ b[i] # ":"
      /\ Tail(Fields(b)[j]) = SubSeq(b, m + 1, e - 1)
      /\ ColonsBefore(text, l + m) = j - 1
  <2> HIDE DEF n, M
  <2>1. LineIn(text, l, b) /\ j \in 2 .. Len(Fields(b)) /\ Fields(b)[j] # <<>>
    BY <1>2
  <2>2. FieldFrom(text, l, b, j, m, e)
    BY <2>1, FieldHead
  <2> HIDE DEF m, e
  <2> QED
    BY <2>2 DEF FieldFrom
<1>4. b[m] = key
  BY <1>3 DEF Sets
<1>5. Cuts(b)[j] \in Int
  <2>1. j \in 1 .. Cardinality(Places(b))
    BY <1>1, <1>2, FieldsAre, CutsFacts
  <2> QED
    BY <1>1, <2>1, CutsFacts
<1>6. l + Cuts(b)[j] + 1 = M
  BY <1>1, <1>5
<1> HIDE DEF m, e
<1>7. M \in 2 .. n /\ M - 1 = l + (m - 1) /\ l < M /\ M \in Int
  BY <1>1, <1>3
<1>8. text[M] = key /\ text[M - 1] = ":"
  <2>1. m \in 1 .. Len(b) /\ m - 1 \in 1 .. Len(b)
    BY <1>1, <1>3
  <2>2. text[l + m] = b[m] /\ text[l + (m - 1)] = b[m - 1]
    BY <1>1, <2>1
  <2> QED
    BY <1>3, <1>4, <1>7, <2>2
<1>9. ColonsBefore(text, M) >= 2
  BY <1>2, <1>3
<1>10. M \in ValuePlaces(text, n, key)
  BY <1>7, <1>8, <1>9 DEF ValuePlaces
<1>11. ValueAt(text, M) = SubSeq(text, M + 1, (l + e) - 1)
  <2> DEFINE k == l + e
  <2>1. M \in 1 .. Len(text) /\ k \in M .. Len(text) /\ e \in Int
    BY <1>1, <1>3, <1>7
  <2>2. text[k] \in {":", "\n"}
    <3>1. e = Len(b) + 1 \/ (e \in 1 .. Len(b) /\ b[e] = ":")
      BY <1>1, <1>3 DEF Places, Colons
    <3>2. e = Len(b) + 1 => k = n
      BY <1>1
    <3> QED
      BY <1>1, <3>1, <3>2
  <2>3. \A i \in M .. k - 1 : text[i] \notin {":", "\n"}
    <3> SUFFICES ASSUME NEW i \in Int, M <= i, i <= k - 1
                 PROVE  text[i] \notin {":", "\n"}
      BY <2>1
    <3>1. i - l \in m .. e - 1 /\ l + (i - l) = i
      BY <1>1, <1>3, <2>1
    <3>2. i - l \in 1 .. Len(b) /\ b[i - l] # ":"
      BY <1>3, <3>1
    <3>3. text[l + (i - l)] = b[i - l] /\ b[i - l] # "\n"
      BY <1>1, <3>2
    <3> QED
      BY <3>1, <3>2, <3>3
  <2> HIDE DEF k, M
  <2>4. ValueAt(text, M) = SubSeq(text, M + 1, k - 1)
    BY <1>1, <2>1, <2>2, <2>3, ValueAtIs
  <2> QED
    BY <2>4 DEF k
<1>12. SubSeq(text, M + 1, (l + e) - 1) = SubSeq(b, m + 1, e - 1)
  <2> DEFINE x == m + 1
             y == e - 1
  <2>1. /\ x \in 1 .. Len(b) + 1 /\ y \in 0 .. Len(b)
        /\ M + 1 = l + x /\ (l + e) - 1 = l + y
    BY <1>1, <1>3
  <2> HIDE DEF x, y, M
  <2>2. SubSeq(text, l + x, l + y) = SubSeq(b, x, y)
    <3>1. \A u \in 1 .. Len(b) + 1, v \in 0 .. Len(b) :
            SubSeq(text, l + u, l + v) = SubSeq(b, u, v)
      <4>1. PiecesFrom(text, l, b)
        BY Shifted
      <4> QED
        BY <4>1 DEF PiecesFrom
    <3>2. x \in 1 .. Len(b) + 1 /\ y \in 0 .. Len(b)
      BY <2>1
    <3> QED
      BY <3>1, <3>2, Zenon
  <2> QED
    BY <2>1, <2>2 DEF x, y
<1> QED
  BY <1>3, <1>6, <1>7, <1>10, <1>11, <1>12

\* The parameters after the line are the values given last in the text.
LEMMA ParamsParsed ==
  ASSUME NEW text, NEW l, NEW b, LineIn(text, l, b), NEW key \in Keys,
         NEW old, old[key] = Value(text, l, key)
  PROVE  LET F    == Fields(b)
             args == SubSeq(F, 3, Len(F))
         IN  (IF Len(F) >= 3 THEN yate_message_parse_parameter(old, args)
              ELSE old)[key] = Value(text, Len(text), key)
<1> DEFINE F    == Fields(b)
           k    == Len(F)
           args == SubSeq(F, 3, k)
           at   == {i \in DOMAIN args : Sets(key, args[i])}
           n    == Len(text)
           V    == ValuePlaces(text, n, key)
           new  == IF k >= 3 THEN yate_message_parse_parameter(old, args) ELSE old
<1>1. /\ b \in Seq(STRING) /\ Len(b) \in Nat /\ l \in Nat /\ n \in Nat
      /\ text \in Seq(STRING) /\ l <= n
  BY LineNumbers DEF LineIn
<1>2. F \in Seq(Seq(STRING)) /\ k \in Nat
  BY <1>1, FieldsType
<1> HIDE DEF F
<1>3. ASSUME k >= 3
      PROVE  /\ DOMAIN args = 1 .. k - 2
             /\ \A i \in 1 .. k - 2 : args[i] = F[i + 2]
  <2>1. \A i \in 3 .. k : F[i] \in Seq(STRING)
    BY <1>2
  <2>2. /\ args \in Seq(Seq(STRING)) /\ Len(args) = IF 3 <= k THEN k - 3 + 1 ELSE 0
        /\ \A i \in 1 .. k - 3 + 1 : args[i] = F[3 + i - 1]
    <3> DEFINE z == k
    <3>1. 3 \in Int /\ z \in Int /\ \A i \in 3 .. z : F[i] \in Seq(STRING)
      BY <1>2, <2>1
    <3> HIDE DEF z
    <3>2. /\ SubSeq(F, 3, z) \in Seq(Seq(STRING))
          /\ Len(SubSeq(F, 3, z)) = IF 3 <= z THEN z - 3 + 1 ELSE 0
          /\ \A i \in 1 .. z - 3 + 1 : SubSeq(F, 3, z)[i] = F[3 + i - 1]
      BY <3>1, SubSeqProperties
    <3> QED
      BY <3>2 DEF z
  <2> HIDE DEF args, k
  <2>3. k - 3 + 1 = k - 2 /\ \A i \in 1 .. k - 2 : 3 + i - 1 = i + 2
    BY <1>2
  <2>4. Len(args) = k - 2
    BY <1>2, <1>3, <2>2, <2>3
  <2> QED
    BY <2>2, <2>3, <2>4
<1>4. new[key] = IF k >= 3 /\ at # {} THEN Tail(args[Max(at)]) ELSE old[key]
  BY DEF yate_message_parse_parameter
<1>9. k >= 3 => \A i : i \in at <=> i \in 1 .. k - 2 /\ Sets(key, F[i + 2])
  <2> HIDE DEF args, k
  <2> QED
    BY <1>3
<1> HIDE DEF at
<1>5. V \in SUBSET Int /\ V \in SUBSET (2 .. n)
  BY DEF ValuePlaces
<1>6. ASSUME NEW M \in V, l < M
      PROVE  \E j \in 3 .. k : Sets(key, F[j]) /\ M = l + Cuts(b)[j] + 1
  <2> DEFINE j == ColonsBefore(text, M) + 1
  <2>1. M \in Int /\ M \in ValuePlaces(text, Len(text), key) /\ l < M
    BY <1>5, <1>6
  <2>2. /\ j \in 3 .. Len(Fields(b)) /\ Sets(key, Fields(b)[j])
        /\ M = l + Cuts(b)[j] + 1
    BY <2>1, PlaceField
  <2> HIDE DEF j
  <2> QED
    BY <2>2 DEF F
<1>7. CASE \E j \in 3 .. k : Sets(key, F[j])
  <2>1. PICK i \in 3 .. k : Sets(key, F[i])
    BY <1>7
  <2>2. k >= 3
    BY <1>2
  <2>3. at # {} /\ at \in SUBSET (1 .. k - 2) /\ k - 2 \in Int /\ 1 \in Int
    <3>1. i - 2 \in 1 .. k - 2 /\ (i - 2) + 2 = i
      BY <1>2
    <3>2. i - 2 \in at
      BY <1>9, <2>1, <2>2, <3>1
    <3> HIDE DEF k
    <3>3. \A x \in at : x \in 1 .. k - 2
      BY <1>9, <2>2
    <3> QED
      BY <1>2, <3>2, <3>3
  <2> DEFINE a == Max(at)
             J == a + 2
             M == l + Cuts(b)[J] + 1
  <2>4. a \in at /\ \A x \in at : x <= a
    <3> DEFINE z == k - 2
    <3>2. at \in SUBSET (1 .. z) /\ z \in Int /\ 1 \in Int
      BY <2>3
    <3> HIDE DEF z
    <3>1. IsFiniteSet(at) /\ at \in SUBSET Int
      BY <3>2, FiniteInInterval
    <3> QED
      BY <2>3, <3>1, MaxIn
  <2>5. J \in 3 .. k /\ args[a] = F[J] /\ Sets(key, F[J]) /\ a \in Int
    <3> HIDE DEF a
    <3>1. a \in 1 .. k - 2 /\ Sets(key, F[a + 2])
      BY <1>9, <2>2, <2>4
    <3>2. args[a] = F[a + 2]
      BY <1>3, <2>2, <3>1
    <3> QED
      BY <1>2, <3>1, <3>2
  <2>6. \A j \in 3 .. k : Sets(key, F[j]) => j <= J
    <3> SUFFICES ASSUME NEW j \in 3 .. k, Sets(key, F[j])
                 PROVE  j <= J
      OBVIOUS
    <3>1. j - 2 \in 1 .. k - 2 /\ (j - 2) + 2 = j
      BY <1>2
    <3>2. j - 2 \in at
      BY <1>9, <2>2, <3>1
    <3>3. j - 2 <= a
      BY <2>4, <3>2
    <3> HIDE DEF a
    <3> QED
      BY <1>2, <2>5, <3>3
  <2> HIDE DEF J, a
  <2>7. /\ M \in V /\ M \in Int /\ l < M
        /\ ValueAt(text, M) = Tail(F[J])
    <3>1. J \in 3 .. Len(Fields(b)) /\ Sets(key, Fields(b)[J])
      BY <2>5 DEF F
    <3> QED
      BY <3>1, FieldPlace DEF F
  <2>8. \A y \in V : y <= M
    <3> SUFFICES ASSUME NEW y \in V, l < y
                 PROVE  y <= M
      BY <1>1, <1>5, <2>7
    <3>1. PICK j \in 3 .. k : Sets(key, F[j]) /\ y = l + Cuts(b)[j] + 1
      BY <1>6
    <3>2. j <= J
      BY <2>6, <3>1
    <3> DEFINE N == Cardinality(Places(b))
    <3>3. N \in Nat /\ k = N - 1
      BY <1>1, FieldsAre, CutsFacts DEF F
    <3> HIDE DEF N, k
    <3>4. j \in 1 .. N /\ J \in 1 .. N /\ (j = J \/ j < J)
      BY <2>5, <3>2, <3>3
    <3>5. /\ Cuts(b)[j] \in Int /\ Cuts(b)[J] \in Int
          /\ j < J => Cuts(b)[j] < Cuts(b)[J]
      BY <1>1, <3>4, CutsFacts DEF N
    <3>6. Cuts(b)[j] <= Cuts(b)[J]
      BY <3>4, <3>5
    <3> DEFINE u == Cuts(b)[j]
               v == Cuts(b)[J]
    <3>7. u \in Int /\ v \in Int /\ u <= v /\ y = l + u + 1
      BY <3>1, <3>5, <3>6
    <3> HIDE DEF u, v
    <3>8. y <= l + v + 1
      BY <1>1, <3>7
    <3> QED
      BY <3>8 DEF v
  <2> HIDE DEF M, V
  <2>9. Max(V) = M
    BY <1>5, <2>7, <2>8, MaxIs
  <2>10. Value(text, n, key) = ValueAt(text, M)
    BY <2>7, <2>9 DEF Value, V
  <2>11. new[key] = Tail(args[a])
    BY <1>4, <2>2, <2>3 DEF a
  <2> QED
    BY <2>5, <2>7, <2>10, <2>11 DEF F
<1>8. CASE ~ \E j \in 3 .. k : Sets(key, F[j])
  <2>1. k >= 3 => at = {}
    <3> SUFFICES ASSUME k >= 3, NEW i \in at
                 PROVE  FALSE
      OBVIOUS
    <3>1. i \in 1 .. k - 2 /\ Sets(key, F[i + 2])
      BY <1>9
    <3> HIDE DEF k
    <3>2. i + 2 \in 3 .. k
      BY <1>2, <3>1
    <3> QED
      BY <1>8, <3>1, <3>2
  <2>2. new[key] = old[key]
    BY <1>4, <2>1
  <2>3. \A M \in V : M <= l
    BY <1>1, <1>5, <1>6, <1>8
  <2>4. ValuePlaces(text, l, key) = V
    <3>1. \A m : m \in ValuePlaces(text, l, key) <=>
                  m \in ValuePlaces(text, Len(text), key) /\ m <= l
      BY PlacesBefore
    <3> QED
      BY <2>3, <3>1
  <2>5. Value(text, n, key) = Value(text, l, key)
    BY <2>4 DEF Value
  <2> QED
    BY <2>2, <2>5 DEF F
<1> QED
  BY <1>7, <1>8

-----------------------------------------------------------------------------
(* The text grows.                                                         *)

\* What the state of the parser says of the text that it has looked at.
Parsed(text, buf, prm, cls) ==
  Short(text) =>
    /\ \/ buf = SubSeq(text, LineFrom(text) + 1, Len(text))
       \/ Len(text) - LineFrom(text) >= STR_BUF_SIZE - 1
    /\ prm = [key \in Keys |-> Value(text, LineFrom(text), key)]
    /\ cls = Reference(text)

LEMMA ShortBefore ==
  ASSUME NEW s, NEW t, Begins(s, t), Short(t)
  PROVE  Short(s)
<1> SUFFICES ASSUME NEW n \in Ends(s)
             PROVE  n - LineStart(s, n) < STR_BUF_SIZE - 1
  BY DEF Short
<1>1. s \in Seq(STRING) /\ Len(s) \in Nat
  BY DEF Begins
<1>2. n \in 1 .. Len(s)
  BY <1>1, EndsFinite
<1>3. n \in 1 .. Len(s) + 1
  BY <1>1, <1>2
<1>4. n \in Ends(t) /\ LineStart(t, n) = LineStart(s, n)
  BY <1>2, <1>3, SameEnds, SameLine
<1>5. n - LineStart(t, n) < STR_BUF_SIZE - 1
  BY <1>4 DEF Short
<1> QED
  BY <1>4, <1>5

\* The calls are judged by the lines that start them.
LEMMA CallEnds ==
  ASSUME NEW text \in Seq(STRING)
  PROVE  LET ends == InOrder(CallLines(text))
         IN  \A c \in DOMAIN ends : ends[c] \in 0 .. Len(text) /\ ends[c] \in Ends(text)
<1> DEFINE S == CallLines(text)
<1>1. /\ S \in SUBSET Int /\ IsFiniteSet(S) /\ S \in SUBSET Ends(text)
      /\ Ends(text) \in SUBSET (1 .. Len(text))
  BY EndsFinite
<1> HIDE DEF S
<1>2. InOrder(S) \in Seq(S)
  BY <1>1, InOrderType
<1>3. \A c \in DOMAIN InOrder(S) : InOrder(S)[c] \in S
  BY <1>2
<1>4. \A x \in S : x \in 0 .. Len(text) /\ x \in Ends(text)
  BY <1>1
<1> QED
  BY <1>3, <1>4 DEF S

\* Without another end of line there is nothing new.
LEMMA NothingNew ==
  ASSUME NEW s, NEW t, Begins(s, t), \A n \in Ends(t) : n <= Len(s)
  PROVE  /\ LineFrom(t) = LineFrom(s) /\ Reference(t) = Reference(s)
         /\ \A key \in Keys : Value(t, LineFrom(t), key) = Value(s, LineFrom(s), key)
<1>1. s \in Seq(STRING) /\ t \in Seq(STRING) /\ Len(s) \in Nat /\ Len(t) \in Nat
  BY DEF Begins
<1>2. Ends(t) = Ends(s)
  <2>1. \A n \in Ends(t) : n \in 1 .. Len(s)
    BY <1>1, EndsFinite
  <2>2. \A n \in Ends(s) : n \in 1 .. Len(s)
    BY <1>1, EndsFinite
  <2>3. \A n \in 1 .. Len(s) : n \in Ends(s) <=> n \in Ends(t)
    BY SameEnds
  <2> QED
    BY <2>1, <2>2, <2>3
<1>3. LineFrom(t) = LineFrom(s)
  BY <1>2 DEF LineFrom
<1>4. LineFrom(s) \in 0 .. Len(s) /\ (LineFrom(s) = 0 \/ LineFrom(s) \in Ends(s))
  BY <1>1, LineFromType
<1>5. \A key \in Keys : Value(t, LineFrom(t), key) = Value(s, LineFrom(s), key)
  BY <1>3, <1>4, SameValue
<1>6. CallLines(t) = CallLines(s)
  <2>1. \A n \in CallLines(t) : n \in 1 .. Len(s)
    BY <1>1, <1>2, EndsFinite
  <2>2. \A n \in CallLines(s) : n \in 1 .. Len(s)
    BY <1>1, EndsFinite
  <2>3. \A n \in 1 .. Len(s) : n \in CallLines(s) <=> n \in CallLines(t)
    BY SameCalls
  <2> QED
    BY <2>1, <2>2, <2>3
<1> DEFINE ends == InOrder(CallLines(s))
<1>7. \A c \in DOMAIN ends : ends[c] \in 0 .. Len(s) /\ ends[c] \in Ends(s)
  BY <1>1, CallEnds
<1>8. /\ Reference(s) = [c \in DOMAIN ends |-> [key \in Keys |-> Value(s, ends[c], key)]]
      /\ Reference(t) = [c \in DOMAIN ends |-> [key \in Keys |-> Value(t, ends[c], key)]]
  BY <1>6 DEF Reference
<1> HIDE DEF ends
<1>9. ASSUME NEW c \in DOMAIN ends, NEW key \in Keys
      PROVE  Value(t, ends[c], key) = Value(s, ends[c], key)
  <2> DEFINE n == ends[c]
  <2>1. n \in 0 .. Len(s) /\ n \in Ends(s)
    BY <1>7
  <2> HIDE DEF n
  <2>2. Value(t, n, key) = Value(s, n, key)
    BY <2>1, SameValue
  <2> QED
    BY <2>2 DEF n
<1>10. Reference(t) = Reference(s)
  BY <1>8, <1>9
<1> QED
  BY <1>3, <1>5, <1>10

LEMMA JoinBegins ==
  ASSUME NEW s \in Seq(STRING), NEW c \in Seq(STRING)
  PROVE  /\ s \o c \in Seq(STRING) /\ Len(s \o c) = Len(s) + Len(c)
         /\ Begins(s, s \o c)
         /\ \A i \in 1 .. Len(c) : (s \o c)[Len(s) + i] = c[i]
<1>1. s \o c \in Seq(STRING) /\ Len(s \o c) = Len(s) + Len(c)
  BY ConcatProperties
<1>2. \A i \in 1 .. Len(s \o c) :
        (s \o c)[i] = IF i <= Len(s) THEN s[i] ELSE c[i - Len(s)]
  BY ConcatProperties
<1>3. Len(s) \in Nat /\ Len(c) \in Nat
  OBVIOUS
<1>4. \A i \in 1 .. Len(s) : (s \o c)[i] = s[i]
  <2>1. \A i \in 1 .. Len(s) : i \in 1 .. Len(s \o c) /\ i <= Len(s)
    BY <1>1, <1>3
  <2> QED
    BY <1>2, <2>1
<1>5. \A i \in 1 .. Len(c) : (s \o c)[Len(s) + i] = c[i]
  <2> SUFFICES ASSUME NEW i \in 1 .. Len(c)
               PROVE  (s \o c)[Len(s) + i] = c[i]
    OBVIOUS
  <2> DEFINE z == Len(s) + i
  <2>1. z \in 1 .. Len(s \o c) /\ ~ (z <= Len(s)) /\ z - Len(s) = i
    BY <1>1, <1>3
  <2> HIDE DEF z
  <2>2. (s \o c)[z] = c[z - Len(s)]
    BY <1>2, <2>1
  <2> QED
    BY <2>1, <2>2 DEF z
<1>6. Len(s) <= Len(s \o c)
  BY <1>1, <1>3
<1> QED
  BY <1>1, <1>4, <1>5, <1>6 DEF Begins

LEMMA AppendBegins ==
  ASSUME NEW s \in Seq(STRING), NEW x \in STRING
  PROVE  /\ Append(s, x) \in Seq(STRING) /\ Len(Append(s, x)) = Len(s) + 1
         /\ Begins(s, Append(s, x)) /\ Append(s, x)[Len(s) + 1] = x
<1> DEFINE u == Append(s, x)
<1>1. u \in Seq(STRING) /\ Len(u) = Len(s) + 1 /\ u[Len(s) + 1] = x
      /\ \A i \in 1 .. Len(s) : u[i] = s[i]
  <2>1. u \in Seq(STRING)
    BY AppendProperties
  <2>2. Len(u) = Len(s) + 1
    BY AppendProperties
  <2>3. u[Len(s) + 1] = x
    BY AppendProperties
  <2>4. \A i \in 1 .. Len(s) : u[i] = s[i]
    BY AppendProperties
  <2> QED
    BY <2>1, <2>2, <2>3, <2>4
<1> HIDE DEF u
<1>2. Len(s) <= Len(s) + 1
  OBVIOUS
<1>3. Begins(s, u)
  BY <1>1, <1>2 DEF Begins
<1> QED
  BY <1>1, <1>3 DEF u

\* TakeOctet: the line in the buffer grows with the text.
LEMMA OctetParsed ==
  ASSUME NEW text \in Seq(STRING), NEW x \in STRING, x # "\n", NEW buf \in Seq(STRING),
         NEW prm, NEW cls, Parsed(text, buf, prm, cls)
  PROVE  Parsed(Append(text, x), Append(buf, x), prm, cls)
<1> DEFINE t == Append(text, x)
           n == Len(text)
           l == LineFrom(text)
<1> SUFFICES ASSUME Short(t)
             PROVE  /\ \/ Append(buf, x) = SubSeq(t, LineFrom(t) + 1, Len(t))
                       \/ Len(t) - LineFrom(t) >= STR_BUF_SIZE - 1
                    /\ prm = [key \in Keys |-> Value(t, LineFrom(t), key)]
                    /\ cls = Reference(t)
  BY DEF Parsed
<1>1. t \in Seq(STRING) /\ Len(t) = n + 1 /\ Begins(text, t) /\ t[n + 1] = x /\ n \in Nat
  BY AppendBegins
<1>2. \A i \in 1 .. n : t[i] = text[i]
  BY <1>1 DEF Begins
<1> HIDE DEF t
<1>3. Short(text)
  BY <1>1, ShortBefore
<1>4. \A m \in Ends(t) : m <= Len(text)
  <2> SUFFICES ASSUME NEW m \in Ends(t)
               PROVE  m <= n
    OBVIOUS
  <2>1. m \in 1 .. n + 1 /\ t[m] = "\n"
    BY <1>1, EndsFinite DEF Ends
  <2>2. m # n + 1
    BY <1>1, <2>1
  <2> QED
    BY <1>1, <2>1, <2>2
<1>5. /\ LineFrom(t) = l /\ Reference(t) = Reference(text)
      /\ \A key \in Keys : Value(t, LineFrom(t), key) = Value(text, l, key)
  BY <1>1, <1>4, NothingNew
<1>6. l \in 0 .. n
  BY LineFromType
<1> HIDE DEF l, n
<1>7. /\ \/ buf = SubSeq(text, l + 1, n) \/ n - l >= STR_BUF_SIZE - 1
      /\ prm = [key \in Keys |-> Value(text, l, key)] /\ cls = Reference(text)
  BY <1>3 DEF Parsed, l, n
<1>8. CASE buf = SubSeq(text, l + 1, n)
  <2> DEFINE f == l + 1
             z == n + 1
             u == Append(buf, x)
             v == SubSeq(t, f, z)
  <2>1. f \in Int /\ z \in Int /\ n \in Int /\ 1 <= f /\ f <= z
    BY <1>1, <1>6
  <2>2. \A i \in f .. n : text[i] \in STRING
    BY <1>1, <2>1 DEF n
  <2>3. \A i \in f .. z : t[i] \in STRING
    BY <1>1, <2>1
  <2> HIDE DEF f, z
  <2>4. /\ Len(buf) = IF f <= n THEN n - f + 1 ELSE 0
        /\ \A i \in 1 .. n - f + 1 : buf[i] = text[f + i - 1]
    <3>1. buf = SubSeq(text, f, n)
      BY <1>8 DEF f
    <3> QED
      BY <2>1, <2>2, <3>1, SubSeqProperties
  <2>5. /\ v \in Seq(STRING) /\ Len(v) = IF f <= z THEN z - f + 1 ELSE 0
        /\ \A i \in 1 .. z - f + 1 : v[i] = t[f + i - 1]
    BY <2>1, <2>3, SubSeqProperties
  <2>6. u \in Seq(STRING) /\ Len(u) = Len(buf) + 1 /\ u[Len(buf) + 1] = x
        /\ \A i \in 1 .. Len(buf) : u[i] = buf[i]
    BY AppendProperties
  <2>7. z = n + 1
    BY DEF z
  <2> HIDE DEF u, v
  <2>8. Len(buf) = n - f + 1 /\ Len(u) = Len(v) /\ Len(v) = n - f + 2
    BY <2>1, <2>4, <2>5, <2>6, <2>7
  <2>9. ASSUME NEW i \in 1 .. Len(v)
        PROVE  u[i] = v[i]
    <3>1. i \in 1 .. z - f + 1 /\ i \in Int
      BY <2>1, <2>7, <2>8
    <3>2. v[i] = t[f + i - 1]
      BY <2>5, <3>1
    <3>3. CASE i = Len(buf) + 1
      <4>1. f + i - 1 = n + 1
        BY <2>1, <2>8, <3>3
      <4> QED
        BY <1>1, <2>6, <3>2, <3>3, <4>1 DEF n
    <3>4. CASE i # Len(buf) + 1
      <4>1. i \in 1 .. Len(buf) /\ i \in 1 .. n - f + 1 /\ f + i - 1 \in 1 .. n
        BY <2>1, <2>8, <3>1, <3>4
      <4>2. t[f + i - 1] = text[f + i - 1] /\ buf[i] = text[f + i - 1] /\ u[i] = buf[i]
        BY <1>2, <2>4, <2>6, <4>1
      <4> QED
        BY <3>2, <4>2
    <3> QED
      BY <3>3, <3>4
  <2>10. u = v
    BY <2>5, <2>6, <2>8, <2>9, SeqEqual
  <2>11. Append(buf, x) = SubSeq(t, LineFrom(t) + 1, Len(t))
    BY <1>1, <1>5, <2>10 DEF u, v, f, z, n
  <2> QED
    BY <1>5, <1>7, <2>11
<1>9. CASE n - l >= STR_BUF_SIZE - 1
  <2>1. Len(t) - LineFrom(t) >= STR_BUF_SIZE - 1
    BY <1>1, <1>5, <1>6, <1>9, MessageAssumption
  <2> QED
    BY <1>5, <1>7, <2>1
<1> QED
  BY <1>7, <1>8, <1>9

\* Of the ends behind n one is the first.
LEMMA FirstEnd ==
  ASSUME NEW text \in Seq(STRING), NEW n \in Nat, NEW m \in Ends(text), n < m
  PROVE  \E e \in Ends(text) : /\ n < e /\ e \in Nat \ {0}
                               /\ \A y \in Ends(text) : n < y => e <= y
<1> DEFINE S == {y \in Ends(text) : n < y}
<1>1. S \in SUBSET (1 .. Len(text)) /\ m \in S /\ 1 \in Int /\ Len(text) \in Int
  BY EndsFinite
<1>5. \A y : y \in S <=> y \in Ends(text) /\ n < y
  OBVIOUS
<1> HIDE DEF S
<1>2. IsFiniteSet(S) /\ S \in SUBSET Int
  BY <1>1, FiniteInInterval
<1>3. Cardinality(S) \in Nat /\ Cardinality(S) # 0
  BY <1>1, <1>2, FS_CardinalityType, FS_EmptySet
<1>4. PICK e \in S : Rank(S, e) = 1
  BY <1>2, <1>3, EveryRank
<1>6. \A y \in S : ~ (y < e)
  BY <1>2, <1>3, <1>4, RankGrows, RankType
<1>7. \A y \in S : e <= y
  BY <1>2, <1>6
<1> QED
  BY <1>1, <1>5, <1>7

\* DropRead: if the rest of the read ends the line, the line is too long.
LEMMA DropParsed ==
  ASSUME NEW text \in Seq(STRING), NEW c \in Seq(STRING), NEW buf \in Seq(STRING),
         Len(buf) = STR_BUF_SIZE - 1, NEW prm, NEW cls, Parsed(text, buf, prm, cls)
  PROVE  Parsed(text \o c, <<>>, prm, cls)
<1> DEFINE t == text \o c
           n == Len(text)
           l == LineFrom(text)
<1> SUFFICES ASSUME Short(t)
             PROVE  /\ Len(t) - LineFrom(t) >= STR_BUF_SIZE - 1
                    /\ prm = [key \in Keys |-> Value(t, LineFrom(t), key)]
                    /\ cls = Reference(t)
  BY DEF Parsed
<1>1. t \in Seq(STRING) /\ Len(t) = n + Len(c) /\ Begins(text, t) /\ n \in Nat /\ Len(c) \in Nat
  BY JoinBegins
<1> HIDE DEF t
<1>2. Short(text)
  BY <1>1, ShortBefore
<1>3. l \in 0 .. n
  BY LineFromType
<1>4. /\ \/ buf = SubSeq(text, l + 1, n) \/ n - l >= STR_BUF_SIZE - 1
      /\ prm = [key \in Keys |-> Value(text, l, key)] /\ cls = Reference(text)
  BY <1>2 DEF Parsed
<1>5. n - l >= STR_BUF_SIZE - 1
  <2> SUFFICES ASSUME buf = SubSeq(text, l + 1, n)
               PROVE  n - l >= STR_BUF_SIZE - 1
    BY <1>4
  <2> DEFINE f == l + 1
             k == n
  <2>1. f \in Int /\ k \in Int /\ 1 <= f /\ \A i \in f .. k : text[i] \in STRING
    <3>1. f \in Int /\ k \in Int /\ 1 <= f /\ k = Len(text)
      BY <1>1, <1>3
    <3> HIDE DEF f, k
    <3>2. \A i \in f .. k : i \in 1 .. Len(text)
      BY <3>1
    <3> QED
      BY <3>1, <3>2
  <2> HIDE DEF f, k
  <2>2. Len(SubSeq(text, f, k)) = IF f <= k THEN k - f + 1 ELSE 0
    BY <2>1, SubSeqProperties
  <2>3. STR_BUF_SIZE - 1 = IF f <= k THEN k - f + 1 ELSE 0
    BY <2>2 DEF f, k
  <2>4. STR_BUF_SIZE \in Int /\ STR_BUF_SIZE > 1
    BY MessageAssumption
  <2>5. STR_BUF_SIZE - 1 = k - f + 1
    BY <2>1, <2>3, <2>4
  <2> HIDE DEF l, n
  <2> QED
    BY <1>1, <1>3, <2>1, <2>4, <2>5 DEF f, k
<1>6. \A m \in Ends(t) : m <= Len(text)
  <2> SUFFICES ASSUME NEW m \in Ends(t), n < m
               PROVE  FALSE
    BY <1>1, EndsFinite
  <2>1. m \in 1 .. Len(t) /\ m \in Nat \ {0}
    BY <1>1, EndsFinite
  <2>2. PICK e \in Ends(t) : /\ n < e /\ e \in Nat \ {0}
                             /\ \A y \in Ends(t) : n < y => e <= y
    BY <1>1, <2>1, FirstEnd
  <2>3. LineStart(t, e) = l + 1
    <3>1. l = 0 \/ l \in Ends(t)
      <4>1. l = 0 \/ (l \in Ends(text) /\ l \in 1 .. n)
        BY LineFromType, EndsFinite
      <4> QED
        BY <1>1, <4>1, SameEnds
    <3>2. ASSUME NEW y \in Ends(t), y < e
          PROVE  y <= l
      <4>1. y \in 1 .. Len(t)
        BY <1>1, EndsFinite
      <4>2. ~ (n < y)
        BY <2>2, <3>2, <4>1
      <4>3. y \in 1 .. n
        BY <1>1, <4>1, <4>2
      <4>4. y \in Ends(text)
        BY <1>1, <4>3, SameEnds
      <4> QED
        BY <4>4, LineFromType
    <3>3. l \in Nat /\ e \in Nat /\ l < e
      BY <1>1, <1>3, <2>2
    <3> HIDE DEF l
    <3> QED
      BY <1>1, <3>1, <3>2, <3>3, LineStartIs
  <2>4. e - LineStart(t, e) < STR_BUF_SIZE - 1
    BY DEF Short
  <2>5. STR_BUF_SIZE \in Int
    BY MessageAssumption
  <2> HIDE DEF l, n
  <2> QED
    BY <1>1, <1>3, <1>5, <2>2, <2>3, <2>4, <2>5
<1>7. /\ LineFrom(t) = l /\ Reference(t) = Reference(text)
      /\ \A key \in Keys : Value(t, LineFrom(t), key) = Value(text, l, key)
  BY <1>1, <1>6, NothingNew
<1>8. Len(t) - LineFrom(t) >= STR_BUF_SIZE - 1
  <2>1. STR_BUF_SIZE \in Int
    BY MessageAssumption
  <2> HIDE DEF l, n
  <2> QED
    BY <1>1, <1>3, <1>5, <1>7, <2>1
<1> QED
  BY <1>4, <1>7, <1>8

\* A function of the elements, and one element more.
LEMMA MapAppend ==
  ASSUME NEW s \in Seq(Nat), NEW x \in Nat, NEW g,
         NEW m, m = [c \in DOMAIN s |-> g[s[c]]]
  PROVE  Append(m, g[x]) = [c \in DOMAIN Append(s, x) |-> g[Append(s, x)[c]]]
<1> DEFINE k == Len(s)
           u == Append(s, x)
           v == Append(m, g[x])
<1>1. k \in Nat /\ DOMAIN s = 1 .. k
  OBVIOUS
<1>2. /\ DOMAIN u = 1 .. k + 1 /\ u[k + 1] = x
      /\ \A c \in 1 .. k : u[c] = s[c]
  OBVIOUS
<1>3. Len(m) = k /\ \A c \in 1 .. k : m[c] = g[s[c]]
  <2> HIDE DEF k
  <2> QED
    BY <1>1
<1>4. v = [c \in 1 .. k + 1 |-> IF c = k + 1 THEN g[x] ELSE m[c]]
  BY <1>3
<1> HIDE DEF k, u, v
<1>5. \A c \in 1 .. k + 1 : (IF c = k + 1 THEN g[x] ELSE m[c]) = g[u[c]]
  <2> SUFFICES ASSUME NEW c \in 1 .. k + 1
               PROVE  (IF c = k + 1 THEN g[x] ELSE m[c]) = g[u[c]]
    OBVIOUS
  <2>1. c = k + 1 \/ c \in 1 .. k
    BY <1>1
  <2>2. c \in 1 .. k => c # k + 1
    BY <1>1
  <2> QED
    BY <1>2, <1>3, <2>1, <2>2
<1>6. v = [c \in DOMAIN u |-> g[u[c]]]
  BY <1>2, <1>4, <1>5
<1> QED
  BY <1>6 DEF u, v

LEMMA NoPiece ==
  ASSUME NEW text \in Seq(STRING)
  PROVE  SubSeq(text, Len(text) + 1, Len(text)) = <<>>
<1> DEFINE f == Len(text) + 1
           k == Len(text)
<1>1. f \in Int /\ k \in Int /\ ~ (f <= k) /\ \A i \in f .. k : text[i] \in STRING
  OBVIOUS
<1> HIDE DEF f, k
<1>2. SubSeq(text, f, k) \in Seq(STRING) /\ Len(SubSeq(text, f, k)) = 0
  BY <1>1, SubSeqProperties
<1>3. SubSeq(text, f, k) = <<>>
  BY <1>2
<1> QED
  BY <1>3 DEF f, k

\* A line that is not too long is in the buffer when its end comes.
LEMMA BufferLine ==
  ASSUME NEW text \in Seq(STRING), NEW buf \in Seq(STRING),
         NEW x \in STRING, x = "\n",
         buf = SubSeq(text, LineFrom(text) + 1, Len(text))
  PROVE  LineIn(Append(text, x), LineFrom(text), buf)
<1> DEFINE l == LineFrom(text)
           n == Len(text)
           t == Append(text, x)
           f == l + 1
<1>1. l \in 0 .. n /\ (l = 0 \/ l \in Ends(text)) /\ \A m \in Ends(text) : m <= l
  BY LineFromType
<1>3. t \in Seq(STRING) /\ Len(t) = n + 1 /\ Begins(text, t) /\ t[n + 1] = "\n" /\ n \in Nat
  BY AppendBegins
<1>4. \A i \in 1 .. n : t[i] = text[i]
  BY <1>3 DEF Begins
<1> HIDE DEF t, l
<1>5. f \in Int /\ 1 <= f /\ f <= n + 1 /\ n \in Int
  BY <1>1, <1>3
<1>6. \A i \in f .. n : text[i] \in STRING
  BY <1>5
<1> DEFINE k == n
<1>7. f \in Int /\ k \in Int /\ \A i \in f .. k : text[i] \in STRING
  BY <1>5, <1>6
<1> HIDE DEF k, f
<1>8. buf = SubSeq(text, f, k)
  BY DEF f, k, l
<1>9. /\ Len(buf) = IF f <= k THEN k - f + 1 ELSE 0
      /\ \A i \in 1 .. k - f + 1 : buf[i] = text[f + i - 1]
  <2>1. /\ Len(SubSeq(text, f, k)) = IF f <= k THEN k - f + 1 ELSE 0
        /\ \A i \in 1 .. k - f + 1 : SubSeq(text, f, k)[i] = text[f + i - 1]
    BY <1>7, SubSeqProperties
  <2> QED
    BY <1>8, <2>1
<1>10. Len(buf) = n - l
  BY <1>1, <1>3, <1>5, <1>9 DEF k, f
<1>11. ASSUME NEW i \in 1 .. Len(buf)
       PROVE  t[l + i] = buf[i] /\ buf[i] # "\n"
  <2>1. /\ i \in 1 .. k - f + 1 /\ f + i - 1 = l + i /\ l + i \in 1 .. n /\ l < l + i
    BY <1>1, <1>3, <1>10 DEF k, f
  <2>2. buf[i] = text[l + i] /\ t[l + i] = text[l + i]
    BY <1>4, <1>9, <2>1
  <2>3. l + i \notin Ends(text)
    BY <1>1, <1>3, <2>1
  <2>4. text[l + i] # "\n"
    BY <2>1, <2>3 DEF Ends
  <2> QED
    BY <2>2, <2>4
<1>12. l = 0 \/ l \in Ends(t)
  <2>1. l = 0 \/ (l \in Ends(text) /\ l \in 1 .. n)
    BY <1>1, EndsFinite
  <2> QED
    BY <1>3, <2>1, SameEnds
<1>13. Len(t) = l + Len(buf) + 1 /\ t[Len(t)] = "\n" /\ l \in Nat
  BY <1>1, <1>3, <1>10
<1>14. LineIn(t, l, buf)
  BY <1>3, <1>11, <1>12, <1>13 DEF LineIn
<1> QED
  BY <1>14 DEF t, l

\* TakeLine.
LEMMA LineParsed ==
  ASSUME NEW text \in Seq(STRING), NEW buf \in Seq(STRING), NEW cls,
         NEW x \in STRING, x = "\n", Parsed(text, buf, params, cls)
  PROVE  LET r == yate_message_parse_incoming(buf)
         IN  Parsed(Append(text, x), <<>>, r.params,
                    IF r.call THEN Append(cls, r.params) ELSE cls)
<1> DEFINE t == Append(text, x)
           l == LineFrom(text)
           n == Len(text)
           N == n + 1
           r == yate_message_parse_incoming(buf)
           new == IF r.call THEN Append(cls, r.params) ELSE cls
<1> SUFFICES ASSUME Short(t)
             PROVE  /\ <<>> = SubSeq(t, LineFrom(t) + 1, Len(t))
                    /\ r.params = [key \in Keys |-> Value(t, LineFrom(t), key)]
                    /\ new = Reference(t)
  BY DEF Parsed
<1>2. t \in Seq(STRING) /\ Len(t) = N /\ Begins(text, t) /\ t[N] = "\n" /\ n \in Nat
  BY AppendBegins
<1>3. /\ l \in 0 .. n /\ (l = 0 \/ l \in Ends(text))
      /\ \A m \in Ends(text) : m <= l
  BY LineFromType
<1>4. Short(text)
  BY <1>2, ShortBefore
<1>5. N \in Ends(t) /\ N \in Nat \ {0} /\ l < N /\ l \in Nat /\ N \in Nat
  BY <1>2, <1>3 DEF Ends
<1>6. l = 0 \/ l \in Ends(t)
  <2>1. l = 0 \/ (l \in Ends(text) /\ l \in 1 .. n)
    BY <1>3, EndsFinite
  <2> QED
    BY <1>2, <2>1, SameEnds
<1>7. \A m \in Ends(t) : m \in 1 .. N /\ (m < N => m <= l)
  <2> SUFFICES ASSUME NEW m \in Ends(t)
               PROVE  m \in 1 .. N /\ (m < N => m <= l)
    OBVIOUS
  <2>1. m \in 1 .. N
    BY <1>2, EndsFinite
  <2>2. m < N => m \in 1 .. Len(text)
    BY <1>2, <2>1
  <2>3. m < N => m \in Ends(text)
    <3>1. \A i \in 1 .. Len(text) : i \in Ends(text) <=> i \in Ends(t)
      BY <1>2, SameEnds
    <3> QED
      BY <2>2, <3>1
  <2> QED
    BY <1>3, <2>1, <2>3
<1> HIDE DEF t, l
<1>8. LineStart(t, N) = l + 1
  <2> HIDE DEF N, n
  <2> QED
    BY <1>2, <1>5, <1>6, <1>7, LineStartIs
<1>9. buf = SubSeq(text, l + 1, n)
  <2>1. N - LineStart(t, N) < STR_BUF_SIZE - 1
    BY <1>5 DEF Short
  <2>2. STR_BUF_SIZE \in Int
    BY MessageAssumption
  <2>3. ~ (n - l >= STR_BUF_SIZE - 1)
    BY <1>2, <1>3, <1>8, <2>1, <2>2
  <2>4. buf = SubSeq(text, l + 1, n) \/ n - l >= STR_BUF_SIZE - 1
    BY <1>4 DEF Parsed, l
  <2> QED
    BY <2>3, <2>4
<1>10. /\ params = [key \in Keys |-> Value(text, l, key)] /\ cls = Reference(text)
  BY <1>4 DEF Parsed, l
<1>11. LineIn(t, l, buf)
  BY <1>9, BufferLine DEF t, l
<1>12. LineFrom(t) = N
  <2>1. \A m \in Ends(t) : m <= N
    BY <1>2, <1>7
  <2> HIDE DEF N
  <2> QED
    BY <1>2, <1>5, <2>1, LineFromIs
<1>13. <<>> = SubSeq(t, LineFrom(t) + 1, Len(t))
  BY <1>2, <1>12, NoPiece
<1>14. r.params = [key \in Keys |-> Value(t, N, key)]
  <2> DEFINE F    == Fields(buf)
             args == SubSeq(F, 3, Len(F))
             p    == IF Len(F) >= 3 THEN yate_message_parse_parameter(params, args)
                     ELSE params
  <2>1. r.params = p
    BY DEF yate_message_parse_incoming
  <2>2. p = [key \in Keys |-> p[key]]
    BY <1>10 DEF yate_message_parse_parameter
  <2>3. ASSUME NEW key \in Keys
        PROVE  p[key] = Value(t, N, key)
    <3>1. l \in 0 .. Len(text)
      BY <1>3
    <3>2. Value(t, l, key) = Value(text, l, key)
      BY <1>2, <1>3, <3>1, SameValue
    <3>3. params[key] = Value(t, l, key)
      BY <1>10, <3>2
    <3>4. p[key] = Value(t, Len(t), key)
      BY <1>11, <3>3, ParamsParsed
    <3> QED
      BY <1>2, <3>4
  <2> HIDE DEF p
  <2> QED
    BY <2>1, <2>2, <2>3
<1>15. r.call <=> N \in CallLines(t)
  <2>1. r.call <=> Len(t) \in CallLines(t)
    BY <1>11, CallParsed
  <2> QED
    BY <1>2, <2>1
<1>16. new = Reference(t)
  <2> DEFINE S == CallLines(text)
             ends == InOrder(S)
  <2>1. /\ S \in SUBSET Int /\ IsFiniteSet(S) /\ N \in Int
        /\ \A y \in S : y \in 1 .. n /\ y < N
    BY <1>2, <1>5, EndsFinite
  <2>2. /\ ends \in Seq(S) /\ InOrder(S \cup {N}) = Append(ends, N)
    <3> HIDE DEF N, S
    <3> QED
      BY <2>1, InOrderMore
  <2>3. CallLines(t) = IF r.call THEN S \cup {N} ELSE S
    <3>1. \A y \in 1 .. Len(text) : y \in CallLines(text) <=> y \in CallLines(t)
      BY <1>2, SameCalls
    <3>2. \A y \in CallLines(t) : y \in 1 .. n \/ y = N
      <4>1. \A y \in CallLines(t) : y \in 1 .. N
        BY <1>2, EndsFinite
      <4> QED
        BY <1>2, <4>1
    <3>3. N \notin S
      BY <1>2, <2>1
    <3>4. \A y \in S : y \in 1 .. Len(text)
      BY <2>1
    <3>5. \A y \in 1 .. Len(text) : y \in S <=> y \in CallLines(t)
      BY <3>1
    <3> HIDE DEF N, r, n, S
    <3>6. \A y : y \in CallLines(t) <=> y \in S \/ (r.call /\ y = N)
      BY <1>15, <3>2, <3>3, <3>4, <3>5 DEF n
    <3> QED
      BY <3>6
  <2>4. \A c \in DOMAIN ends : ends[c] \in 0 .. Len(text) /\ ends[c] \in Ends(text)
    BY CallEnds
  <2>5. cls = [c \in DOMAIN ends |-> [key \in Keys |-> Value(text, ends[c], key)]]
    BY <1>10 DEF Reference
  <2> HIDE DEF S, ends
  <2>6. ASSUME NEW c \in DOMAIN ends, NEW key \in Keys
        PROVE  Value(t, ends[c], key) = Value(text, ends[c], key)
    <3> DEFINE e == ends[c]
    <3>1. e \in 0 .. Len(text) /\ e \in Ends(text)
      BY <2>4
    <3> HIDE DEF e
    <3>2. Value(t, e, key) = Value(text, e, key)
      BY <1>2, <3>1, SameValue
    <3> QED
      BY <3>2 DEF e
  <2>7. cls = [c \in DOMAIN ends |-> [key \in Keys |-> Value(t, ends[c], key)]]
    BY <2>5, <2>6
  <2>8. CASE ~ r.call
    <3>1. Reference(t) = [c \in DOMAIN ends |-> [key \in Keys |-> Value(t, ends[c], key)]]
      BY <2>3, <2>8 DEF Reference, ends
    <3> QED
      BY <2>7, <2>8, <3>1
  <2>9. CASE r.call
    <3> DEFINE more == Append(ends, N)
               at   == [e \in Nat |-> [key \in Keys |-> Value(t, e, key)]]
    <3>1. /\ more \in Seq(Nat) /\ ends \in Seq(Nat)
          /\ \A c \in DOMAIN ends : ends[c] \in Nat
          /\ \A c \in DOMAIN more : more[c] \in Nat
      <4>1. ends \in Seq(Nat)
        <5> DEFINE k == Cardinality(S)
        <5>1. ends \in [1 .. k -> S] /\ k \in Nat
          BY <2>1, InOrderType DEF ends
        <5>2. \A y \in S : y \in Nat
          BY <2>1
        <5> HIDE DEF k
        <5>3. ends \in [1 .. k -> Nat]
          BY <5>1, <5>2
        <5> QED
          BY <5>1, <5>3
      <4>2. more \in Seq(Nat)
        BY <1>5, <4>1
      <4> HIDE DEF more
      <4> QED
        BY <4>1, <4>2
    <3>2. Reference(t) = [c \in DOMAIN more |-> at[more[c]]]
      <4>1. Reference(t) = [c \in DOMAIN more |-> [key \in Keys |-> Value(t, more[c], key)]]
        BY <2>2, <2>3, <2>9 DEF Reference, ends
      <4> QED
        BY <3>1, <4>1
    <3>3. cls = [c \in DOMAIN ends |-> at[ends[c]]]
      BY <2>7, <3>1
    <3>4. r.params = at[N]
      BY <1>5, <1>14
    <3> HIDE DEF at, N
    <3>5. Append(cls, at[N]) = [c \in DOMAIN more |-> at[more[c]]]
      BY <1>5, <3>1, <3>3, MapAppend
    <3> QED
      BY <2>9, <3>2, <3>4, <3>5
  <2> QED
    BY <2>8, <2>9
<1> QED
  BY <1>12, <1>13, <1>14, <1>16

-----------------------------------------------------------------------------
(* The specification: the text is what was read without what is in chunk.  *)

LEMMA TextIs ==
  ASSUME NEW s \in Seq(STRING), NEW c \in Seq(STRING)
  PROVE  SubSeq(s \o c, 1, Len(s \o c) - Len(c)) = s
<1> DEFINE t == s \o c
           k == Len(t) - Len(c)
           u == SubSeq(t, 1, k)
<1>1. t \in Seq(STRING) /\ Len(t) = Len(s) + Len(c) /\ Begins(s, t)
  BY JoinBegins
<1> HIDE DEF t
<1>2. k \in Int /\ k = Len(s) /\ Len(s) \in Nat
  BY <1>1
<1>3. \A i \in 1 .. Len(s) : t[i] = s[i]
  BY <1>1 DEF Begins
<1> HIDE DEF k
<1>4. \A i \in 1 .. k : t[i] \in STRING
  BY <1>2, <1>3
<1>5. /\ u \in Seq(STRING) /\ Len(u) = IF 1 <= k THEN k - 1 + 1 ELSE 0
      /\ \A i \in 1 .. k - 1 + 1 : u[i] = t[1 + i - 1]
  BY <1>2, <1>4, SubSeqProperties
<1> HIDE DEF u
<1>6. Len(u) = Len(s)
  BY <1>2, <1>5
<1>7. ASSUME NEW i \in 1 .. Len(s)
      PROVE  u[i] = s[i]
  <2>1. i \in 1 .. k - 1 + 1 /\ 1 + i - 1 = i
    BY <1>2
  <2> QED
    BY <1>3, <1>5, <2>1
<1>8. u = s
  BY <1>5, <1>6, <1>7, SeqEqual
<1> QED
  BY <1>8 DEF u, k, t

\* The next octet passes from chunk to the text.
LEMMA HeadMoves ==
  ASSUME NEW s \in Seq(STRING), NEW c \in Seq(STRING), c # <<>>
  PROVE  s \o c = Append(s, Head(c)) \o Tail(c)
<1> DEFINE h == Head(c)
           d == Tail(c)
           a == Append(s, h)
           u == s \o c
           v == a \o d
<1>1. /\ h \in STRING /\ d \in Seq(STRING) /\ h = c[1] /\ Len(c) \in Nat /\ Len(c) >= 1
      /\ Len(d) = Len(c) - 1 /\ \A i \in 1 .. Len(d) : d[i] = c[i + 1]
  BY HeadTailProperties
<1> HIDE DEF h, d
<1>2. a \in Seq(STRING) /\ Len(a) = Len(s) + 1 /\ Begins(s, a) /\ a[Len(s) + 1] = h
  BY <1>1, AppendBegins
<1> HIDE DEF a
<1>3. /\ u \in Seq(STRING) /\ Len(u) = Len(s) + Len(c) /\ Begins(s, u)
      /\ \A i \in 1 .. Len(c) : u[Len(s) + i] = c[i]
  BY JoinBegins
<1>4. /\ v \in Seq(STRING) /\ Len(v) = Len(a) + Len(d) /\ Begins(a, v)
      /\ \A i \in 1 .. Len(d) : v[Len(a) + i] = d[i]
  BY <1>1, <1>2, JoinBegins
<1> HIDE DEF u, v
<1>5. Len(u) = Len(v) /\ Len(s) \in Nat
  BY <1>1, <1>2, <1>3, <1>4
<1>6. ASSUME NEW i \in 1 .. Len(v)
      PROVE  u[i] = v[i]
  <2>1. i \in Nat /\ 1 <= i /\ i <= Len(s) + Len(c)
    BY <1>1, <1>3, <1>5
  <2>2. CASE i <= Len(s)
    <3>1. i \in 1 .. Len(s) /\ i \in 1 .. Len(a)
      BY <1>2, <1>5, <2>1, <2>2
    <3> QED
      BY <1>2, <1>3, <1>4, <3>1 DEF Begins
  <2>3. CASE i = Len(s) + 1
    <3>1. i \in 1 .. Len(a) /\ 1 \in 1 .. Len(c) /\ i = Len(s) + 1
      BY <1>1, <1>2, <1>5, <2>3
    <3>2. v[i] = a[i]
      BY <1>4, <3>1 DEF Begins
    <3> QED
      BY <1>1, <1>2, <1>3, <3>1, <3>2
  <2>4. CASE i > Len(s) + 1
    <3> DEFINE j == i - (Len(s) + 1)
    <3>1. /\ j \in 1 .. Len(d) /\ j + 1 \in 1 .. Len(c)
          /\ Len(a) + j = i /\ Len(s) + (j + 1) = i
      BY <1>1, <1>2, <1>5, <2>1, <2>4
    <3> HIDE DEF j
    <3>2. u[Len(s) + (j + 1)] = c[j + 1] /\ v[Len(a) + j] = d[j] /\ d[j] = c[j + 1]
      BY <1>1, <1>3, <1>4, <3>1
    <3> QED
      BY <3>1, <3>2
  <2> QED
    BY <1>5, <2>1, <2>2, <2>3, <2>4
<1>7. u = v
  BY <1>3, <1>4, <1>5, <1>6, SeqEqual
<1> QED
  BY <1>7 DEF u, v, a, h, d

\* The inductive invariant for CallsAsSent.  A line that does not fit is
\* forgotten, and with it what the text would have to say.
ParsedInv ==
  /\ Text \in Seq(STRING) /\ seen = Text \o chunk
  /\ Parsed(Text, msg_buf, params, calls)

LEMMA Becomes ==
  ASSUME NEW s \in Seq(STRING), chunk' \in Seq(STRING), seen' = s \o chunk',
         Parsed(s, msg_buf', params', calls')
  PROVE  ParsedInv'
<1>1. Text' = s
  BY TextIs DEF Text
<1>2. Parsed(s, msg_buf', params', calls') <=> Parsed(Text, msg_buf, params, calls)'
  BY <1>1
<1> QED
  BY <1>1, <1>2 DEF ParsedInv

LEMMA ParsedInit == Init => ParsedInv
<1> SUFFICES ASSUME Init PROVE ParsedInv
  OBVIOUS
<1>1. /\ seen = <<>> /\ chunk = <<>> /\ msg_buf = <<>> /\ calls = <<>>
      /\ params = [key \in Keys |-> <<>>]
  BY DEF Init, MessageInit
<1> DEFINE e == <<>>
<1>2. e \in Seq(STRING) /\ Len(e) = 0 /\ e \o e = e
  OBVIOUS
<1>3. Text = e
  BY <1>1, <1>2, TextIs DEF Text
<1>4. Ends(e) = {} /\ CallLines(e) = {}
  BY DEF Ends, CallLines
<1>5. LineFrom(e) = 0
  BY <1>2, <1>4, LineFromIs
<1>6. \A key \in Keys : Value(e, 0, key) = e
  BY DEF Value, ValuePlaces
<1>7. SubSeq(e, LineFrom(e) + 1, Len(e)) = e
  BY <1>2, <1>5, NoPiece
<1>8. Reference(e) = e
  <2>1. Cardinality({}) = 0
    BY FS_EmptySet
  <2>2. DOMAIN InOrder({}) = 1 .. 0
    BY <2>1 DEF InOrder
  <2> DEFINE g == Reference(e)
  <2>6. g = [c \in 1 .. 0 |->
               [key \in Keys |-> Value(e, InOrder({})[c], key)]]
    BY <1>4, <2>2 DEF Reference
  <2>7. \A c \in 1 .. 0 : FALSE
    OBVIOUS
  <2> HIDE DEF g
  <2>3. g \in [1 .. 0 -> {}]
    BY <2>6, <2>7
  <2> HIDE DEF g
  <2>4. g \in Seq({}) /\ Len(g) = 0
    BY <2>3
  <2>5. g = <<>>
    BY <2>4
  <2> QED
    BY <2>5 DEF g
<1>9. Parsed(e, msg_buf, params, calls)
  BY <1>1, <1>5, <1>6, <1>7, <1>8 DEF Parsed
<1> QED
  BY <1>1, <1>2, <1>3, <1>9 DEF ParsedInv

LEMMA ParsedNext == IInv /\ ParsedInv /\ [Next]_vars => ParsedInv'
<1> SUFFICES ASSUME MessageIInv, MessageIInv', ParsedInv, [Next]_vars
             PROVE  ParsedInv'
  BY NextIInv DEF IInv
<1>1. /\ chunk \in Seq(STRING) /\ chunk' \in Seq(STRING) /\ msg_buf \in Seq(STRING)
      /\ Text \in Seq(STRING) /\ seen = Text \o chunk
      /\ Parsed(Text, msg_buf, params, calls)
  BY DEF MessageIInv, MessageTypeOK, ParsedInv
<1> DEFINE s == Text
<1>2. /\ s \in Seq(STRING) /\ seen = s \o chunk /\ Parsed(s, msg_buf, params, calls)
  BY <1>1
<1> HIDE DEF s
<1>3. CASE UNCHANGED <<seen, chunk, msg_buf, params, calls>>
  BY <1>1, <1>2, <1>3, Becomes
<1>4. CASE Waiting /\ ReadStdin
  <2>1. chunk = <<>> /\ seen' = seen \o chunk' /\ UNCHANGED <<msg_buf, params, calls>>
    BY <1>4 DEF Waiting, ReadStdin
  <2>2. seen = s
    BY <1>2, <2>1
  <2> QED
    BY <1>1, <1>2, <2>1, <2>2, Becomes
<1>5. CASE TakeOctet
  <2>1. /\ chunk # <<>> /\ Head(chunk) # "\n" /\ chunk' = Tail(chunk)
        /\ msg_buf' = Append(msg_buf, Head(chunk)) /\ UNCHANGED <<seen, params, calls>>
    BY <1>5 DEF TakeOctet
  <2> DEFINE x == Head(chunk)
             t == Append(s, x)
  <2>2. x \in STRING
    BY <1>1, <2>1, HeadTailProperties
  <2>3. seen' = t \o chunk'
    BY <1>1, <1>2, <2>1, HeadMoves
  <2>4. x # "\n" /\ msg_buf' = Append(msg_buf, x) /\ params' = params /\ calls' = calls
    BY <2>1
  <2> HIDE DEF x
  <2>5. t \in Seq(STRING)
    BY <1>2, <2>2, AppendBegins
  <2>6. Parsed(t, msg_buf', params', calls')
    BY <1>1, <1>2, <2>2, <2>4, OctetParsed
  <2> HIDE DEF t
  <2> QED
    BY <1>1, <2>3, <2>5, <2>6, Becomes
<1>6. CASE TakeLine
  <2> DEFINE r == yate_message_parse_incoming(msg_buf)
             x == Head(chunk)
             t == Append(s, x)
  <2>1. /\ chunk # <<>> /\ x = "\n" /\ chunk' = Tail(chunk)
        /\ msg_buf' = <<>> /\ params' = r.params
        /\ calls' = (IF r.call THEN Append(calls, r.params) ELSE calls)
        /\ seen' = seen
    BY <1>6 DEF TakeLine
  <2>2. x \in STRING
    BY <1>1, <2>1, HeadTailProperties
  <2>3. seen' = t \o chunk'
    BY <1>1, <1>2, <2>1, HeadMoves
  <2> HIDE DEF x
  <2>4. t \in Seq(STRING)
    BY <1>2, <2>2, AppendBegins
  <2>5. Parsed(t, <<>>, r.params, IF r.call THEN Append(calls, r.params) ELSE calls)
    BY <1>1, <1>2, <2>1, <2>2, LineParsed
  <2> HIDE DEF r, t
  <2>6. Parsed(t, msg_buf', params', calls')
    BY <2>1, <2>5
  <2> QED
    BY <1>1, <2>3, <2>4, <2>6, Becomes
<1>7. CASE DropRead
  <2>1. /\ Len(msg_buf) = STR_BUF_SIZE - 1 /\ chunk' = <<>> /\ msg_buf' = <<>>
        /\ UNCHANGED <<seen, params, calls>>
    BY <1>7 DEF DropRead, Overflow
  <2> DEFINE t == s \o chunk
  <2>2. t \in Seq(STRING) /\ Parsed(t, msg_buf', params', calls')
    BY <1>1, <1>2, <2>1, DropParsed, JoinBegins
  <2>3. seen' = t
    BY <1>2, <2>1
  <2> HIDE DEF t
  <2>4. seen' = t \o chunk'
    BY <2>1, <2>2, <2>3
  <2> QED
    BY <1>1, <2>2, <2>4, Becomes
<1>8. \/ UNCHANGED <<seen, chunk, msg_buf, params, calls>>
      \/ (Waiting /\ ReadStdin) \/ TakeOctet \/ TakeLine \/ DropRead
  <2>1. UNCHANGED msgVars => UNCHANGED <<seen, chunk, msg_buf, params, calls>>
    BY DEF msgVars
  <2>2. UNCHANGED vars => UNCHANGED msgVars
    BY DEF vars
  <2>3. Reading => (Waiting /\ ReadStdin) \/ UNCHANGED <<seen, chunk, msg_buf, params, calls>>
    BY DEF Reading, StdinEnds
  <2>4. (Scanning => DropRead \/ TakeOctet) /\ (Message => TakeLine)
    BY DEF Scanning, Message
  <2>5. InCallback => DropRead \/ TakeOctet \/ TakeLine \/ UNCHANGED msgVars
    BY <2>4 DEF InCallback, WriteOn, WriteToClosed
  <2>6. Serving => UNCHANGED msgVars
    BY DEF Serving, telnet_rx_cb, telnet_rx_eof, AfterSelect, force_exit_cb
  <2>7. minimodem_rx_cb \/ handle_sample_buffer => UNCHANGED msgVars
    BY DEF minimodem_rx_cb, handle_sample_buffer
  <2>8. Minimodems => UNCHANGED msgVars
    BY DEF Minimodems, TxTakes, TxSounds, RxHears, RxWrites
  <2>9. PeerSends \/ PeerReads \/ PeerCloses => UNCHANGED msgVars
    BY DEF PeerSends, PeerReads, PeerCloses
  <2> QED
    BY <2>1, <2>2, <2>3, <2>5, <2>6, <2>7, <2>8, <2>9 DEF Next, Process
<1> QED
  BY <1>3, <1>4, <1>5, <1>6, <1>7, <1>8

\* call_initialize is called for the lines that start a call, in their order,
\* with the numbers given last before their end, for every text of Yate that
\* has no line longer than the buffer, and however read cuts it into pieces.
THEOREM CallsArrive == Spec => []CallsAsSent
<1>1. ParsedInv => CallsAsSent
  <2> SUFFICES ASSUME ParsedInv, Short(Text)
               PROVE  calls = Reference(Text)
    BY DEF CallsAsSent, Text, Short, Reference, Value
  <2> QED
    BY DEF ParsedInv, Parsed
<1> QED
  BY <1>1, InitIInv, NextIInv, ParsedInit, ParsedNext, PTL DEF Spec
=============================================================================
