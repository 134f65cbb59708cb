---------------------------- MODULE YateMessage -----------------------------
(***************************************************************************)
(* The reader of Yate's message bus on standard input, yate_message.c.     *)
(*                                                                         *)
(* Text is a sequence of pieces: ":" and "\n", the name of the message     *)
(* that starts a call, the keys of parameters with their "=", and any      *)
(* other piece.  A line is cut at every ":".  The process is               *)
(* single-threaded: while chunk is not empty it is in                      *)
(* yate_message_read_cb, and one octet is one step.                        *)
(*                                                                         *)
(* yate_message_parse_parameters lets memchr look one octet too far for    *)
(* each ":" it has met; what lies there is the zeroed rest of the buffer   *)
(* and values that hold no ":", so no field begins there.                  *)
(***************************************************************************)
EXTENDS Integers, Sequences, FiniteSetsExt, SequencesExt

CONSTANTS
  STR_BUF_SIZE,  \* size of the line buffer
  ReadSize,      \* sizeof(temp_buf)
  Streams        \* what Yate may write in the course of a call

Keys == {"callednr=", "caller=", "format="}

ASSUME MessageAssumption ==
  /\ STR_BUF_SIZE \in Nat \ {0, 1} /\ ReadSize \in Nat \ {0}
  /\ \A s \in Streams : s \in Seq(STRING)

VARIABLES
  stream,    \* what Yate has yet to write
  chunk,     \* temp_buf from i on
  msg_buf,   \* yate_msg_buf, up to yate_msg_buf_pos
  params,    \* yate_called, yate_caller and yate_format
  replies,   \* history: the ids of the messages that were answered
  calls,     \* history: the arguments of call_initialize
  stdin_on,  \* the descriptor is watched
  seen,      \* history: everything that was read
  line,      \* history: what was read of the current line of the stream
  whole      \* history: no octet of that line was dropped

msgVars ==
  <<stream, chunk, msg_buf, params, replies, calls, stdin_on, seen, line, whole>>

-----------------------------------------------------------------------------

Colons(text) == {n \in DOMAIN text : text[n] = ":"}

\* The numbers of set places in order.
InOrder(places) ==
  [n \in 1 .. Cardinality(places) |->
     CHOOSE p \in places : Cardinality({q \in places : q <= p}) = n]

\* The fields of a line: what memchr for ":" cuts it into.
Fields(text) ==
  LET cuts == InOrder(Colons(text) \cup {0, Len(text) + 1})
  IN  [n \in 1 .. Len(cuts) - 1 |-> SubSeq(text, cuts[n] + 1, cuts[n + 1] - 1)]

Sets(key, field) == field # <<>> /\ Head(field) = key

\* yate_message_parse_parameter, for the fields one after the other: the
\* last one that has a key sets its value.
yate_message_parse_parameter(old, args) ==
  [key \in Keys |->
     LET at == {n \in DOMAIN args : Sets(key, args[n])}
     IN  IF at = {} THEN old[key] ELSE Tail(args[Max(at)])]

\* Argument 1, counted from 0, is the type, if another one follows it.
yate_message_parse_parameters(args) ==
  Len(args) >= 3 /\ args[2] = <<"call.execute">>

\* Mutant: a line that is not a call leaves the parameters alone.
ParseIncomingCallsOnly(text) ==
  LET fields == Fields(text)
      args   == SubSeq(fields, 3, Len(fields))
      call   == Len(fields) >= 3 /\ yate_message_parse_parameters(args)
  IN  [call   |-> call,
       id     |-> IF call THEN fields[2] ELSE <<>>,
       params |-> IF call THEN yate_message_parse_parameter(params, args) ELSE params]

\* The parameters are stored whatever the type of the message is.
yate_message_parse_incoming(text) ==
  LET fields == Fields(text)
      args   == SubSeq(fields, 3, Len(fields))
      enough == Len(fields) >= 3
      call   == enough /\ yate_message_parse_parameters(args)
  IN  [call   |-> call,
       id     |-> IF call THEN fields[2] ELSE <<>>,
       params |-> IF enough THEN yate_message_parse_parameter(params, args)
                  ELSE params]

-----------------------------------------------------------------------------

MessageInit ==
  /\ stream \in Streams
  /\ chunk = <<>> /\ msg_buf = <<>> /\ params = [key \in Keys |-> <<>>]
  /\ replies = <<>> /\ calls = <<>> /\ stdin_on = TRUE
  /\ seen = <<>> /\ line = <<>> /\ whole = TRUE

\* What Yate has written is there in part or all of it, as read finds it.
ReadStdin ==
  /\ stdin_on /\ stream # <<>>
  /\ \E n \in 1 .. Min({ReadSize, Len(stream)}) :
       /\ chunk' = SubSeq(stream, 1, n)
       /\ stream' = SubSeq(stream, n + 1, Len(stream))
       /\ seen' = seen \o chunk'
  /\ UNCHANGED <<msg_buf, params, replies, calls, stdin_on, line, whole>>

\* read fails or finds the end.
StdinEnds ==
  /\ stdin_on /\ stream = <<>> /\ stdin_on' = FALSE
  /\ UNCHANGED <<stream, chunk, msg_buf, params, replies, calls, seen, line, whole>>

\* The octets behind the last end of line in text.
LastLine(text) ==
  LET ends == {n \in DOMAIN text : text[n] = "\n"} \cup {0}
  IN  SubSeq(text, Max(ends) + 1, Len(text))

\* Mutant: the buffer is checked after the octet was stored.
OverflowLate == chunk # <<>> /\ Len(msg_buf) = STR_BUF_SIZE

\* There is no room for another octet and the terminating zero.
Overflow == chunk # <<>> /\ Len(msg_buf) = STR_BUF_SIZE - 1

\* Mutant: the line that was begun stays in the buffer.
DropReadKeepsLine ==
  /\ Overflow
  /\ chunk' = <<>>
  /\ msg_buf' = SubSeq(msg_buf, 1, Len(msg_buf) - 1)
  /\ line' = LastLine(line \o chunk)
  /\ whole' = (line' = <<>>)
  /\ UNCHANGED <<stream, params, replies, calls, stdin_on, seen>>

\* The line so far and the rest of what was read are forgotten.
DropRead ==
  /\ Overflow
  /\ chunk' = <<>> /\ msg_buf' = <<>>
  /\ line' = LastLine(line \o chunk)
  /\ whole' = (line' = <<>>)
  /\ UNCHANGED <<stream, params, replies, calls, stdin_on, seen>>

TakeOctet ==
  /\ chunk # <<>> /\ ~ Overflow /\ Head(chunk) # "\n"
  /\ chunk' = Tail(chunk)
  /\ msg_buf' = Append(msg_buf, Head(chunk))
  /\ line' = Append(line, Head(chunk))
  /\ UNCHANGED <<stream, params, replies, calls, stdin_on, seen, whole>>

\* A line is complete.  The answer goes out before the call is set up.
TakeLine ==
  /\ chunk # <<>> /\ ~ Overflow /\ Head(chunk) = "\n"
  /\ LET r == yate_message_parse_incoming(msg_buf)
     IN  /\ params' = r.params
         /\ replies' = IF r.call THEN Append(replies, r.id) ELSE replies
         /\ calls' = IF r.call THEN Append(calls, r.params) ELSE calls
  /\ chunk' = Tail(chunk) /\ msg_buf' = <<>>
  /\ line' = <<>> /\ whole' = TRUE
  /\ UNCHANGED <<stream, stdin_on, seen>>

-----------------------------------------------------------------------------

\* The line buffer keeps room for the terminating zero.
MessageTypeOK ==
  /\ Len(msg_buf) <= STR_BUF_SIZE - 1
  /\ chunk \in Seq(STRING) /\ params \in [Keys -> Seq(STRING)]
  /\ Len(replies) = Len(calls)
  /\ stdin_on \in BOOLEAN /\ whole \in BOOLEAN

\* What an overflow destroys ends with the line or with the read, whichever
\* is later: the buffer holds exactly the current line of the stream, from
\* its beginning, unless an octet of this very line was dropped.
LinesWhole == whole => msg_buf = line

(* The reference: the text as a whole, by the places of its marks.         *)

Ends(text) == {n \in DOMAIN text : text[n] = "\n"}

LineStart(text, n) == Max({m \in Ends(text) : m < n} \cup {0}) + 1

\* How many ":" the line of text[n] has before n.
ColonsBefore(text, n) == Cardinality({m \in LineStart(text, n) .. n - 1 : text[m] = ":"})

\* text[n] is all of a field.
Alone(text, n) ==
  n > 1 /\ n < Len(text) /\ text[n - 1] = ":" /\ text[n + 1] = ":"

\* The lines, by their ends, that start a call: the name is their fourth
\* field and not the last one.
CallLines(text) ==
  {n \in Ends(text) : \E m \in LineStart(text, n) .. n - 1 :
     text[m] = "call.execute" /\ ColonsBefore(text, m) = 3 /\ Alone(text, m)}

\* The last place up to n, in a complete line, where key has a value.
ValuePlaces(text, n, key) ==
  {m \in 2 .. n : /\ text[m] = key /\ text[m - 1] = ":"
                  /\ ColonsBefore(text, m) >= 2}

ValueAt(text, m) ==
  SubSeq(text, m + 1, Min({k \in m .. Len(text) : text[k] \in {":", "\n"}}) - 1)

\* call_initialize is called for the lines that start a call, in order, and
\* gets for each number the value given last, in this message or in any one
\* before: a call.execute that has no "caller" is set up with the caller of
\* an earlier message.  How the octets were cut into reads does not matter.
\* With a line longer than the buffer in the stream nothing is promised.
CallsAsSent ==
  LET text  == SubSeq(seen, 1, Len(seen) - Len(chunk))
      ends  == InOrder(CallLines(text))
      short == \A n \in Ends(text) : n - LineStart(text, n) < STR_BUF_SIZE - 1
  IN  short =>
        calls = [c \in DOMAIN ends |->
                   [key \in Keys |->
                      LET places == ValuePlaces(text, ends[c], key)
                      IN  IF places = {} THEN <<>> ELSE ValueAt(text, Max(places))]]
=============================================================================
