-------------------------------- MODULE Ipc --------------------------------
(***************************************************************************)
(* The codec of src/common/ipc.c between the two ends of a pipe.           *)
(*                                                                         *)
(* A message is a C structure, followed, for the types that carry strings, *)
(* by a length, the text and a magic number for each string.  One end      *)
(* builds it in a buffer of fixed size and writes the buffer.  The other   *)
(* end is the daemon, which decodes whatever one read has returned         *)
(* (dispatch_ipc_msgs() in uv.c), or a device server, which reads one      *)
(* message from its stdin.  A byte is a member of Cell: which part of a    *)
(* message it belongs to, which byte of that part it is, and what the part *)
(* says.                                                                   *)
(***************************************************************************)
EXTENDS Integers, Sequences

CONSTANTS
    HeaderSize,     \* sizeof(sosc_ipc_msg_t)
    LengthSize,     \* sizeof(size_t)
    MagicSize,      \* sizeof(uint16_t)
    BufferSize,     \* SOSC_IPC_MSG_BUFFER_SIZE
    Characters,
    Texts,          \* the serials, names and device nodes that are sent
    PortNumbers,
    StrayLengths,   \* lengths of what a library prints to the same pipe
    MaxMessages     \* bound: how often the sender writes

StringBytes(n) == LengthSize + n + MagicSize

ASSUME SizesAssumption ==
    /\ HeaderSize \in Nat \ {0} /\ LengthSize \in Nat \ {0}
    /\ MagicSize \in Nat \ {0} /\ BufferSize \in Nat
    /\ HeaderSize + LengthSize <= BufferSize

\* Of any length: nothing in src/ bounds a serial, a name or a node.
ASSUME TextsAssumption == Texts \subseteq Seq(Characters)
ASSUME InputsAssumption ==
    /\ PortNumbers \subseteq Nat /\ 0 \in PortNumbers
    /\ StrayLengths \subseteq Nat /\ MaxMessages \in Nat

VARIABLES
    reader,     \* "buffer": the daemon reads; "descriptor": a device server
    pipe,       \* the bytes in the pipe
    handled,    \* the messages the receiver's handler has been given
    aborted,    \* an assertion has ended the sender
    top,        \* history: how far into its buffer the sender has written
    beyond,     \* history: how far past what it has read the receiver has looked
    sent,       \* history: the messages that were written
    stray       \* history: how often something else was printed to the pipe

vars == <<reader, pipe, handled, aborted, top, beyond, sent, stray>>

Types == {"SOSC_DEVICE_CONNECTION", "SOSC_DEVICE_INFO", "SOSC_DEVICE_READY",
          "SOSC_DEVICE_DISCONNECTION", "SOSC_OSC_PORT_CHANGE",
          "SOSC_PROCESS_SHOULD_EXIT"}

\* How many strings follow the structure.
StringsOf(t) ==
    CASE t = "SOSC_DEVICE_CONNECTION" -> 1
      [] t = "SOSC_DEVICE_INFO" -> 2
      [] OTHER -> 0

Message(t) ==
    [type : {t}, texts : [1..StringsOf(t) -> Texts],
     port : IF t = "SOSC_OSC_PORT_CHANGE" THEN PortNumbers ELSE {0}]
Messages == UNION {Message(t) : t \in Types}

\* What a byte of the structure says, and a byte.
Structure == [type : Types, port : Nat]
Cell ==
    [of : {"header", "stray"}, byte : Nat, says : Structure]
      \cup [of : {"length", "magic"}, byte : Nat, says : Nat]
      \cup [of : {"text"}, byte : {1}, says : Characters]

----------------------------------------------------------------------------
(***************************************************************************)
(* sosc_ipc_msg_to_buf()                                                   *)
(***************************************************************************)

\* Mutant: the bytes are copied before the space is looked at.
EmitUnchecked(w, n) == [avail |-> w.avail - n, top |-> w.top + n, ok |-> w.ok]

\* EMIT_BYTES: walk, give up if there is no room, copy.
Emit(w, n) ==
    IF w.ok /\ w.avail - n >= 0
    THEN [avail |-> w.avail - n, top |-> w.top + n, ok |-> TRUE]
    ELSE [avail |-> w.avail, top |-> w.top, ok |-> FALSE]

EmitString(w, n) == Emit(Emit(Emit(w, LengthSize), n), MagicSize)

\* strdata_to_buf() behind the structure: it is told the size of the whole
\* buffer, not what is left of it (ipc.c:198 and 205).
StrdataToBuf(nbytes, texts) ==
    LET none == [avail |-> nbytes, top |-> HeaderSize, ok |-> TRUE]
        one == EmitString(none, Len(texts[1]))
        two == EmitString(one, Len(texts[2]))
    IN  CASE Len(texts) = 0 -> none
          [] Len(texts) = 1 -> one
          [] OTHER -> two

\* sosc_ipc_msg_to_buf() gives up ("refused"), comes to a negative rest
\* ("asserts"), or returns a size.
ToBuf(nbytes, m) ==
    LET w == StrdataToBuf(nbytes, m.texts)
        size == HeaderSize + (nbytes - w.avail)
    IN  [top |-> w.top, size |-> size,
         outcome |-> IF ~w.ok THEN "refused"
                     ELSE IF size > nbytes THEN "asserts" ELSE "sized"]

\* The bytes of a part: its size, and what it says.
Part(of, size, says) == [i \in 1..size |-> [of |-> of, byte |-> i, says |-> says]]

\* Mutant: no magic number behind a text.
StringWithoutMagic(s) ==
    Part("length", LengthSize, Len(s))
        \o [i \in 1..Len(s) |-> [of |-> "text", byte |-> 1, says |-> s[i]]]

\* Each character of a text is a byte that says itself.
String(s) ==
    Part("length", LengthSize, Len(s))
        \o [i \in 1..Len(s) |-> [of |-> "text", byte |-> 1, says |-> s[i]]]
        \o Part("magic", MagicSize, 0)

\* The contents of the buffer.
Encoded(m) ==
    Part("header", HeaderSize, [type |-> m.type, port |-> m.port])
        \o (CASE Len(m.texts) = 0 -> <<>>
              [] Len(m.texts) = 1 -> String(m.texts[1])
              [] OTHER -> String(m.texts[1]) \o String(m.texts[2]))

----------------------------------------------------------------------------
(***************************************************************************)
(* sosc_ipc_msg_from_buf() and sosc_ipc_msg_read()                         *)
(***************************************************************************)

\* The part `of', whole and in place, is the next one after `from'.
Stands(bytes, from, of, size) ==
    /\ from + size <= Len(bytes)
    /\ \A i \in 1..size : bytes[from + i].of = of /\ bytes[from + i].byte = i

\* Mutant: the magic number is not looked at.
AnyHeader(bytes, from) == from + HeaderSize <= Len(bytes)

\* The structure is there, with its magic number.
HeaderStands(bytes, from) == Stands(bytes, from, "header", HeaderSize)

\* CONSUME_BYTES, with what the bytes say not yet looked at.
Consume(w, n) ==
    IF w.ok /\ w.avail - n >= 0
    THEN [pos |-> w.pos + n, avail |-> w.avail - n, texts |-> w.texts, ok |-> TRUE]
    ELSE [pos |-> w.pos, avail |-> w.avail, texts |-> w.texts, ok |-> FALSE]

\* The copy of n characters (s_strdup()).
TextAt(bytes, pos, n) == [i \in 1..n |-> bytes[pos + i].says]

\* One turn of the loop of strdata_from_buf(); a length or magic number that is
\* not there is whatever the memory holds, taken for a bad message.
ConsumeString(bytes, w) ==
    LET length == Consume(w, LengthSize)
        stands == length.ok /\ Stands(bytes, w.pos, "length", LengthSize)
        n      == IF stands THEN bytes[w.pos + 1].says ELSE 0
        text   == Consume(length, n)
        magic  == Consume(text, MagicSize)
    IN  [pos |-> magic.pos, avail |-> magic.avail,
         texts |-> Append(w.texts, TextAt(bytes, length.pos, n)),
         ok |-> stands /\ magic.ok /\ Stands(bytes, text.pos, "magic", MagicSize)]

\* The message at `from', when its strings may take up to `avail' bytes.
Parsed(bytes, from, avail) ==
    LET said == bytes[from + 1].says
        none == [pos |-> from + HeaderSize, avail |-> avail, texts |-> <<>>, ok |-> TRUE]
        one  == ConsumeString(bytes, none)
        w    == IF StringsOf(said.type) = 0 THEN none
                ELSE IF StringsOf(said.type) = 1 \/ ~one.ok THEN one
                ELSE ConsumeString(bytes, one)
    IN  IF ~HeaderStands(bytes, from)
        THEN [ok |-> FALSE, pos |-> from, message |-> <<>>]
        ELSE [ok |-> w.ok, pos |-> w.pos,
              message |-> [type |-> said.type, port |-> said.port, texts |-> w.texts]]

\* sosc_ipc_msg_from_buf(): like its counterpart it hands strdata_from_buf()
\* the size of the whole, not what is left (ipc.c:307 and 318).
FromBuf(bytes, from) == Parsed(bytes, from, Len(bytes) - from)

\* Mutant: a read is taken for one message.
DispatchedFirst(bytes) ==
    LET r == FromBuf(bytes, 0)
    IN  [messages |-> IF r.ok THEN <<r.message>> ELSE <<>>, pos |-> r.pos]

\* One turn of the loop of dispatch_ipc_msgs() at position p, and what the rest
\* of the bytes yields.  The first bad message ends the loop.
Turn(bytes, rest, p) ==
    LET r == FromBuf(bytes, p)
    IN  CASE p = Len(bytes) -> [messages |-> <<>>, pos |-> p]
          [] p < Len(bytes) /\ ~r.ok -> [messages |-> <<>>, pos |-> r.pos]
          [] p < Len(bytes) /\ r.ok /\ r.pos > Len(bytes) ->
               [messages |-> <<r.message>>, pos |-> r.pos]
          [] OTHER ->
               [messages |-> <<r.message>> \o rest[r.pos].messages,
                pos |-> rest[r.pos].pos]

\* dispatch_ipc_msgs(): the messages that are handled and the last position that
\* is looked at.
Dispatched(bytes) ==
    LET from[p \in 0..Len(bytes)] == Turn(bytes, from, p)
    IN  from[0]

\* sosc_ipc_msg_read(): read() returns what is asked for, or what there is; a
\* structure without the magic number has been read all the same.
ReadFrom(bytes) ==
    LET structure == IF HeaderSize < Len(bytes) THEN HeaderSize ELSE Len(bytes)
    IN  [Parsed(bytes, 0, Len(bytes) - HeaderSize)
            EXCEPT !.pos = IF HeaderStands(bytes, 0) THEN @ ELSE structure]

----------------------------------------------------------------------------
(***************************************************************************)
(* The two ends                                                            *)
(***************************************************************************)

Init ==
    /\ reader \in {"buffer", "descriptor"}
    /\ pipe = <<>> /\ handled = <<>> /\ aborted = FALSE
    /\ top = 0 /\ beyond = 0 /\ sent = <<>> /\ stray = 0

Room == Len(sent) + stray < MaxMessages

\* sosc_ipc_msg_write(), and on the daemon's side write_ipc_msg_to_stream():
\* the message is built and written in one piece, or not at all.  Where the code
\* asserts the process ends.  What lies behind the buffer is not in the model: a
\* sender that has written there and given up then may go on.
Send(m) ==
    /\ Room /\ ~aborted
    /\ LET buf == ToBuf(BufferSize, m)
       IN  /\ top' = IF buf.top > top THEN buf.top ELSE top
           /\ aborted' = (buf.outcome = "asserts")
           /\ IF buf.outcome = "sized"
              THEN pipe' = pipe \o Encoded(m) /\ sent' = Append(sent, m)
              ELSE UNCHANGED <<pipe, sent>>
    /\ UNCHANGED <<reader, handled, beyond, stray>>

\* A library in a child of the daemon prints n bytes to stdout.  They may look
\* like a message, but for the magic number.
Prints(n) ==
    /\ reader = "buffer"
    /\ Room
    /\ pipe' = pipe \o Part("stray", n, [type |-> "SOSC_DEVICE_READY", port |-> 0])
    /\ stray' = stray + 1
    /\ UNCHANGED <<reader, handled, aborted, top, beyond, sent>>

Excess(pos) == IF pos > Len(pipe) THEN pos - Len(pipe) ELSE 0

\* device_read_cb(), detector_read_cb(): all there is, in one read.
Dispatch ==
    /\ reader = "buffer" /\ pipe # <<>>
    /\ LET all == Dispatched(pipe)
       IN  /\ handled' = handled \o all.messages
           /\ beyond' = Excess(all.pos)
    /\ pipe' = <<>>
    /\ UNCHANGED <<reader, aborted, top, sent, stray>>

\* recv_msg() of a device server: one message.
Receive ==
    /\ reader = "descriptor" /\ pipe # <<>>
    /\ LET one == ReadFrom(pipe)
       IN  /\ handled' = IF one.ok THEN Append(handled, one.message) ELSE handled
           /\ pipe' = SubSeq(pipe, one.pos + 1, Len(pipe))
           /\ beyond' = Excess(one.pos)
    /\ UNCHANGED <<reader, aborted, top, sent, stray>>

Next ==
    \/ \E m \in Messages : Send(m)
    \/ \E n \in StrayLengths : Prints(n)
    \/ Dispatch
    \/ Receive

Spec == Init /\ [][Next]_vars

----------------------------------------------------------------------------
(***************************************************************************)
(* Properties                                                              *)
(***************************************************************************)

\* Types.
TypeOK ==
    /\ pipe \in Seq(Cell)
    /\ handled \in Seq(Messages) /\ sent \in Seq(Messages)
    /\ reader \in {"buffer", "descriptor"}
    /\ aborted \in BOOLEAN /\ top \in Nat /\ beyond \in Nat /\ stray \in Nat

\* The code inverts itself, over any number of messages in one read: with
\* nothing else in the pipe, what has been handled is what was sent, in order,
\* and nothing is left out when the pipe has been read (uv.c:174-186).
Delivered ==
    stray = 0 => /\ handled = SubSeq(sent, 1, Len(handled))
                 /\ pipe = <<>> => handled = sent

\* Whatever else is in the pipe, no message is made up, changed, repeated or
\* overtaken: the handled ones are some of those that were sent, in order.
NothingInvented ==
    \E I \in SUBSET (1..Len(sent)) :
       \E f \in [1..Len(handled) -> I] :
          /\ \A i, j \in 1..Len(handled) : i < j => f[i] < f[j]
          /\ \A i \in 1..Len(handled) : handled[i] = sent[f[i]]

\* However long its texts, a message that is written was whole in the buffer; and
\* a sender that leaves the buffer leaves it by no more than a structure, which is
\* what strdata_to_buf() is told too much (ipc.c:198 and 205).
SenderBounds ==
    /\ top <= BufferSize + HeaderSize
    /\ \A i \in 1..Len(sent) : Len(Encoded(sent[i])) <= BufferSize

\* The sender stays in its buffer.  This is NOT so for a text that is too long by
\* less than a structure: it is copied before the code gives up, or asserts.
SenderInBuffer == top <= BufferSize

\* The receiver looks at nothing but what it has read, though strdata_from_buf()
\* is told HeaderSize bytes too many (ipc.c:307 and 318).
ReceiverInBounds == beyond = 0
=============================================================================
