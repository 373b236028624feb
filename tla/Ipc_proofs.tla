----------------------------- MODULE Ipc_proofs ----------------------------
(***************************************************************************)
(* Theorems about the codec of Ipc, for every size of the structure and    *)
(* the buffer, for texts of every length and for any number of messages.   *)
(*                                                                         *)
(* What the sender writes was whole in its buffer, and it leaves that by a *)
(* structure at most; what it has written is read back as it was, wherever *)
(* it stands; the loop of dispatch_ipc_msgs() comes to its   *)
(* end and hands over what stands in a read.  From these follow the        *)
(* properties of the two ends: types, the bounds of the receiver, that     *)
(* every message is delivered and that none is made up.                    *)
(***************************************************************************)
EXTENDS Ipc, WellFoundedInduction, TLAPS

USE SizesAssumption


----------------------------------------------------------------------------
(***************************************************************************)
(* The sender: how far into its buffer it writes                           *)
(***************************************************************************)

Consistent(w, limit) ==
    /\ w.avail \in Nat /\ w.top \in Nat /\ w.ok \in BOOLEAN
    /\ w.top + w.avail = HeaderSize + limit

\* What one EMIT_BYTES leaves: nothing is copied that there was no room for.
LEMMA EmitConsistent ==
  ASSUME NEW limit \in Nat, NEW n \in Nat, NEW w, Consistent(w, limit)
  PROVE  /\ Consistent(Emit(w, n), limit)
         /\ w.ok /\ n <= w.avail =>
              Emit(w, n).ok /\ Emit(w, n).avail = w.avail - n
         /\ ~w.ok \/ n > w.avail =>
              ~Emit(w, n).ok /\ Emit(w, n).avail = w.avail
  BY DEF Consistent, Emit

\* A whole string goes in if there is room for it, and only then.
LEMMA EmitStringConsistent ==
  ASSUME NEW limit \in Nat, NEW n \in Nat, NEW w, Consistent(w, limit)
  PROVE  /\ Consistent(EmitString(w, n), limit)
         /\ EmitString(w, n).ok <=> w.ok /\ StringBytes(n) <= w.avail
         /\ EmitString(w, n).ok => EmitString(w, n).avail = w.avail - StringBytes(n)
<1> DEFINE a == Emit(w, LengthSize)
           b == Emit(a, n)
           c == Emit(b, MagicSize)
<1>1. Consistent(a, limit)
  BY EmitConsistent
<1>2. Consistent(b, limit)
  BY <1>1, EmitConsistent
<1>3. Consistent(c, limit)
  BY <1>2, EmitConsistent
<1>4. /\ w.ok /\ LengthSize <= w.avail => a.ok /\ a.avail = w.avail - LengthSize
      /\ ~w.ok \/ LengthSize > w.avail => ~a.ok /\ a.avail = w.avail
  BY EmitConsistent
<1>5. /\ a.ok /\ n <= a.avail => b.ok /\ b.avail = a.avail - n
      /\ ~a.ok \/ n > a.avail => ~b.ok /\ b.avail = a.avail
  BY <1>1, EmitConsistent
<1>6. /\ b.ok /\ MagicSize <= b.avail => c.ok /\ c.avail = b.avail - MagicSize
      /\ ~b.ok \/ MagicSize > b.avail => ~c.ok /\ c.avail = b.avail
  BY <1>2, EmitConsistent
<1>7. EmitString(w, n) = c
  BY DEF EmitString
<1> HIDE DEF a, b, c
<1>8. /\ w.avail \in Nat /\ a.avail \in Nat /\ b.avail \in Nat /\ c.avail \in Nat
      /\ w.ok \in BOOLEAN /\ c.ok \in BOOLEAN
  BY <1>1, <1>2, <1>3 DEF Consistent
<1>9. ASSUME w.ok, StringBytes(n) <= w.avail
      PROVE  c.ok /\ c.avail = w.avail - StringBytes(n)
  <2>1. LengthSize <= w.avail /\ n <= w.avail - LengthSize
        /\ MagicSize <= w.avail - LengthSize - n
    BY <1>8, <1>9 DEF StringBytes
  <2>2. a.ok /\ a.avail = w.avail - LengthSize
    BY <1>4, <1>9, <2>1
  <2>3. b.ok /\ b.avail = a.avail - n
    BY <1>5, <2>1, <2>2
  <2> QED BY <1>6, <1>8, <2>1, <2>2, <2>3 DEF StringBytes
<1>10. ASSUME c.ok PROVE w.ok /\ StringBytes(n) <= w.avail
  <2>1. b.ok /\ MagicSize <= b.avail
    BY <1>6, <1>8, <1>10
  <2>2. a.ok /\ n <= a.avail /\ b.avail = a.avail - n
    BY <1>5, <1>8, <2>1
  <2>3. w.ok /\ LengthSize <= w.avail /\ a.avail = w.avail - LengthSize
    BY <1>4, <1>8, <2>2
  <2> QED BY <1>8, <2>1, <2>2, <2>3 DEF StringBytes
<1> QED
  BY <1>3, <1>7, <1>8, <1>9, <1>10

\* Before the first string.
Unwritten(limit) == [avail |-> limit, top |-> HeaderSize, ok |-> TRUE]

\* What a message is made of.
LEMMA MessageParts ==
  ASSUME NEW m \in Messages
  PROVE  /\ m.type \in Types /\ m.port \in Nat /\ m.texts \in Seq(Texts)
         /\ Len(m.texts) = StringsOf(m.type) /\ Len(m.texts) \in {0, 1, 2}
         /\ m = [type |-> m.type, port |-> m.port, texts |-> m.texts]
<1>1. PICK t \in Types : m \in Message(t)
  BY DEF Messages
<1>2. /\ m.type = t /\ m.texts \in [1..StringsOf(t) -> Texts]
      /\ m.port \in IF t = "SOSC_OSC_PORT_CHANGE" THEN PortNumbers ELSE {0}
      /\ m = [type |-> m.type, port |-> m.port, texts |-> m.texts]
  BY <1>1 DEF Message
<1>3. StringsOf(t) \in {0, 1, 2} /\ StringsOf(t) \in Nat
  BY DEF StringsOf
<1>4. m.texts \in Seq(Texts) /\ Len(m.texts) = StringsOf(t)
  BY <1>2, <1>3
<1>5. m.port \in Nat
  BY <1>2, InputsAssumption
<1> QED BY <1>2, <1>3, <1>4, <1>5

\* Behind the structure nothing is copied that strdata_to_buf() was not told there
\* is room for.
LEMMA StrdataConsistent ==
  ASSUME NEW texts \in Seq(Seq(Characters)), Len(texts) \in {0, 1, 2}, NEW nbytes \in Nat
  PROVE  Consistent(StrdataToBuf(nbytes, texts), nbytes)
<1> DEFINE none == Unwritten(nbytes)
           one == EmitString(none, Len(texts[1]))
           two == EmitString(one, Len(texts[2]))
<1>1. Consistent(none, nbytes)
  BY DEF Consistent, Unwritten
<1>2. ASSUME Len(texts) >= 1 PROVE Consistent(one, nbytes)
  <2>1. Len(texts[1]) \in Nat
    BY <1>2
  <2> QED BY <1>1, <2>1, EmitStringConsistent
<1>3. ASSUME Len(texts) = 2 PROVE Consistent(two, nbytes)
  <2>1. Len(texts[2]) \in Nat
    BY <1>3
  <2> HIDE DEF one
  <2> QED BY <1>2, <1>3, <2>1, EmitStringConsistent
<1>4. StrdataToBuf(nbytes, texts) = IF Len(texts) = 0 THEN none
                                    ELSE IF Len(texts) = 1 THEN one ELSE two
  BY DEF StrdataToBuf, Unwritten
<1> HIDE DEF none, one, two
<1> QED BY <1>1, <1>2, <1>3, <1>4

\* What is too long is refused, and what is written goes at most HeaderSize
\* bytes past the buffer, whatever the texts: the room the two calls of
\* strdata_to_buf() are told too much.
THEOREM OvershootBounded ==
  ASSUME NEW m, m.texts \in Seq(Seq(Characters)), Len(m.texts) \in {0, 1, 2},
         NEW nbytes \in Nat
  PROVE  /\ ToBuf(nbytes, m).top \in Nat
         /\ ToBuf(nbytes, m).top <= HeaderSize + nbytes
         /\ ToBuf(nbytes, m).outcome = "sized" => ToBuf(nbytes, m).top <= nbytes
<1> DEFINE w == StrdataToBuf(nbytes, m.texts)
<1>1. Consistent(w, nbytes)
  BY StrdataConsistent
<1>2. /\ ToBuf(nbytes, m).top = w.top
      /\ ToBuf(nbytes, m).outcome = "sized" => HeaderSize + (nbytes - w.avail) <= nbytes
  <2> HIDE DEF w
  <2>1. ToBuf(nbytes, m) = [top |-> w.top, size |-> HeaderSize + (nbytes - w.avail),
                            outcome |-> IF ~w.ok THEN "refused"
                                        ELSE IF HeaderSize + (nbytes - w.avail) > nbytes
                                             THEN "asserts" ELSE "sized"]
    BY DEF ToBuf, w
  <2> QED BY <1>1, <2>1 DEF Consistent
<1> HIDE DEF w
<1> QED BY <1>1, <1>2 DEF Consistent

----------------------------------------------------------------------------
(***************************************************************************)
(* The bytes of a message, and what is read back from them                 *)
(***************************************************************************)

\* A part of a sequence stands at a position of another one.
At(bytes, p, w) ==
    /\ p + Len(w) <= Len(bytes)
    /\ \A i \in 1..Len(w) : bytes[p + i] = w[i]

\* Two sequences behind each other: both stand where they were put.
LEMMA ConcatAt ==
  ASSUME NEW S, NEW s \in Seq(S), NEW t \in Seq(S)
  PROVE  /\ s \o t \in Seq(S) /\ Len(s \o t) = Len(s) + Len(t)
         /\ At(s \o t, 0, s) /\ At(s \o t, Len(s), t)
  BY DEF At

\* What stands in a part stands in the whole.
LEMMA AtInside ==
  ASSUME NEW S, NEW bytes \in Seq(S), NEW w \in Seq(S), NEW v \in Seq(S),
         NEW p \in Nat, NEW q \in Nat, At(bytes, p, w), At(w, q, v)
  PROVE  At(bytes, p + q, v)
<1>1. (p + q) + Len(v) <= Len(bytes)
  BY DEF At
<1>2. ASSUME NEW i \in 1..Len(v) PROVE bytes[(p + q) + i] = v[i]
  <2>1. q + i \in 1..Len(w) /\ w[q + i] = v[i]
    BY DEF At
  <2>2. bytes[p + (q + i)] = w[q + i]
    BY <2>1 DEF At
  <2> QED BY <2>1, <2>2
<1> QED BY <1>1, <1>2 DEF At

\* What is put behind changes nothing.
LEMMA AtAppended ==
  ASSUME NEW S, NEW bytes \in Seq(S), NEW more \in Seq(S), NEW w \in Seq(S),
         NEW p \in Nat, At(bytes, p, w)
  PROVE  At(bytes \o more, p, w)
<1>1. At(bytes \o more, 0, bytes) /\ bytes \o more \in Seq(S)
  BY ConcatAt
<1>2. At(bytes \o more, 0 + p, w)
  BY <1>1, AtInside
<1> QED BY <1>2

\* What is taken from the front moves the rest.
LEMMA AtShifted ==
  ASSUME NEW S, NEW bytes \in Seq(S), NEW w \in Seq(S), NEW p \in Nat, NEW d \in Nat,
         d <= p, At(bytes, p, w)
  PROVE  At(SubSeq(bytes, d + 1, Len(bytes)), p - d, w)
<1> DEFINE rest == SubSeq(bytes, d + 1, Len(bytes))
<1>1. Len(bytes) \in Nat /\ Len(w) \in Nat /\ p + Len(w) <= Len(bytes)
  BY DEF At
<1>2. Len(rest) = Len(bytes) - d /\ \A i \in 1..(Len(bytes) - d) : rest[i] = bytes[d + i]
  BY <1>1
<1> HIDE DEF rest
<1>3. ASSUME NEW i \in 1..Len(w) PROVE rest[(p - d) + i] = w[i]
  <2>1. (p - d) + i \in 1..(Len(bytes) - d) /\ d + ((p - d) + i) = p + i
    BY <1>1
  <2> QED BY <1>2, <2>1 DEF At
<1>4. (p - d) + Len(w) <= Len(rest)
  BY <1>1, <1>2
<1> QED BY <1>3, <1>4 DEF At, rest

CharacterBytes(s) == [i \in 1..Len(s) |-> [of |-> "text", byte |-> 1, says |-> s[i]]]

\* The bytes of a part.
LEMMA PartType ==
  ASSUME NEW of, NEW size \in Nat, NEW says,
         \A i \in Nat : [of |-> of, byte |-> i, says |-> says] \in Cell
  PROVE  /\ Part(of, size, says) \in Seq(Cell) /\ Len(Part(of, size, says)) = size
         /\ \A i \in 1..size : Part(of, size, says)[i]
                               = [of |-> of, byte |-> i, says |-> says]
  BY DEF Part

\* The bytes of a string.
LEMMA StringBytesAre ==
  ASSUME NEW s \in Seq(Characters)
  PROVE  /\ Part("length", LengthSize, Len(s)) \in Seq(Cell)
         /\ CharacterBytes(s) \in Seq(Cell) /\ Part("magic", MagicSize, 0) \in Seq(Cell)
         /\ String(s) \in Seq(Cell) /\ Len(String(s)) = StringBytes(Len(s))
         /\ At(String(s), 0, Part("length", LengthSize, Len(s)))
         /\ At(String(s), LengthSize, CharacterBytes(s))
         /\ At(String(s), LengthSize + Len(s), Part("magic", MagicSize, 0))
<1> DEFINE a == Part("length", LengthSize, Len(s))
           b == CharacterBytes(s)
           c == Part("magic", MagicSize, 0)
           ab == a \o b
<1>1. a \in Seq(Cell) /\ Len(a) = LengthSize
  <2>1. \A i \in Nat : [of |-> "length", byte |-> i, says |-> Len(s)] \in Cell
    BY DEF Cell
  <2> QED BY <2>1, PartType
<1>2. c \in Seq(Cell) /\ Len(c) = MagicSize
  <2>1. \A i \in Nat : [of |-> "magic", byte |-> i, says |-> 0] \in Cell
    BY DEF Cell
  <2> QED BY <2>1, PartType
<1>3. b \in Seq(Cell) /\ Len(b) = Len(s)
  <2>1. \A i \in 1..Len(s) : [of |-> "text", byte |-> 1, says |-> s[i]] \in Cell
    BY DEF Cell
  <2>2. b \in [1..Len(s) -> Cell] /\ Len(s) \in Nat
    BY <2>1 DEF CharacterBytes
  <2> QED BY <2>2
<1>4. String(s) = ab \o c
  BY DEF String, CharacterBytes
<1> HIDE DEF a, b, c
<1>5. /\ ab \in Seq(Cell) /\ Len(ab) = LengthSize + Len(s)
      /\ At(ab, 0, a) /\ At(ab, LengthSize, b)
  BY <1>1, <1>3, ConcatAt
<1> HIDE DEF ab
<1>6. /\ String(s) \in Seq(Cell) /\ Len(String(s)) = (LengthSize + Len(s)) + MagicSize
      /\ At(String(s), 0, ab) /\ At(String(s), LengthSize + Len(s), c)
  BY <1>2, <1>4, <1>5, ConcatAt
<1>7. Len(s) \in Nat /\ 0 + 0 = 0 /\ 0 + LengthSize = LengthSize
  OBVIOUS
<1>8. At(String(s), 0 + 0, a) /\ At(String(s), 0 + LengthSize, b)
  BY <1>1, <1>3, <1>5, <1>6, AtInside
<1> QED BY <1>1, <1>2, <1>3, <1>6, <1>7, <1>8 DEF a, b, c, StringBytes

\* What CONSUME_BYTES has to work with as long as all has gone well.
Cursor(pos, avail, texts) == [pos |-> pos, avail |-> avail, texts |-> texts, ok |-> TRUE]

\* There is room: the cursor moves on.
LEMMA Consumes ==
  ASSUME NEW p \in Nat, NEW avail \in Int, NEW texts, NEW n \in Nat, n <= avail
  PROVE  Consume(Cursor(p, avail, texts), n) = Cursor(p + n, avail - n, texts)
  BY DEF Consume, Cursor

\* What strdata_from_buf() makes of a string that strdata_to_buf() has written.
LEMMA StringReadsBack ==
  ASSUME NEW bytes \in Seq(Cell), NEW p \in Nat, NEW avail \in Int, NEW texts,
         NEW s \in Seq(Characters), At(bytes, p, String(s)),
         NEW size \in Nat, size = StringBytes(Len(s)), size <= avail
  PROVE  ConsumeString(bytes, Cursor(p, avail, texts))
           = Cursor(p + size, avail - size, Append(texts, s))
<1> DEFINE w == Cursor(p, avail, texts)
           n == Len(s)
           length == Cursor(p + LengthSize, avail - LengthSize, texts)
           text == Cursor(p + LengthSize + n, avail - LengthSize - n, texts)
           magic == Cursor(p + LengthSize + n + MagicSize,
                           avail - LengthSize - n - MagicSize, texts)
<1>1. n \in Nat /\ LengthSize \in Nat /\ MagicSize \in Nat /\ LengthSize >= 1
      /\ LengthSize <= avail /\ n <= avail - LengthSize /\ MagicSize <= avail - LengthSize - n
  BY DEF StringBytes
<1>2. Consume(w, LengthSize) = length
  BY <1>1, Consumes
<1>3. Consume(length, n) = text
  BY <1>1, Consumes
<1>4. Consume(text, MagicSize) = magic
  BY <1>1, Consumes
<1>5. /\ At(bytes, p, Part("length", LengthSize, n))
      /\ At(bytes, p + LengthSize, CharacterBytes(s))
      /\ At(bytes, p + (LengthSize + n), Part("magic", MagicSize, 0))
  <2>1. At(bytes, p + 0, Part("length", LengthSize, n))
    BY <1>1, StringBytesAre, AtInside
  <2>2. At(bytes, p + LengthSize, CharacterBytes(s))
    BY <1>1, StringBytesAre, AtInside
  <2>3. At(bytes, p + (LengthSize + n), Part("magic", MagicSize, 0))
    BY <1>1, StringBytesAre, AtInside
  <2> QED BY <2>1, <2>2, <2>3
<1>6. Stands(bytes, p, "length", LengthSize) /\ bytes[p + 1].says = n
  <2> DEFINE part == Part("length", LengthSize, n)
  <2>1. At(bytes, p, part)
    BY <1>5
  <2>2. Len(part) = LengthSize
        /\ \A i \in 1..LengthSize : part[i] = [of |-> "length", byte |-> i, says |-> n]
    BY <1>1 DEF Part
  <2> HIDE DEF part
  <2>3. p + LengthSize <= Len(bytes) /\ \A i \in 1..LengthSize : bytes[p + i] = part[i]
    BY <2>1, <2>2 DEF At
  <2>4. \A i \in 1..LengthSize : bytes[p + i].of = "length" /\ bytes[p + i].byte = i
    BY <2>2, <2>3
  <2>5. 1 \in 1..LengthSize
    BY <1>1
  <2>6. bytes[p + 1].says = n
    BY <2>2, <2>3, <2>5
  <2> QED BY <2>3, <2>4, <2>6 DEF Stands
<1>7. Stands(bytes, p + LengthSize + n, "magic", MagicSize)
  <2> DEFINE from == p + (LengthSize + n)
             part == Part("magic", MagicSize, 0)
  <2>1. from \in Nat /\ from = p + LengthSize + n /\ At(bytes, from, part)
    BY <1>1, <1>5
  <2>2. Len(part) = MagicSize
        /\ \A i \in 1..MagicSize : part[i] = [of |-> "magic", byte |-> i, says |-> 0]
    BY <1>1 DEF Part
  <2> HIDE DEF from, part
  <2>3. from + MagicSize <= Len(bytes) /\ \A i \in 1..MagicSize : bytes[from + i] = part[i]
    BY <2>1, <2>2 DEF At
  <2>4. \A i \in 1..MagicSize : bytes[from + i].of = "magic" /\ bytes[from + i].byte = i
    BY <2>2, <2>3
  <2>5. Stands(bytes, from, "magic", MagicSize)
    BY <2>3, <2>4 DEF Stands
  <2> QED BY <2>1, <2>5
<1>8. TextAt(bytes, p + LengthSize, n) = s
  <2> DEFINE from == p + LengthSize
             part == CharacterBytes(s)
  <2>1. from \in Nat /\ At(bytes, from, part)
    BY <1>1, <1>5
  <2>2. Len(part) = n /\ \A i \in 1..n : part[i].says = s[i]
    BY <1>1 DEF CharacterBytes
  <2> HIDE DEF from, part
  <2>3. \A i \in 1..n : bytes[from + i].says = s[i]
    BY <2>1, <2>2 DEF At
  <2>4. TextAt(bytes, from, n) = [i \in 1..n |-> s[i]]
    BY <2>3 DEF TextAt
  <2>5. s = [i \in 1..Len(s) |-> s[i]]
    OBVIOUS
  <2> QED BY <2>4, <2>5 DEF from
<1>9. /\ w.pos = p /\ w.texts = texts /\ length.ok /\ length.pos = p + LengthSize
      /\ text.pos = p + LengthSize + n /\ magic.ok
      /\ magic.pos = p + size /\ magic.avail = avail - size
  BY <1>1 DEF Cursor, StringBytes
<1> HIDE DEF w, length, text, magic, n
<1>10. ConsumeString(bytes, w) = [pos |-> magic.pos, avail |-> magic.avail,
                                  texts |-> Append(texts, s), ok |-> TRUE]
  BY <1>2, <1>3, <1>4, <1>6, <1>7, <1>8, <1>9 DEF ConsumeString
<1> QED BY <1>9, <1>10 DEF Cursor, w, n

\* The structure of a message, as bytes.
HeaderOf(m) == Part("header", HeaderSize, [type |-> m.type, port |-> m.port])

\* The bytes of a message.
LEMMA EncodedIs ==
  ASSUME NEW m \in Messages
  PROVE  /\ Encoded(m) \in Seq(Cell)
         /\ Len(HeaderOf(m)) = HeaderSize /\ HeaderOf(m) \in Seq(Cell)
         /\ At(Encoded(m), 0, HeaderOf(m))
         /\ Len(m.texts) = 0 => Len(Encoded(m)) = HeaderSize
         /\ Len(m.texts) = 1 =>
              /\ At(Encoded(m), HeaderSize, String(m.texts[1]))
              /\ Len(Encoded(m)) = HeaderSize + StringBytes(Len(m.texts[1]))
         /\ Len(m.texts) = 2 =>
              /\ At(Encoded(m), HeaderSize, String(m.texts[1]))
              /\ At(Encoded(m), HeaderSize + StringBytes(Len(m.texts[1])), String(m.texts[2]))
              /\ Len(Encoded(m)) = HeaderSize + StringBytes(Len(m.texts[1]))
                                              + StringBytes(Len(m.texts[2]))
<1> DEFINE h == HeaderOf(m)
           e == Encoded(m)
<1>1. h \in Seq(Cell) /\ Len(h) = HeaderSize
  <2> DEFINE says == [type |-> m.type, port |-> m.port]
  <2>1. says \in Structure
    BY MessageParts DEF Structure
  <2>2. h = Part("header", HeaderSize, says)
    BY DEF HeaderOf
  <2> HIDE DEF says, h
  <2>3. \A i \in Nat : [of |-> "header", byte |-> i, says |-> says] \in Cell
    BY <2>1 DEF Cell
  <2>4. Part("header", HeaderSize, says) \in Seq(Cell)
        /\ Len(Part("header", HeaderSize, says)) = HeaderSize
    BY <2>3, PartType
  <2> QED BY <2>2, <2>4
<1>2. e = h \o (CASE Len(m.texts) = 0 -> <<>>
                           [] Len(m.texts) = 1 -> String(m.texts[1])
                           [] OTHER -> String(m.texts[1]) \o String(m.texts[2]))
  BY DEF Encoded, HeaderOf
<1> HIDE DEF h, e
<1>3. CASE Len(m.texts) = 0
  <2> DEFINE none == <<>>
  <2>1. e = h \o none
    BY <1>2, <1>3
  <2>2. none \in Seq(Cell) /\ Len(none) = 0
    OBVIOUS
  <2> HIDE DEF none
  <2>3. e \in Seq(Cell) /\ Len(e) = Len(h) + Len(none) /\ At(e, 0, h)
    <3>1. (h \o none) \in Seq(Cell) /\ Len(h \o none) = Len(h) + Len(none) /\ At(h \o none, 0, h)
      BY <1>1, <2>2, ConcatAt
    <3> QED BY <2>1, <3>1
  <2>4. Len(e) = HeaderSize
    BY <1>1, <2>2, <2>3
  <2> QED BY <1>1, <1>3, <2>3, <2>4 DEF h, e
<1>4. CASE Len(m.texts) = 1
  <2> DEFINE s == String(m.texts[1])
  <2>1. s \in Seq(Cell) /\ Len(s) = StringBytes(Len(m.texts[1]))
    <3>1. m.texts[1] \in Seq(Characters)
      BY <1>4, MessageParts, TextsAssumption
    <3> QED BY <3>1, StringBytesAre
  <2>2. e = h \o s
    BY <1>2, <1>4
  <2> HIDE DEF s
  <2>3. /\ e \in Seq(Cell) /\ Len(e) = Len(h) + Len(s)
        /\ At(e, 0, h) /\ At(e, Len(h), s)
    <3>1. (h \o s) \in Seq(Cell) /\ Len(h \o s) = Len(h) + Len(s)
          /\ At(h \o s, 0, h) /\ At(h \o s, Len(h), s)
      BY <1>1, <2>1, ConcatAt
    <3> QED BY <2>2, <3>1
  <2>4. Len(e) = HeaderSize + Len(s) /\ At(e, HeaderSize, s)
    BY <1>1, <2>3
  <2> QED BY <1>1, <1>4, <2>1, <2>3, <2>4 DEF h, e, s
<1>5. CASE Len(m.texts) = 2
  <2> DEFINE s == String(m.texts[1])
             t == String(m.texts[2])
             st == s \o t
  <2>1. /\ s \in Seq(Cell) /\ Len(s) = StringBytes(Len(m.texts[1]))
        /\ t \in Seq(Cell) /\ Len(t) = StringBytes(Len(m.texts[2]))
    <3>1. m.texts[1] \in Seq(Characters) /\ m.texts[2] \in Seq(Characters)
      BY <1>5, MessageParts, TextsAssumption
    <3> QED BY <3>1, StringBytesAre
  <2>2. e = h \o st
    BY <1>2, <1>5
  <2> HIDE DEF s, t
  <2>3. /\ st \in Seq(Cell) /\ Len(st) = Len(s) + Len(t)
        /\ At(st, 0, s) /\ At(st, Len(s), t)
    BY <2>1, ConcatAt
  <2> HIDE DEF st
  <2>4. e \in Seq(Cell) /\ Len(e) = Len(h) + Len(st) /\ At(e, 0, h) /\ At(e, Len(h), st)
    <3>1. (h \o st) \in Seq(Cell) /\ Len(h \o st) = Len(h) + Len(st)
          /\ At(h \o st, 0, h) /\ At(h \o st, Len(h), st)
      BY <1>1, <2>3, ConcatAt
    <3> QED BY <2>2, <3>1
  <2>5. Len(e) = HeaderSize + Len(s) + Len(t) /\ At(e, HeaderSize, st)
    BY <1>1, <2>1, <2>3, <2>4
  <2>6. Len(s) \in Nat /\ Len(t) \in Nat /\ HeaderSize + 0 = HeaderSize /\ 0 \in Nat
    BY <2>1
  <2>7. At(e, HeaderSize + 0, s)
    BY <2>1, <2>3, <2>4, <2>5, <2>6, AtInside
  <2>8. At(e, HeaderSize + Len(s), t)
    BY <2>1, <2>3, <2>4, <2>5, <2>6, AtInside
  <2>9. Len(m.texts) # 0 /\ Len(m.texts) # 1
    BY <1>5
  <2>10. At(e, HeaderSize, s)
    BY <2>6, <2>7
  <2>11. /\ Len(e) = HeaderSize + StringBytes(Len(m.texts[1])) + StringBytes(Len(m.texts[2]))
         /\ At(e, HeaderSize + StringBytes(Len(m.texts[1])), t)
    BY <2>1, <2>5, <2>8
  <2> QED BY <1>1, <2>4, <2>9, <2>10, <2>11 DEF h, e, s, t
<1> QED BY <1>3, <1>4, <1>5, MessageParts

\* A message is at least a structure.
LEMMA EncodedLength ==
  ASSUME NEW m \in Messages
  PROVE  Len(Encoded(m)) \in Nat /\ Len(Encoded(m)) >= HeaderSize
<1>1. Encoded(m) \in Seq(Cell) /\ Len(HeaderOf(m)) = HeaderSize /\ At(Encoded(m), 0, HeaderOf(m))
  BY EncodedIs
<1> QED BY <1>1 DEF At

\* sosc_ipc_msg_to_buf() returns a size for the messages that fit and for no
\* others, though its assertion may be what stops it.
THEOREM WrittenIffFits ==
  ASSUME NEW m \in Messages
  PROVE  ToBuf(BufferSize, m).outcome = "sized" <=> Len(Encoded(m)) <= BufferSize
<1> DEFINE none == Unwritten(BufferSize)
           one == EmitString(none, Len(m.texts[1]))
           two == EmitString(one, Len(m.texts[2]))
           w == StrdataToBuf(BufferSize, m.texts)
<1>1. /\ none.ok /\ none.avail = BufferSize /\ Consistent(none, BufferSize)
      /\ BufferSize \in Nat
  BY DEF Consistent, Unwritten
<1>2. w = IF Len(m.texts) = 0 THEN none ELSE IF Len(m.texts) = 1 THEN one ELSE two
  BY DEF StrdataToBuf, Unwritten
<1>3. ToBuf(BufferSize, m).outcome = "sized"
        <=> w.ok /\ HeaderSize + (BufferSize - w.avail) <= BufferSize
  <2>1. Consistent(w, BufferSize)
    BY <1>1, MessageParts, TextsAssumption, StrdataConsistent
  <2> HIDE DEF w
  <2>2. ToBuf(BufferSize, m).outcome
          = IF ~w.ok THEN "refused"
            ELSE IF HeaderSize + (BufferSize - w.avail) > BufferSize
                 THEN "asserts" ELSE "sized"
    BY DEF ToBuf, w
  <2> QED BY <1>1, <2>1, <2>2 DEF Consistent
<1>4. CASE Len(m.texts) = 0
  BY <1>1, <1>2, <1>3, <1>4, EncodedIs
<1>5. ASSUME Len(m.texts) \in {1, 2}
      PROVE  /\ Len(m.texts[1]) \in Nat /\ StringBytes(Len(m.texts[1])) \in Nat
             /\ Consistent(one, BufferSize)
             /\ one.ok <=> StringBytes(Len(m.texts[1])) <= BufferSize
             /\ one.ok => one.avail = BufferSize - StringBytes(Len(m.texts[1]))
  <2>1. m.texts[1] \in Seq(Characters)
    BY <1>5, MessageParts, TextsAssumption
  <2>2. Len(m.texts[1]) \in Nat /\ StringBytes(Len(m.texts[1])) \in Nat
    BY <2>1 DEF StringBytes
  <2> QED BY <1>1, <2>2, EmitStringConsistent
<1> HIDE DEF w
<1>6. CASE Len(m.texts) = 1
  <2>1. w = one /\ Len(Encoded(m)) = HeaderSize + StringBytes(Len(m.texts[1]))
    BY <1>2, <1>6, EncodedIs
  <2> HIDE DEF one
  <2> QED BY <1>1, <1>3, <1>5, <1>6, <2>1
<1>7. CASE Len(m.texts) = 2
  <2>1. /\ w = two
        /\ Len(Encoded(m)) = HeaderSize + StringBytes(Len(m.texts[1]))
                                        + StringBytes(Len(m.texts[2]))
    BY <1>2, <1>7, EncodedIs
  <2>2. m.texts[2] \in Seq(Characters)
    BY <1>7, MessageParts, TextsAssumption
  <2>3. Len(m.texts[2]) \in Nat /\ StringBytes(Len(m.texts[2])) \in Nat
    <3>1. Len(m.texts[2]) \in Nat
      BY <2>2
    <3> QED BY <3>1 DEF StringBytes
  <2> HIDE DEF one
  <2>4. /\ two.ok <=> one.ok /\ StringBytes(Len(m.texts[2])) <= one.avail
        /\ two.ok => two.avail = one.avail - StringBytes(Len(m.texts[2]))
    BY <1>5, <1>7, <2>3, EmitStringConsistent
  <2> HIDE DEF two
  <2>5. CASE two.ok
    BY <1>1, <1>3, <1>5, <1>7, <2>1, <2>3, <2>4, <2>5
  <2>6. CASE ~two.ok
    <3>1. ~(HeaderSize + StringBytes(Len(m.texts[1])) + StringBytes(Len(m.texts[2]))
              <= BufferSize)
      BY <1>1, <1>5, <1>7, <2>3, <2>4, <2>6
    <3> QED BY <1>3, <2>1, <2>6, <3>1
  <2> QED BY <2>5, <2>6
<1> QED BY <1>4, <1>6, <1>7, MessageParts

\* How far a message takes the sender, whatever becomes of it.
LEMMA Overshoot ==
  ASSUME NEW m \in Messages
  PROVE  /\ ToBuf(BufferSize, m).top \in Nat
         /\ ToBuf(BufferSize, m).top <= HeaderSize + BufferSize
<1>1. m.texts \in Seq(Seq(Characters)) /\ Len(m.texts) \in {0, 1, 2} /\ BufferSize \in Nat
  BY MessageParts, TextsAssumption
<1> QED BY <1>1, OvershootBounded

\* However long the texts, a message that is written was whole in the buffer, and
\* no message takes the sender further out of it than a structure is long.
THEOREM SenderBounded == Spec => []SenderBounds
<1> DEFINE Inv == top \in Nat /\ sent \in Seq(Messages) /\ SenderBounds
<1>1. Init => Inv
  BY DEF Init, SenderBounds
<1>2. Inv /\ [Next]_vars => Inv'
  <2> SUFFICES ASSUME Inv, [Next]_vars PROVE Inv'
    OBVIOUS
  <2>1. ASSUME NEW m \in Messages, Send(m) PROVE Inv'
    <3>1. top' \in Nat /\ top' <= BufferSize + HeaderSize
      BY <2>1, Overshoot DEF Send, SenderBounds
    <3>2. CASE sent' = sent
      BY <3>1, <3>2 DEF SenderBounds
    <3>3. CASE sent' = Append(sent, m) /\ ToBuf(BufferSize, m).outcome = "sized"
      <4>1. Len(Encoded(m)) <= BufferSize
        BY <3>3, WrittenIffFits
      <4>2. /\ sent' \in Seq(Messages) /\ Len(sent') = Len(sent) + 1 /\ Len(sent) \in Nat
            /\ \A i \in 1..Len(sent) : sent'[i] = sent[i]
            /\ sent'[Len(sent) + 1] = m
        BY <3>3
      <4>3. \A i \in 1..Len(sent') : Len(Encoded(sent'[i])) <= BufferSize
        BY <4>1, <4>2 DEF SenderBounds
      <4> QED BY <3>1, <4>2, <4>3 DEF SenderBounds, Encoded, Part, String
    <3> QED BY <2>1, <3>2, <3>3 DEF Send
  <2>2. ASSUME NEW n \in StrayLengths, Prints(n) PROVE Inv'
    BY <2>2 DEF Prints, SenderBounds
  <2>3. CASE Dispatch \/ Receive
    BY <2>3 DEF Dispatch, Receive, SenderBounds
  <2>4. CASE UNCHANGED vars
    BY <2>4 DEF vars, SenderBounds
  <2> QED BY <2>1, <2>2, <2>3, <2>4 DEF Next
<1> QED BY <1>1, <1>2, PTL DEF Spec

\* The structure of a written message is found where it stands.
LEMMA HeaderFound ==
  ASSUME NEW bytes \in Seq(Cell), NEW p \in Nat, NEW m \in Messages, At(bytes, p, Encoded(m))
  PROVE  HeaderStands(bytes, p)
         /\ bytes[p + 1].says = [type |-> m.type, port |-> m.port]
<1> DEFINE h == HeaderOf(m)
           e == Encoded(m)
<1>1. At(bytes, p, h)
  <2>1. e \in Seq(Cell) /\ h \in Seq(Cell) /\ At(e, 0, h) /\ At(bytes, p, e)
    BY EncodedIs
  <2> HIDE DEF h, e
  <2>2. At(bytes, p + 0, h)
    BY <2>1, AtInside
  <2> QED BY <2>2
<1>2. Len(h) = HeaderSize
      /\ \A i \in 1..HeaderSize : h[i] = [of |-> "header", byte |-> i,
                                          says |-> [type |-> m.type, port |-> m.port]]
  BY DEF HeaderOf, Part
<1> HIDE DEF h, e
<1>3. p + HeaderSize <= Len(bytes) /\ \A i \in 1..HeaderSize : bytes[p + i] = h[i]
  BY <1>1, <1>2 DEF At
<1>4. \A i \in 1..HeaderSize : h[i].of = "header" /\ h[i].byte = i
  BY <1>2
<1>5. ASSUME NEW i \in 1..HeaderSize
      PROVE  bytes[p + i].of = "header" /\ bytes[p + i].byte = i
  <2>1. bytes[p + i] = h[i]
    BY <1>3
  <2> QED BY <1>4, <2>1
<1>6. bytes[p + 1].says = [type |-> m.type, port |-> m.port]
  <2>1. 1 \in 1..HeaderSize
    OBVIOUS
  <2>2. bytes[p + 1] = h[1]
    BY <1>3, <2>1
  <2>3. h[1].says = [type |-> m.type, port |-> m.port]
    BY <1>2, <2>1
  <2> QED BY <2>2, <2>3
<1> QED BY <1>3, <1>5, <1>6 DEF HeaderStands, Stands

\* The code inverts itself: what sosc_ipc_msg_to_buf() has written anywhere in
\* the bytes sosc_ipc_msg_from_buf() reads there, and it stops behind it.
THEOREM RoundTrip ==
  ASSUME NEW bytes \in Seq(Cell), NEW p \in Nat, NEW avail \in Int, NEW m \in Messages,
         At(bytes, p, Encoded(m)), Len(Encoded(m)) - HeaderSize <= avail
  PROVE  Parsed(bytes, p, avail)
           = [ok |-> TRUE, pos |-> p + Len(Encoded(m)), message |-> m]
<1> DEFINE said == bytes[p + 1].says
           none == Cursor(p + HeaderSize, avail, <<>>)
           one == ConsumeString(bytes, none)
           w == IF StringsOf(said.type) = 0 THEN none
                ELSE IF StringsOf(said.type) = 1 \/ ~one.ok THEN one
                ELSE ConsumeString(bytes, one)
           rest == avail - (Len(Encoded(m)) - HeaderSize)
<1>1. HeaderStands(bytes, p) /\ said.type = m.type /\ said.port = m.port
  <2>1. HeaderStands(bytes, p) /\ said = [type |-> m.type, port |-> m.port]
    BY HeaderFound
  <2> HIDE DEF said
  <2> QED BY <2>1
<1>2. Parsed(bytes, p, avail)
        = [ok |-> w.ok, pos |-> w.pos,
           message |-> [type |-> m.type, port |-> m.port, texts |-> w.texts]]
  BY <1>1 DEF Parsed, Cursor
<1>3. StringsOf(said.type) = Len(m.texts)
  BY <1>1, MessageParts
<1> HIDE DEF said
<1>4. Encoded(m) \in Seq(Cell) /\ p + HeaderSize \in Nat
  BY EncodedIs
<1>5. w = Cursor(p + Len(Encoded(m)), rest, m.texts)
  <2>1. CASE Len(m.texts) = 0
    <3>1. m.texts = <<>>
      BY <2>1, MessageParts
    <3>2. Len(Encoded(m)) = HeaderSize
      BY <2>1, EncodedIs
    <3> QED BY <1>3, <2>1, <3>1, <3>2
  <2>2. CASE Len(m.texts) = 1
    <3> DEFINE s == m.texts[1]
    <3>1. s \in Seq(Characters)
      BY <2>2, MessageParts, TextsAssumption
    <3>2. /\ At(Encoded(m), HeaderSize, String(s))
          /\ Len(Encoded(m)) = HeaderSize + StringBytes(Len(s))
      BY <2>2, EncodedIs
    <3>3. m.texts = Append(<<>>, s)
      BY <2>2, MessageParts
    <3> HIDE DEF s
    <3>4. String(s) \in Seq(Cell) /\ StringBytes(Len(s)) \in Nat
      BY <3>1, StringBytesAre
    <3>5. At(bytes, p + HeaderSize, String(s))
      BY <1>4, <3>2, <3>4, AtInside
    <3> DEFINE from == p + HeaderSize
               b == StringBytes(Len(s))
               empty == <<>>
    <3>6. from \in Nat /\ b <= avail /\ b \in Nat
      BY <1>4, <3>2, <3>4
    <3>7. At(bytes, from, String(s))
      BY <3>5
    <3> HIDE DEF from, empty
    <3>8. ConsumeString(bytes, Cursor(from, avail, empty))
            = Cursor(from + b, avail - b, Append(empty, s))
      BY <3>1, <3>6, <3>7, StringReadsBack
    <3>9. w = ConsumeString(bytes, Cursor(from, avail, empty))
      BY <1>3, <2>2 DEF from, empty
    <3> HIDE DEF w, b
    <3>10. from + b = p + Len(Encoded(m)) /\ avail - b = rest
      BY <3>2, <3>4, <3>6 DEF from, b
    <3> HIDE DEF rest
    <3>11. m.texts = Append(empty, s)
      BY <3>3 DEF empty
    <3> QED BY <3>8, <3>9, <3>10, <3>11
  <2>3. CASE Len(m.texts) = 2
    <3> DEFINE s == m.texts[1]
               t == m.texts[2]
               b == StringBytes(Len(s))
               c == StringBytes(Len(t))
    <3>1. s \in Seq(Characters) /\ t \in Seq(Characters)
      BY <2>3, MessageParts, TextsAssumption
    <3>2. /\ At(Encoded(m), HeaderSize, String(s)) /\ At(Encoded(m), HeaderSize + b, String(t))
          /\ Len(Encoded(m)) = HeaderSize + b + c
      BY <2>3, EncodedIs
    <3>3. m.texts = Append(Append(<<>>, s), t)
      BY <2>3, MessageParts
    <3> HIDE DEF s, t
    <3>4. String(s) \in Seq(Cell) /\ String(t) \in Seq(Cell) /\ b \in Nat /\ c \in Nat
      BY <3>1, StringBytesAre
    <3>5. b <= avail /\ c <= avail - b /\ avail - b \in Int
      BY <3>2, <3>4
    <3>6. At(bytes, p + HeaderSize, String(s))
      BY <1>4, <3>2, <3>4, AtInside
    <3>7. At(bytes, p + (HeaderSize + b), String(t))
      BY <1>4, <3>2, <3>4, AtInside
    <3> DEFINE from == p + HeaderSize
               next == from + b
               left == avail - b
               empty == <<>>
               first == Append(empty, s)
    <3>8. /\ from \in Nat /\ next \in Nat /\ left \in Int /\ b <= avail /\ c <= left
          /\ next = p + (HeaderSize + b) /\ b \in Nat /\ c \in Nat
      <4> HIDE DEF b, c
      <4> QED BY <1>4, <3>4, <3>5
    <3>9. At(bytes, from, String(s)) /\ At(bytes, next, String(t))
      BY <3>6, <3>7, <3>8
    <3>10. from + b + c = p + Len(Encoded(m)) /\ avail - b - c = rest
      <4> HIDE DEF b, c, from
      <4>1. Len(Encoded(m)) = HeaderSize + b + c /\ b \in Nat /\ c \in Nat
        BY <3>2, <3>4
      <4> QED BY <4>1 DEF from
    <3>11. m.texts = Append(first, t)
      BY <3>3
    <3>12. one = ConsumeString(bytes, Cursor(from, avail, empty))
      OBVIOUS
    <3> HIDE DEF from, empty, one, w, rest
    <3>13. one = Cursor(next, left, first)
      <4>1. ConsumeString(bytes, Cursor(from, avail, empty))
              = Cursor(from + b, avail - b, Append(empty, s))
        BY <3>1, <3>8, <3>9, StringReadsBack
      <4> QED BY <3>12, <4>1
    <3>14. w = ConsumeString(bytes, one)
      <4>1. one.ok
        BY <3>13 DEF Cursor
      <4> QED BY <1>3, <2>3, <4>1 DEF w
    <3> HIDE DEF next, left, first, b
    <3>15. ConsumeString(bytes, Cursor(next, left, first))
             = Cursor(next + c, left - c, Append(first, t))
      BY <3>1, <3>8, <3>9, StringReadsBack
    <3>16. next + c = p + Len(Encoded(m)) /\ left - c = rest
      BY <3>10 DEF next, left
    <3> QED BY <3>11, <3>13, <3>14, <3>15, <3>16
  <2> QED BY <2>1, <2>2, <2>3, MessageParts
<1> HIDE DEF w, rest
<1>6. w.ok = TRUE /\ w.pos = p + Len(Encoded(m)) /\ w.texts = m.texts
  BY <1>5 DEF Cursor
<1>7. m = [type |-> m.type, port |-> m.port, texts |-> m.texts]
  BY MessageParts
<1> QED BY <1>2, <1>6, <1>7

----------------------------------------------------------------------------
(***************************************************************************)
(* The loop of dispatch_ipc_msgs() ends                                    *)
(***************************************************************************)

\* A set of numbers has a least element.
LEMMA Least ==
  ASSUME NEW S, S \subseteq Nat, S # {}
  PROVE  \E x \in S : \A y \in S : x <= y
<1> DEFINE R == OpToRel(<, Nat)
<1>1. IsWellFoundedOn(R, Nat)
  BY NatLessThanWellFounded
<1>2. \A x, y \in Nat : <<x, y>> \in R <=> x < y
  BY DEF OpToRel
<1> HIDE DEF R
<1>3. \E x \in S : \A y \in S : ~(<<y, x>> \in R)
  BY <1>1, WFMin
<1>4. PICK x \in S : \A y \in S : ~(<<y, x>> \in R)
  BY <1>3
<1>5. \A y \in S : x <= y
  <2> TAKE y \in S
  <2>1. x \in Nat /\ y \in Nat
    OBVIOUS
  <2>2. ~(y < x)
    <3>1. ~(<<y, x>> \in R)
      BY <1>4
    <3> QED BY <1>2, <2>1, <3>1
  <2> QED BY <2>1, <2>2
<1> QED BY <1>5

\* Induction, over a set.
LEMMA Inductive ==
  ASSUME NEW S, 0 \in S, \A n \in Nat : n \in S => n + 1 \in S
  PROVE  Nat \subseteq S
<1> DEFINE T == Nat \ S
<1>1. SUFFICES ASSUME T # {} PROVE FALSE
  OBVIOUS
<1>2. PICK x \in T : \A y \in T : x <= y
  BY <1>1, Least
<1> QED BY <1>2

\* CONSUME_BYTES never goes back.
LEMMA ConsumeForward ==
  ASSUME NEW w, w.pos \in Nat, w.avail \in Int, NEW n \in Nat
  PROVE  /\ Consume(w, n).pos \in Nat /\ Consume(w, n).avail \in Int
         /\ Consume(w, n).pos >= w.pos
  BY DEF Consume

\* Neither does the loop of strdata_from_buf(), whatever it finds.
LEMMA ConsumeStringForward ==
  ASSUME NEW bytes \in Seq(Cell), NEW w, w.pos \in Nat, w.avail \in Int
  PROVE  /\ ConsumeString(bytes, w).pos \in Nat /\ ConsumeString(bytes, w).avail \in Int
         /\ ConsumeString(bytes, w).pos >= w.pos
<1> DEFINE length == Consume(w, LengthSize)
           stands == length.ok /\ Stands(bytes, w.pos, "length", LengthSize)
           n      == IF stands THEN bytes[w.pos + 1].says ELSE 0
           text   == Consume(length, n)
           magic  == Consume(text, MagicSize)
<1>1. length.pos \in Nat /\ length.avail \in Int /\ length.pos >= w.pos
  BY ConsumeForward
<1>2. n \in Nat
  <2>1. ASSUME stands PROVE bytes[w.pos + 1].says \in Nat
    <3>1. 1 \in 1..LengthSize /\ w.pos + LengthSize <= Len(bytes)
          /\ bytes[w.pos + 1].of = "length"
      BY <2>1 DEF Stands
    <3>2. bytes[w.pos + 1] \in Cell
      BY <3>1
    <3> QED BY <3>1, <3>2 DEF Cell
  <2> QED BY <2>1
<1>3. ConsumeString(bytes, w).pos = magic.pos /\ ConsumeString(bytes, w).avail = magic.avail
  BY DEF ConsumeString
<1> HIDE DEF length, n
<1>4. text.pos \in Nat /\ text.avail \in Int /\ text.pos >= length.pos
  BY <1>1, <1>2, ConsumeForward
<1> HIDE DEF text
<1>5. magic.pos \in Nat /\ magic.avail \in Int /\ magic.pos >= text.pos
  BY <1>4, ConsumeForward
<1> HIDE DEF magic
<1> QED BY <1>1, <1>3, <1>4, <1>5

\* A message that is taken for good ends behind its structure, whatever the
\* bytes are: this is what makes the loop of dispatch_ipc_msgs() end.
LEMMA ParsedForward ==
  ASSUME NEW bytes \in Seq(Cell), NEW from \in Nat, NEW avail \in Int,
         Parsed(bytes, from, avail).ok
  PROVE  Parsed(bytes, from, avail).pos \in Nat
         /\ Parsed(bytes, from, avail).pos >= from + HeaderSize
<1> DEFINE said == bytes[from + 1].says
           none == [pos |-> from + HeaderSize, avail |-> avail, texts |-> <<>>, ok |-> TRUE]
           one  == ConsumeString(bytes, none)
           two  == ConsumeString(bytes, one)
           w    == IF StringsOf(said.type) = 0 THEN none
                   ELSE IF StringsOf(said.type) = 1 \/ ~one.ok THEN one ELSE two
           r    == Parsed(bytes, from, avail)
<1>1. r = IF ~HeaderStands(bytes, from)
          THEN [ok |-> FALSE, pos |-> from, message |-> <<>>]
          ELSE [ok |-> w.ok, pos |-> w.pos,
                message |-> [type |-> said.type, port |-> said.port, texts |-> w.texts]]
  BY DEF Parsed
<1>2. none.pos \in Nat /\ none.avail \in Int /\ none.pos = from + HeaderSize
  OBVIOUS
<1>3. w = none \/ w = one \/ w = two
  OBVIOUS
<1> HIDE DEF none, w, said
<1>4. one.pos \in Nat /\ one.avail \in Int /\ one.pos >= none.pos
  BY <1>2, ConsumeStringForward
<1> HIDE DEF one
<1>5. two.pos \in Nat /\ two.pos >= one.pos
  BY <1>4, ConsumeStringForward
<1> HIDE DEF two
<1>6. w.pos \in Nat /\ w.pos >= from + HeaderSize
  BY <1>2, <1>3, <1>4, <1>5
<1>7. r.ok
  OBVIOUS
<1> HIDE DEF r
<1>8. r.pos = w.pos
  BY <1>1, <1>7
<1> QED BY <1>6, <1>8 DEF r

\* What a turn of the loop yields depends on what the later ones yield, not on
\* any other.
LEMMA TurnLooksAhead ==
  ASSUME NEW bytes \in Seq(Cell), NEW p \in 0..Len(bytes), NEW g, NEW h,
         \A q \in (p + 1)..Len(bytes) : g[q] = h[q]
  PROVE  Turn(bytes, g, p) = Turn(bytes, h, p)
<1> DEFINE r == FromBuf(bytes, p)
<1>1. CASE p < Len(bytes) /\ r.ok /\ r.pos <= Len(bytes)
  <2>1. r.pos \in Nat /\ r.pos >= p + HeaderSize
    <3>1. r = Parsed(bytes, p, Len(bytes) - p) /\ Len(bytes) - p \in Int /\ p \in Nat
      BY DEF FromBuf
    <3> HIDE DEF r
    <3> QED BY <1>1, <3>1, ParsedForward
  <2> HIDE DEF r
  <2>2. g[r.pos] = h[r.pos]
    BY <1>1, <2>1
  <2>3. p # Len(bytes) /\ ~(r.pos > Len(bytes))
    BY <1>1, <2>1
  <2> QED BY <1>1, <2>2, <2>3 DEF Turn, r
<1>2. CASE ~(p < Len(bytes) /\ r.ok /\ r.pos <= Len(bytes))
  <2> HIDE DEF r
  <2>1. CASE p = Len(bytes)
    BY <2>1 DEF Turn
  <2>2. CASE p < Len(bytes) /\ ~r.ok
    BY <2>2 DEF Turn, r
  <2>3. CASE p < Len(bytes) /\ r.ok /\ ~(r.pos <= Len(bytes))
    <3>1. r.pos \in Nat
      <4>1. r = Parsed(bytes, p, Len(bytes) - p) /\ Len(bytes) - p \in Int /\ p \in Nat
        BY DEF FromBuf, r
      <4> QED BY <2>3, <4>1, ParsedForward
    <3>2. r.pos > Len(bytes) /\ p # Len(bytes)
      BY <2>3, <3>1
    <3> QED BY <2>3, <3>2 DEF Turn, r
  <2> QED BY <1>2, <2>1, <2>2, <2>3
<1> QED BY <1>1, <1>2

\* The loop of dispatch_ipc_msgs() comes to its end, whatever the bytes are: the
\* function Dispatched is defined by exists.
LEMMA DispatchedIs ==
  ASSUME NEW bytes \in Seq(Cell)
  PROVE  \E g : /\ g = [p \in 0..Len(bytes) |-> Turn(bytes, g, p)]
                /\ Dispatched(bytes) = g[0]
<1> DEFINE N == Len(bytes)
           Solves(g, k) == g = [p \in k..N |-> Turn(bytes, g, p)]
           S == {d \in Nat : d <= N => \E g : Solves(g, N - d)}
<1>1. N \in Nat
  OBVIOUS
<1> HIDE DEF N
<1>2. 0 \in S
  <2> DEFINE g == [p \in N..N |-> Turn(bytes, <<>>, p)]
             h == [p \in N..N |-> Turn(bytes, g, p)]
  <2>1. Turn(bytes, <<>>, N) = Turn(bytes, g, N)
    <3> HIDE DEF g
    <3> QED BY TurnLooksAhead, <1>1 DEF N
  <2>2. \A p \in N..N : p = N
    BY <1>1
  <2>3. h = g
    <3> DEFINE f == g
    <3>1. f = g
      OBVIOUS
    <3> HIDE DEF f
    <3>2. \A p \in N..N : Turn(bytes, f, p) = Turn(bytes, <<>>, p)
      BY <2>1, <2>2, <3>1
    <3>3. [p \in N..N |-> Turn(bytes, f, p)] = g
      BY <3>2
    <3> QED BY <3>1, <3>3
  <2> HIDE DEF g
  <2>4. Solves(g, N)
    BY <2>3
  <2>5. N - 0 = N
    BY <1>1
  <2> HIDE DEF Solves
  <2> QED BY <2>4, <2>5
<1>3. ASSUME NEW d \in Nat, d \in S, d + 1 <= N PROVE \E h : Solves(h, N - (d + 1))
  <2> DEFINE k == N - (d + 1)
  <2>1. k \in Nat /\ k + 1 = N - d /\ k <= N
    BY <1>1, <1>3
  <2>2. PICK g : Solves(g, N - d)
    <3> HIDE DEF Solves
    <3> QED BY <1>1, <1>3
  <2> HIDE DEF k
  <2> DEFINE h == [p \in k..N |-> IF p = k THEN Turn(bytes, g, k) ELSE g[p]]
  <2>3. \A p \in (k + 1)..N : h[p] = g[p] /\ g[p] = Turn(bytes, g, p)
    <3> DEFINE f == [p \in (k + 1)..N |-> Turn(bytes, g, p)]
    <3>1. g = f
      BY <2>1, <2>2
    <3>2. \A p \in (k + 1)..N : f[p] = Turn(bytes, g, p)
      OBVIOUS
    <3>3. \A p \in (k + 1)..N : h[p] = g[p]
      BY <1>1, <2>1
    <3> HIDE DEF f, h
    <3> QED BY <3>1, <3>2, <3>3
  <2>4. h[k] = Turn(bytes, g, k)
    BY <1>1, <2>1
  <2>5. h = [p \in k..N |-> h[p]]
    OBVIOUS
  <2> HIDE DEF h
  <2>6. ASSUME NEW p \in k..N PROVE h[p] = Turn(bytes, h, p)
    <3>1. p \in 0..N /\ \A q \in (p + 1)..N : q \in (k + 1)..N
      BY <1>1, <2>1
    <3>2. \A q \in (p + 1)..N : g[q] = h[q]
      BY <2>3, <3>1
    <3>3. Turn(bytes, g, p) = Turn(bytes, h, p)
      BY <3>1, <3>2, TurnLooksAhead DEF N
    <3>4. p = k \/ p \in (k + 1)..N
      BY <1>1, <2>1
    <3> QED BY <2>3, <2>4, <3>3, <3>4
  <2>7. h = [p \in k..N |-> Turn(bytes, h, p)]
    <3> DEFINE f == h
    <3>1. f = h
      OBVIOUS
    <3> HIDE DEF f
    <3>2. [p \in k..N |-> Turn(bytes, f, p)] = [p \in k..N |-> h[p]]
      BY <2>6, <3>1
    <3> QED BY <2>5, <3>1, <3>2
  <2>8. Solves(h, k)
    BY <2>7
  <2> HIDE DEF Solves
  <2> QED BY <2>8 DEF k
<1>4. \A d \in Nat : d \in S => d + 1 \in S
  <2> HIDE DEF Solves
  <2> QED BY <1>3
<1>5. Nat \subseteq S
  <2> HIDE DEF S
  <2> QED BY <1>2, <1>4, Inductive
<1>6. \E g : Solves(g, 0)
  <2>1. N \in S /\ N <= N /\ N - N = 0
    <3> HIDE DEF S
    <3> QED BY <1>1, <1>5
  <2>2. \E g : Solves(g, N - N)
    <3> HIDE DEF Solves
    <3> QED BY <2>1
  <2> HIDE DEF Solves
  <2> QED BY <2>1, <2>2
<1> DEFINE from == CHOOSE g : g = [p \in 0..N |-> Turn(bytes, g, p)]
<1>7. from = [p \in 0..N |-> Turn(bytes, from, p)]
  <2>1. \E g : g = [p \in 0..N |-> Turn(bytes, g, p)]
    BY <1>6
  <2> DEFINE F(g) == g = [p \in 0..N |-> Turn(bytes, g, p)]
  <2>2. \E g : F(g)
    BY <2>1
  <2> HIDE DEF F
  <2>3. F(CHOOSE g : F(g))
    BY <2>2
  <2> QED BY <2>3 DEF F
<1>8. Dispatched(bytes) = from[0]
  BY DEF Dispatched, N
<1> QED BY <1>7, <1>8 DEF N

----------------------------------------------------------------------------
(***************************************************************************)
(* What it hands over                                                      *)
(***************************************************************************)

\* The messages stand behind each other from the start of the bytes on.
Laid(bytes, msgs, start) ==
    /\ start \in [0..Len(msgs) -> Nat] /\ start[0] = 0
    /\ \A i \in 1..Len(msgs) :
          /\ At(bytes, start[i - 1], Encoded(msgs[i]))
          /\ start[i] = start[i - 1] + Len(Encoded(msgs[i]))
    /\ \A i, j \in 0..Len(msgs) : i <= j => start[i] <= start[j]

\* Then come no more bytes, or something else.
Stray(bytes, p) == p < Len(bytes) /\ bytes[p + 1].of = "stray"

\* The messages end within the bytes.
LEMMA LaidInside ==
  ASSUME NEW bytes \in Seq(Cell), NEW msgs \in Seq(Messages), NEW start,
         Laid(bytes, msgs, start), NEW i \in 0..Len(msgs)
  PROVE  start[i] \in Nat /\ start[i] <= Len(bytes)
<1>1. start[i] \in Nat
  BY DEF Laid
<1>2. CASE i = 0
  BY <1>2 DEF Laid
<1>3. CASE i # 0
  <2> DEFINE e == Encoded(msgs[i])
  <2>1. i \in 1..Len(msgs)
    BY <1>3
  <2>2. At(bytes, start[i - 1], e) /\ start[i] = start[i - 1] + Len(e)
    BY <2>1 DEF Laid
  <2> HIDE DEF e
  <2> QED BY <1>1, <2>2 DEF At
<1> QED BY <1>1, <1>2, <1>3

\* Where something else stands, no message is found.
LEMMA StrayStops ==
  ASSUME NEW bytes \in Seq(Cell), NEW p \in Nat, Stray(bytes, p)
  PROVE  ~FromBuf(bytes, p).ok /\ FromBuf(bytes, p).pos = p
<1>1. ~HeaderStands(bytes, p)
  <2>1. 1 \in 1..HeaderSize /\ bytes[p + 1].of # "header"
    BY DEF Stray
  <2> QED BY <2>1 DEF HeaderStands, Stands
<1>2. FromBuf(bytes, p) = [ok |-> FALSE, pos |-> p, message |-> <<>>]
  BY <1>1 DEF FromBuf, Parsed
<1> QED BY <1>2

\* A message, and behind it what the rest of the bytes yields.
Onward(m, rest) == [messages |-> <<m>> \o rest.messages, pos |-> rest.pos]

\* One message of those that are laid.
LEMMA LaidTurn ==
  ASSUME NEW bytes \in Seq(Cell), NEW msgs \in Seq(Messages), NEW start,
         Laid(bytes, msgs, start), NEW i \in 1..Len(msgs), NEW g,
         NEW p \in Nat, p = start[i - 1], NEW q \in Nat, q = start[i],
         NEW m \in Messages, m = msgs[i]
  PROVE  Turn(bytes, g, p) = Onward(m, g[q])
<1> DEFINE e == Encoded(m)
<1>1. At(bytes, p, e) /\ q = p + Len(e)
  BY DEF Laid
<1>2. q <= Len(bytes)
  <2>1. i \in 0..Len(msgs) /\ i - 1 \in 0..Len(msgs)
    OBVIOUS
  <2> QED BY <2>1, LaidInside
<1>3. Len(e) \in Nat /\ Len(e) >= HeaderSize
  BY <1>1, EncodedLength
<1> DEFINE r == FromBuf(bytes, p)
<1>4. r = [ok |-> TRUE, pos |-> p + Len(e), message |-> m]
  <2> DEFINE avail == Len(bytes) - p
  <2>1. avail \in Int /\ Len(e) - HeaderSize <= avail
    <3> HIDE DEF e
    <3> QED BY <1>1, <1>2, <1>3
  <2>2. r = Parsed(bytes, p, avail)
    BY DEF FromBuf
  <2> HIDE DEF avail, r
  <2> QED BY <1>1, <1>2, <2>1, <2>2, RoundTrip
<1> HIDE DEF r, e
<1>5. r.ok = TRUE /\ r.pos = q /\ r.message = m
  BY <1>1, <1>4
<1>6. p < Len(bytes) /\ p # Len(bytes) /\ ~(r.pos > Len(bytes))
  BY <1>1, <1>2, <1>3, <1>5
<1> QED BY <1>5, <1>6 DEF Turn, r, Onward

\* One more in front.
LEMMA SubSeqFrom ==
  ASSUME NEW S, NEW s \in Seq(S), NEW k \in 1..Len(s)
  PROVE  <<s[k]>> \o SubSeq(s, k + 1, Len(s)) = SubSeq(s, k, Len(s))
  OBVIOUS

\* dispatch_ipc_msgs() hands over the messages that stand in what it has read, all
\* of them and in their order, and stops where they end.
THEOREM DispatchedLaid ==
  ASSUME NEW bytes \in Seq(Cell), NEW msgs \in Seq(Messages), NEW start,
         Laid(bytes, msgs, start),
         start[Len(msgs)] = Len(bytes) \/ Stray(bytes, start[Len(msgs)])
  PROVE  Dispatched(bytes) = [messages |-> msgs, pos |-> start[Len(msgs)]]
<1> DEFINE N == Len(msgs)
           end == start[N]
           Yields(g, k) == g[start[k]] = [messages |-> SubSeq(msgs, k + 1, N), pos |-> end]
<1>1. PICK g : /\ g = [p \in 0..Len(bytes) |-> Turn(bytes, g, p)]
               /\ Dispatched(bytes) = g[0]
  BY DispatchedIs
<1>2. \A p \in 0..Len(bytes) : g[p] = Turn(bytes, g, p)
  <2> DEFINE f == [p \in 0..Len(bytes) |-> Turn(bytes, g, p)]
  <2>1. g = f
    BY <1>1
  <2>2. \A p \in 0..Len(bytes) : f[p] = Turn(bytes, g, p)
    OBVIOUS
  <2> HIDE DEF f
  <2> QED BY <2>1, <2>2
<1>3. N \in Nat /\ \A i \in 0..N : start[i] \in 0..Len(bytes)
  BY LaidInside
<1>4. Yields(g, N)
  <2>1. end \in 0..Len(bytes) /\ end \in Nat
    BY <1>3
  <2>2. Turn(bytes, g, end) = [messages |-> <<>>, pos |-> end]
    <3> HIDE DEF end
    <3>1. CASE end = Len(bytes)
      BY <3>1 DEF Turn
    <3>2. CASE Stray(bytes, end)
      <4> DEFINE r == FromBuf(bytes, end)
      <4>1. end < Len(bytes) /\ end # Len(bytes) /\ ~r.ok /\ r.pos = end
        BY <2>1, <3>2, StrayStops DEF Stray
      <4> HIDE DEF r
      <4> QED BY <4>1 DEF Turn, r
    <3> QED BY <3>1, <3>2 DEF end
  <2>3. SubSeq(msgs, N + 1, N) = <<>>
    BY <1>3
  <2>4. g[end] = [messages |-> <<>>, pos |-> end]
    BY <1>2, <2>1, <2>2
  <2> QED BY <2>3, <2>4
<1> DEFINE S == {d \in Nat : d <= N => Yields(g, N - d)}
<1> HIDE DEF N
<1>5. 0 \in S
  <2>1. N - 0 = N
    BY <1>3
  <2> HIDE DEF Yields
  <2> QED BY <1>4, <2>1
<1>6. ASSUME NEW d \in Nat, d \in S PROVE d + 1 \in S
  <2> SUFFICES ASSUME d + 1 <= N PROVE Yields(g, N - (d + 1))
    OBVIOUS
  <2> DEFINE i == N - d
  <2>1. i \in 1..N /\ i \in 0..N /\ i - 1 \in 0..N /\ N - (d + 1) = i - 1 /\ (i - 1) + 1 = i
    BY <1>3
  <2>2. Yields(g, i)
    <3> HIDE DEF Yields
    <3> QED BY <1>3, <1>6
  <2> HIDE DEF i, end
  <2>3. g[start[i - 1]] = [messages |-> <<msgs[i]>> \o g[start[i]].messages,
                           pos |-> g[start[i]].pos]
    <3>1. g[start[i - 1]] = Turn(bytes, g, start[i - 1])
      BY <1>2, <1>3, <2>1
    <3> DEFINE p == start[i - 1]
               q == start[i]
               m == msgs[i]
    <3>2. i \in 1..Len(msgs) /\ p \in Nat /\ q \in Nat /\ m \in Messages
      BY <1>3, <2>1 DEF N
    <3>3. p = start[i - 1] /\ q = start[i] /\ m = msgs[i]
      OBVIOUS
    <3> HIDE DEF p, q, m
    <3>4. Turn(bytes, g, p) = Onward(m, g[q])
      BY <3>2, <3>3, LaidTurn
    <3> QED BY <3>1, <3>3, <3>4 DEF Onward
  <2>4. g[start[i]].messages = SubSeq(msgs, i + 1, N) /\ g[start[i]].pos = end
    <3> DEFINE rest == g[start[i]]
    <3>1. rest = [messages |-> SubSeq(msgs, i + 1, N), pos |-> end]
      BY <2>2
    <3> HIDE DEF rest
    <3>2. rest.messages = SubSeq(msgs, i + 1, N) /\ rest.pos = end
      BY <3>1
    <3> QED BY <3>2 DEF rest
  <2>5. <<msgs[i]>> \o SubSeq(msgs, i + 1, N) = SubSeq(msgs, i, N)
    BY <2>1, SubSeqFrom DEF N
  <2>6. g[start[i - 1]] = [messages |-> SubSeq(msgs, (i - 1) + 1, N), pos |-> end]
    BY <2>1, <2>3, <2>4, <2>5
  <2> QED BY <2>1, <2>6
<1>7. Yields(g, 0)
  <2> HIDE DEF S, Yields
  <2>1. Nat \subseteq S
    BY <1>5, <1>6, Inductive
  <2>2. N \in S
    BY <1>3, <2>1
  <2>3. N <= N /\ N - N = 0
    BY <1>3
  <2> QED BY <2>2, <2>3 DEF S
<1>8. start[0] = 0 /\ SubSeq(msgs, 0 + 1, N) = msgs
  BY DEF Laid, N
<1> QED BY <1>1, <1>7, <1>8 DEF N

\* Bytes that come behind leave what is there.
LEMMA LaidAppended ==
  ASSUME NEW bytes \in Seq(Cell), NEW more \in Seq(Cell), NEW msgs \in Seq(Messages),
         NEW start, Laid(bytes, msgs, start)
  PROVE  Laid(bytes \o more, msgs, start)
<1>1. ASSUME NEW i \in 1..Len(msgs)
      PROVE  At(bytes \o more, start[i - 1], Encoded(msgs[i]))
  <2> DEFINE m == msgs[i]
             p == start[i - 1]
             e == Encoded(m)
  <2>1. m \in Messages /\ p \in Nat /\ At(bytes, p, e)
    <3>1. i - 1 \in 0..Len(msgs)
      OBVIOUS
    <3>2. p \in Nat
      BY <3>1 DEF Laid
    <3>3. At(bytes, p, e)
      BY DEF Laid
    <3> QED BY <3>2, <3>3
  <2>2. e \in Seq(Cell)
    BY <2>1, EncodedIs
  <2> HIDE DEF m, p, e
  <2>3. At(bytes \o more, p, e)
    BY <2>1, <2>2, AtAppended
  <2> QED BY <2>3 DEF m, p, e
<1> QED BY <1>1 DEF Laid

\* Something else stays where it stands.
LEMMA StrayAppended ==
  ASSUME NEW bytes \in Seq(Cell), NEW more \in Seq(Cell), NEW p \in Nat, Stray(bytes, p)
  PROVE  Stray(bytes \o more, p)
<1>1. p + 1 \in 1..Len(bytes)
  BY DEF Stray
<1>2. (bytes \o more)[p + 1] = bytes[p + 1] /\ Len(bytes \o more) = Len(bytes) + Len(more)
  BY <1>1
<1>3. Len(more) \in Nat
  OBVIOUS
<1> QED BY <1>1, <1>2, <1>3 DEF Stray

\* Something else comes behind the messages.
LEMMA StrayBegins ==
  ASSUME NEW bytes \in Seq(Cell), NEW says \in Structure, NEW n \in Nat
  PROVE  /\ Part("stray", n, says) \in Seq(Cell)
         /\ n = 0 => bytes \o Part("stray", n, says) = bytes
         /\ n > 0 => Stray(bytes \o Part("stray", n, says), Len(bytes))
<1> DEFINE more == Part("stray", n, says)
<1>1. \A i \in Nat : [of |-> "stray", byte |-> i, says |-> says] \in Cell
  BY DEF Cell
<1>2. /\ more \in Seq(Cell) /\ Len(more) = n
      /\ \A i \in 1..n : more[i] = [of |-> "stray", byte |-> i, says |-> says]
  BY <1>1, PartType
<1> HIDE DEF more
<1>3. n = 0 => bytes \o more = bytes
  BY <1>2
<1>4. ASSUME n > 0 PROVE Stray(bytes \o more, Len(bytes))
  <2>1. 1 \in 1..n
    BY <1>4
  <2>2. more[1].of = "stray"
    BY <1>2, <2>1
  <2>3. Len(bytes \o more) = Len(bytes) + n /\ (bytes \o more)[Len(bytes) + 1] = more[1]
    <3>1. Len(bytes \o more) = Len(bytes) + Len(more) /\ At(bytes \o more, Len(bytes), more)
      BY <1>2, ConcatAt
    <3> QED BY <1>2, <2>1, <3>1 DEF At
  <2>4. Len(bytes) < Len(bytes \o more)
    BY <1>4, <2>3
  <2> QED BY <2>2, <2>3, <2>4 DEF Stray
<1> QED BY <1>2, <1>3, <1>4 DEF more

\* A message comes behind the messages.
LEMMA LaidExtended ==
  ASSUME NEW bytes \in Seq(Cell), NEW msgs \in Seq(Messages), NEW start,
         Laid(bytes, msgs, start), start[Len(msgs)] = Len(bytes), NEW m \in Messages
  PROVE  \E next : /\ Laid(bytes \o Encoded(m), Append(msgs, m), next)
                   /\ next[Len(msgs) + 1] = Len(bytes \o Encoded(m))
<1> DEFINE n == Len(msgs)
           e == Encoded(m)
           whole == bytes \o e
           all == Append(msgs, m)
           next == [i \in 0..(n + 1) |-> IF i = n + 1 THEN Len(whole) ELSE start[i]]
<1>1. e \in Seq(Cell) /\ Len(e) \in Nat
  BY EncodedIs, EncodedLength
<1>2. n \in Nat /\ start \in [0..n -> Nat] /\ start[0] = 0
  BY DEF Laid
<1> HIDE DEF e
<1>3. /\ whole \in Seq(Cell) /\ Len(whole) = Len(bytes) + Len(e) /\ At(whole, Len(bytes), e)
  BY <1>1, ConcatAt
<1>4. Laid(whole, msgs, start)
  BY <1>1, LaidAppended
<1>5. /\ all \in Seq(Messages) /\ Len(all) = n + 1 /\ all[n + 1] = m
      /\ \A i \in 1..n : all[i] = msgs[i]
  OBVIOUS
<1>6. Len(bytes) \in Nat /\ \A i \in 0..n : start[i] <= Len(bytes)
  BY LaidInside
<1> HIDE DEF whole, all
<1>7. next \in [0..(n + 1) -> Nat]
  BY <1>1, <1>2, <1>3, <1>6
<1>8. next[n + 1] = Len(whole) /\ \A i \in 0..n : next[i] = start[i]
  BY <1>2
<1> HIDE DEF next
<1>9. ASSUME NEW i \in 1..(n + 1)
      PROVE  /\ At(whole, next[i - 1], Encoded(all[i]))
             /\ next[i] = next[i - 1] + Len(Encoded(all[i]))
  <2>1. CASE i = n + 1
    <3>1. i - 1 = n /\ n \in 0..n
      BY <1>2, <2>1
    <3>2. next[i - 1] = Len(bytes) /\ Encoded(all[i]) = e
      BY <1>5, <1>8, <2>1, <3>1 DEF e
    <3>3. next[i] = Len(bytes) + Len(e)
      BY <1>3, <1>8, <2>1
    <3> QED BY <1>3, <3>2, <3>3
  <2>2. CASE i # n + 1
    <3>1. i \in 1..n /\ i \in 0..n /\ i - 1 \in 0..n
      BY <1>2, <2>2
    <3>2. all[i] = msgs[i] /\ next[i] = start[i] /\ next[i - 1] = start[i - 1]
      BY <1>5, <1>8, <3>1
    <3>3. /\ At(whole, start[i - 1], Encoded(msgs[i]))
          /\ start[i] = start[i - 1] + Len(Encoded(msgs[i]))
      BY <1>4, <3>1 DEF Laid
    <3> QED BY <3>2, <3>3
  <2> QED BY <2>1, <2>2
<1>10. ASSUME NEW i \in 0..(n + 1), NEW j \in 0..(n + 1), i <= j PROVE next[i] <= next[j]
  <2>1. CASE j = n + 1
    <3>1. next[j] = Len(bytes) + Len(e)
      BY <1>3, <1>8, <2>1
    <3>2. next[i] \in Nat /\ (i # n + 1 => next[i] <= Len(bytes))
      BY <1>2, <1>6, <1>7, <1>8
    <3> QED BY <1>1, <1>6, <2>1, <3>1, <3>2
  <2>2. CASE j # n + 1
    <3>1. i \in 0..n /\ j \in 0..n
      BY <1>2, <1>10, <2>2
    <3> QED BY <1>4, <1>8, <1>10, <3>1 DEF Laid
  <2> QED BY <2>1, <2>2
<1>11. next[0] = 0
  BY <1>2, <1>8
<1>12. Laid(whole, all, next)
  BY <1>5, <1>7, <1>9, <1>10, <1>11 DEF Laid
<1> QED BY <1>8, <1>12 DEF whole, all, e

\* The first message is taken out.
LEMMA LaidTail ==
  ASSUME NEW bytes \in Seq(Cell), NEW msgs \in Seq(Messages), NEW start,
         Laid(bytes, msgs, start), start[Len(msgs)] = Len(bytes), Len(msgs) >= 1
  PROVE  LET rest == SubSeq(bytes, start[1] + 1, Len(bytes))
         IN  /\ rest \in Seq(Cell)
             /\ \E next : Laid(rest, Tail(msgs), next) /\ next[Len(msgs) - 1] = Len(rest)
<1> DEFINE n == Len(msgs)
           d == start[1]
           rest == SubSeq(bytes, d + 1, Len(bytes))
           all == Tail(msgs)
           next == [i \in 0..(n - 1) |-> start[i + 1] - d]
<1>1. n \in Nat /\ n >= 1 /\ start \in [0..n -> Nat] /\ d \in Nat /\ d <= Len(bytes)
  <2>1. Len(msgs) \in Nat /\ 1 \in 0..Len(msgs)
    OBVIOUS
  <2> QED BY <2>1, LaidInside DEF Laid
<1>2. rest \in Seq(Cell) /\ Len(rest) = Len(bytes) - d
  BY <1>1
<1>3. /\ all \in Seq(Messages) /\ Len(all) = n - 1
      /\ \A i \in 1..(n - 1) : all[i] = msgs[i + 1]
  BY <1>1
<1>4. \A i, j \in 0..n : i <= j => start[i] <= start[j]
  BY DEF Laid
<1> HIDE DEF d, all, rest
<1>5. \A i \in 0..(n - 1) : start[i + 1] \in Nat /\ d <= start[i + 1]
  BY <1>1, <1>4 DEF d
<1>6. next \in [0..(n - 1) -> Nat] /\ \A i \in 0..(n - 1) : next[i] = start[i + 1] - d
  BY <1>1, <1>5
<1> HIDE DEF next
<1>7. ASSUME NEW i \in 1..(n - 1)
      PROVE  /\ At(rest, next[i - 1], Encoded(all[i]))
             /\ next[i] = next[i - 1] + Len(Encoded(all[i]))
  <2> DEFINE m == msgs[i + 1]
             e == Encoded(m)
             p == start[i]
             q == start[i + 1]
  <2>1. i + 1 \in 1..n /\ (i + 1) - 1 = i /\ i \in 0..(n - 1) /\ i - 1 \in 0..(n - 1)
        /\ (i - 1) + 1 = i
    BY <1>1
  <2>2. m \in Messages /\ all[i] = m
    BY <1>3, <2>1
  <2>3. At(bytes, p, e) /\ q = p + Len(e)
    BY <2>1 DEF Laid
  <2>4. e \in Seq(Cell) /\ Len(e) \in Nat
    BY <2>2, EncodedIs, EncodedLength
  <2>5. p \in Nat /\ d <= p /\ next[i - 1] = p - d /\ next[i] = q - d
    BY <1>5, <1>6, <2>1
  <2> HIDE DEF m, e, p, q
  <2>6. At(rest, p - d, e)
    BY <1>1, <2>3, <2>4, <2>5, AtShifted DEF rest
  <2>7. q - d = (p - d) + Len(e)
    BY <1>1, <2>3, <2>4, <2>5
  <2> QED BY <2>2, <2>5, <2>6, <2>7 DEF e
<1>8. ASSUME NEW i \in 0..(n - 1), NEW j \in 0..(n - 1), i <= j PROVE next[i] <= next[j]
  <2>1. i + 1 \in 0..n /\ j + 1 \in 0..n /\ i + 1 <= j + 1
    BY <1>1, <1>8
  <2>2. start[i + 1] <= start[j + 1]
    BY <1>4, <2>1
  <2> QED BY <1>1, <1>5, <1>6, <2>2
<1>9. next[0] = 0
  BY <1>1, <1>6 DEF d
<1>10. Laid(rest, all, next)
  BY <1>3, <1>6, <1>7, <1>8, <1>9 DEF Laid
<1>11. next[n - 1] = Len(rest)
  <2>1. n - 1 \in 0..(n - 1) /\ (n - 1) + 1 = n
    BY <1>1
  <2>2. next[n - 1] = start[n] - d
    BY <1>6, <2>1
  <2> QED BY <1>2, <2>2
<1> QED BY <1>2, <1>10, <1>11 DEF rest, all, d

----------------------------------------------------------------------------
(***************************************************************************)
(* The two ends                                                            *)
(***************************************************************************)

\* What the pipe carries: the messages that were sent after the first `base' of
\* them, all of them, or those that were sent before something else was printed.
Carries(msgs, start, base) ==
    /\ Laid(pipe, msgs, start)
    /\ base \in Nat /\ base + Len(msgs) <= Len(sent)
    /\ \A i \in 1..Len(msgs) : msgs[i] = sent[base + i]
    /\ \/ start[Len(msgs)] = Len(pipe) /\ base + Len(msgs) = Len(sent)
       \/ stray > 0 /\ Stray(pipe, start[Len(msgs)])

\* What has been handled: some of the first `base' messages, in their order, and
\* all of them as long as nothing else was printed.
Picked(f, base) ==
    /\ f \in [1..Len(handled) -> 1..base]
    /\ \A i, j \in 1..Len(handled) : i < j => f[i] < f[j]
    /\ \A i \in 1..Len(handled) : handled[i] = sent[f[i]]
    /\ stray = 0 => /\ Len(handled) = base
                    /\ \A i \in 1..base : handled[i] = sent[i]

\* Every message is accounted for.
Accounted == \E msgs, start, base, f :
    msgs \in Seq(Messages) /\ Carries(msgs, start, base) /\ Picked(f, base)

\* The inductive invariant.
IInv ==
    /\ TypeOK /\ beyond = 0
    /\ reader = "descriptor" => stray = 0
    /\ Accounted

\* At first nothing has been sent and nothing handled.
LEMMA InitAccounted == Init => IInv
<1> SUFFICES ASSUME Init PROVE IInv
  OBVIOUS
<1>1. TypeOK /\ beyond = 0 /\ stray = 0
  <2>1. pipe \in Seq(Cell) /\ handled \in Seq(Messages) /\ sent \in Seq(Messages)
    BY DEF Init
  <2> QED BY <2>1 DEF Init, TypeOK
<1> DEFINE none == <<>>
           start == [i \in 0..0 |-> 0]
<1>2. pipe = none /\ handled = none /\ sent = none
  BY DEF Init
<1>3. none \in Seq(Messages) /\ Len(none) = 0 /\ start \in [0..0 -> Nat] /\ start[0] = 0
  OBVIOUS
<1> HIDE DEF none, start
<1>4. Laid(pipe, none, start)
  BY <1>2, <1>3 DEF Laid
<1>5. Carries(none, start, 0)
  BY <1>2, <1>3, <1>4 DEF Carries
<1> DEFINE f == [i \in 1..0 |-> 0]
<1>6. f \in [1..0 -> 1..0]
  OBVIOUS
<1> HIDE DEF f
<1>7. Picked(f, 0)
  BY <1>2, <1>3, <1>6 DEF Picked
<1> QED BY <1>1, <1>3, <1>5, <1>7 DEF IInv, Accounted

\* More is sent or printed: what has been handled stays what it was.
LEMMA StillPicked ==
  ASSUME TypeOK, NEW f, NEW base \in Nat, base <= Len(sent), Picked(f, base), handled' = handled,
         sent' = sent \/ \E m \in Messages : sent' = Append(sent, m),
         stray' = 0 => stray = 0
  PROVE  Picked(f, base)'
<1>1. sent \in Seq(Messages) /\ Len(sent) \in Nat
  BY DEF TypeOK
<1>2. \A i \in 1..Len(sent) : sent'[i] = sent[i]
  BY <1>1
<1>3. 1..base \subseteq 1..Len(sent)
  BY <1>1
<1>4. \A i \in 1..Len(handled) : f[i] \in 1..base
  BY DEF Picked
<1>5. \A i \in 1..Len(handled) : handled[i] = sent'[f[i]]
  <2> TAKE i \in 1..Len(handled)
  <2>1. f[i] \in 1..Len(sent)
    BY <1>3, <1>4
  <2>2. handled[i] = sent[f[i]]
    BY DEF Picked
  <2> QED BY <1>2, <2>1, <2>2
<1>6. ASSUME stray' = 0 PROVE Len(handled) = base /\ \A i \in 1..base : handled[i] = sent'[i]
  <2>1. Len(handled) = base /\ \A i \in 1..base : handled[i] = sent[i]
    BY <1>6 DEF Picked
  <2> QED BY <1>2, <1>3, <2>1
<1> QED BY <1>5, <1>6 DEF Picked

\* A message is written behind what the pipe carries.
LEMMA SendAccounted ==
  ASSUME IInv, NEW m \in Messages, Send(m)
  PROVE  IInv'
<1> DEFINE e == Encoded(m)
<1>1. /\ pipe \in Seq(Cell) /\ sent \in Seq(Messages) /\ handled \in Seq(Messages)
      /\ stray \in Nat /\ top \in Nat /\ Len(sent) \in Nat
  BY DEF IInv, TypeOK
<1>2. e \in Seq(Cell)
  BY EncodedIs
<1>3. reader' = reader /\ handled' = handled /\ beyond' = beyond /\ stray' = stray
  BY DEF Send
<1>4. top' \in Nat /\ aborted' \in BOOLEAN
  BY <1>1, Overshoot DEF Send
<1>5. \/ pipe' = pipe /\ sent' = sent
      \/ pipe' = pipe \o e /\ sent' = Append(sent, m)
  BY DEF Send
<1> HIDE DEF e
<1>6. pipe' \in Seq(Cell) /\ sent' \in Seq(Messages)
  <2>1. pipe \o e \in Seq(Cell)
    BY <1>1, <1>2
  <2>2. Append(sent, m) \in Seq(Messages)
    BY <1>1
  <2> QED BY <1>1, <1>5, <2>1, <2>2
<1>7. TypeOK'
  BY <1>3, <1>4, <1>6 DEF IInv, TypeOK
<1>8. PICK msgs, start, base, f :
        msgs \in Seq(Messages) /\ Carries(msgs, start, base) /\ Picked(f, base)
  BY DEF IInv, Accounted
<1>8a. msgs \in Seq(Messages)
  BY <1>8
<1> USE <1>8a
<1>9. base \in Nat /\ base <= Len(sent) /\ Len(msgs) \in Nat
  BY <1>1, <1>8 DEF Carries
<1>10. Picked(f, base)'
  <2>1. /\ TypeOK /\ (stray' = 0 => stray = 0)
        /\ (sent' = sent \/ \E n \in Messages : sent' = Append(sent, n))
    BY <1>3, <1>5 DEF IInv
  <2> QED BY <1>3, <1>8, <1>9, <2>1, StillPicked
<1>11. \E all \in Seq(Messages) : \E next : Carries(all, next, base)'
  <2>1. CASE pipe' = pipe /\ sent' = sent
    <3>1. Carries(msgs, start, base)'
      BY <1>3, <1>8, <2>1 DEF Carries
    <3> QED BY <3>1
  <2>2. CASE pipe' = pipe \o e /\ sent' = Append(sent, m)
    <3>1. /\ Len(sent') = Len(sent) + 1 /\ sent'[Len(sent) + 1] = m
          /\ \A i \in 1..Len(sent) : sent'[i] = sent[i]
      BY <1>1, <2>2
    <3>2. ASSUME NEW i \in 1..Len(msgs) PROVE msgs[i] = sent'[base + i]
      <4>1. msgs[i] = sent[base + i] /\ base + Len(msgs) <= Len(sent)
        BY <1>8 DEF Carries
      <4>2. base + i \in 1..Len(sent)
        BY <1>1, <1>9, <4>1
      <4> QED BY <3>1, <4>1, <4>2
    <3>3. CASE start[Len(msgs)] = Len(pipe) /\ base + Len(msgs) = Len(sent)
      <4> DEFINE all == Append(msgs, m)
      <4>1. PICK next : Laid(pipe', all, next) /\ next[Len(msgs) + 1] = Len(pipe')
        <5>1. Laid(pipe, msgs, start)
          BY <1>8 DEF Carries
        <5> QED BY <1>1, <2>2, <3>3, <5>1, LaidExtended DEF e
      <4>2. /\ all \in Seq(Messages) /\ Len(all) = Len(msgs) + 1 /\ all[Len(msgs) + 1] = m
            /\ \A i \in 1..Len(msgs) : all[i] = msgs[i]
        OBVIOUS
      <4> HIDE DEF all
      <4>3. ASSUME NEW i \in 1..Len(all) PROVE all[i] = sent'[base + i]
        <5>1. CASE i = Len(msgs) + 1
          <6>1. base + i = Len(sent) + 1
            BY <1>9, <3>3, <5>1
          <6> QED BY <3>1, <4>2, <5>1, <6>1
        <5>2. CASE i # Len(msgs) + 1
          <6>1. i \in 1..Len(msgs)
            BY <1>9, <4>2, <5>2
          <6> QED BY <3>2, <4>2, <6>1
        <5> QED BY <5>1, <5>2
      <4>4. base + Len(all) = Len(sent') /\ next[Len(all)] = Len(pipe')
        <5>1. Len(all) = Len(msgs) + 1 /\ next[Len(all)] = Len(pipe')
          BY <4>1, <4>2
        <5>2. Len(sent') = Len(sent) + 1 /\ base + Len(msgs) = Len(sent)
          BY <3>1, <3>3
        <5>3. base + (Len(msgs) + 1) = Len(sent) + 1
          BY <1>1, <1>9, <5>2
        <5> QED BY <5>1, <5>2, <5>3
      <4>5. base + Len(all) <= Len(sent')
        BY <3>1, <4>4, <1>1
      <4>6. Carries(all, next, base)'
        BY <1>9, <4>1, <4>3, <4>4, <4>5 DEF Carries
      <4> QED BY <4>2, <4>6
    <3>4. CASE stray > 0 /\ Stray(pipe, start[Len(msgs)])
      <4>1. Laid(pipe, msgs, start) /\ start[Len(msgs)] \in Nat
        <5>1. Laid(pipe, msgs, start) /\ Len(msgs) \in 0..Len(msgs)
          BY <1>8, <1>9 DEF Carries
        <5> QED BY <1>1, <5>1, LaidInside
      <4>2. Laid(pipe', msgs, start)
        BY <1>1, <1>2, <2>2, <4>1, LaidAppended
      <4>3. Stray(pipe', start[Len(msgs)])
        BY <1>1, <1>2, <2>2, <3>4, <4>1, StrayAppended
      <4>4. base + Len(msgs) <= Len(sent')
        <5>1. base + Len(msgs) <= Len(sent)
          BY <1>8 DEF Carries
        <5> QED BY <1>1, <1>9, <3>1, <5>1
      <4>5. stray' > 0
        BY <1>3, <3>4
      <4>6. Carries(msgs, start, base)'
        BY <1>9, <3>2, <4>2, <4>3, <4>4, <4>5 DEF Carries
      <4> QED BY <4>6
    <3> QED BY <1>8, <3>3, <3>4 DEF Carries
  <2> QED BY <1>5, <2>1, <2>2
<1>12. Accounted'
  BY <1>10, <1>11 DEF Accounted
<1> QED BY <1>3, <1>7, <1>12 DEF IInv

\* Something else is printed behind what the pipe carries.
LEMMA PrintsAccounted ==
  ASSUME IInv, NEW n \in StrayLengths, Prints(n)
  PROVE  IInv'
<1> DEFINE says == [type |-> "SOSC_DEVICE_READY", port |-> 0]
           more == Part("stray", n, says)
<1>1. /\ pipe \in Seq(Cell) /\ sent \in Seq(Messages) /\ handled \in Seq(Messages)
      /\ stray \in Nat /\ Len(sent) \in Nat
  BY DEF IInv, TypeOK
<1>2. /\ reader = "buffer" /\ pipe' = pipe \o more /\ stray' = stray + 1
      /\ reader' = reader /\ handled' = handled /\ top' = top /\ beyond' = beyond /\ sent' = sent
      /\ aborted' = aborted
  BY DEF Prints
<1>3. says \in Structure /\ n \in Nat
  BY InputsAssumption DEF Structure, Types
<1> HIDE DEF says
<1>4. /\ more \in Seq(Cell) /\ (n = 0 => pipe \o more = pipe)
      /\ (n > 0 => Stray(pipe \o more, Len(pipe)))
  BY <1>1, <1>3, StrayBegins
<1> HIDE DEF more
<1>5. pipe' \in Seq(Cell) /\ stray' \in Nat /\ stray' > 0
  BY <1>1, <1>2, <1>4
<1>6. TypeOK'
  BY <1>2, <1>5 DEF IInv, TypeOK
<1>7. PICK msgs, start, base, f :
        msgs \in Seq(Messages) /\ Carries(msgs, start, base) /\ Picked(f, base)
  BY DEF IInv, Accounted
<1>7a. msgs \in Seq(Messages)
  BY <1>7
<1> USE <1>7a
<1>8. base \in Nat /\ base <= Len(sent) /\ Len(msgs) \in Nat
  BY <1>1, <1>7 DEF Carries
<1>9. Picked(f, base)'
  <2>1. TypeOK /\ (stray' = 0 => stray = 0)
    BY <1>5 DEF IInv
  <2> QED BY <1>2, <1>7, <1>8, <2>1, StillPicked
<1>10. Laid(pipe, msgs, start) /\ start[Len(msgs)] \in Nat
  <2>1. Laid(pipe, msgs, start) /\ Len(msgs) \in 0..Len(msgs)
    BY <1>7, <1>8 DEF Carries
  <2> QED BY <1>1, <2>1, LaidInside
<1>11. Laid(pipe', msgs, start)
  BY <1>1, <1>2, <1>4, <1>10, LaidAppended
<1>12. \/ start[Len(msgs)] = Len(pipe') /\ base + Len(msgs) = Len(sent)
       \/ Stray(pipe', start[Len(msgs)])
  <2>1. CASE start[Len(msgs)] = Len(pipe) /\ base + Len(msgs) = Len(sent)
    <3>1. CASE n = 0
      BY <1>2, <1>4, <2>1, <3>1
    <3>2. CASE n > 0
      BY <1>2, <1>4, <2>1, <3>2
    <3> QED BY <1>3, <3>1, <3>2
  <2>2. CASE Stray(pipe, start[Len(msgs)])
    BY <1>1, <1>2, <1>4, <1>10, <2>2, StrayAppended
  <2> QED BY <1>7, <2>1, <2>2 DEF Carries
<1>13. Carries(msgs, start, base)'
  BY <1>2, <1>5, <1>7, <1>8, <1>11, <1>12 DEF Carries
<1>14. Accounted'
  BY <1>9, <1>13 DEF Accounted
<1> QED BY <1>2, <1>6, <1>14 DEF IInv

\* The messages that are handed over are the next ones: they follow those that
\* were handled.
LEMMA PickedMore ==
  ASSUME TypeOK, NEW f, NEW base \in Nat, Picked(f, base),
         NEW msgs \in Seq(Messages), \A i \in 1..Len(msgs) : msgs[i] = sent[base + i],
         NEW next \in Nat, base + Len(msgs) <= next, stray = 0 => base + Len(msgs) = next,
         handled' = handled \o msgs, sent' = sent, stray' = stray
  PROVE  \E g : Picked(g, next)'
<1> DEFINE h == Len(handled)
           k == Len(msgs)
<1>1. handled \in Seq(Messages) /\ h \in Nat /\ k \in Nat
  BY DEF TypeOK
<1>2. /\ Len(handled') = h + k
      /\ \A i \in 1..h : handled'[i] = handled[i]
      /\ \A i \in (h + 1)..(h + k) : handled'[i] = msgs[i - h]
  BY <1>1
<1> HIDE DEF h, k
<1>3. \A i \in 1..h : f[i] \in 1..base /\ handled[i] = sent[f[i]]
  BY DEF Picked, h
<1> DEFINE G == [i \in 1..(h + k) |-> IF i <= h THEN f[i] ELSE base + (i - h)]
<1>0. PICK g : g = G
  OBVIOUS
<1>4. /\ \A i \in 1..h : g[i] = f[i]
      /\ \A i \in (h + 1)..(h + k) : g[i] = base + (i - h) /\ i - h \in 1..k
  BY <1>1, <1>0
<1>5. g \in [1..(h + k) -> 1..next]
  <2>1. ASSUME NEW i \in 1..(h + k) PROVE g[i] \in 1..next
    <3>1. CASE i <= h
      <4>1. i \in 1..h
        BY <1>1, <3>1
      <4>2. g[i] = f[i] /\ f[i] \in 1..base
        BY <1>3, <1>4, <4>1
      <4> HIDE DEF G
      <4> QED BY <1>1, <4>2 DEF k
    <3>2. CASE ~(i <= h)
      <4>1. i \in (h + 1)..(h + k)
        BY <1>1, <3>2
      <4>2. g[i] = base + (i - h) /\ i - h \in 1..k
        BY <1>4, <4>1
      <4> HIDE DEF G
      <4> QED BY <1>1, <4>2 DEF k
    <3> QED BY <3>1, <3>2
  <2>2. DOMAIN g = 1..(h + k) /\ g = [i \in DOMAIN g |-> g[i]]
    BY <1>0
  <2> HIDE DEF G
  <2> QED BY <2>1, <2>2
<1> HIDE DEF G
<1>6. ASSUME NEW i \in 1..(h + k), NEW j \in 1..(h + k), i < j PROVE g[i] < g[j]
  <2>1. CASE j <= h
    <3>1. i \in 1..h /\ j \in 1..h
      BY <1>1, <1>6, <2>1
    <3>2. f[i] < f[j]
      BY <1>6, <3>1 DEF Picked, h
    <3> QED BY <1>4, <3>1, <3>2
  <2>2. CASE i <= h /\ ~(j <= h)
    <3>1. i \in 1..h /\ j \in (h + 1)..(h + k)
      BY <1>1, <2>2
    <3>2. g[i] \in 1..base /\ g[j] = base + (j - h) /\ j - h \in 1..k
      BY <1>3, <1>4, <3>1
    <3> QED BY <1>1, <3>2
  <2>3. CASE ~(i <= h)
    <3>1. i \in (h + 1)..(h + k) /\ j \in (h + 1)..(h + k)
      BY <1>1, <1>6, <2>3
    <3>2. g[i] = base + (i - h) /\ g[j] = base + (j - h)
      BY <1>4, <3>1
    <3> QED BY <1>1, <1>6, <3>2
  <2> QED BY <2>1, <2>2, <2>3
<1>7. ASSUME NEW i \in 1..(h + k) PROVE handled'[i] = sent[g[i]]
  <2>1. CASE i <= h
    <3>1. i \in 1..h
      BY <1>1, <2>1
    <3> QED BY <1>2, <1>3, <1>4, <3>1
  <2>2. CASE ~(i <= h)
    <3>1. i \in (h + 1)..(h + k)
      BY <1>1, <2>2
    <3>2. i - h \in 1..k /\ g[i] = base + (i - h) /\ handled'[i] = msgs[i - h]
      BY <1>2, <1>4, <3>1
    <3>3. msgs[i - h] = sent[base + (i - h)]
      BY <3>2 DEF k
    <3> QED BY <3>2, <3>3
  <2> QED BY <2>1, <2>2
<1>8. ASSUME stray = 0 PROVE h + k = next /\ \A i \in 1..next : handled'[i] = sent[i]
  <2>1. h = base /\ \A i \in 1..base : handled[i] = sent[i]
    BY <1>8 DEF Picked, h
  <2>2. h + k = next
    BY <1>8, <2>1 DEF k
  <2>3. ASSUME NEW i \in 1..next PROVE handled'[i] = sent[i]
    <3>1. CASE i <= h
      <4>1. i \in 1..h
        BY <3>1, <1>1
      <4> QED BY <1>2, <2>1, <4>1
    <3>2. CASE ~(i <= h)
      <4>1. i \in (h + 1)..(h + k) /\ i - h \in 1..k /\ base + (i - h) = i
        BY <1>1, <2>1, <2>2, <3>2
      <4>2. handled'[i] = msgs[i - h] /\ msgs[i - h] = sent[base + (i - h)]
        BY <1>2, <4>1 DEF k
      <4> QED BY <4>1, <4>2
    <3> QED BY <3>1, <3>2
  <2> QED BY <2>2, <2>3
<1>9. Picked(g, next)'
  <2>1. g \in [1..Len(handled') -> 1..next]
    BY <1>2, <1>5
  <2>2. \A i, j \in 1..Len(handled') : i < j => g[i] < g[j]
    BY <1>2, <1>6
  <2>3. \A i \in 1..Len(handled') : handled'[i] = sent'[g[i]]
    BY <1>2, <1>7
  <2>4. ASSUME stray' = 0
        PROVE  Len(handled') = next /\ \A i \in 1..next : handled'[i] = sent'[i]
    BY <1>2, <1>8, <2>4
  <2> QED BY <2>1, <2>2, <2>3, <2>4 DEF Picked
<1> QED BY <1>9

\* A read of the daemon hands over what the pipe carries.
LEMMA DispatchAccounted ==
  ASSUME IInv, Dispatch
  PROVE  IInv'
<1> DEFINE all == Dispatched(pipe)
<1>1. /\ pipe \in Seq(Cell) /\ sent \in Seq(Messages) /\ handled \in Seq(Messages)
      /\ stray \in Nat /\ Len(sent) \in Nat /\ TypeOK
  BY DEF IInv, TypeOK
<1>2. /\ reader = "buffer" /\ pipe' = <<>> /\ handled' = handled \o all.messages
      /\ beyond' = Excess(all.pos)
      /\ reader' = reader /\ top' = top /\ sent' = sent /\ stray' = stray
      /\ aborted' = aborted
  BY DEF Dispatch
<1> HIDE DEF all
<1>3. PICK msgs, start, base, f :
        msgs \in Seq(Messages) /\ Carries(msgs, start, base) /\ Picked(f, base)
  BY DEF IInv, Accounted
<1>3a. msgs \in Seq(Messages)
  BY <1>3
<1> USE <1>3a
<1>4. base \in Nat /\ base + Len(msgs) <= Len(sent) /\ Len(msgs) \in Nat
      /\ Laid(pipe, msgs, start)
  BY <1>1, <1>3 DEF Carries
<1>5. start[Len(msgs)] \in Nat /\ start[Len(msgs)] <= Len(pipe)
  <2>1. Len(msgs) \in 0..Len(msgs)
    BY <1>4
  <2> QED BY <1>1, <1>4, <2>1, LaidInside
<1>6. all = [messages |-> msgs, pos |-> start[Len(msgs)]]
  <2>1. start[Len(msgs)] = Len(pipe) \/ Stray(pipe, start[Len(msgs)])
    BY <1>3 DEF Carries
  <2> QED BY <1>1, <1>4, <2>1, DispatchedLaid DEF all
<1>7. all.messages = msgs /\ all.pos = start[Len(msgs)]
  BY <1>6
<1>8. beyond' = 0
  BY <1>1, <1>2, <1>5, <1>7 DEF Excess
<1>9. handled' = handled \o msgs /\ handled' \in Seq(Messages)
  BY <1>1, <1>2, <1>7
<1>10. TypeOK'
  <2>1. pipe' \in Seq(Cell)
    BY <1>2
  <2> QED BY <1>1, <1>2, <1>8, <1>9, <2>1 DEF TypeOK
<1>11. \E g : Picked(g, Len(sent))'
  <2>1. stray = 0 => base + Len(msgs) = Len(sent)
    BY <1>1, <1>3 DEF Carries
  <2>2. \A i \in 1..Len(msgs) : msgs[i] = sent[base + i]
    BY <1>3 DEF Carries
  <2> PICK next : next = Len(sent)
    OBVIOUS
  <2>3. \E g : Picked(g, next)'
    <3>1. /\ next \in Nat /\ base + Len(msgs) <= next /\ (stray = 0 => base + Len(msgs) = next)
      BY <1>1, <1>4, <2>1
    <3>2. TypeOK /\ Picked(f, base) /\ base \in Nat /\ handled' = handled \o msgs
      BY <1>1, <1>3, <1>4, <1>9
    <3>3. sent' = sent /\ stray' = stray
      BY <1>2
    <3> QED BY <2>2, <3>1, <3>2, <3>3, PickedMore
  <2>4. Len(sent)' = Len(sent)
    BY <1>2
  <2> QED BY <2>3, <2>4
<1>12. \E none \in Seq(Messages) : \E at : Carries(none, at, Len(sent))'
  <2> DEFINE none == <<>>
             at == [i \in 0..0 |-> 0]
  <2>1. none \in Seq(Messages) /\ Len(none) = 0 /\ at \in [0..0 -> Nat] /\ at[0] = 0
    OBVIOUS
  <2>2. pipe' = none
    BY <1>2
  <2> HIDE DEF none, at
  <2>3. Laid(pipe', none, at)
    BY <2>1, <2>2 DEF Laid
  <2>4. Carries(none, at, Len(sent))'
    BY <1>1, <1>2, <2>1, <2>2, <2>3 DEF Carries
  <2> QED BY <2>1, <2>4
<1>13. Accounted'
  BY <1>11, <1>12 DEF Accounted
<1> QED BY <1>2, <1>8, <1>10, <1>13 DEF IInv

\* A device server takes the first message out of the pipe.
LEMMA ReceiveAccounted ==
  ASSUME IInv, Receive
  PROVE  IInv'
<1> DEFINE one == ReadFrom(pipe)
<1>1. /\ pipe \in Seq(Cell) /\ sent \in Seq(Messages) /\ handled \in Seq(Messages)
      /\ stray = 0 /\ Len(sent) \in Nat /\ TypeOK /\ pipe # <<>>
  BY DEF IInv, TypeOK, Receive
<1>2. /\ reader = "descriptor"
      /\ handled' = IF one.ok THEN Append(handled, one.message) ELSE handled
      /\ pipe' = SubSeq(pipe, one.pos + 1, Len(pipe)) /\ beyond' = Excess(one.pos)
      /\ reader' = reader /\ top' = top /\ sent' = sent /\ stray' = stray
      /\ aborted' = aborted
  BY DEF Receive
<1> HIDE DEF one
<1>3. PICK msgs, start, base, f :
        msgs \in Seq(Messages) /\ Carries(msgs, start, base) /\ Picked(f, base)
  BY DEF IInv, Accounted
<1>3a. msgs \in Seq(Messages)
  BY <1>3
<1> USE <1>3a
<1>4. base \in Nat /\ Len(msgs) \in Nat /\ Laid(pipe, msgs, start)
      /\ start[Len(msgs)] = Len(pipe) /\ base + Len(msgs) = Len(sent)
  BY <1>1, <1>3 DEF Carries
<1>5. Len(msgs) >= 1
  <2>1. Len(pipe) \in Nat /\ Len(pipe) # 0
    BY <1>1
  <2>2. Len(msgs) # 0
    BY <1>4, <2>1 DEF Laid
  <2> QED BY <1>4, <2>2
<1> DEFINE m == msgs[1]
           e == Encoded(m)
           d == start[1]
<1>6. m \in Messages /\ At(pipe, 0, e) /\ d = 0 + Len(e) /\ m = sent[base + 1]
  <2>1. 1 \in 1..Len(msgs) /\ 1 - 1 = 0
    BY <1>4, <1>5
  <2>2. start[0] = 0 /\ At(pipe, start[1 - 1], e) /\ d = start[1 - 1] + Len(e)
    BY <1>4, <2>1 DEF Laid
  <2>3. m = sent[base + 1] /\ m \in Messages
    BY <1>3, <2>1 DEF Carries
  <2> QED BY <2>1, <2>2, <2>3
<1>7. Len(e) \in Nat /\ Len(e) >= HeaderSize /\ d = Len(e) /\ d <= Len(pipe)
  <2>1. Len(e) \in Nat /\ Len(e) >= HeaderSize
    BY <1>6, EncodedLength
  <2> HIDE DEF e, d
  <2> QED BY <1>6, <2>1 DEF At
<1>8. HeaderStands(pipe, 0)
  BY <1>1, <1>6, HeaderFound
<1>9. Parsed(pipe, 0, Len(pipe) - HeaderSize) = [ok |-> TRUE, pos |-> 0 + Len(e), message |-> m]
  <2> DEFINE avail == Len(pipe) - HeaderSize
  <2>1. avail \in Int /\ Len(e) - HeaderSize <= avail /\ 0 \in Nat
    <3> HIDE DEF e, d
    <3> QED BY <1>1, <1>7
  <2> HIDE DEF avail, m
  <2>2. Parsed(pipe, 0, avail) = [ok |-> TRUE, pos |-> 0 + Len(Encoded(m)), message |-> m]
    BY <1>1, <1>6, <2>1, RoundTrip
  <2> QED BY <2>2 DEF avail
<1> HIDE DEF m, e, d
<1>10. one.ok = TRUE /\ one.pos = d /\ one.message = m
  <2>1. one = [Parsed(pipe, 0, Len(pipe) - HeaderSize) EXCEPT !.pos = @]
    BY <1>8 DEF ReadFrom, one
  <2> QED BY <1>7, <1>9, <2>1
<1>11. handled' = Append(handled, m) /\ pipe' = SubSeq(pipe, d + 1, Len(pipe))
  BY <1>2, <1>10
<1>12. beyond' = 0
  BY <1>1, <1>2, <1>7, <1>10 DEF Excess
<1> DEFINE rest == Tail(msgs)
<1>13. /\ rest \in Seq(Messages) /\ Len(rest) = Len(msgs) - 1
       /\ \A i \in 1..(Len(msgs) - 1) : rest[i] = msgs[i + 1]
  BY <1>4, <1>5
<1>14. PICK next : Laid(pipe', rest, next) /\ next[Len(msgs) - 1] = Len(pipe')
  BY <1>1, <1>4, <1>5, <1>11, LaidTail DEF d
<1>15. pipe' \in Seq(Cell)
  BY <1>1, <1>4, <1>5, <1>11, LaidTail DEF d
<1> HIDE DEF rest
<1>16. Carries(rest, next, base + 1)'
  <2>1. ASSUME NEW i \in 1..Len(rest) PROVE rest[i] = sent[(base + 1) + i]
    <3>1. rest[i] = msgs[i + 1] /\ i + 1 \in 1..Len(msgs)
      BY <1>4, <1>13
    <3>2. msgs[i + 1] = sent[base + (i + 1)]
      BY <1>3, <3>1 DEF Carries
    <3>3. base + (i + 1) = (base + 1) + i
      BY <1>4
    <3> QED BY <3>1, <3>2, <3>3
  <2>2. /\ base + 1 \in Nat /\ (base + 1) + Len(rest) = Len(sent)
        /\ (base + 1) + Len(rest) <= Len(sent)
    <3>1. Len(rest) = Len(msgs) - 1
      BY <1>13
    <3>2. base \in Nat /\ Len(msgs) \in Nat /\ Len(sent) \in Nat /\ base + Len(msgs) = Len(sent)
      BY <1>1, <1>4
    <3> QED BY <3>1, <3>2
  <2>3. next[Len(rest)] = Len(pipe')
    BY <1>13, <1>14
  <2> QED BY <1>2, <1>14, <2>1, <2>2, <2>3 DEF Carries
<1>17. \E g : Picked(g, base + 1)'
  <2> DEFINE single == <<m>>
             next1 == base + 1
  <2>1. /\ single \in Seq(Messages) /\ Len(single) = 1 /\ single[1] = m
        /\ handled \o single = Append(handled, m)
    BY <1>1, <1>6
  <2> HIDE DEF single
  <2>2. \A i \in 1..Len(single) : single[i] = sent[base + i]
    BY <1>6, <2>1
  <2>3. next1 \in Nat /\ base + Len(single) <= next1 /\ base + Len(single) = next1
    BY <1>4, <2>1
  <2> HIDE DEF next1
  <2>4. handled' = handled \o single
    BY <1>11, <2>1
  <2>5. \E g : Picked(g, next1)'
    BY <1>1, <1>2, <1>3, <1>4, <2>1, <2>2, <2>3, <2>4, PickedMore
  <2> QED BY <2>5 DEF next1
<1>18. Accounted'
  BY <1>13, <1>16, <1>17 DEF Accounted
<1>19. TypeOK'
  <2>1. handled' \in Seq(Messages)
    BY <1>1, <1>6, <1>11
  <2> QED BY <1>1, <1>2, <1>12, <1>15, <2>1 DEF TypeOK
<1> QED BY <1>1, <1>2, <1>12, <1>18, <1>19 DEF IInv

\* The invariant holds in every state.
THEOREM Invariance == Spec => []IInv
<1>1. IInv /\ [Next]_vars => IInv'
  <2> SUFFICES ASSUME IInv, [Next]_vars PROVE IInv'
    OBVIOUS
  <2>1. ASSUME NEW m \in Messages, Send(m) PROVE IInv'
    BY <2>1, SendAccounted
  <2>2. ASSUME NEW n \in StrayLengths, Prints(n) PROVE IInv'
    BY <2>2, PrintsAccounted
  <2>3. CASE Dispatch
    BY <2>3, DispatchAccounted
  <2>4. CASE Receive
    BY <2>4, ReceiveAccounted
  <2>5. CASE UNCHANGED vars
    <3>1. /\ reader' = reader /\ pipe' = pipe /\ handled' = handled /\ top' = top
          /\ beyond' = beyond /\ sent' = sent /\ stray' = stray /\ aborted' = aborted
      BY <2>5 DEF vars
    <3>2. PICK msgs, start, base, f :
            msgs \in Seq(Messages) /\ Carries(msgs, start, base) /\ Picked(f, base)
      BY DEF IInv, Accounted
    <3>2a. msgs \in Seq(Messages)
      BY <3>2
    <3> USE <3>2a
    <3>3. Carries(msgs, start, base)'
      BY <3>1, <3>2 DEF Carries
    <3>4. Picked(f, base)'
      BY <3>1, <3>2 DEF Picked
    <3>5. TypeOK' /\ beyond' = 0 /\ (reader' = "descriptor" => stray' = 0)
      BY <3>1 DEF IInv, TypeOK
    <3> QED BY <3>3, <3>4, <3>5 DEF IInv, Accounted
  <2> QED BY <2>1, <2>2, <2>3, <2>4, <2>5 DEF Next
<1> QED BY <1>1, InitAccounted, PTL DEF Spec

\* Types: what is in the pipe is bytes, what is handled is messages.
THEOREM TypeCorrect == Spec => []TypeOK
<1>1. IInv => TypeOK
  BY DEF IInv
<1> QED BY <1>1, Invariance, PTL

\* The receiver looks at nothing but what it has read, whatever was sent and printed,
\* though strdata_from_buf() is told HeaderSize bytes too many.
THEOREM ReceiverBounded == Spec => []ReceiverInBounds
<1>1. IInv => ReceiverInBounds
  BY DEF IInv, ReceiverInBounds
<1> QED BY <1>1, Invariance, PTL

\* With nothing else in the pipe, what has been handled is what was sent, in order,
\* and nothing is left out when the pipe has been read.
THEOREM AllDelivered == Spec => []Delivered
<1>1. IInv => Delivered
  <2> SUFFICES ASSUME IInv, stray = 0
               PROVE  handled = SubSeq(sent, 1, Len(handled)) /\ (pipe = <<>> => handled = sent)
    BY DEF Delivered
  <2>1. sent \in Seq(Messages) /\ handled \in Seq(Messages) /\ Len(sent) \in Nat
    BY DEF IInv, TypeOK
  <2>2. PICK msgs, start, base, f :
          msgs \in Seq(Messages) /\ Carries(msgs, start, base) /\ Picked(f, base)
    BY DEF IInv, Accounted
  <2>2a. msgs \in Seq(Messages)
    BY <2>2
  <2> USE <2>2a
  <2>3. /\ base \in Nat /\ base <= Len(sent) /\ Len(handled) = base /\ Len(msgs) \in Nat
        /\ \A i \in 1..base : handled[i] = sent[i]
    BY <2>1, <2>2 DEF Carries, Picked
  <2>4. handled = SubSeq(sent, 1, Len(handled))
    BY <2>1, <2>3
  <2>5. ASSUME pipe = <<>> PROVE handled = sent
    <3>1. Laid(pipe, msgs, start) /\ start[Len(msgs)] = Len(pipe) /\ base + Len(msgs) = Len(sent)
      BY <2>1, <2>2 DEF Carries
    <3>2. Len(msgs) = 0
      <4> SUFFICES ASSUME Len(msgs) # 0 PROVE FALSE
        OBVIOUS
      <4> DEFINE k == Len(msgs)
                 e == Encoded(msgs[k])
      <4>1. k \in 1..k /\ k - 1 \in 0..k
        BY <2>3
      <4>2. start[k] = start[k - 1] + Len(e) /\ start[k - 1] \in Nat /\ start[k] = 0
        BY <2>5, <3>1, <4>1 DEF Laid
      <4>3. Len(e) \in Nat /\ Len(e) >= HeaderSize
        BY <4>1, EncodedLength
      <4> HIDE DEF e, k
      <4> QED BY <4>2, <4>3
    <3>3. Len(handled) = Len(sent) /\ SubSeq(sent, 1, Len(sent)) = sent
      BY <2>1, <2>3, <3>1, <3>2
    <3> QED BY <2>4, <3>3
  <2> QED BY <2>4, <2>5
<1> QED BY <1>1, Invariance, PTL

\* Whatever is printed to the pipe, the handled messages are some of those that were
\* sent, unchanged, none twice and in order.
THEOREM NothingMadeUp == Spec => []NothingInvented
<1>1. IInv => NothingInvented
  <2> SUFFICES ASSUME IInv PROVE NothingInvented
    OBVIOUS
  <2>1. sent \in Seq(Messages) /\ Len(sent) \in Nat
    BY DEF IInv, TypeOK
  <2>2. PICK msgs, start, base, f :
          msgs \in Seq(Messages) /\ Carries(msgs, start, base) /\ Picked(f, base)
    BY DEF IInv, Accounted
  <2>2a. msgs \in Seq(Messages)
    BY <2>2
  <2> USE <2>2a
  <2>3. 1..base \in SUBSET (1..Len(sent))
    BY <2>1, <2>2 DEF Carries
  <2>4. f \in [1..Len(handled) -> 1..base]
    BY <2>2 DEF Picked
  <2>5. \A i, j \in 1..Len(handled) : i < j => f[i] < f[j]
    BY <2>2 DEF Picked
  <2>6. \A i \in 1..Len(handled) : handled[i] = sent[f[i]]
    BY <2>2 DEF Picked
  <2> QED BY <2>3, <2>4, <2>5, <2>6 DEF NothingInvented
<1> QED BY <1>1, Invariance, PTL
=============================================================================
