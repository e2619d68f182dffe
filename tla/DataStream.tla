----------------------------- MODULE DataStream -----------------------------
(***************************************************************************)
(* Foundation::DataStream: a string of bytes that values are appended to   *)
(* and taken from the front of.  A value is the bytes it has in memory; a  *)
(* string and a container are preceded by their length, which is written   *)
(* as a size_t and read as 32 bits.  Nothing in the stream says what was   *)
(* written: reading is right only in the order and with the types of the   *)
(* writing.                                                                *)
(***************************************************************************)
EXTENDS Integers, Sequences, FiniteSets

CONSTANTS
  Streams,       \* the objects
  SizeWidths,    \* bytes of size_t, and of a pointer: 4 or 8, as the program is built
  Items,         \* what the program writes
  Raws,          \* arguments of reset() and of write(data, pSize, pPos)
  Counts,        \* arguments of read(uint8_t*, dataSize)
  MaxElements,   \* bound: elements of one container that is read
  MaxBytes,      \* bound: bytes of one stream
  MaxCalls       \* bound: calls of one behaviour

Byte == 0..255

(***************************************************************************)
(* Types.  Every arithmetic type is as many bytes as it has; bool travels  *)
(* as a byte.  A kind is a single element, or a container whose rows are   *)
(* one element (vector, list) or a key and a value (map, unordered_map).   *)
(***************************************************************************)
Width == [byte |-> 1, int16 |-> 2, int32 |-> 4, int64 |-> 8]

ElementTypes == DOMAIN Width \cup {"bool", "text"}

Kinds == [counted : BOOLEAN, row : Seq(ElementTypes)]

Rows(kind, data) == Len(data) \div Len(kind.row)

TypeAt(kind, i) == kind.row[((i - 1) % Len(kind.row)) + 1]

\* Every length that is written is below this, so that four bytes hold it and
\* a reader takes it for what it is.
Limit == 2147483647

\* An element has the bytes of its type: a bool is 0 or 1.
IsOfType(e, type) ==
  CASE type = "text" -> Len(e) < Limit
    [] type = "bool" -> e \in {<<0>>, <<1>>}
    [] OTHER -> Len(e) = Width[type]

\* An item has whole rows, one if it is a single element.
IsItem(item) ==
  LET n == IF item.kind.counted THEN Rows(item.kind, item.data) ELSE 1 IN
  /\ item \in [kind : Kinds, data : Seq(Seq(Byte))]
  /\ item.kind.row # <<>> /\ n < Limit
  /\ Len(item.data) = n * Len(item.kind.row)
  /\ \A i \in DOMAIN item.data : IsOfType(item.data[i], TypeAt(item.kind, i))

ASSUME ConstantsAssumption ==
  /\ SizeWidths \subseteq {4, 8}
  /\ Counts \subseteq Nat /\ MaxElements \in Nat /\ MaxBytes \in Nat /\ MaxCalls \in Nat
  /\ Raws \subseteq Seq(Byte)
  /\ \A i \in Items : IsItem(i)

VARIABLES
  sizeWidth,   \* the width of size_t in this build
  m_buffer,    \* [Streams -> Seq(Byte)]
  fault,       \* a call left the bounds of an object
  items,       \* history: what is written and still unread, or Unaligned
  put,         \* history: every byte the stream was given, as it is now
  taken,       \* history: every byte taken from it
  answer,      \* the last read: what it got, and what had been written
  calls        \* the number of calls so far

vars == <<sizeWidth, m_buffer, fault, items, put, taken, answer, calls>>

Unaligned == <<[unaligned |-> TRUE]>>
NoAnswer == [read |-> FALSE]

Aligned(s) == items[s] # Unaligned

Drop(b, n) == SubSeq(b, n + 1, Len(b))

Least(m, n) == IF m < n THEN m ELSE n

(***************************************************************************)
(* Writing, where a length takes w bytes.                                  *)
(***************************************************************************)
\* The bytes of a number below Limit in w bytes, the lowest first.
NumberBytes(n, w) ==
  [i \in 1..w |-> CASE i = 1 -> n % 256 [] i = 2 -> (n \div 256) % 256
                    [] i = 3 -> (n \div 65536) % 256 [] i = 4 -> n \div 16777216 [] OTHER -> 0]

ElementBytes(type, e, w) ==
  IF type = "text" THEN NumberBytes(Len(e), w) \o e ELSE e

ItemBytes(item, w) ==
  LET flat[i \in 0..Len(item.data)] ==
        IF i = 0
        THEN IF item.kind.counted THEN NumberBytes(Rows(item.kind, item.data), w) ELSE <<>>
        ELSE flat[i - 1] \o ElementBytes(TypeAt(item.kind, i), item.data[i], w)
  IN  flat[Len(item.data)]

(***************************************************************************)
(* Reading: what is left, what the caller gets, and whether it threw.      *)
(***************************************************************************)
Huge == 2147483647

\* A number of 32 bits; from 2^31 on all count as one, beyond any stream.
Number(b) == IF b[4] > 127 THEN Huge
             ELSE b[1] + 256 * b[2] + 65536 * b[3] + 16777216 * b[4]

\* Mutant: a value that uses up the stream counts as too short.
ReadValueStrict(b, w) ==
  IF Len(b) <= w THEN [rest |-> b, got |-> [i \in 1..w |-> 0], threw |-> FALSE]
                 ELSE [rest |-> Drop(b, w), got |-> SubSeq(b, 1, w), threw |-> FALSE]

\* Too few bytes: the value is zero and nothing is taken.
ReadValue(b, w) ==
  IF Len(b) < w THEN [rest |-> b, got |-> [i \in 1..w |-> 0], threw |-> FALSE]
                ELSE [rest |-> Drop(b, w), got |-> SubSeq(b, 1, w), threw |-> FALSE]

\* Mutant: the length stays in front of what follows the text.
ReadTextLeavesLength(b) ==
  LET size == ReadValue(b, 4)
      n == Number(size.got)
  IN  IF n > Len(size.rest)
      THEN [rest |-> size.rest, got |-> <<>>, threw |-> TRUE]
      ELSE [rest |-> SubSeq(b, 1, Len(b) - Len(size.rest)) \o Drop(size.rest, n),
            got |-> SubSeq(size.rest, 1, n), threw |-> FALSE]

ReadText(b) ==
  LET size == ReadValue(b, 4)
      n == Number(size.got)
  IN  IF n > Len(size.rest)
      THEN [rest |-> size.rest, got |-> <<>>, threw |-> TRUE]
      ELSE [rest |-> Drop(size.rest, n), got |-> SubSeq(size.rest, 1, n), threw |-> FALSE]

ReadBool(b) ==
  LET r == ReadValue(b, 1) IN
  [rest |-> r.rest, got |-> IF r.got = <<0>> THEN <<0>> ELSE <<1>>, threw |-> r.threw]

ReadElement(b, type) ==
  CASE type = "text" -> ReadText(b)
    [] type = "bool" -> ReadBool(b)
    [] OTHER -> ReadValue(b, Width[type])

\* n rows one element after the other; an exception leaves the loop.
ReadRows(b, kind, n) ==
  LET step[i \in 0..(n * Len(kind.row))] ==
        IF i = 0 THEN [rest |-> b, got |-> <<>>, threw |-> FALSE]
        ELSE LET before == step[i - 1]
                 r == ReadElement(before.rest, TypeAt(kind, i))
             IN  IF before.threw THEN before
                 ELSE [rest |-> r.rest, threw |-> r.threw,
                       got |-> IF r.threw THEN before.got ELSE Append(before.got, r.got)]
  IN  step[n * Len(kind.row)]

AnnouncedRows(b, kind) == IF kind.counted THEN Number(ReadValue(b, 4).got) ELSE 1

ReadItem(b, kind) ==
  ReadRows(IF kind.counted THEN ReadValue(b, 4).rest ELSE b, kind, AnnouncedRows(b, kind))

\* What the program holds in the end: a map keeps the first row of each key.
Contents(kind, data) ==
  IF Len(kind.row) = 2
  THEN {<<data[2 * i - 1], data[2 * i]>> :
          i \in {j \in 1..Rows(kind, data) : \A k \in 1..(j - 1) : data[2 * k - 1] # data[2 * j - 1]}}
  ELSE data

(***************************************************************************)
(* Calls.                                                                  *)
(***************************************************************************)
Init ==
  /\ sizeWidth \in SizeWidths
  /\ m_buffer = [s \in Streams |-> <<>>]
  /\ fault = FALSE
  /\ items = [s \in Streams |-> <<>>]
  /\ put = [s \in Streams |-> <<>>]
  /\ taken = [s \in Streams |-> <<>>]
  /\ answer = NoAnswer
  /\ calls = 0

Call == ~fault /\ calls < MaxCalls /\ calls' = calls + 1 /\ UNCHANGED sizeWidth

\* The stream s holds b, with histories to match.
Becomes(s, b, its, given, gone) ==
  /\ m_buffer' = [m_buffer EXCEPT ![s] = b]
  /\ items' = [items EXCEPT ![s] = its]
  /\ put' = [put EXCEPT ![s] = given]
  /\ taken' = [taken EXCEPT ![s] = gone]
  /\ UNCHANGED fault

\* operator<<: the item's bytes go to the end.
Write(s, item) ==
  /\ Call
  /\ LET b == ItemBytes(item, sizeWidth) IN
     /\ Len(m_buffer[s]) + Len(b) <= MaxBytes
     /\ Becomes(s, m_buffer[s] \o b, IF Aligned(s) THEN Append(items[s], item) ELSE Unaligned,
                put[s] \o b, taken[s])
  /\ answer' = NoAnswer

\* The lengths on the stream are read with as many bytes as they are written
\* with, or there are none.
LengthsAgree(kind) == sizeWidth = 4 \/ (~kind.counted /\ \A i \in DOMAIN kind.row : kind.row[i] # "text")

\* The reader asks for what was written next.
InStep(s, kind) == Aligned(s) /\ items[s] # <<>> /\ Head(items[s]).kind = kind

\* What is left to read in step once kind has been read.
ItemsAfter(s, kind, r) ==
  IF r.rest = m_buffer[s] /\ items[s] = <<>> THEN <<>>
  ELSE IF InStep(s, kind) /\ LengthsAgree(kind) /\ ~r.threw
       THEN Tail(items[s]) ELSE Unaligned

\* operator>>.
Read(s, kind) ==
  LET b == m_buffer[s]
      r == ReadItem(b, kind)
  IN  /\ Call
      /\ AnnouncedRows(b, kind) <= MaxElements
      /\ Becomes(s, r.rest, ItemsAfter(s, kind, r), put[s],
                 taken[s] \o SubSeq(b, 1, Len(b) - Len(r.rest)))
      /\ answer' = IF ~InStep(s, kind) THEN NoAnswer
                   ELSE [read |-> TRUE, kind |-> kind, threw |-> r.threw,
                         got |-> Contents(kind, r.got),
                         wanted |-> Contents(kind, Head(items[s]).data)]

\* The bytes of t with data in the place of those after the first at.
Overwritten(t, at, data) ==
  [i \in 1..Len(t) |-> IF i - at \in 1..Len(data) THEN data[i - at] ELSE t[i]]

\* write(data, pSize, pPos): at the end when pPos is negative, in place when
\* all of it lies inside, else not at all.
WriteRaw(s, data, pos) ==
  /\ Call
  /\ LET b == m_buffer[s]
     IN  IF pos < 0
         THEN /\ Len(b) + Len(data) <= MaxBytes
              /\ Becomes(s, b \o data, IF data = <<>> THEN items[s] ELSE Unaligned,
                         put[s] \o data, taken[s])
         ELSE IF pos + Len(data) <= Len(b)
         THEN Becomes(s, Overwritten(b, pos, data), IF data = <<>> THEN items[s] ELSE Unaligned,
                      Overwritten(put[s], pos + Len(taken[s]), data), taken[s])
         ELSE UNCHANGED <<m_buffer, items, put, taken, fault>>
  /\ answer' = NoAnswer

\* read(uint8_t*, dataSize) copies over its own parameter, a pointer: the
\* caller's memory keeps what it had.  More bytes than a pointer has leave
\* the parameter.
ReadRaw(s, n) ==
  /\ Call
  /\ LET b == m_buffer[s]
         gone == Least(n, Len(b))
     IN  IF n > sizeWidth
         THEN fault' = TRUE /\ UNCHANGED <<m_buffer, items, put, taken>>
         ELSE Becomes(s, Drop(b, gone), IF gone = 0 THEN items[s] ELSE Unaligned,
                      put[s], taken[s] \o SubSeq(b, 1, gone))
  /\ answer' = NoAnswer

Clear(s) ==
  Call /\ Becomes(s, <<>>, <<>>, taken[s], taken[s]) /\ answer' = NoAnswer

Reset(s, data) ==
  /\ Call
  /\ Becomes(s, data, IF data = <<>> THEN <<>> ELSE Unaligned, taken[s] \o data, taken[s])
  /\ answer' = NoAnswer

\* The move constructor and the move assignment: t has what s had; s is left
\* empty, or with what t had.
Move(s, t) ==
  LET moved(f, left) == [f EXCEPT ![t] = f[s], ![s] = left[t]] IN
  /\ Call /\ s # t
  /\ UNCHANGED fault /\ answer' = NoAnswer
  /\ \/ /\ m_buffer' = moved(m_buffer, [m_buffer EXCEPT ![t] = <<>>])
        /\ items' = moved(items, [items EXCEPT ![t] = <<>>])
        /\ put' = moved(put, taken)
        /\ taken' = moved(taken, taken)
     \/ /\ m_buffer' = moved(m_buffer, m_buffer)
        /\ items' = moved(items, items)
        /\ put' = moved(put, put)
        /\ taken' = moved(taken, taken)

Next ==
  \E s \in Streams :
    \/ \E item \in Items : Write(s, item) \/ Read(s, item.kind)
    \/ \E data \in Raws : Reset(s, data) \/ \E pos \in {-1, 0, 2} : WriteRaw(s, data, pos)
    \/ \E n \in Counts : ReadRaw(s, n)
    \/ Clear(s)
    \/ \E t \in Streams : Move(s, t)

Spec == Init /\ [][Next]_vars

-----------------------------------------------------------------------------
\* Streams keep their types.
TypeOK ==
  /\ sizeWidth \in SizeWidths
  /\ m_buffer \in [Streams -> Seq(Byte)]
  /\ put \in [Streams -> Seq(Byte)]
  /\ taken \in [Streams -> Seq(Byte)]
  /\ fault \in BOOLEAN
  /\ calls \in 0..MaxCalls

\* Whatever is read, in whatever types, through exceptions, short reads and
\* containers with forged lengths: what was taken and what is still there make
\* up what was put in, so no byte is lost, read twice or made up by the stream.
StreamIsQueue == \A s \in Streams : taken[s] \o m_buffer[s] = put[s]

\* A reader that asks for the types that were written, in their order, gets
\* the values that were written - through every earlier read, move and clear -
\* where the width of the lengths agrees.
WrittenIsRead ==
  answer.read /\ LengthsAgree(answer.kind) => ~answer.threw /\ answer.got = answer.wanted
=============================================================================
