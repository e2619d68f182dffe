------------------------------ MODULE ByteProofs ------------------------------
(***************************************************************************)
(* The components that move bytes about.                                   *)
(*                                                                         *)
(* A DataStream is a queue of bytes, whatever is read from it, and reading *)
(* undoes writing.  The digests see the padded message in whatever pieces  *)
(* it arrives, and what the cipher, Base64 and UTF-8 wrote is read back.   *)
(*                                                                         *)
(* What these functions compute is defined by recursion over a sequence;   *)
(* each definition is first shown to satisfy its own equation, and the     *)
(* functions are then compared by induction over the numbers or from the   *)
(* end of a text.                                                          *)
(***************************************************************************)
EXTENDS DataStream, Codecs, SequenceTheorems, WellFoundedInduction, TLAPS

Bytes == Seq(Byte)

(* Induction, for a set of numbers. *)
LEMMA AllNumbers ==
  ASSUME NEW S, S \subseteq Nat, 0 \in S, \A n \in S : n + 1 \in S
  PROVE  S = Nat
<1> DEFINE R == OpToRel(<, Nat)
           T == Nat \ S
<1>1. \A x, y \in Nat : <<x, y>> \in R <=> x < y
  BY DEF OpToRel
<1>2. IsWellFoundedOn(R, Nat)
  BY NatLessThanWellFounded
<1> HIDE DEF R
<1>3. SUFFICES ASSUME T # {} PROVE FALSE
  OBVIOUS
<1>4. PICK k \in T : \A j \in T : ~(<<j, k>> \in R)
  BY <1>2, <1>3, WFMin
<1>5. k \in Nat /\ k \notin S /\ k # 0 /\ k - 1 \in Nat
  BY <1>4
<1>6. k - 1 \in S
  <2>1. k - 1 < k
    BY <1>5
  <2>2. <<k - 1, k>> \in R
    BY <1>1, <1>5, <2>1
  <2>3. QED BY <1>4, <1>5, <2>2
<1>7. (k - 1) + 1 = k
  BY <1>5
<1>8. QED BY <1>5, <1>6, <1>7

-------------------------------------------------------------------------------
(* Cutting and joining. *)

LEMMA DropFits ==
  ASSUME NEW S, NEW b \in Seq(S), NEW k \in 0..Len(b)
  PROVE  /\ Drop(b, k) \in Seq(S) /\ Len(Drop(b, k)) = Len(b) - k
         /\ \A i \in 1..(Len(b) - k) : Drop(b, k)[i] = b[k + i]
         /\ SubSeq(b, 1, k) \in Seq(S) /\ Len(SubSeq(b, 1, k)) = k
         /\ \A i \in 1..k : SubSeq(b, 1, k)[i] = b[i]
<1>1. Len(b) \in Nat /\ \A i \in 1..Len(b) : b[i] \in S
  OBVIOUS
<1>2. /\ Drop(b, k) \in Seq(S) /\ Len(Drop(b, k)) = Len(b) - k
      /\ \A i \in 1..(Len(b) - k) : Drop(b, k)[i] = b[k + i]
  BY <1>1, SubSeqProperties DEF Drop
<1>3. /\ SubSeq(b, 1, k) \in Seq(S) /\ Len(SubSeq(b, 1, k)) = k
      /\ \A i \in 1..k : SubSeq(b, 1, k)[i] = b[i]
  BY <1>1, SubSeqProperties
<1>4. QED BY <1>2, <1>3

LEMMA CutAndJoined ==
  ASSUME NEW S, NEW b \in Seq(S), NEW k \in 0..Len(b)
  PROVE  SubSeq(b, 1, k) \o Drop(b, k) = b
<1>1. /\ Drop(b, k) \in Seq(S) /\ SubSeq(b, 1, k) \in Seq(S)
      /\ Len(SubSeq(b, 1, k)) = k /\ Len(Drop(b, k)) = Len(b) - k
  BY DropFits
<1>2. \A i \in 1..Len(b) : (SubSeq(b, 1, k) \o Drop(b, k))[i] = b[i]
  BY <1>1, DropFits, ConcatProperties
<1>3. Len(SubSeq(b, 1, k) \o Drop(b, k)) = Len(b)
  BY <1>1
<1>4. SubSeq(b, 1, k) \o Drop(b, k) \in Seq(S)
  BY <1>1, ConcatProperties
<1>5. QED BY <1>2, <1>3, <1>4, SeqEqual

LEMMA JoinedAndCut ==
  ASSUME NEW S, NEW a \in Seq(S), NEW b \in Seq(S)
  PROVE  Drop(a \o b, Len(a)) = b /\ SubSeq(a \o b, 1, Len(a)) = a
<1>1. a \o b \in Seq(S) /\ Len(a \o b) = Len(a) + Len(b) /\ Len(a) \in 0..Len(a \o b)
  BY ConcatProperties
<1>2. \A i \in 1..Len(a) + Len(b) : (a \o b)[i] = IF i <= Len(a) THEN a[i] ELSE b[i - Len(a)]
  BY ConcatProperties
<1>3. Drop(a \o b, Len(a)) = b
  <2> DEFINE c == a \o b
             n == Len(a)
  <2>1. /\ Drop(c, n) \in Seq(S) /\ Len(Drop(c, n)) = Len(c) - n
        /\ \A i \in 1..(Len(c) - n) : Drop(c, n)[i] = c[n + i]
    <3> HIDE DEF c, n
    <3>1. QED BY <1>1, DropFits DEF c, n
  <2>2. n \in Nat /\ Len(b) \in Nat /\ Len(c) - n = Len(b)
    BY <1>1
  <2>3. \A i \in 1..Len(b) : c[n + i] = b[i]
    BY <1>2, <2>2
  <2> HIDE DEF c, n
  <2>4. Drop(c, n) = b
    BY <2>1, <2>2, <2>3, SeqEqual
  <2>5. QED BY <2>4 DEF c, n
<1>4. SubSeq(a \o b, 1, Len(a)) = a
  <2>1. SubSeq(a \o b, 1, Len(a)) \in Seq(S) /\ Len(SubSeq(a \o b, 1, Len(a))) = Len(a)
    BY <1>1, DropFits
  <2>2. \A i \in 1..Len(a) : SubSeq(a \o b, 1, Len(a))[i] = a[i]
    BY <1>1, <1>2, DropFits
  <2>3. QED BY <2>1, <2>2, SeqEqual
<1>5. QED BY <1>3, <1>4

LEMMA DropTwice ==
  ASSUME NEW S, NEW b \in Seq(S), NEW j \in 0..Len(b), NEW k \in 0..(Len(b) - j)
  PROVE  Drop(Drop(b, j), k) = Drop(b, j + k)
<1>1. /\ Drop(b, j) \in Seq(S) /\ Len(Drop(b, j)) = Len(b) - j
      /\ j + k \in 0..Len(b) /\ k \in 0..Len(Drop(b, j))
  BY DropFits
<1>2. /\ Drop(Drop(b, j), k) \in Seq(S) /\ Len(Drop(Drop(b, j), k)) = Len(b) - j - k
      /\ Drop(b, j + k) \in Seq(S) /\ Len(Drop(b, j + k)) = Len(b) - (j + k)
  BY <1>1, DropFits
<1>3. \A i \in 1..(Len(b) - (j + k)) : Drop(Drop(b, j), k)[i] = Drop(b, j)[k + i]
  <2> DEFINE c == Drop(b, j)
  <2> HIDE DEF c
  <2>1. \A i \in 1..(Len(c) - k) : Drop(c, k)[i] = c[k + i]
    BY <1>1, DropFits DEF c
  <2>2. Len(c) - k = Len(b) - (j + k)
    BY <1>1 DEF c
  <2>3. QED BY <2>1, <2>2 DEF c
<1>4. \A i \in 1..(Len(b) - (j + k)) : Drop(b, j)[k + i] = b[j + (k + i)]
  <2>1. \A i \in 1..(Len(b) - j) : Drop(b, j)[i] = b[j + i]
    BY DropFits
  <2>2. \A i \in 1..(Len(b) - (j + k)) : k + i \in 1..(Len(b) - j)
    BY <1>1
  <2>3. QED BY <2>1, <2>2
<1>5. \A i \in 1..(Len(b) - (j + k)) : Drop(b, j + k)[i] = b[(j + k) + i]
  BY <1>1, DropFits
<1>6. \A i \in 1..Len(Drop(b, j + k)) : Drop(Drop(b, j), k)[i] = Drop(b, j + k)[i]
  BY <1>2, <1>3, <1>4, <1>5
<1>7. QED BY <1>2, <1>6, SeqEqual

(* What is left of b when some bytes were taken. *)
IsRest(r, b) == \E k \in 0..Len(b) : r = Drop(b, k)

LEMMA RestOfRest ==
  ASSUME NEW b \in Bytes, NEW r, NEW q, IsRest(r, b), IsRest(q, r)
  PROVE  IsRest(q, b)
<1>1. PICK j \in 0..Len(b) : r = Drop(b, j)
  BY DEF IsRest
<1>2. Len(r) = Len(b) - j
  BY <1>1, DropFits DEF Bytes
<1>3. PICK k \in 0..(Len(b) - j) : q = Drop(r, k)
  BY <1>2 DEF IsRest
<1>4. q = Drop(b, j + k) /\ j + k \in 0..Len(b)
  BY <1>1, <1>3, DropTwice DEF Bytes
<1>5. QED BY <1>4 DEF IsRest

LEMMA RestFits ==
  ASSUME NEW b \in Bytes
  PROVE  /\ IsRest(b, b)
         /\ \A r : IsRest(r, b) => r \in Bytes /\ Len(r) \in 0..Len(b)
                                   /\ SubSeq(b, 1, Len(b) - Len(r)) \o r = b
<1>1. Drop(b, 0) = b
  BY SubSeqFull DEF Drop, Bytes
<1>2. IsRest(b, b)
  BY <1>1 DEF IsRest, Bytes
<1>3. ASSUME NEW r, IsRest(r, b)
      PROVE  r \in Bytes /\ Len(r) \in 0..Len(b) /\ SubSeq(b, 1, Len(b) - Len(r)) \o r = b
  <2>1. PICK k \in 0..Len(b) : r = Drop(b, k)
    BY <1>3 DEF IsRest
  <2>2. r \in Bytes /\ Len(r) = Len(b) - k
    BY <2>1, DropFits DEF Bytes
  <2>3. Len(b) - Len(r) = k /\ Len(r) \in 0..Len(b)
    BY <2>2 DEF Bytes
  <2>4. QED BY <2>1, <2>2, <2>3, CutAndJoined DEF Bytes
<1>4. QED BY <1>2, <1>3
-------------------------------------------------------------------------------
(* What the recursive definitions compute. *)

Begun(b) == [rest |-> b, got |-> <<>>, threw |-> FALSE]

Continued(before, kind, i) ==
  LET r == ReadElement(before.rest, TypeAt(kind, i)) IN
  IF before.threw THEN before
  ELSE [rest |-> r.rest, threw |-> r.threw,
        got |-> IF r.threw THEN before.got ELSE Append(before.got, r.got)]

LEMMA RowsExist ==
  ASSUME NEW b, NEW kind, NEW m \in Nat
  PROVE  \E f : f = [i \in 0..m |-> IF i = 0 THEN Begun(b) ELSE Continued(f[i - 1], kind, i)]
<1> DEFINE Is(f, k) ==
             f = [i \in 0..k |-> IF i = 0 THEN Begun(b) ELSE Continued(f[i - 1], kind, i)]
           S == {k \in Nat : \E f : Is(f, k)}
<1>1. 0 \in S
  <2>1. Is([i \in 0..0 |-> Begun(b)], 0)
    OBVIOUS
  <2>2. QED BY <2>1
<1>2. ASSUME NEW k \in S PROVE k + 1 \in S
  <2>1. PICK f : Is(f, k)
    OBVIOUS
  <2> DEFINE g == [i \in 0..(k + 1) |-> IF i = k + 1 THEN Continued(f[k], kind, k + 1) ELSE f[i]]
  <2>2. k \in Nat /\ \A i \in 0..k : f[i] = IF i = 0 THEN Begun(b) ELSE Continued(f[i - 1], kind, i)
    BY <2>1
  <2>3. \A i \in 0..(k + 1) : g[i] = IF i = 0 THEN Begun(b) ELSE Continued(g[i - 1], kind, i)
    BY <2>2
  <2>4. Is(g, k + 1)
    BY <2>3
  <2> HIDE DEF g
  <2>5. \E h : Is(h, k + 1)
    BY <2>4
  <2>6. QED BY <2>2, <2>5
<1>3. S = Nat
  BY <1>1, <1>2, AllNumbers
<1>4. QED BY <1>3

\* f holds what has been read after every element.
IsReading(f, b, kind, n) ==
  /\ ReadRows(b, kind, n) = f[n * Len(kind.row)]
  /\ f[0] = Begun(b)
  /\ \A i \in 1..(n * Len(kind.row)) : f[i] = Continued(f[i - 1], kind, i)

LEMMA RowsUnfold ==
  ASSUME NEW b, NEW kind, NEW n, n * Len(kind.row) \in Nat
  PROVE  \E f : IsReading(f, b, kind, n)
<1> DEFINE m == n * Len(kind.row)
           step[i \in 0..m] == IF i = 0 THEN Begun(b) ELSE Continued(step[i - 1], kind, i)
<1>1. step = CHOOSE f :
               f = [i \in 0..m |-> IF i = 0 THEN Begun(b) ELSE Continued(f[i - 1], kind, i)]
  OBVIOUS
<1>2. ReadRows(b, kind, n) = step[m]
  BY DEF ReadRows, Begun, Continued
<1> HIDE DEF step, m
<1>3. step = [i \in 0..m |-> IF i = 0 THEN Begun(b) ELSE Continued(step[i - 1], kind, i)]
  BY RowsExist, <1>1 DEF m
<1>4. m \in Nat
  BY DEF m
<1>5. step[0] = Begun(b) /\ \A i \in 1..m : step[i] = Continued(step[i - 1], kind, i)
  BY <1>3, <1>4
<1>6. IsReading(step, b, kind, n)
  BY <1>2, <1>5 DEF m, IsReading
<1>7. QED BY <1>6

-------------------------------------------------------------------------------
(* Reading leaves a rest, whatever it is asked for. *)

LEMMA ValueLeavesRest ==
  ASSUME NEW b \in Bytes, NEW w \in Nat
  PROVE  /\ IsRest(ReadValue(b, w).rest, b)
         /\ ReadValue(b, w).got \in Bytes /\ Len(ReadValue(b, w).got) = w
<1>1. CASE Len(b) < w
  BY <1>1, RestFits DEF ReadValue, Bytes, Byte
<1>2. CASE ~(Len(b) < w)
  <2>1. w \in 0..Len(b)
    BY <1>2 DEF Bytes
  <2>2. SubSeq(b, 1, w) \in Bytes /\ Len(SubSeq(b, 1, w)) = w
    BY <2>1, DropFits DEF Bytes
  <2>3. QED BY <1>2, <2>1, <2>2 DEF ReadValue, IsRest
<1>3. QED BY <1>1, <1>2

LEMMA NumbersAreNatural ==
  ASSUME NEW b \in Bytes, Len(b) = 4
  PROVE  Number(b) \in Nat
<1>1. \A i \in 1..4 : b[i] \in Nat
  <2>1. b \in [1..4 -> Byte]
    BY LenProperties DEF Bytes
  <2>2. QED BY <2>1 DEF Byte
<1>2. Huge \in Nat
  BY SMT DEF Huge
<1>3. \A w, x, y, z \in Nat : w + 256 * x + 65536 * y + 16777216 * z \in Nat
  BY SMT
<1>4. 1 \in 1..4 /\ 2 \in 1..4 /\ 3 \in 1..4 /\ 4 \in 1..4
  OBVIOUS
<1>5. b[1] + 256 * b[2] + 65536 * b[3] + 16777216 * b[4] \in Nat
  BY <1>1, <1>3, <1>4, SMT
<1>6. QED BY <1>2, <1>5, SMT DEF Number

LEMMA TextLeavesRest ==
  ASSUME NEW b \in Bytes
  PROVE  IsRest(ReadText(b).rest, b)
<1> DEFINE size == ReadValue(b, 4)
           n == Number(size.got)
<1>1. IsRest(size.rest, b) /\ size.rest \in Bytes /\ n \in Nat
  BY ValueLeavesRest, RestFits, NumbersAreNatural
<1>2. ReadText(b).rest = IF n > Len(size.rest) THEN size.rest ELSE Drop(size.rest, n)
  BY DEF ReadText
<1> HIDE DEF n, size
<1>3. ~(n > Len(size.rest)) => IsRest(Drop(size.rest, n), size.rest)
  BY <1>1 DEF IsRest, Bytes
<1>4. QED BY <1>1, <1>2, <1>3, RestOfRest

LEMMA TypesHaveWidths ==
  ASSUME NEW type \in ElementTypes, type # "text", type # "bool"
  PROVE  Width[type] \in 1..8
BY DEF ElementTypes, Width

LEMMA ElementLeavesRest ==
  ASSUME NEW b \in Bytes, NEW type \in ElementTypes
  PROVE  IsRest(ReadElement(b, type).rest, b)
<1>1. CASE type = "text"
  BY <1>1, TextLeavesRest DEF ReadElement
<1>2. CASE type = "bool"
  <2>1. ReadElement(b, type).rest = ReadValue(b, 1).rest
    BY <1>2 DEF ReadElement, ReadBool, ReadValue
  <2>2. QED BY <2>1, ValueLeavesRest
<1>3. CASE type # "text" /\ type # "bool"
  BY <1>3, TypesHaveWidths, ValueLeavesRest DEF ReadElement
<1>4. QED BY <1>1, <1>2, <1>3

LEMMA RemaindersAreBelow ==
  ASSUME NEW x \in Int, NEW n \in Nat, n > 0
  PROVE  x % n \in 0..(n - 1)
OBVIOUS

LEMMA TypesOfElements ==
  ASSUME NEW kind \in Kinds, kind.row # <<>>, NEW i \in Nat
  PROVE  TypeAt(kind, i) \in ElementTypes
<1>1. /\ kind.row \in Seq(ElementTypes) /\ Len(kind.row) \in Nat /\ Len(kind.row) > 0
      /\ i - 1 \in Int
  BY DEF Kinds
<1>2. (i - 1) % Len(kind.row) \in 0..(Len(kind.row) - 1)
  BY <1>1, RemaindersAreBelow
<1>3. QED BY <1>1, <1>2 DEF TypeAt

LEMMA RowsLeaveRest ==
  ASSUME NEW b \in Bytes, NEW kind \in Kinds, kind.row # <<>>, NEW n \in Nat
  PROVE  IsRest(ReadRows(b, kind, n).rest, b)
<1> DEFINE m == n * Len(kind.row)
<1>1. Len(kind.row) \in Nat /\ m \in Nat
  BY DEF Kinds
<1>2. PICK f : /\ ReadRows(b, kind, n) = f[m]
               /\ f[0] = Begun(b)
               /\ \A i \in 1..m : f[i] = Continued(f[i - 1], kind, i)
  BY <1>1, RowsUnfold DEF IsReading
<1> HIDE DEF m
<1> DEFINE S == {i \in Nat : i <= m => IsRest(f[i].rest, b)}
<1>3. 0 \in S
  BY <1>2, RestFits DEF Begun
<1>4. ASSUME NEW i \in S PROVE i + 1 \in S
  <2>1. SUFFICES ASSUME i + 1 <= m PROVE IsRest(f[i + 1].rest, b)
    OBVIOUS
  <2>2. IsRest(f[i].rest, b) /\ i + 1 \in 1..m /\ f[i + 1] = Continued(f[i], kind, i + 1)
    BY <1>1, <1>2, <2>1
  <2>3. f[i].rest \in Bytes
    BY <2>2, RestFits
  <2> DEFINE r == ReadElement(f[i].rest, TypeAt(kind, i + 1))
  <2>4. IsRest(r.rest, f[i].rest)
    BY <2>2, <2>3, TypesOfElements, ElementLeavesRest
  <2>5. IsRest(r.rest, b)
    BY <2>2, <2>4, RestOfRest
  <2>6. f[i + 1].rest = f[i].rest \/ f[i + 1].rest = r.rest
    BY <2>2 DEF Continued
  <2>7. QED BY <2>2, <2>5, <2>6
<1>5. m \in S
  <2>1. S = Nat
    <3> HIDE DEF S
    <3>1. QED BY <1>3, <1>4, AllNumbers DEF S
  <2>2. QED BY <2>1, <1>1
<1>6. QED BY <1>1, <1>2, <1>5

LEMMA ItemsLeaveRest ==
  ASSUME NEW b \in Bytes, NEW kind \in Kinds, kind.row # <<>>
  PROVE  IsRest(ReadItem(b, kind).rest, b)
<1> DEFINE size == ReadValue(b, 4)
           begin == IF kind.counted THEN size.rest ELSE b
           n == AnnouncedRows(b, kind)
<1>1. IsRest(begin, b) /\ begin \in Bytes /\ n \in Nat
  BY ValueLeavesRest, RestFits, NumbersAreNatural DEF AnnouncedRows
<1>2. ReadItem(b, kind) = ReadRows(begin, kind, n)
  BY DEF ReadItem
<1> HIDE DEF begin, n
<1>3. QED BY <1>1, <1>2, RowsLeaveRest, RestOfRest
-------------------------------------------------------------------------------
(* The bytes of an item. *)

Leading(item, w) ==
  IF item.kind.counted THEN NumberBytes(Rows(item.kind, item.data), w) ELSE <<>>

Followed(before, item, i, w) == before \o ElementBytes(TypeAt(item.kind, i), item.data[i], w)

IsFlat(f, item, w, m) ==
  f = [i \in 0..m |-> IF i = 0 THEN Leading(item, w) ELSE Followed(f[i - 1], item, i, w)]

LEMMA BytesExist ==
  ASSUME NEW item, NEW w, NEW m \in Nat
  PROVE  \E f : IsFlat(f, item, w, m)
<1> DEFINE S == {k \in Nat : \E f : IsFlat(f, item, w, k)}
<1>1. 0 \in S
  <2>1. IsFlat([i \in 0..0 |-> Leading(item, w)], item, w, 0)
    BY DEF IsFlat
  <2>2. QED BY <2>1
<1>2. ASSUME NEW k \in S PROVE k + 1 \in S
  <2>1. PICK f : IsFlat(f, item, w, k)
    OBVIOUS
  <2> DEFINE g == [i \in 0..(k + 1) |-> IF i = k + 1 THEN Followed(f[k], item, k + 1, w) ELSE f[i]]
  <2>2. k \in Nat /\ \A i \in 0..k : f[i] = IF i = 0 THEN Leading(item, w) ELSE Followed(f[i - 1], item, i, w)
    BY <2>1 DEF IsFlat
  <2>3. \A i \in 0..(k + 1) : g[i] = IF i = 0 THEN Leading(item, w) ELSE Followed(g[i - 1], item, i, w)
    BY <2>2
  <2>4. IsFlat(g, item, w, k + 1)
    BY <2>3 DEF IsFlat
  <2> HIDE DEF g
  <2>5. \E h : IsFlat(h, item, w, k + 1)
    BY <2>4
  <2>6. QED BY <2>2, <2>5
<1>3. S = Nat
  BY <1>1, <1>2, AllNumbers
<1>4. QED BY <1>3

LEMMA BytesUnfold ==
  ASSUME NEW item, NEW w, Len(item.data) \in Nat
  PROVE  \E f :
           /\ ItemBytes(item, w) = f[Len(item.data)]
           /\ f[0] = Leading(item, w)
           /\ \A i \in 1..Len(item.data) : f[i] = Followed(f[i - 1], item, i, w)
<1> DEFINE m == Len(item.data)
           flat[i \in 0..m] == IF i = 0 THEN Leading(item, w) ELSE Followed(flat[i - 1], item, i, w)
<1>1. flat = CHOOSE f : IsFlat(f, item, w, m)
  BY DEF IsFlat
<1>2. ItemBytes(item, w) = flat[m]
  BY DEF ItemBytes, Leading, Followed
<1> HIDE DEF flat
<1>3. m \in Nat
  OBVIOUS
<1>4. IsFlat(flat, item, w, m)
  BY <1>1, <1>3, BytesExist
<1> HIDE DEF m
<1>5. flat[0] = Leading(item, w) /\ \A i \in 1..m : flat[i] = Followed(flat[i - 1], item, i, w)
  BY <1>3, <1>4 DEF IsFlat
<1>6. QED BY <1>2, <1>5 DEF m

LEMMA NumberBytesFit ==
  ASSUME NEW n \in Nat, n < Limit, NEW w \in {4, 8}
  PROVE  NumberBytes(n, w) \in Bytes /\ Len(NumberBytes(n, w)) = w
<1>1. /\ n % 256 \in 0..255 /\ (n \div 256) % 256 \in 0..255
      /\ (n \div 65536) % 256 \in 0..255 /\ n \div 16777216 \in 0..255
  BY SMT DEF Limit
<1>2. \A i \in 1..w :
        (CASE i = 1 -> n % 256 [] i = 2 -> (n \div 256) % 256
           [] i = 3 -> (n \div 65536) % 256 [] i = 4 -> n \div 16777216 [] OTHER -> 0) \in Byte
  <2> TAKE i \in 1..w
  <2>1. CASE i = 1
    BY <1>1, <2>1 DEF Byte
  <2>2. CASE i = 2
    BY <1>1, <2>2 DEF Byte
  <2>3. CASE i = 3
    BY <1>1, <2>3 DEF Byte
  <2>4. CASE i = 4
    BY <1>1, <2>4 DEF Byte
  <2>5. CASE i \notin {1, 2, 3, 4}
    BY <2>5 DEF Byte
  <2>6. QED BY <2>1, <2>2, <2>3, <2>4, <2>5
<1>3. w \in Nat
  OBVIOUS
<1> DEFINE v(i) == CASE i = 1 -> n % 256 [] i = 2 -> (n \div 256) % 256
                     [] i = 3 -> (n \div 65536) % 256 [] i = 4 -> n \div 16777216 [] OTHER -> 0
<1>4. NumberBytes(n, w) = [i \in 1..w |-> v(i)] /\ \A i \in 1..w : v(i) \in Byte
  BY <1>2 DEF NumberBytes
<1> HIDE DEF v
<1>5. QED BY <1>3, <1>4 DEF Bytes

LEMMA QuotientsAreNatural ==
  ASSUME NEW x \in Nat, NEW n \in Nat, n > 0
  PROVE  x \div n \in Nat
OBVIOUS

LEMMA ItemsFit ==
  ASSUME NEW item \in Items
  PROVE  /\ item.kind \in Kinds /\ item.kind.row # <<>> /\ item.kind.counted \in BOOLEAN
         /\ item.data \in Seq(Bytes) /\ Len(item.data) \in Nat
         /\ Len(item.kind.row) \in Nat /\ Len(item.kind.row) > 0
<1>1. IsItem(item)
  BY ConstantsAssumption
<1>2. item \in [kind : Kinds, data : Seq(Bytes)] /\ item.kind.row # <<>>
  BY <1>1 DEF IsItem, Bytes
<1>3. item.kind \in Kinds /\ item.data \in Seq(Bytes)
  BY <1>2
<1>4. QED BY <1>2, <1>3 DEF Kinds

LEMMA RowsFit ==
  ASSUME NEW item \in Items
  PROVE  /\ Len(item.data) = (IF item.kind.counted THEN Rows(item.kind, item.data) ELSE 1)
                             * Len(item.kind.row)
         /\ item.kind.counted => Rows(item.kind, item.data) \in Nat /\ Rows(item.kind, item.data) < Limit
<1>1. IsItem(item)
  BY ConstantsAssumption
<1>2. Len(item.data) \in Nat /\ Len(item.kind.row) \in Nat /\ Len(item.kind.row) > 0
  BY ItemsFit
<1>3. Rows(item.kind, item.data) \in Nat
  BY <1>2, QuotientsAreNatural DEF Rows
<1>4. /\ Len(item.data) = (IF item.kind.counted THEN Rows(item.kind, item.data) ELSE 1)
                           * Len(item.kind.row)
      /\ item.kind.counted => Rows(item.kind, item.data) < Limit
  BY <1>1, Zenon DEF IsItem
<1>5. QED BY <1>3, <1>4, Zenon

LEMMA ElementsFit ==
  ASSUME NEW item \in Items, NEW i \in 1..Len(item.data)
  PROVE  /\ item.data[i] \in Bytes /\ TypeAt(item.kind, i) \in ElementTypes
         /\ IsOfType(item.data[i], TypeAt(item.kind, i))
<1>1. item.data \in Seq(Bytes) /\ item.kind \in Kinds /\ item.kind.row # <<>>
  BY ItemsFit
<1>2. item.data[i] \in Bytes /\ i \in Nat /\ i \in DOMAIN item.data
  BY <1>1
<1>3. TypeAt(item.kind, i) \in ElementTypes
  BY <1>1, <1>2, TypesOfElements
<1>4. IsOfType(item.data[i], TypeAt(item.kind, i))
  <2>1. IsItem(item)
    BY ConstantsAssumption
  <2>2. QED BY <1>2, <2>1, Zenon DEF IsItem
<1>5. QED BY <1>2, <1>3, <1>4

LEMMA ElementBytesFit ==
  ASSUME NEW e \in Bytes, NEW type \in ElementTypes, IsOfType(e, type), NEW w \in {4, 8}
  PROVE  ElementBytes(type, e, w) \in Bytes
<1>1. CASE type = "text"
  <2>1. Len(e) \in Nat /\ Len(e) < Limit
    <3>1. IsOfType(e, "text") <=> Len(e) < Limit
      BY DEF IsOfType
    <3>2. Len(e) \in Nat
      BY DEF Bytes
    <3>3. QED BY <1>1, <3>1, <3>2
  <2>2. NumberBytes(Len(e), w) \in Bytes
    BY <2>1, NumberBytesFit
  <2>3. NumberBytes(Len(e), w) \o e \in Bytes
    BY <2>2, ConcatProperties DEF Bytes
  <2>4. QED BY <1>1, <2>3 DEF ElementBytes
<1>2. CASE type # "text"
  BY <1>2 DEF ElementBytes
<1>3. QED BY <1>1, <1>2

LEMMA BytesGrow ==
  ASSUME NEW item \in Items, NEW w \in {4, 8}
  PROVE  \E f :
           /\ ItemBytes(item, w) = f[Len(item.data)]
           /\ f[0] = Leading(item, w)
           /\ \A i \in 0..Len(item.data) : f[i] \in Bytes
           /\ \A i \in 1..Len(item.data) :
                /\ ElementBytes(TypeAt(item.kind, i), item.data[i], w) \in Bytes
                /\ f[i] = f[i - 1] \o ElementBytes(TypeAt(item.kind, i), item.data[i], w)
<1>1. PICK f : /\ ItemBytes(item, w) = f[Len(item.data)]
               /\ f[0] = Leading(item, w)
               /\ \A i \in 1..Len(item.data) : f[i] = Followed(f[i - 1], item, i, w)
  <2>1. Len(item.data) \in Nat
    BY ItemsFit
  <2>2. QED BY <2>1, BytesUnfold
<1> DEFINE m == Len(item.data)
           S == {i \in Nat : i <= m => f[i] \in Bytes}
<1>2. m \in Nat
  BY ItemsFit
<1>3. \A i \in 1..m : ElementBytes(TypeAt(item.kind, i), item.data[i], w) \in Bytes
  BY ElementsFit, ElementBytesFit
<1>4. 0 \in S
  <2>1. item.kind.counted => Rows(item.kind, item.data) \in Nat /\ Rows(item.kind, item.data) < Limit
    BY RowsFit
  <2>2. Leading(item, w) \in Bytes
    BY <2>1, NumberBytesFit, EmptySeq DEF Leading, Bytes
  <2>3. QED BY <1>1, <2>2
<1>5. ASSUME NEW i \in S PROVE i + 1 \in S
  <2>1. SUFFICES ASSUME i + 1 <= m PROVE f[i + 1] \in Bytes
    OBVIOUS
  <2>2. i + 1 \in 1..m /\ f[i] \in Bytes
    BY <1>2, <2>1
  <2>3. f[i + 1] = f[i] \o ElementBytes(TypeAt(item.kind, i + 1), item.data[i + 1], w)
    <3>1. (i + 1) - 1 = i
      OBVIOUS
    <3>2. f[i + 1] = Followed(f[(i + 1) - 1], item, i + 1, w)
      BY <1>1, <2>2
    <3>3. QED BY <3>1, <3>2 DEF Followed
  <2>4. QED BY <1>3, <2>2, <2>3, ConcatProperties DEF Bytes
<1>6. S = Nat
  <2> HIDE DEF S
  <2>1. QED BY <1>4, <1>5, AllNumbers DEF S
<1>7. \A i \in 0..m : f[i] \in Bytes
  BY <1>2, <1>6
<1>8. QED BY <1>1, <1>3, <1>7 DEF Followed

LEMMA ItemBytesFit ==
  ASSUME NEW item \in Items, NEW w \in {4, 8}
  PROVE  ItemBytes(item, w) \in Bytes
<1>1. Len(item.data) \in Nat
  BY ItemsFit
<1>2. PICK f : /\ ItemBytes(item, w) = f[Len(item.data)]
               /\ \A i \in 0..Len(item.data) : f[i] \in Bytes
  BY BytesGrow
<1>3. Len(item.data) \in 0..Len(item.data)
  BY <1>1
<1>4. QED BY <1>2, <1>3

LEMMA JoinsFit ==
  ASSUME NEW a \in Bytes, NEW b \in Bytes
  PROVE  a \o b \in Bytes
BY ConcatProperties DEF Bytes

LEMMA Regrouped ==
  ASSUME NEW a \in Bytes, NEW b \in Bytes, NEW c \in Bytes
  PROVE  (a \o b) \o c = a \o (b \o c)
<1>1. a \in Seq(Byte) /\ b \in Seq(Byte) /\ c \in Seq(Byte)
  BY DEF Bytes
<1>2. QED BY <1>1, ConcatAssociative

LEMMA Associative ==
  ASSUME NEW a \in Bytes, NEW b \in Bytes, NEW c \in Bytes
  PROVE  /\ (a \o b) \o c = a \o (b \o c)
         /\ a \o b \in Bytes /\ b \o c \in Bytes /\ (a \o b) \o c \in Bytes
<1>1. a \in Seq(Byte) /\ b \in Seq(Byte) /\ c \in Seq(Byte)
  BY DEF Bytes
<1>2. (a \o b) \o c = a \o (b \o c)
  BY <1>1, ConcatAssociative
<1>3. QED BY <1>1, <1>2, ConcatProperties DEF Bytes

-------------------------------------------------------------------------------
(* The queue. *)

QueueInv == TypeOK /\ StreamIsQueue

LEMMA BecomesQueues ==
  ASSUME QueueInv, Call, NEW s \in Streams, NEW b \in Bytes, NEW its,
         NEW given \in Bytes, NEW gone \in Bytes, gone \o b = given,
         Becomes(s, b, its, given, gone)
  PROVE  QueueInv'
<1>1. TypeOK'
  BY ConstantsAssumption DEF QueueInv, TypeOK, Call, Becomes, Bytes
<1>2. \A t \in Streams : taken'[t] \o m_buffer'[t] = put'[t]
  BY DEF QueueInv, TypeOK, StreamIsQueue, Becomes
<1>3. QED BY <1>1, <1>2 DEF QueueInv, StreamIsQueue

LEMMA StreamsFit ==
  ASSUME QueueInv, NEW s \in Streams
  PROVE  /\ m_buffer[s] \in Bytes /\ put[s] \in Bytes /\ taken[s] \in Bytes
         /\ taken[s] \o m_buffer[s] = put[s] /\ sizeWidth \in {4, 8}
BY ConstantsAssumption DEF QueueInv, TypeOK, StreamIsQueue, Bytes

LEMMA WriteQueues ==
  ASSUME QueueInv, NEW s \in Streams, NEW item \in Items, Write(s, item)
  PROVE  QueueInv'
<1> DEFINE x == ItemBytes(item, sizeWidth)
<1>1. x \in Bytes
  BY StreamsFit, ItemBytesFit
<1>2. m_buffer[s] \o x \in Bytes /\ put[s] \o x \in Bytes
  BY <1>1, StreamsFit, ConcatProperties DEF Bytes
<1> HIDE DEF x
<1>3. taken[s] \o (m_buffer[s] \o x) = put[s] \o x
  <2>1. (taken[s] \o m_buffer[s]) \o x = taken[s] \o (m_buffer[s] \o x)
    <3>1. taken[s] \in Bytes /\ m_buffer[s] \in Bytes
      BY StreamsFit
    <3>2. QED BY <1>1, <3>1, Associative
  <2>2. QED BY <2>1, StreamsFit
<1>4. Call /\ \E its : Becomes(s, m_buffer[s] \o x, its, put[s] \o x, taken[s])
  BY DEF Write, x
<1>5. QED BY <1>2, <1>3, <1>4, StreamsFit, BecomesQueues

(* Some of the front is taken. *)
LEMMA RestQueues ==
  ASSUME QueueInv, NEW s \in Streams, NEW r, IsRest(r, m_buffer[s])
  PROVE  LET x == SubSeq(m_buffer[s], 1, Len(m_buffer[s]) - Len(r)) IN
         r \in Bytes /\ taken[s] \o x \in Bytes /\ (taken[s] \o x) \o r = put[s]
<1> DEFINE b == m_buffer[s]
           x == SubSeq(b, 1, Len(b) - Len(r))
<1>1. b \in Bytes /\ r \in Bytes /\ Len(r) \in 0..Len(b) /\ x \o r = b
  BY StreamsFit, RestFits
<1>2. x \in Bytes
  <2>1. Len(b) - Len(r) \in 0..Len(b)
    BY <1>1 DEF Bytes
  <2>2. QED BY <1>1, <2>1, DropFits DEF Bytes
<1> HIDE DEF x, b
<1>3. taken[s] \o x \in Bytes /\ (taken[s] \o x) \o r = taken[s] \o (x \o r)
  <2>1. taken[s] \in Bytes
    BY StreamsFit
  <2>2. QED BY <1>1, <1>2, <2>1, Associative
<1>4. QED BY <1>1, <1>3, StreamsFit DEF x, b

LEMMA ReadQueues ==
  ASSUME QueueInv, NEW s \in Streams, NEW item \in Items, Read(s, item.kind)
  PROVE  QueueInv'
<1> DEFINE r == ReadItem(m_buffer[s], item.kind).rest
           x == SubSeq(m_buffer[s], 1, Len(m_buffer[s]) - Len(r))
<1>1. IsRest(r, m_buffer[s])
  <2>1. m_buffer[s] \in Bytes /\ item.kind \in Kinds /\ item.kind.row # <<>>
    BY StreamsFit, ItemsFit
  <2>2. QED BY <2>1, ItemsLeaveRest
<1>2. r \in Bytes /\ taken[s] \o x \in Bytes /\ (taken[s] \o x) \o r = put[s] /\ put[s] \in Bytes
  BY <1>1, RestQueues, StreamsFit
<1>3. Call /\ \E its : Becomes(s, r, its, put[s], taken[s] \o x)
  BY DEF Read
<1> HIDE DEF r, x
<1>4. QED BY <1>2, <1>3, BecomesQueues

LEMMA ReadRawQueues ==
  ASSUME QueueInv, NEW s \in Streams, NEW n \in Counts, ReadRaw(s, n)
  PROVE  QueueInv'
<1> DEFINE b == m_buffer[s]
           gone == Least(n, Len(b))
           r == Drop(b, gone)
<1>1. CASE n > sizeWidth
  <2>1. fault' = TRUE /\ UNCHANGED <<m_buffer, items, put, taken>> /\ Call
    BY <1>1 DEF ReadRaw
  <2>2. QED BY <2>1, ConstantsAssumption DEF QueueInv, TypeOK, StreamIsQueue, Call
<1>2. CASE ~(n > sizeWidth)
  <2>1. b \in Bytes /\ gone \in 0..Len(b)
    <3>1. b \in Bytes /\ n \in Nat
      BY StreamsFit, ConstantsAssumption
    <3> HIDE DEF b
    <3>2. Len(b) \in Nat
      BY <3>1 DEF Bytes
    <3>3. QED BY <3>1, <3>2 DEF Least
  <2>2. Call /\ \E its : Becomes(s, r, its, put[s], taken[s] \o SubSeq(b, 1, gone))
    BY <1>2 DEF ReadRaw
  <2> HIDE DEF gone
  <2>3. IsRest(r, b) /\ Len(b) - Len(r) = gone
    <3> HIDE DEF b
    <3>1. Len(r) = Len(b) - gone
      BY <2>1, DropFits DEF Bytes
    <3>2. Len(b) \in Nat
      BY <2>1 DEF Bytes
    <3>3. Len(b) - Len(r) = gone
      BY <2>1, <3>1, <3>2
    <3>4. QED BY <2>1, <3>3 DEF IsRest
  <2>4. /\ r \in Bytes /\ taken[s] \o SubSeq(b, 1, gone) \in Bytes
        /\ (taken[s] \o SubSeq(b, 1, gone)) \o r = put[s] /\ put[s] \in Bytes
    BY <2>3, RestQueues, StreamsFit
  <2> HIDE DEF r, b
  <2>5. QED BY <2>2, <2>4, BecomesQueues
<1>3. QED BY <1>1, <1>2

LEMMA OverwrittenInBoth ==
  ASSUME NEW b \in Bytes, NEW t \in Bytes, NEW data \in Bytes, NEW pos \in Nat
  PROVE  /\ Overwritten(b, pos, data) \in Bytes
         /\ Overwritten(t \o b, pos + Len(t), data) \in Bytes
         /\ t \o Overwritten(b, pos, data) = Overwritten(t \o b, pos + Len(t), data)
         /\ data = <<>> => Overwritten(b, pos, data) = b
<1> DEFINE n == Len(t)
           p == Overwritten(b, pos, data)
           q == Overwritten(t \o b, pos + n, data)
<1>1. /\ n \in Nat /\ Len(b) \in Nat /\ Len(data) \in Nat
      /\ \A i \in 1..n : t[i] \in Byte
      /\ \A i \in 1..Len(b) : b[i] \in Byte
      /\ \A i \in 1..Len(data) : data[i] \in Byte
  BY DEF Bytes
<1>2. /\ t \o b \in Bytes /\ Len(t \o b) = n + Len(b)
      /\ \A i \in 1..(n + Len(b)) : (t \o b)[i] = IF i <= n THEN t[i] ELSE b[i - n]
  BY ConcatProperties DEF Bytes
<1>3. p \in Bytes /\ Len(p) = Len(b)
  <2>1. \A i \in 1..Len(b) : (IF i - pos \in 1..Len(data) THEN data[i - pos] ELSE b[i]) \in Byte
    BY <1>1
  <2>2. QED BY <1>1, <2>1 DEF Bytes, Overwritten
<1>4. q \in Bytes /\ Len(q) = n + Len(b)
  <2>1. \A i \in 1..Len(t \o b) :
          (IF i - (pos + n) \in 1..Len(data) THEN data[i - (pos + n)] ELSE (t \o b)[i]) \in Byte
    BY <1>1, <1>2
  <2>2. QED BY <1>1, <1>2, <2>1 DEF Bytes, Overwritten
<1>5. \A i \in 1..Len(b) : p[i] = IF i - pos \in 1..Len(data) THEN data[i - pos] ELSE b[i]
  BY DEF Overwritten
<1>6. \A i \in 1..(n + Len(b)) :
        q[i] = IF i - (pos + n) \in 1..Len(data) THEN data[i - (pos + n)] ELSE (t \o b)[i]
  BY <1>2 DEF Overwritten
<1> HIDE DEF p, q
<1>7. /\ t \o p \in Bytes /\ Len(t \o p) = n + Len(b)
      /\ \A i \in 1..(n + Len(b)) : (t \o p)[i] = IF i <= n THEN t[i] ELSE p[i - n]
  <2>1. /\ t \o p \in Seq(Byte) /\ Len(t \o p) = Len(t) + Len(p)
        /\ \A i \in 1..(Len(t) + Len(p)) : (t \o p)[i] = IF i <= Len(t) THEN t[i] ELSE p[i - Len(t)]
    BY <1>3, ConcatProperties DEF Bytes
  <2>2. QED BY <1>3, <2>1 DEF Bytes
<1>8. ASSUME NEW i \in 1..(n + Len(b)) PROVE (t \o p)[i] = q[i]
  <2>1. CASE i <= n
    BY <1>1, <1>2, <1>6, <1>7, <2>1
  <2>2. CASE ~(i <= n)
    <3>1. i - n \in 1..Len(b) /\ (i - n) - pos = i - (pos + n)
      BY <1>1, <2>2
    <3>2. (t \o p)[i] = p[i - n] /\ (t \o b)[i] = b[i - n]
      BY <1>2, <1>7, <2>2
    <3>3. p[i - n] = IF i - (pos + n) \in 1..Len(data) THEN data[i - (pos + n)] ELSE b[i - n]
      BY <1>5, <3>1
    <3>4. QED BY <1>6, <3>2, <3>3
  <2>3. QED BY <2>1, <2>2
<1>9. t \o p = q
  BY <1>4, <1>7, <1>8, SeqEqual DEF Bytes
<1>10. data = <<>> => p = b
  <2>1. SUFFICES ASSUME data = <<>> PROVE p = b
    OBVIOUS
  <2>2. \A i \in 1..Len(b) : p[i] = b[i]
    BY <1>1, <1>5, <2>1
  <2>3. QED BY <1>3, <2>2, SeqEqual DEF Bytes
<1>11. QED BY <1>3, <1>4, <1>9, <1>10 DEF p, q

LEMMA WriteRawQueues ==
  ASSUME QueueInv, NEW s \in Streams, NEW data \in Raws, NEW pos \in Int, WriteRaw(s, data, pos)
  PROVE  QueueInv'
<1> DEFINE b == m_buffer[s]
<1>1. data \in Bytes /\ b \in Bytes /\ Call
  BY ConstantsAssumption, StreamsFit DEF WriteRaw, Bytes
<1>2. CASE pos < 0
  <2>1. \E its : Becomes(s, b \o data, its, put[s] \o data, taken[s])
    BY <1>2 DEF WriteRaw
  <2>2. b \o data \in Bytes /\ put[s] \o data \in Bytes
    BY <1>1, StreamsFit, ConcatProperties DEF Bytes
  <2>3. taken[s] \o (b \o data) = put[s] \o data
    <3> HIDE DEF b
    <3>1. (taken[s] \o b) \o data = taken[s] \o (b \o data)
      <4>1. taken[s] \in Bytes
        BY StreamsFit
      <4>2. QED BY <1>1, <4>1, Associative
    <3>2. QED BY <3>1, StreamsFit DEF b
  <2>4. QED BY <1>1, <2>1, <2>2, <2>3, StreamsFit, BecomesQueues
<1>3. CASE ~(pos < 0) /\ pos + Len(data) <= Len(b)
  <2> DEFINE p == Overwritten(b, pos, data)
             q == Overwritten(put[s], pos + Len(taken[s]), data)
  <2>1. \E its : Becomes(s, p, its, q, taken[s])
    BY <1>3 DEF WriteRaw
  <2>2. p \in Bytes /\ q \in Bytes /\ taken[s] \o p = q
    <3>1. taken[s] \in Bytes /\ taken[s] \o b = put[s]
      BY StreamsFit
    <3>2. pos \in Nat
      BY <1>3
    <3>3. ASSUME NEW c \in Bytes, NEW t \in Bytes, NEW d \in Bytes, NEW at \in Nat
          PROVE  /\ Overwritten(c, at, d) \in Bytes
                 /\ Overwritten(t \o c, at + Len(t), d) \in Bytes
                 /\ t \o Overwritten(c, at, d) = Overwritten(t \o c, at + Len(t), d)
      <4> HIDE DEF p, q, b
      <4> QED BY OverwrittenInBoth, SMT
    <3>4. /\ Overwritten(b, pos, data) \in Bytes
          /\ Overwritten(taken[s] \o b, pos + Len(taken[s]), data) \in Bytes
          /\ taken[s] \o Overwritten(b, pos, data) = Overwritten(taken[s] \o b, pos + Len(taken[s]), data)
      <4> HIDE DEF b
      <4> QED BY <1>1, <3>1, <3>2, <3>3
    <3>5. QED BY <3>1, <3>4
  <2> HIDE DEF p, q
  <2>3. QED BY <1>1, <2>1, <2>2, StreamsFit, BecomesQueues
<1>4. CASE ~(pos < 0) /\ ~(pos + Len(data) <= Len(b))
  <2>1. UNCHANGED <<m_buffer, items, put, taken, fault>>
    BY <1>4 DEF WriteRaw
  <2>2. QED BY <1>1, <2>1, ConstantsAssumption DEF QueueInv, TypeOK, StreamIsQueue, Call
<1>5. QED BY <1>2, <1>3, <1>4

LEMMA RenewalQueues ==
  ASSUME QueueInv, NEW s \in Streams, Clear(s) \/ \E data \in Raws : Reset(s, data)
  PROVE  QueueInv'
<1>1. CASE Clear(s)
  <2>1. <<>> \in Bytes /\ taken[s] \in Bytes /\ taken[s] \o <<>> = taken[s]
    BY StreamsFit, EmptySeq, ConcatEmptySeq DEF Bytes
  <2>2. QED BY <1>1, <2>1, BecomesQueues DEF Clear
<1>2. ASSUME NEW data \in Raws, Reset(s, data) PROVE QueueInv'
  <2>1. data \in Bytes /\ taken[s] \in Bytes /\ taken[s] \o data \in Bytes
    BY StreamsFit, ConstantsAssumption, ConcatProperties DEF Bytes
  <2>2. QED BY <1>2, <2>1, BecomesQueues DEF Reset
<1>3. QED BY <1>1, <1>2

LEMMA MoveQueues ==
  ASSUME QueueInv, NEW s \in Streams, NEW t \in Streams, Move(s, t)
  PROVE  QueueInv'
<1>1. s # t /\ Call /\ UNCHANGED fault
  BY DEF Move
<1>2. /\ \A u \in Streams \ {s, t} :
           m_buffer'[u] = m_buffer[u] /\ put'[u] = put[u] /\ taken'[u] = taken[u]
      /\ m_buffer'[t] = m_buffer[s] /\ put'[t] = put[s] /\ taken'[t] = taken[s]
      /\ taken'[s] = taken[t]
      /\ \/ m_buffer'[s] = <<>> /\ put'[s] = taken[t]
         \/ m_buffer'[s] = m_buffer[t] /\ put'[s] = put[t]
      /\ DOMAIN m_buffer' = Streams /\ DOMAIN put' = Streams /\ DOMAIN taken' = Streams
      /\ m_buffer' = [u \in Streams |-> m_buffer'[u]] /\ put' = [u \in Streams |-> put'[u]]
      /\ taken' = [u \in Streams |-> taken'[u]]
  BY <1>1 DEF Move, QueueInv, TypeOK
<1>3. <<>> \in Bytes /\ taken[t] \o <<>> = taken[t]
  BY StreamsFit, EmptySeq, ConcatEmptySeq DEF Bytes
<1>4. \A u \in Streams :
        /\ m_buffer'[u] \in Bytes /\ put'[u] \in Bytes /\ taken'[u] \in Bytes
        /\ taken'[u] \o m_buffer'[u] = put'[u]
  <2>1. \A u \in Streams :
          /\ m_buffer[u] \in Bytes /\ put[u] \in Bytes /\ taken[u] \in Bytes
          /\ taken[u] \o m_buffer[u] = put[u]
    BY StreamsFit
  <2>2. ASSUME NEW u \in Streams \ {s, t}
        PROVE  /\ m_buffer'[u] \in Bytes /\ put'[u] \in Bytes /\ taken'[u] \in Bytes
               /\ taken'[u] \o m_buffer'[u] = put'[u]
    BY <1>2, <2>1
  <2>3. /\ m_buffer'[t] \in Bytes /\ put'[t] \in Bytes /\ taken'[t] \in Bytes
        /\ taken'[t] \o m_buffer'[t] = put'[t]
    BY <1>2, <2>1
  <2>4. /\ m_buffer'[s] \in Bytes /\ put'[s] \in Bytes /\ taken'[s] \in Bytes
        /\ taken'[s] \o m_buffer'[s] = put'[s]
    BY <1>2, <1>3, <2>1
  <2>5. QED BY <2>2, <2>3, <2>4
<1>5. TypeOK'
  BY <1>1, <1>2, <1>4, ConstantsAssumption DEF QueueInv, TypeOK, Call, Bytes
<1>6. QED BY <1>4, <1>5 DEF QueueInv, StreamIsQueue

LEMMA StartQueues == Init => QueueInv
<1>1. <<>> \in Bytes /\ <<>> \o <<>> = <<>>
  BY EmptySeq, ConcatEmptySeq DEF Bytes
<1>2. SUFFICES ASSUME Init PROVE TypeOK /\ StreamIsQueue
  BY DEF QueueInv
<1>3. TypeOK
  <2>1. <<>> \in Seq(Byte) /\ 0 \in 0..MaxCalls
    BY <1>1, ConstantsAssumption DEF Bytes
  <2>2. QED BY <1>2, <2>1 DEF Init, TypeOK
<1>4. StreamIsQueue
  BY <1>1, <1>2 DEF Init, StreamIsQueue
<1>5. QED BY <1>3, <1>4

LEMMA CallsQueue == QueueInv /\ [Next]_vars => QueueInv'
<1> SUFFICES ASSUME QueueInv, [Next]_vars PROVE QueueInv'
  OBVIOUS
<1>1. CASE UNCHANGED vars
  BY <1>1 DEF vars, QueueInv, TypeOK, StreamIsQueue
<1>2. ASSUME NEW s \in Streams,
             \/ \E item \in Items : Write(s, item) \/ Read(s, item.kind)
             \/ \E data \in Raws :
                  Reset(s, data) \/ \E pos \in {-1, 0, 2} : WriteRaw(s, data, pos)
             \/ \E n \in Counts : ReadRaw(s, n)
             \/ Clear(s)
             \/ \E t \in Streams : Move(s, t)
      PROVE  QueueInv'
  BY <1>2, WriteQueues, ReadQueues, RenewalQueues, WriteRawQueues, ReadRawQueues, MoveQueues
<1>3. QED BY <1>1, <1>2 DEF Next

(* No byte is lost, read twice or made up by a stream, whatever types are  *)
(* read from it, in whatever order, with whatever forged lengths and with  *)
(* whatever exceptions (DataStream.h:105-193, DataStream.cpp:116-241).     *)
THEOREM StreamsAreQueues == Spec => []StreamIsQueue
<1>1. QueueInv => StreamIsQueue
  BY DEF QueueInv
<1>2. QED BY StartQueues, CallsQueue, <1>1, PTL DEF Spec

(* All variables keep their types. *)
THEOREM TypesAreRight == Spec => []TypeOK
<1>1. QueueInv => TypeOK
  BY DEF QueueInv
<1>2. QED BY StartQueues, CallsQueue, <1>1, PTL DEF Spec
-------------------------------------------------------------------------------
(* Reading undoes writing. *)

LEMMA ValueReadsBack ==
  ASSUME NEW a \in Bytes, NEW r \in Bytes, NEW k, Len(a) = k
  PROVE  ReadValue(a \o r, k) = [rest |-> r, got |-> a, threw |-> FALSE]
<1>1. a \in Seq(Byte) /\ r \in Seq(Byte)
  BY DEF Bytes
<1>2. Drop(a \o r, Len(a)) = r /\ SubSeq(a \o r, 1, Len(a)) = a
  BY <1>1, JoinedAndCut
<1>3. ~(Len(a \o r) < Len(a))
  <2>1. Len(a \o r) = Len(a) + Len(r)
    BY <1>1, ConcatProperties
  <2>2. Len(a) \in Nat /\ Len(r) \in Nat
    BY <1>1
  <2>3. QED BY <2>1, <2>2
<1>4. QED BY <1>2, <1>3 DEF ReadValue

LEMMA NumbersReadBack ==
  ASSUME NEW n \in Nat, n < Limit
  PROVE  Number(NumberBytes(n, 4)) = n
<1> DEFINE b == NumberBytes(n, 4)
<1>1. /\ b[1] = n % 256 /\ b[2] = (n \div 256) % 256
      /\ b[3] = (n \div 65536) % 256 /\ b[4] = n \div 16777216
  BY DEF NumberBytes
<1> HIDE DEF b
<1> DEFINE w == n % 256
           x == (n \div 256) % 256
           y == (n \div 65536) % 256
           z == n \div 16777216
<1>2. /\ w \in Nat /\ x \in Nat /\ y \in Nat /\ z \in Nat /\ z <= 127
      /\ w + 256 * x + 65536 * y + 16777216 * z = n
  BY SMT DEF Limit
<1>3. b[1] = w /\ b[2] = x /\ b[3] = y /\ b[4] = z /\ ~(b[4] > 127)
  BY <1>1, <1>2, SMT
<1> HIDE DEF w, x, y, z
<1>4. Number(b) = b[1] + 256 * b[2] + 65536 * b[3] + 16777216 * b[4]
  BY <1>3, SMT DEF Number
<1>5. Number(b) = n
  BY <1>2, <1>3, <1>4, SMT
<1>6. QED BY <1>5 DEF b

LEMMA TextsReadBack ==
  ASSUME NEW e \in Bytes, Len(e) < Limit, NEW r \in Bytes
  PROVE  ReadText(ElementBytes("text", e, 4) \o r) = [rest |-> r, got |-> e, threw |-> FALSE]
<1> DEFINE a == NumberBytes(Len(e), 4)
<1>1. Len(e) \in Nat
  BY DEF Bytes
<1>2. a \in Bytes /\ Len(a) = 4 /\ Number(a) = Len(e)
  BY <1>1, NumberBytesFit, NumbersReadBack
<1> HIDE DEF a
<1>3. ElementBytes("text", e, 4) \o r = a \o (e \o r) /\ e \o r \in Bytes
  BY <1>2, Associative DEF ElementBytes, a
<1>4. ReadValue(a \o (e \o r), 4) = [rest |-> e \o r, got |-> a, threw |-> FALSE]
  BY <1>2, <1>3, ValueReadsBack
<1>5. Len(e \o r) = Len(e) + Len(r) /\ Len(r) \in Nat
  BY ConcatProperties DEF Bytes
<1>6. ~(Len(e) > Len(e \o r))
  BY <1>1, <1>5
<1>7. Drop(e \o r, Len(e)) = r /\ SubSeq(e \o r, 1, Len(e)) = e
  BY JoinedAndCut DEF Bytes
<1>8. ReadText(a \o (e \o r)) = [rest |-> r, got |-> e, threw |-> FALSE]
  <2> DEFINE c == a \o (e \o r)
             size == ReadValue(c, 4)
  <2>1. size.rest = e \o r /\ Number(size.got) = Len(e)
    BY <1>2, <1>4
  <2>2. ReadText(c) =
          IF Number(size.got) > Len(size.rest)
          THEN [rest |-> size.rest, got |-> <<>>, threw |-> TRUE]
          ELSE [rest |-> Drop(size.rest, Number(size.got)),
                got |-> SubSeq(size.rest, 1, Number(size.got)), threw |-> FALSE]
    BY DEF ReadText
  <2> HIDE DEF c, size
  <2>3. QED BY <1>6, <1>7, <2>1, <2>2 DEF c
<1>9. QED BY <1>3, <1>8

LEMMA ElementsReadBack ==
  ASSUME NEW type \in ElementTypes, NEW e \in Bytes, IsOfType(e, type), NEW r \in Bytes,
         NEW w \in {4, 8}, type = "text" => w = 4
  PROVE  ReadElement(ElementBytes(type, e, w) \o r, type) = [rest |-> r, got |-> e, threw |-> FALSE]
<1>1. CASE type = "text"
  <2>1. Len(e) < Limit
    BY <1>1 DEF IsOfType
  <2>2. QED BY <1>1, <2>1, TextsReadBack DEF ReadElement
<1>2. CASE type = "bool"
  <2>1. e \in {<<0>>, <<1>>} /\ ElementBytes(type, e, w) = e
    BY <1>2 DEF IsOfType, ElementBytes
  <2>2. Len(e) = 1
    BY <2>1
  <2>3. ReadValue(e \o r, 1) = [rest |-> r, got |-> e, threw |-> FALSE]
    BY <2>2, ValueReadsBack
  <2>4. (IF e = <<0>> THEN <<0>> ELSE <<1>>) = e
    BY <2>1
  <2>5. ReadBool(e \o r) = [rest |-> r, got |-> e, threw |-> FALSE]
    <3> DEFINE v == ReadValue(e \o r, 1)
    <3>1. ReadBool(e \o r) =
            [rest |-> v.rest, got |-> IF v.got = <<0>> THEN <<0>> ELSE <<1>>, threw |-> v.threw]
      BY DEF ReadBool
    <3>2. v.rest = r /\ v.got = e /\ v.threw = FALSE
      BY <2>3
    <3> HIDE DEF v
    <3>3. (IF v.got = <<0>> THEN <<0>> ELSE <<1>>) = e
      BY <2>4, <3>2
    <3>4. QED BY <3>1, <3>2, <3>3
  <2>6. QED BY <1>2, <2>1, <2>5 DEF ReadElement
<1>3. CASE type # "text" /\ type # "bool"
  <2>1. Len(e) = Width[type] /\ ElementBytes(type, e, w) = e
    BY <1>3 DEF IsOfType, ElementBytes
  <2>2. ReadElement(e \o r, type) = ReadValue(e \o r, Width[type])
    BY <1>3 DEF ReadElement
  <2>3. QED BY <2>1, <2>2, ValueReadsBack
<1>4. QED BY <1>1, <1>2, <1>3
\* g holds what follows every element of the item in front of rest.
AreCuts(g, item, w, rest) ==
  /\ \A i \in 0..Len(item.data) : g[i] \in Bytes
  /\ g[Len(item.data)] = rest
  /\ ItemBytes(item, w) \o rest = Leading(item, w) \o g[0]
  /\ \A i \in 1..Len(item.data) :
       g[i - 1] = ElementBytes(TypeAt(item.kind, i), item.data[i], w) \o g[i]

(* The bytes of an item, cut where its elements end. *)
LEMMA ItemCuts ==
  ASSUME NEW item \in Items, NEW w \in {4, 8}, NEW rest \in Bytes
  PROVE  \E g : AreCuts(g, item, w, rest)
<1> DEFINE m == Len(item.data)
           e(i) == ElementBytes(TypeAt(item.kind, i), item.data[i], w)
           full == ItemBytes(item, w) \o rest
<1>1. PICK f : /\ ItemBytes(item, w) = f[m]
               /\ f[0] = Leading(item, w)
               /\ \A i \in 0..m : f[i] \in Bytes
               /\ \A i \in 1..m : e(i) \in Bytes /\ f[i] = f[i - 1] \o e(i)
  BY BytesGrow
<1>2. m \in Nat
  BY ItemsFit
<1>3. full = f[m] \o rest
  BY <1>1
<1> DEFINE g == [i \in 0..m |-> Drop(full, Len(f[i]))]
           S == {k \in Nat : k <= m => \E t \in Bytes : full = f[m - k] \o t}
<1> HIDE DEF m, e, full
<1>4. 0 \in S
  BY <1>2, <1>3
<1>5. ASSUME NEW k \in S PROVE k + 1 \in S
  <2>1. SUFFICES ASSUME k + 1 <= m PROVE \E t \in Bytes : full = f[m - (k + 1)] \o t
    OBVIOUS
  <2>2. PICK t \in Bytes : full = f[m - k] \o t
    BY <1>2, <2>1
  <2>3. m - k \in 1..m /\ (m - k) - 1 = m - (k + 1) /\ m - (k + 1) \in 0..m
    BY <1>2, <2>1
  <2>4. e(m - k) \in Bytes /\ f[m - k] = f[m - (k + 1)] \o e(m - k) /\ f[m - (k + 1)] \in Bytes
    BY <1>1, <2>3
  <2>5. full = f[m - (k + 1)] \o (e(m - k) \o t) /\ e(m - k) \o t \in Bytes
    <3> DEFINE a == f[m - (k + 1)]
               x == e(m - k)
               y == f[m - k]
    <3> HIDE DEF a, x, y
    <3>1. a \in Bytes /\ x \in Bytes /\ y = a \o x /\ full = y \o t
      BY <2>2, <2>4 DEF a, x, y
    <3>2. full = (a \o x) \o t
      BY <3>1
    <3>3. (a \o x) \o t = a \o (x \o t) /\ x \o t \in Bytes
      <4>1. a \in Bytes /\ x \in Bytes /\ t \in Bytes
        BY <3>1
      <4>2. x \o t \in Bytes
        BY <4>1, JoinsFit
      <4>3. (a \o x) \o t = a \o (x \o t)
        BY <4>1, Regrouped
      <4>4. QED BY <4>2, <4>3
    <3>4. QED BY <3>2, <3>3 DEF a, x
  <2>6. QED BY <2>5
<1>6. S = Nat
  <2> HIDE DEF S
  <2>1. QED BY <1>4, <1>5, AllNumbers DEF S
<1>7. ASSUME NEW i \in 0..m, NEW t \in Bytes, full = f[i] \o t
      PROVE  g[i] = t
  <2>1. f[i] \in Seq(Byte) /\ t \in Seq(Byte)
    BY <1>1, <1>7 DEF Bytes
  <2>2. Drop(f[i] \o t, Len(f[i])) = t
    BY <2>1, JoinedAndCut
  <2>3. QED BY <1>7, <2>2
<1>8. ASSUME NEW i \in 0..m PROVE g[i] \in Bytes /\ full = f[i] \o g[i]
  <2>1. m - i \in Nat /\ m - i <= m /\ m - (m - i) = i
    BY <1>2
  <2>2. m - i \in S
    BY <1>6, <2>1
  <2>3. \E t \in Bytes : full = f[m - (m - i)] \o t
    BY <2>1, <2>2
  <2>4. PICK t \in Bytes : full = f[i] \o t
    BY <2>1, <2>3
  <2> HIDE DEF g
  <2>5. g[i] = t
    BY <1>7, <2>4
  <2>6. QED BY <2>4, <2>5
<1> HIDE DEF g, S
<1>9. m \in 0..m /\ 0 \in 0..m
  BY <1>2
<1>10. g[m] = rest
  BY <1>3, <1>7, <1>9
<1>11. full = Leading(item, w) \o g[0]
  BY <1>1, <1>8, <1>9
<1>12. ASSUME NEW i \in 1..m PROVE g[i - 1] = e(i) \o g[i]
  <2>1. i \in 0..m /\ i - 1 \in 0..m
    BY <1>2
  <2>2. g[i] \in Bytes /\ full = f[i] \o g[i]
    BY <1>8, <2>1
  <2>3. e(i) \in Bytes /\ f[i] = f[i - 1] \o e(i) /\ f[i - 1] \in Bytes
    BY <1>1, <2>1
  <2>4. full = f[i - 1] \o (e(i) \o g[i]) /\ e(i) \o g[i] \in Bytes
    <3> DEFINE a == f[i - 1]
               x == e(i)
               y == f[i]
               z == g[i]
    <3> HIDE DEF a, x, y, z
    <3>1. a \in Bytes /\ x \in Bytes /\ z \in Bytes /\ y = a \o x /\ full = y \o z
      BY <2>2, <2>3 DEF a, x, y, z
    <3>2. full = (a \o x) \o z
      BY <3>1
    <3>3. (a \o x) \o z = a \o (x \o z) /\ x \o z \in Bytes
      <4>1. a \in Bytes /\ x \in Bytes /\ z \in Bytes
        BY <3>1
      <4>2. x \o z \in Bytes
        BY <4>1, JoinsFit
      <4>3. (a \o x) \o z = a \o (x \o z)
        BY <4>1, Regrouped
      <4>4. QED BY <4>2, <4>3
    <3>4. QED BY <3>2, <3>3 DEF a, x, z
  <2>5. QED BY <1>7, <2>1, <2>4
<1>13. \A i \in 0..m : g[i] \in Bytes
  BY <1>8
<1>14. AreCuts(g, item, w, rest)
  BY <1>10, <1>11, <1>12, <1>13 DEF m, e, full, AreCuts
<1>15. QED BY <1>14

LEMMA NextOfPrefix ==
  ASSUME NEW S, NEW d \in Seq(S), NEW i \in Nat, i + 1 <= Len(d)
  PROVE  Append(SubSeq(d, 1, i), d[i + 1]) = SubSeq(d, 1, i + 1)
<1> DEFINE a == SubSeq(d, 1, i)
           b == SubSeq(d, 1, i + 1)
<1>1. Len(d) \in Nat /\ i \in 0..Len(d) /\ i + 1 \in 0..Len(d)
  OBVIOUS
<1>2. a \in Seq(S) /\ Len(a) = i /\ \A j \in 1..i : a[j] = d[j]
  BY <1>1, DropFits
<1>3. b \in Seq(S) /\ Len(b) = i + 1 /\ \A j \in 1..(i + 1) : b[j] = d[j]
  BY <1>1, DropFits
<1> HIDE DEF a, b
<1>4. d[i + 1] \in S
  BY <1>1
<1>5. /\ Append(a, d[i + 1]) \in Seq(S) /\ Len(Append(a, d[i + 1])) = i + 1
      /\ \A j \in 1..i : Append(a, d[i + 1])[j] = a[j]
      /\ Append(a, d[i + 1])[i + 1] = d[i + 1]
  BY <1>2, <1>4, AppendProperties
<1>6. \A j \in 1..(i + 1) : Append(a, d[i + 1])[j] = b[j]
  BY <1>2, <1>3, <1>5
<1>7. Append(a, d[i + 1]) = b
  BY <1>3, <1>5, <1>6, SeqEqual
<1>8. QED BY <1>7 DEF a, b

LEMMA RowsReadBack ==
  ASSUME NEW item \in Items, NEW w \in {4, 8}, NEW n \in Nat,
         n * Len(item.kind.row) = Len(item.data),
         \A i \in 1..Len(item.data) : TypeAt(item.kind, i) = "text" => w = 4,
         NEW rest, NEW g, AreCuts(g, item, w, rest)
  PROVE  ReadRows(g[0], item.kind, n) = [rest |-> rest, got |-> item.data, threw |-> FALSE]
<1> DEFINE m == Len(item.data)
           kind == item.kind
           d == item.data
<1>1. m \in Nat /\ d \in Seq(Bytes)
  BY ItemsFit
<1>2. PICK f : /\ ReadRows(g[0], kind, n) = f[m]
               /\ f[0] = Begun(g[0])
               /\ \A i \in 1..m : f[i] = Continued(f[i - 1], kind, i)
  <2>1. n * Len(kind.row) \in Nat
    BY <1>1
  <2>2. PICK f : IsReading(f, g[0], kind, n)
    BY <2>1, RowsUnfold
  <2>3. n * Len(kind.row) = m
    OBVIOUS
  <2>4. QED BY <2>2, <2>3 DEF IsReading
<1> DEFINE S == {i \in Nat : i <= m => f[i] = [rest |-> g[i], got |-> SubSeq(d, 1, i), threw |-> FALSE]}
<1>3. 0 \in S
  <2>1. SubSeq(d, 1, 0) = <<>>
    BY <1>1, DropFits, EmptySeq
  <2>2. QED BY <1>2, <2>1 DEF Begun
<1>4. ASSUME NEW i \in S PROVE i + 1 \in S
  <2>1. SUFFICES ASSUME i + 1 <= m
                 PROVE  f[i + 1] = [rest |-> g[i + 1], got |-> SubSeq(d, 1, i + 1), threw |-> FALSE]
    OBVIOUS
  <2>2. i \in Nat /\ i + 1 \in 1..m /\ i + 1 \in 0..m /\ (i + 1) - 1 = i
    BY <1>1, <2>1
  <2>3. f[i] = [rest |-> g[i], got |-> SubSeq(d, 1, i), threw |-> FALSE]
    BY <1>1, <2>1, <2>2
  <2> DEFINE type == TypeAt(kind, i + 1)
             e == d[i + 1]
  <2>4. e \in Bytes /\ type \in ElementTypes /\ IsOfType(e, type)
    BY <2>2, ElementsFit
  <2>5. type = "text" => w = 4
    BY <2>2
  <2>6. g[i] = ElementBytes(type, e, w) \o g[i + 1] /\ g[i + 1] \in Bytes
    BY <2>2 DEF AreCuts
  <2>7. f[i + 1] = Continued(f[i], kind, i + 1)
    BY <1>2, <2>2
  <2>8. Continued(f[i], kind, i + 1) =
          LET r == ReadElement(f[i].rest, type) IN
          IF f[i].threw THEN f[i]
          ELSE [rest |-> r.rest, threw |-> r.threw,
                got |-> IF r.threw THEN f[i].got ELSE Append(f[i].got, r.got)]
    BY Zenon DEF Continued
  <2>9. Append(SubSeq(d, 1, i), e) = SubSeq(d, 1, i + 1)
    BY <1>1, <2>1, <2>2, NextOfPrefix
  <2> HIDE DEF type, e, d, kind, m
  <2>10. ReadElement(g[i], type) = [rest |-> g[i + 1], got |-> e, threw |-> FALSE]
    BY <2>4, <2>5, <2>6, ElementsReadBack
  <2> DEFINE r == ReadElement(f[i].rest, type)
  <2>11. r.rest = g[i + 1] /\ r.got = e /\ r.threw = FALSE /\ f[i].threw = FALSE
         /\ f[i].got = SubSeq(d, 1, i)
    BY <2>3, <2>10
  <2>12. f[i + 1] = IF f[i].threw THEN f[i]
                    ELSE [rest |-> r.rest, threw |-> r.threw,
                          got |-> IF r.threw THEN f[i].got ELSE Append(f[i].got, r.got)]
    BY <2>7, <2>8 DEF type
  <2> HIDE DEF r
  <2>13. QED BY <2>9, <2>11, <2>12
<1>5. m \in S
  <2>1. S = Nat
    <3> HIDE DEF S
    <3>1. QED BY <1>3, <1>4, AllNumbers DEF S
  <2>2. QED BY <2>1, <1>1
<1>6. SubSeq(d, 1, m) = d
  BY <1>1, SubSeqFull
<1>7. f[m] = [rest |-> g[m], got |-> d, threw |-> FALSE]
  <2>1. m <= m
    BY <1>1
  <2>2. QED BY <1>5, <1>6, <2>1
<1>8. g[m] = rest
  BY DEF AreCuts
<1>9. QED BY <1>2, <1>7, <1>8

(* The item in front of a stream is read as it was written. *)
LEMMA ItemsReadBack ==
  ASSUME NEW item \in Items, NEW w \in {4, 8}, NEW rest \in Bytes,
         w = 4 \/ (~item.kind.counted /\ \A i \in DOMAIN item.kind.row : item.kind.row[i] # "text")
  PROVE  ReadItem(ItemBytes(item, w) \o rest, item.kind) =
           [rest |-> rest, got |-> item.data, threw |-> FALSE]
<1> DEFINE m == Len(item.data)
           full == ItemBytes(item, w) \o rest
           n == IF item.kind.counted THEN Rows(item.kind, item.data) ELSE 1
<1>1. PICK g : AreCuts(g, item, w, rest)
  BY ItemCuts
<1>2. m \in Nat /\ g[0] \in Bytes /\ full = Leading(item, w) \o g[0]
  BY <1>1, ItemsFit DEF AreCuts
<1>3. n \in Nat /\ n * Len(item.kind.row) = m /\ (item.kind.counted => n < Limit)
  <2>1. /\ m = n * Len(item.kind.row)
        /\ item.kind.counted => Rows(item.kind, item.data) \in Nat /\ Rows(item.kind, item.data) < Limit
    BY RowsFit
  <2>2. QED BY <2>1
<1>4. \A i \in 1..m : TypeAt(item.kind, i) = "text" => w = 4
  <2>1. SUFFICES ASSUME NEW i \in 1..m, \A j \in DOMAIN item.kind.row : item.kind.row[j] # "text"
                 PROVE  TypeAt(item.kind, i) # "text"
    OBVIOUS
  <2>2. /\ item.kind.row \in Seq(ElementTypes) /\ Len(item.kind.row) \in Nat
        /\ Len(item.kind.row) > 0 /\ i - 1 \in Int
    BY <1>2, ItemsFit DEF Kinds
  <2>3. (i - 1) % Len(item.kind.row) \in 0..(Len(item.kind.row) - 1)
    BY <2>2, RemaindersAreBelow
  <2>4. ((i - 1) % Len(item.kind.row)) + 1 \in DOMAIN item.kind.row
    <3>1. DOMAIN item.kind.row = 1..Len(item.kind.row)
      BY <2>2
    <3> DEFINE k == Len(item.kind.row)
               x == (i - 1) % k
    <3>2. k \in Nat /\ x \in 0..(k - 1)
      BY <2>2, <2>3
    <3> HIDE DEF k, x
    <3>3. x + 1 \in 1..k
      BY <3>2
    <3>4. QED BY <3>1, <3>3 DEF k, x
  <2>5. QED BY <2>1, <2>4 DEF TypeAt
<1>5. ReadRows(g[0], item.kind, n) = [rest |-> rest, got |-> item.data, threw |-> FALSE]
  <2> HIDE DEF n
  <2>1. QED BY <1>1, <1>3, <1>4, RowsReadBack
<1>6. ReadItem(full, item.kind) = ReadRows(g[0], item.kind, n)
  <2>1. CASE item.kind.counted
    <3> DEFINE a == NumberBytes(n, 4)
    <3>1. n = Rows(item.kind, item.data) /\ w = 4
      BY <2>1
    <3>2. Leading(item, w) = a
      BY <2>1, <3>1 DEF Leading
    <3> HIDE DEF n
    <3>3. a \in Bytes /\ Len(a) = 4 /\ Number(a) = n
      BY <1>3, <2>1, NumberBytesFit, NumbersReadBack
    <3> HIDE DEF a, full
    <3>4. full = a \o g[0]
      BY <1>2, <3>2
    <3>5. ReadValue(full, 4) = [rest |-> g[0], got |-> a, threw |-> FALSE]
      BY <1>2, <3>3, <3>4, ValueReadsBack
    <3>6. ReadValue(full, 4).rest = g[0] /\ Number(ReadValue(full, 4).got) = n
      BY <3>3, <3>5
    <3>7. QED BY <2>1, <3>6 DEF ReadItem, AnnouncedRows
  <2>2. CASE ~item.kind.counted
    <3>1. Leading(item, w) = <<>> /\ n = 1
      BY <2>2 DEF Leading
    <3>2. full = g[0]
      BY <1>2, <3>1, ConcatEmptySeq DEF Bytes
    <3> HIDE DEF n, full
    <3>3. QED BY <2>2, <3>1, <3>2 DEF ReadItem, AnnouncedRows
  <2>3. QED BY <2>1, <2>2
<1>7. QED BY <1>5, <1>6
-------------------------------------------------------------------------------
(* A stream whose reader is in step holds the bytes of the items that are  *)
(* still unread, and cut holds what follows each of them.                  *)

AreSuffixes(cut, its, w) ==
  /\ \A i \in 0..Len(its) : cut[i] \in Bytes
  /\ cut[Len(its)] = <<>>
  /\ \A i \in 1..Len(its) : cut[i - 1] = ItemBytes(its[i], w) \o cut[i]

HoldsItems(b, its, w) ==
  its \in Seq(Items) /\ \E cut : AreSuffixes(cut, its, w) /\ cut[0] = b

LEMMA EmptyBytes ==
  /\ <<>> \in Bytes
  /\ \A b \in Bytes : <<>> \o b = b /\ b \o <<>> = b
BY EmptySeq, ConcatEmptySeq DEF Bytes

LEMMA NothingHeld ==
  ASSUME NEW w
  PROVE  HoldsItems(<<>>, <<>>, w)
<1> DEFINE cut == [i \in 0..0 |-> <<>>]
<1>1. <<>> \in Seq(Items) /\ Len(<<>>) = 0
  OBVIOUS
<1>2. AreSuffixes(cut, <<>>, w) /\ cut[0] = <<>>
  BY <1>1, EmptyBytes DEF AreSuffixes
<1> HIDE DEF cut
<1>3. QED BY <1>1, <1>2 DEF HoldsItems

LEMMA OneMoreHeld ==
  ASSUME NEW w \in {4, 8}, NEW b, NEW its, HoldsItems(b, its, w), NEW item \in Items
  PROVE  HoldsItems(b \o ItemBytes(item, w), Append(its, item), w)
<1> DEFINE n == Len(its)
           x == ItemBytes(item, w)
           more == Append(its, item)
<1>1. its \in Seq(Items) /\ n \in Nat
  BY DEF HoldsItems
<1>2. PICK cut : AreSuffixes(cut, its, w) /\ cut[0] = b
  BY DEF HoldsItems
<1>3. x \in Bytes
  BY ItemBytesFit
<1>4. /\ more \in Seq(Items) /\ Len(more) = n + 1 /\ more[n + 1] = item
      /\ \A i \in 1..n : more[i] = its[i]
  BY <1>1, AppendProperties
<1> DEFINE further == [i \in 0..(n + 1) |-> IF i = n + 1 THEN <<>> ELSE cut[i] \o x]
<1>5. \A i \in 0..n : cut[i] \in Bytes /\ further[i] = cut[i] \o x
  BY <1>1, <1>2 DEF AreSuffixes
<1>6. further[n + 1] = <<>>
  BY <1>1
<1>7. cut[n] = <<>>
  BY <1>2 DEF AreSuffixes
<1> HIDE DEF further, x, more
<1>8. \A i \in 0..(n + 1) : further[i] \in Bytes
  <2> TAKE i \in 0..(n + 1)
  <2>1. CASE i = n + 1
    BY <1>6, <2>1, EmptyBytes
  <2>2. CASE i # n + 1
    <3>1. i \in 0..n
      BY <1>1, <2>2
    <3>2. QED BY <1>3, <1>5, <3>1, JoinsFit
  <2>3. QED BY <2>1, <2>2
<1>9. ASSUME NEW i \in 1..(n + 1) PROVE further[i - 1] = ItemBytes(more[i], w) \o further[i]
  <2>1. CASE i = n + 1
    <3>1. n \in 0..n /\ i - 1 = n
      BY <1>1, <2>1
    <3>2. further[n] = <<>> \o x
      BY <1>5, <1>7, <3>1
    <3>3. ItemBytes(more[i], w) = x
      BY <1>4, <2>1 DEF x
    <3>4. QED BY <1>3, <1>6, <2>1, <3>1, <3>2, <3>3, EmptyBytes
  <2>2. CASE i # n + 1
    <3>1. i \in 1..n /\ i \in 0..n /\ i - 1 \in 0..n
      BY <1>1, <2>2
    <3> DEFINE y == ItemBytes(its[i], w)
    <3>2. its[i] \in Items /\ more[i] = its[i]
      BY <1>1, <1>4, <3>1
    <3>3. y \in Bytes
      BY <3>2, ItemBytesFit
    <3>4. cut[i - 1] = y \o cut[i] /\ cut[i] \in Bytes
      BY <1>2, <1>5, <3>1 DEF AreSuffixes
    <3>5. further[i - 1] = (y \o cut[i]) \o x /\ further[i] = cut[i] \o x
      BY <1>5, <3>1, <3>4
    <3> HIDE DEF y
    <3>6. (y \o cut[i]) \o x = y \o (cut[i] \o x)
      BY <1>3, <3>3, <3>4, Regrouped
    <3>7. QED BY <3>2, <3>5, <3>6 DEF y
  <2>3. QED BY <2>1, <2>2
<1>10. AreSuffixes(further, more, w)
  BY <1>4, <1>6, <1>8, <1>9 DEF AreSuffixes
<1>11. further[0] = b \o x
  <2>1. 0 \in 0..n
    BY <1>1
  <2>2. QED BY <1>2, <1>5, <2>1
<1>12. HoldsItems(b \o x, more, w)
  BY <1>4, <1>10, <1>11 DEF HoldsItems
<1>13. QED BY <1>12 DEF x, more

LEMMA FirstHeld ==
  ASSUME NEW w, NEW b, NEW its, HoldsItems(b, its, w), its # <<>>
  PROVE  /\ Head(its) \in Items
         /\ \E rest \in Bytes :
              b = ItemBytes(Head(its), w) \o rest /\ HoldsItems(rest, Tail(its), w)
<1> DEFINE n == Len(its)
           rear == Tail(its)
<1>1. its \in Seq(Items) /\ n \in Nat /\ n > 0
  BY DEF HoldsItems
<1>2. PICK cut : AreSuffixes(cut, its, w) /\ cut[0] = b
  BY DEF HoldsItems
<1>3. /\ rear \in Seq(Items) /\ Len(rear) = n - 1 /\ \A i \in 1..(n - 1) : rear[i] = its[i + 1]
      /\ Head(its) = its[1] /\ its[1] \in Items
  BY <1>1, HeadTailProperties
<1> DEFINE less == [i \in 0..(n - 1) |-> cut[i + 1]]
<1>4. \A i \in 0..(n - 1) : less[i] = cut[i + 1]
  OBVIOUS
<1> HIDE DEF less, rear
<1>5. \A i \in 0..(n - 1) : less[i] \in Bytes
  BY <1>1, <1>2, <1>4 DEF AreSuffixes
<1>6. less[n - 1] = <<>>
  BY <1>1, <1>2, <1>4 DEF AreSuffixes
<1>7. ASSUME NEW i \in 1..(n - 1) PROVE less[i - 1] = ItemBytes(rear[i], w) \o less[i]
  <2>1. i + 1 \in 1..n /\ (i + 1) - 1 = i /\ (i - 1) + 1 = i /\ i - 1 \in 0..(n - 1) /\ i \in 0..(n - 1)
    BY <1>1
  <2>2. cut[(i + 1) - 1] = ItemBytes(its[i + 1], w) \o cut[i + 1]
    BY <1>2, <2>1 DEF AreSuffixes
  <2>3. less[i - 1] = cut[i] /\ less[i] = cut[i + 1] /\ rear[i] = its[i + 1]
    BY <1>3, <1>4, <2>1
  <2>4. QED BY <2>1, <2>2, <2>3
<1>8. AreSuffixes(less, rear, w)
  BY <1>3, <1>5, <1>6, <1>7 DEF AreSuffixes
<1>9. less[0] \in Bytes /\ HoldsItems(less[0], rear, w)
  BY <1>1, <1>3, <1>5, <1>8 DEF HoldsItems
<1>10. b = ItemBytes(Head(its), w) \o less[0]
  <2>1. 1 \in 1..n /\ 0 \in 0..(n - 1) /\ 1 - 1 = 0 /\ 0 + 1 = 1
    BY <1>1
  <2>2. cut[1 - 1] = ItemBytes(its[1], w) \o cut[1]
    BY <1>2, <2>1 DEF AreSuffixes
  <2>3. QED BY <1>2, <1>3, <1>4, <2>1, <2>2
<1>11. QED BY <1>3, <1>9, <1>10 DEF rear
Held ==
  /\ DOMAIN items = Streams
  /\ \A s \in Streams : Aligned(s) => HoldsItems(m_buffer[s], items[s], sizeWidth)

ReadInv == QueueInv /\ Held /\ WrittenIsRead

LEMMA BecomesHolds ==
  ASSUME ReadInv, Call, NEW s \in Streams, NEW b, NEW its, NEW given, NEW gone,
         Becomes(s, b, its, given, gone),
         its # Unaligned => HoldsItems(b, its, sizeWidth)
  PROVE  Held'
<1>1. m_buffer \in [Streams -> Seq(Byte)] /\ DOMAIN items = Streams
  BY DEF ReadInv, QueueInv, TypeOK, Held
<1>2. /\ sizeWidth' = sizeWidth /\ DOMAIN items' = Streams
      /\ m_buffer'[s] = b /\ items'[s] = its
      /\ \A t \in Streams \ {s} : m_buffer'[t] = m_buffer[t] /\ items'[t] = items[t]
  BY <1>1 DEF Call, Becomes
<1>3. ASSUME NEW t \in Streams, items'[t] # Unaligned
      PROVE  HoldsItems(m_buffer'[t], items'[t], sizeWidth)
  <2>1. CASE t = s
    BY <1>2, <1>3, <2>1
  <2>2. CASE t # s
    BY <1>2, <1>3, <2>2 DEF ReadInv, Held, Aligned
  <2>3. QED BY <2>1, <2>2
<1>4. QED BY <1>2, <1>3 DEF Held, Aligned

LEMMA NoAnswerIsRight == answer' = NoAnswer => WrittenIsRead'
<1>1. NoAnswer.read = FALSE
  BY DEF NoAnswer
<1>2. QED BY <1>1 DEF WrittenIsRead

LEMMA WriteHolds ==
  ASSUME ReadInv, NEW s \in Streams, NEW item \in Items, Write(s, item)
  PROVE  Held' /\ WrittenIsRead'
<1> DEFINE x == ItemBytes(item, sizeWidth)
           its == IF Aligned(s) THEN Append(items[s], item) ELSE Unaligned
<1>1. Call /\ Becomes(s, m_buffer[s] \o x, its, put[s] \o x, taken[s]) /\ answer' = NoAnswer
  BY DEF Write
<1>2. sizeWidth \in {4, 8}
  BY StreamsFit DEF ReadInv
<1>3. its # Unaligned => HoldsItems(m_buffer[s] \o x, its, sizeWidth)
  <2>1. SUFFICES ASSUME Aligned(s)
                 PROVE  HoldsItems(m_buffer[s] \o x, Append(items[s], item), sizeWidth)
    OBVIOUS
  <2>2. HoldsItems(m_buffer[s], items[s], sizeWidth)
    BY <2>1 DEF ReadInv, Held
  <2>3. QED BY <1>2, <2>2, OneMoreHeld
<1> HIDE DEF x, its
<1>4. QED BY <1>1, <1>3, BecomesHolds, NoAnswerIsRight

(* A reader that is in step gets what was written, and stays in step. *)
LEMMA InStepReads ==
  ASSUME ReadInv, NEW s \in Streams, NEW kind, InStep(s, kind), LengthsAgree(kind)
  PROVE  \E rest : /\ ReadItem(m_buffer[s], kind) =
                        [rest |-> rest, got |-> Head(items[s]).data, threw |-> FALSE]
                   /\ HoldsItems(rest, Tail(items[s]), sizeWidth)
<1> DEFINE item == Head(items[s])
<1>1. items[s] # <<>> /\ item.kind = kind /\ HoldsItems(m_buffer[s], items[s], sizeWidth)
  BY DEF InStep, ReadInv, Held
<1>2. sizeWidth \in {4, 8}
  BY StreamsFit DEF ReadInv
<1>3. /\ item \in Items
      /\ \E rest \in Bytes : /\ m_buffer[s] = ItemBytes(item, sizeWidth) \o rest
                             /\ HoldsItems(rest, Tail(items[s]), sizeWidth)
  BY <1>1, FirstHeld
<1>4. PICK rest \in Bytes : /\ m_buffer[s] = ItemBytes(item, sizeWidth) \o rest
                            /\ HoldsItems(rest, Tail(items[s]), sizeWidth)
  BY <1>3
<1> HIDE DEF item
<1>5. \/ sizeWidth = 4
      \/ ~item.kind.counted /\ \A i \in DOMAIN item.kind.row : item.kind.row[i] # "text"
  BY <1>1 DEF LengthsAgree
<1>6. ReadItem(ItemBytes(item, sizeWidth) \o rest, item.kind) =
        [rest |-> rest, got |-> item.data, threw |-> FALSE]
  BY <1>2, <1>3, <1>5, ItemsReadBack
<1>7. QED BY <1>1, <1>4, <1>6 DEF item

LEMMA ReadHolds ==
  ASSUME ReadInv, NEW s \in Streams, NEW kind, Read(s, kind)
  PROVE  Held' /\ WrittenIsRead'
<1> DEFINE b == m_buffer[s]
           r == ReadItem(b, kind)
           its == ItemsAfter(s, kind, r)
<1>1. /\ Call
      /\ Becomes(s, r.rest, its, put[s], taken[s] \o SubSeq(b, 1, Len(b) - Len(r.rest)))
      /\ answer' = IF ~InStep(s, kind) THEN NoAnswer
                   ELSE [read |-> TRUE, kind |-> kind, threw |-> r.threw,
                         got |-> Contents(kind, r.got),
                         wanted |-> Contents(kind, Head(items[s]).data)]
  BY DEF Read
<1>2. its # Unaligned => HoldsItems(r.rest, its, sizeWidth)
  <2>1. CASE r.rest = b /\ items[s] = <<>>
    <3>1. its = <<>>
      BY <2>1 DEF ItemsAfter
    <3>2. Aligned(s) => HoldsItems(b, <<>>, sizeWidth)
      BY <2>1 DEF ReadInv, Held
    <3>3. <<>> # Unaligned
      BY DEF Unaligned
    <3>4. QED BY <2>1, <3>1, <3>2, <3>3 DEF Aligned
  <2>2. CASE ~(r.rest = b /\ items[s] = <<>>) /\ InStep(s, kind) /\ LengthsAgree(kind)
    <3>1. PICK rest : /\ r = [rest |-> rest, got |-> Head(items[s]).data, threw |-> FALSE]
                      /\ HoldsItems(rest, Tail(items[s]), sizeWidth)
      BY <2>2, InStepReads
    <3>2. r.rest = rest
      BY <3>1
    <3>3. its = Tail(items[s]) \/ its = Unaligned
      BY <2>2 DEF ItemsAfter
    <3>4. QED BY <3>1, <3>2, <3>3
  <2>3. CASE ~(r.rest = b /\ items[s] = <<>>) /\ ~(InStep(s, kind) /\ LengthsAgree(kind))
    BY <2>3 DEF ItemsAfter
  <2>4. QED BY <2>1, <2>2, <2>3
<1>3. Held'
  <2> HIDE DEF r, its
  <2>1. QED BY <1>1, <1>2, BecomesHolds
<1>4. WrittenIsRead'
  <2>1. CASE ~InStep(s, kind)
    BY <1>1, <2>1, NoAnswerIsRight
  <2>2. CASE InStep(s, kind)
    <3>1. /\ answer'.kind = kind /\ answer'.threw = r.threw
          /\ answer'.got = Contents(kind, r.got)
          /\ answer'.wanted = Contents(kind, Head(items[s]).data)
      BY <1>1, <2>2
    <3>2. LengthsAgree(answer.kind)' => LengthsAgree(kind)
      BY <1>1, <3>1 DEF LengthsAgree, Call
    <3>3. ASSUME LengthsAgree(kind) PROVE r.got = Head(items[s]).data /\ r.threw = FALSE
      <4>1. PICK rest : r = [rest |-> rest, got |-> Head(items[s]).data, threw |-> FALSE]
        BY <2>2, <3>3, InStepReads
      <4> HIDE DEF r
      <4>2. QED BY <4>1
    <3> HIDE DEF r
    <3>4. LengthsAgree(kind) => answer'.threw = FALSE /\ answer'.got = answer'.wanted
      BY <3>1, <3>3
    <3>5. QED BY <3>2, <3>4 DEF WrittenIsRead
  <2>3. QED BY <2>1, <2>2
<1>5. QED BY <1>3, <1>4

LEMMA ReadRawHolds ==
  ASSUME ReadInv, NEW s \in Streams, NEW n \in Counts, ReadRaw(s, n)
  PROVE  Held' /\ WrittenIsRead'
<1> DEFINE b == m_buffer[s]
           gone == Least(n, Len(b))
<1>1. WrittenIsRead'
  BY NoAnswerIsRight DEF ReadRaw
<1>2. CASE n > sizeWidth
  <2>1. UNCHANGED <<m_buffer, items, sizeWidth>>
    BY <1>2 DEF ReadRaw, Call
  <2>2. Held'
    BY <2>1 DEF ReadInv, Held, Aligned
  <2>3. QED BY <1>1, <2>2
<1>3. CASE ~(n > sizeWidth)
  <2> DEFINE its == IF gone = 0 THEN items[s] ELSE Unaligned
  <2>1. Call /\ Becomes(s, Drop(b, gone), its, put[s], taken[s] \o SubSeq(b, 1, gone))
    BY <1>3 DEF ReadRaw
  <2>2. b \in Seq(Byte)
    BY StreamsFit DEF ReadInv, Bytes
  <2>3. gone = 0 => Drop(b, gone) = b
    BY <2>2, SubSeqFull DEF Drop
  <2>4. its # Unaligned => HoldsItems(Drop(b, gone), its, sizeWidth)
    <3> HIDE DEF gone
    <3>1. CASE gone = 0
      <4>1. its = items[s] /\ Drop(b, gone) = b
        BY <2>3, <3>1
      <4>2. QED BY <4>1 DEF ReadInv, Held, Aligned
    <3>2. CASE gone # 0
      BY <3>2
    <3>3. QED BY <3>1, <3>2
  <2> HIDE DEF its, gone
  <2>5. Held'
    BY <2>1, <2>4, BecomesHolds
  <2>6. QED BY <1>1, <2>5
<1>4. QED BY <1>2, <1>3

LEMMA WriteRawHolds ==
  ASSUME ReadInv, NEW s \in Streams, NEW data \in Raws, NEW pos \in Int, WriteRaw(s, data, pos)
  PROVE  Held' /\ WrittenIsRead'
<1> DEFINE b == m_buffer[s]
           its == IF data = <<>> THEN items[s] ELSE Unaligned
<1>1. WrittenIsRead' /\ Call
  BY NoAnswerIsRight DEF WriteRaw
<1>2. b \in Bytes /\ data \in Bytes
  BY StreamsFit, ConstantsAssumption DEF ReadInv, Bytes
<1>3. ASSUME NEW c, data = <<>> => c = b
      PROVE  its # Unaligned => HoldsItems(c, its, sizeWidth)
  BY <1>3 DEF ReadInv, Held, Aligned
<1>4. CASE pos < 0
  <2>1. Becomes(s, b \o data, its, put[s] \o data, taken[s])
    BY <1>4 DEF WriteRaw
  <2>2. data = <<>> => b \o data = b
    BY <1>2, EmptyBytes
  <2> HIDE DEF its
  <2>3. its # Unaligned => HoldsItems(b \o data, its, sizeWidth)
    BY <1>3, <2>2
  <2>4. QED BY <1>1, <2>1, <2>3, BecomesHolds
<1>5. CASE ~(pos < 0) /\ pos + Len(data) <= Len(b)
  <2> DEFINE c == Overwritten(b, pos, data)
  <2>1. Becomes(s, c, its, Overwritten(put[s], pos + Len(taken[s]), data), taken[s])
    BY <1>5 DEF WriteRaw
  <2>2. data = <<>> => c = b
    <3>1. pos \in Nat
      BY <1>5
    <3>2. QED BY <1>2, <3>1, OverwrittenInBoth, SMT
  <2> HIDE DEF its, c
  <2>3. its # Unaligned => HoldsItems(c, its, sizeWidth)
    BY <1>3, <2>2
  <2>4. QED BY <1>1, <2>1, <2>3, BecomesHolds
<1>6. CASE ~(pos < 0) /\ ~(pos + Len(data) <= Len(b))
  <2>1. UNCHANGED <<m_buffer, items, sizeWidth>>
    BY <1>1, <1>6 DEF WriteRaw, Call
  <2>2. Held'
    BY <2>1 DEF ReadInv, Held, Aligned
  <2>3. QED BY <1>1, <2>2
<1>7. QED BY <1>4, <1>5, <1>6

LEMMA RenewalHolds ==
  ASSUME ReadInv, NEW s \in Streams, Clear(s) \/ \E data \in Raws : Reset(s, data)
  PROVE  Held' /\ WrittenIsRead'
<1>1. CASE Clear(s)
  <2>1. /\ Call /\ Becomes(s, <<>>, <<>>, taken[s], taken[s]) /\ answer' = NoAnswer
    BY <1>1 DEF Clear
  <2>2. QED BY <2>1, NothingHeld, BecomesHolds, NoAnswerIsRight
<1>2. ASSUME NEW data \in Raws, Reset(s, data) PROVE Held' /\ WrittenIsRead'
  <2> DEFINE its == IF data = <<>> THEN <<>> ELSE Unaligned
  <2>1. Call /\ Becomes(s, data, its, taken[s] \o data, taken[s]) /\ answer' = NoAnswer
    BY <1>2 DEF Reset
  <2>2. its # Unaligned => HoldsItems(data, its, sizeWidth)
    BY NothingHeld
  <2> HIDE DEF its
  <2>3. QED BY <2>1, <2>2, BecomesHolds, NoAnswerIsRight
<1>3. QED BY <1>1, <1>2

LEMMA MoveHolds ==
  ASSUME ReadInv, NEW s \in Streams, NEW t \in Streams, Move(s, t)
  PROVE  Held' /\ WrittenIsRead'
<1>1. s # t /\ sizeWidth' = sizeWidth /\ WrittenIsRead'
  BY NoAnswerIsRight DEF Move, Call
<1>2. /\ \A u \in Streams \ {s, t} : m_buffer'[u] = m_buffer[u] /\ items'[u] = items[u]
      /\ m_buffer'[t] = m_buffer[s] /\ items'[t] = items[s]
      /\ \/ m_buffer'[s] = <<>> /\ items'[s] = <<>>
         \/ m_buffer'[s] = m_buffer[t] /\ items'[s] = items[t]
      /\ DOMAIN items' = Streams
  BY <1>1 DEF Move, ReadInv, QueueInv, TypeOK, Held
<1>3. ASSUME NEW u \in Streams, items'[u] # Unaligned
      PROVE  HoldsItems(m_buffer'[u], items'[u], sizeWidth)
  <2>1. \A v \in Streams : items[v] # Unaligned => HoldsItems(m_buffer[v], items[v], sizeWidth)
    BY DEF ReadInv, Held, Aligned
  <2>2. CASE u \in Streams \ {s, t}
    BY <1>2, <1>3, <2>1, <2>2
  <2>3. CASE u = t
    BY <1>2, <1>3, <2>1, <2>3
  <2>4. CASE u = s
    BY <1>2, <1>3, <2>1, <2>4, NothingHeld
  <2>5. QED BY <2>2, <2>3, <2>4
<1>4. Held'
  BY <1>1, <1>2, <1>3 DEF Held, Aligned
<1>5. QED BY <1>1, <1>4

LEMMA StartHolds == Init => ReadInv
<1> SUFFICES ASSUME Init PROVE ReadInv
  OBVIOUS
<1>1. QueueInv
  BY StartQueues
<1>2. Held
  BY NothingHeld DEF Init, Held
<1>3. WrittenIsRead
  <2>1. answer.read = FALSE
    BY DEF Init, NoAnswer
  <2>2. QED BY <2>1 DEF WrittenIsRead
<1>4. QED BY <1>1, <1>2, <1>3 DEF ReadInv

LEMMA CallsHold == ReadInv /\ [Next]_vars => ReadInv'
<1> SUFFICES ASSUME ReadInv, [Next]_vars PROVE ReadInv'
  OBVIOUS
<1>1. QueueInv'
  BY CallsQueue DEF ReadInv
<1>2. CASE UNCHANGED vars
  <2>1. Held'
    BY <1>2 DEF vars, ReadInv, Held, Aligned
  <2>2. WrittenIsRead'
    BY <1>2 DEF vars, ReadInv, WrittenIsRead, LengthsAgree
  <2>3. QED BY <1>1, <2>1, <2>2 DEF ReadInv
<1>3. ASSUME NEW s \in Streams,
             \/ \E item \in Items : Write(s, item) \/ Read(s, item.kind)
             \/ \E data \in Raws :
                  Reset(s, data) \/ \E pos \in {-1, 0, 2} : WriteRaw(s, data, pos)
             \/ \E n \in Counts : ReadRaw(s, n)
             \/ Clear(s)
             \/ \E t \in Streams : Move(s, t)
      PROVE  Held' /\ WrittenIsRead'
  BY <1>3, WriteHolds, ReadHolds, RenewalHolds, WriteRawHolds, ReadRawHolds, MoveHolds
<1>4. QED BY <1>1, <1>2, <1>3 DEF Next, ReadInv

(* Who asks for the types that were written, in their order, gets the      *)
(* values that were written, whatever was read, moved and cleared before:  *)
(* every type's reading undoes its writing (DataStream.h:105-193,          *)
(* DataStream.cpp:29-212), where lengths are as wide on both ways.         *)
THEOREM WhatIsWrittenIsRead == Spec => []WrittenIsRead
<1>1. ReadInv => WrittenIsRead
  BY DEF ReadInv
<1>2. QED BY StartHolds, CallsHold, <1>1, PTL DEF Spec

-------------------------------------------------------------------------------
(* MD5 and SHA-1 (md5.hpp, sha1.hpp).  The pieces of a message are cut     *)
(* into blocks of 64: what the blocks of a joined message are.             *)

LEMMA BlockCounts ==
  ASSUME NEW l \in Nat
  PROVE  /\ l \div 64 \in Nat /\ l % 64 \in 0..63 /\ l = 64 * (l \div 64) + (l % 64)
         /\ 64 * (l \div 64) \in 0..l
OBVIOUS

LEMMA BlockCountsAdd ==
  ASSUME NEW k \in Nat, NEW l \in Nat, k % 64 = 0
  PROVE  /\ (k + l) \div 64 = (k \div 64) + (l \div 64)
         /\ (k + l) % 64 = l % 64
OBVIOUS

LEMMA CutsFit ==
  ASSUME NEW s \in Bytes, NEW i \in Nat, NEW j \in Nat, i <= j, j <= Len(s)
  PROVE  /\ SubSeq(s, i + 1, j) \in Bytes /\ Len(SubSeq(s, i + 1, j)) = j - i
         /\ \A k \in 1..(j - i) : SubSeq(s, i + 1, j)[k] = s[i + k]
<1>1. s \in Seq(Byte) /\ Len(s) \in Nat /\ \A k \in 1..Len(s) : s[k] \in Byte
  BY DEF Bytes
<1>2. QED BY <1>1, SubSeqProperties DEF Bytes

LEMMA JoinFits ==
  ASSUME NEW s \in Bytes, NEW t \in Bytes
  PROVE  /\ s \o t \in Bytes /\ Len(s \o t) = Len(s) + Len(t)
         /\ Len(s) \in Nat /\ Len(t) \in Nat
         /\ \A i \in 1..Len(s) : (s \o t)[i] = s[i]
         /\ \A i \in 1..Len(t) : (s \o t)[Len(s) + i] = t[i]
<1>1. s \in Seq(Byte) /\ t \in Seq(Byte)
  BY DEF Bytes
<1>2. QED BY <1>1, ConcatProperties DEF Bytes

LEMMA SameBytes ==
  ASSUME NEW s \in Bytes, NEW t \in Bytes, Len(s) = Len(t), \A i \in 1..Len(s) : s[i] = t[i]
  PROVE  s = t
<1>1. s \in Seq(Byte) /\ t \in Seq(Byte)
  BY DEF Bytes
<1>2. QED BY <1>1, SeqEqual

LEMMA CutsOfJoin ==
  ASSUME NEW s \in Bytes, NEW t \in Bytes, NEW i \in Nat, NEW j \in Nat, i <= j
  PROVE  /\ j <= Len(s) => SubSeq(s \o t, i + 1, j) = SubSeq(s, i + 1, j)
         /\ j <= Len(t) => SubSeq(s \o t, (Len(s) + i) + 1, Len(s) + j) = SubSeq(t, i + 1, j)
<1> DEFINE u == s \o t
<1>1. u \in Bytes /\ Len(u) = Len(s) + Len(t) /\ Len(s) \in Nat /\ Len(t) \in Nat
  BY JoinFits
<1>2. /\ \A k \in 1..Len(s) : u[k] = s[k]
      /\ \A k \in 1..Len(t) : u[Len(s) + k] = t[k]
  BY JoinFits
<1> HIDE DEF u
<1>3. ASSUME j <= Len(s) PROVE SubSeq(u, i + 1, j) = SubSeq(s, i + 1, j)
  <2> DEFINE a == SubSeq(u, i + 1, j)
             b == SubSeq(s, i + 1, j)
  <2>1. j <= Len(u)
    BY <1>1, <1>3
  <2>2. a \in Bytes /\ Len(a) = j - i /\ \A k \in 1..(j - i) : a[k] = u[i + k]
    BY <1>1, <2>1, CutsFit
  <2>3. b \in Bytes /\ Len(b) = j - i /\ \A k \in 1..(j - i) : b[k] = s[i + k]
    BY <1>3, CutsFit
  <2> HIDE DEF a, b
  <2>4. \A k \in 1..(j - i) : a[k] = b[k]
    BY <1>1, <1>2, <1>3, <2>2, <2>3
  <2>5. a = b
    BY <2>2, <2>3, <2>4, SameBytes
  <2>6. QED BY <2>5 DEF a, b
<1>4. ASSUME j <= Len(t) PROVE SubSeq(u, (Len(s) + i) + 1, Len(s) + j) = SubSeq(t, i + 1, j)
  <2> DEFINE a == SubSeq(u, (Len(s) + i) + 1, Len(s) + j)
             b == SubSeq(t, i + 1, j)
  <2>1. Len(s) + i \in Nat /\ Len(s) + j \in Nat /\ Len(s) + i <= Len(s) + j
        /\ Len(s) + j <= Len(u) /\ (Len(s) + j) - (Len(s) + i) = j - i
    BY <1>1, <1>4
  <2>2. a \in Bytes /\ Len(a) = j - i /\ \A k \in 1..(j - i) : a[k] = u[(Len(s) + i) + k]
    <3> DEFINE p == Len(s) + i
               q == Len(s) + j
    <3>1. p \in Nat /\ q \in Nat /\ p <= q /\ q <= Len(u) /\ q - p = j - i
      BY <2>1
    <3> HIDE DEF p, q, a
    <3>2. LET c == SubSeq(u, p + 1, q) IN
          c \in Bytes /\ Len(c) = q - p /\ \A k \in 1..(q - p) : c[k] = u[p + k]
      BY <1>1, <3>1, CutsFit
    <3>3. QED BY <3>1, <3>2 DEF a, p, q
  <2>3. b \in Bytes /\ Len(b) = j - i /\ \A k \in 1..(j - i) : b[k] = t[i + k]
    BY <1>4, CutsFit
  <2> HIDE DEF a, b
  <2>4. \A k \in 1..(j - i) : a[k] = b[k]
    <3>1. SUFFICES ASSUME NEW k \in 1..(j - i) PROVE a[k] = b[k]
      OBVIOUS
    <3>2. i + k \in 1..Len(t) /\ (Len(s) + i) + k = Len(s) + (i + k)
      BY <1>1, <1>4
    <3>3. QED BY <1>2, <2>2, <2>3, <3>2
  <2>5. a = b
    BY <2>2, <2>3, <2>4, SameBytes
  <2>6. QED BY <2>5 DEF a, b
<1>5. QED BY <1>3, <1>4 DEF u

LEMMA BlocksFit ==
  ASSUME NEW s \in Bytes
  PROVE  /\ D!BlocksOf(s) \in Seq(Bytes) /\ Len(D!BlocksOf(s)) = Len(s) \div 64
         /\ \A i \in 1..(Len(s) \div 64) : D!BlocksOf(s)[i] = SubSeq(s, 64 * (i - 1) + 1, 64 * i)
<1> DEFINE n == Len(s) \div 64
           b == [i \in 1..n |-> SubSeq(s, 64 * (i - 1) + 1, 64 * i)]
<1>1. D!BlocksOf(s) = b
  BY DEF D!BlocksOf, D!Block
<1>2. Len(s) \in Nat /\ n \in Nat /\ Len(s) = 64 * n + (Len(s) % 64) /\ Len(s) % 64 \in 0..63
  BY BlockCounts, LenProperties DEF Bytes
<1>3. \A i \in 1..n : SubSeq(s, 64 * (i - 1) + 1, 64 * i) \in Bytes
  <2>1. SUFFICES ASSUME NEW i \in 1..n PROVE SubSeq(s, 64 * (i - 1) + 1, 64 * i) \in Bytes
    OBVIOUS
  <2>2. 64 * (i - 1) \in Nat /\ 64 * i \in Nat /\ 64 * (i - 1) <= 64 * i /\ 64 * i <= Len(s)
    BY <1>2
  <2>3. QED BY <2>2, CutsFit
<1>4. b \in [1..n -> Bytes] /\ \A i \in 1..n : b[i] = SubSeq(s, 64 * (i - 1) + 1, 64 * i)
  BY <1>3
<1> HIDE DEF b
<1> HIDE DEF n
<1>5. b \in Seq(Bytes) /\ Len(b) = n
  BY <1>2, <1>4, SeqDef
<1>6. QED BY <1>1, <1>4, <1>5 DEF n

LEMMA BlocksOfShort ==
  ASSUME NEW s \in Bytes
  PROVE  /\ Len(s) < 64 => D!BlocksOf(s) = <<>>
         /\ Len(s) = 64 => D!BlocksOf(s) = <<s>>
<1>1. D!BlocksOf(s) \in Seq(Bytes) /\ Len(D!BlocksOf(s)) = Len(s) \div 64
      /\ \A i \in 1..(Len(s) \div 64) : D!BlocksOf(s)[i] = SubSeq(s, 64 * (i - 1) + 1, 64 * i)
  BY BlocksFit
<1>2. Len(s) \in Nat
  BY LenProperties DEF Bytes
<1>3. ASSUME Len(s) < 64 PROVE D!BlocksOf(s) = <<>>
  <2>1. Len(s) \div 64 = 0
    BY <1>2, <1>3
  <2>2. QED BY <1>1, <2>1, EmptySeq
<1>4. ASSUME Len(s) = 64 PROVE D!BlocksOf(s) = <<s>>
  <2>1. Len(s) \div 64 = 1
    BY <1>4
  <2>3. SubSeq(s, 1, Len(s)) = s
    BY SubSeqFull DEF Bytes
  <2> DEFINE b == D!BlocksOf(s)
  <2>4. b \in Seq(Bytes) /\ Len(b) = 1 /\ b[1] = s
    <3>1. Len(b) = 1 /\ b \in Seq(Bytes)
      BY <1>1, <2>1
    <3>2. ASSUME NEW i \in 1..1 PROVE b[i] = s
      <4>1. b[i] = SubSeq(s, 64 * (i - 1) + 1, 64 * i)
        BY <1>1, <2>1
      <4>2. 64 * (i - 1) + 1 = 1 /\ 64 * i = Len(s)
        BY <1>4
      <4>3. QED BY <2>3, <4>1, <4>2
    <3>3. QED BY <3>1, <3>2
  <2> HIDE DEF b
  <2>5. b = <<s>>
    <3>1. <<s>> \in Seq(Bytes) /\ Len(<<s>>) = 1 /\ <<s>>[1] = s
      OBVIOUS
    <3>2. \A i \in 1..Len(b) : b[i] = <<s>>[i]
      BY <2>4, <3>1
    <3>3. QED BY <2>4, <3>1, <3>2, SeqEqual
  <2>6. QED BY <2>5 DEF b
<1>5. QED BY <1>3, <1>4

LEMMA BlocksOfJoin ==
  ASSUME NEW s \in Bytes, NEW t \in Bytes, Len(s) % 64 = 0
  PROVE  D!BlocksOf(s \o t) = D!BlocksOf(s) \o D!BlocksOf(t)
<1> DEFINE n == Len(s) \div 64
           m == Len(t) \div 64
           u == s \o t
           b == D!BlocksOf(s)
           c == D!BlocksOf(t)
           d == D!BlocksOf(u)
<1>1. u \in Bytes /\ Len(u) = Len(s) + Len(t) /\ Len(s) \in Nat /\ Len(t) \in Nat
  BY JoinFits
<1>2. n \in Nat /\ m \in Nat /\ Len(s) = 64 * n /\ 64 * m <= Len(t) /\ Len(u) \div 64 = n + m
  <2>1. Len(s) = 64 * n + (Len(s) % 64) /\ n \in Nat /\ m \in Nat /\ 64 * m \in 0..Len(t)
    BY <1>1, BlockCounts
  <2>2. (Len(s) + Len(t)) \div 64 = n + m
    BY <1>1, BlockCountsAdd
  <2>3. QED BY <1>1, <2>1, <2>2
<1>3. b \in Seq(Bytes) /\ Len(b) = n /\ \A i \in 1..n : b[i] = SubSeq(s, 64 * (i - 1) + 1, 64 * i)
  BY BlocksFit
<1>4. c \in Seq(Bytes) /\ Len(c) = m /\ \A i \in 1..m : c[i] = SubSeq(t, 64 * (i - 1) + 1, 64 * i)
  BY BlocksFit
<1> HIDE DEF n, m
<1>5. d \in Seq(Bytes) /\ Len(d) = n + m
      /\ \A i \in 1..(n + m) : d[i] = SubSeq(u, 64 * (i - 1) + 1, 64 * i)
  <2> HIDE DEF u
  <2>1. QED BY <1>1, <1>2, BlocksFit
<1>6. \A i \in 1..n : d[i] = b[i]
  <2>1. SUFFICES ASSUME NEW i \in 1..n PROVE d[i] = b[i]
    OBVIOUS
  <2>2. 64 * (i - 1) \in Nat /\ 64 * i \in Nat /\ 64 * (i - 1) <= 64 * i /\ 64 * i <= Len(s)
        /\ i \in 1..(n + m)
    BY <1>1, <1>2
  <2>3. SubSeq(u, 64 * (i - 1) + 1, 64 * i) = SubSeq(s, 64 * (i - 1) + 1, 64 * i)
    BY <2>2, CutsOfJoin
  <2>4. QED BY <1>3, <1>5, <2>2, <2>3
<1>7. \A i \in 1..m : d[n + i] = c[i]
  <2>1. SUFFICES ASSUME NEW i \in 1..m PROVE d[n + i] = c[i]
    OBVIOUS
  <2>2. 64 * (i - 1) \in Nat /\ 64 * i \in Nat /\ 64 * (i - 1) <= 64 * i /\ 64 * i <= Len(t)
        /\ n + i \in 1..(n + m)
        /\ 64 * ((n + i) - 1) = Len(s) + 64 * (i - 1) /\ 64 * (n + i) = Len(s) + 64 * i
    BY <1>1, <1>2
  <2>3. SubSeq(u, (Len(s) + 64 * (i - 1)) + 1, Len(s) + 64 * i) = SubSeq(t, 64 * (i - 1) + 1, 64 * i)
    BY <2>2, CutsOfJoin
  <2>4. QED BY <1>4, <1>5, <2>2, <2>3
<1> HIDE DEF b, c, d
<1> DEFINE e == b \o c
<1>8. e \in Seq(Bytes) /\ Len(e) = n + m
      /\ \A i \in 1..(n + m) : e[i] = IF i <= n THEN b[i] ELSE c[i - n]
  <2>1. b \in Seq(Bytes) /\ c \in Seq(Bytes)
    BY <1>3, <1>4
  <2>2. e \in Seq(Bytes) /\ Len(e) = Len(b) + Len(c)
        /\ \A i \in 1..(Len(b) + Len(c)) : e[i] = IF i <= Len(b) THEN b[i] ELSE c[i - Len(b)]
    BY <2>1, ConcatProperties
  <2> HIDE DEF e
  <2>3. QED BY <1>3, <1>4, <2>2
<1> HIDE DEF e
<1>9. \A i \in 1..(n + m) : d[i] = e[i]
  <2>1. SUFFICES ASSUME NEW i \in 1..(n + m) PROVE d[i] = e[i]
    OBVIOUS
  <2>2. CASE i <= n
    BY <1>2, <1>6, <1>8, <2>2
  <2>3. CASE i > n
    <3>1. i - n \in 1..m /\ n + (i - n) = i /\ ~(i <= n)
      BY <1>2, <2>3
    <3>2. d[n + (i - n)] = c[i - n]
      BY <1>7, <3>1
    <3>3. QED BY <1>8, <3>1, <3>2
  <2>4. QED BY <1>2, <2>2, <2>3
<1>10. d = e
  BY <1>5, <1>8, <1>9, SeqEqual
<1>11. QED BY <1>10 DEF b, c, d, e, u

-------------------------------------------------------------------------------
(* A message is its whole blocks and what remains. *)

Remaining(s) == SubSeq(s, 64 * (Len(s) \div 64) + 1, Len(s))

Whole(s) == SubSeq(s, 1, 64 * (Len(s) \div 64))

LEMMA WholeAndRemaining ==
  ASSUME NEW s \in Bytes
  PROVE  /\ s = Whole(s) \o Remaining(s)
         /\ Whole(s) \in Bytes /\ Remaining(s) \in Bytes
         /\ Len(Whole(s)) % 64 = 0 /\ Len(Remaining(s)) = Len(s) % 64
<1> DEFINE n == 64 * (Len(s) \div 64)
<1>1. Len(s) \in Nat /\ n \in 0..Len(s) /\ Len(s) - n = Len(s) % 64 /\ n % 64 = 0
  <2>1. Len(s) \in Nat
    BY LenProperties DEF Bytes
  <2>2. QED BY <2>1, BlockCounts
<1> HIDE DEF n
<1>2. Whole(s) = SubSeq(s, 1, n) /\ Remaining(s) = Drop(s, n)
  BY DEF Whole, Remaining, Drop, n
<1>3. s \in Seq(Byte)
  BY DEF Bytes
<1>4. SubSeq(s, 1, n) \o Drop(s, n) = s
  <2>1. s \in Seq(Byte) /\ n \in 0..Len(s)
    BY <1>1, <1>3
  <2>2. QED BY <2>1, CutAndJoined
<1>5. /\ SubSeq(s, 1, n) \in Seq(Byte) /\ Len(SubSeq(s, 1, n)) = n
      /\ Drop(s, n) \in Seq(Byte) /\ Len(Drop(s, n)) = Len(s) - n
  BY <1>1, <1>3, DropFits
<1>6. QED BY <1>1, <1>2, <1>4, <1>5 DEF Bytes

LEMMA RemainingOfJoin ==
  ASSUME NEW w \in Bytes, NEW p \in Bytes, Len(w) % 64 = 0
  PROVE  /\ Remaining(w \o p) = Remaining(p)
         /\ Len(w \o p) % 64 = Len(p) % 64
<1> DEFINE i == 64 * (Len(p) \div 64)
<1>1. w \o p \in Bytes /\ Len(w \o p) = Len(w) + Len(p) /\ Len(w) \in Nat /\ Len(p) \in Nat
  BY JoinFits
<1>2. i \in Nat /\ i <= Len(p) /\ 64 * ((Len(w) + Len(p)) \div 64) = Len(w) + i
      /\ (Len(w) + Len(p)) % 64 = Len(p) % 64
  BY <1>1, BlockCounts, BlockCountsAdd
<1> HIDE DEF i
<1>3. SubSeq(w \o p, (Len(w) + i) + 1, Len(w) + Len(p)) = SubSeq(p, i + 1, Len(p))
  BY <1>1, <1>2, CutsOfJoin
<1>4. Remaining(w \o p) = SubSeq(w \o p, (Len(w) + i) + 1, Len(w) + Len(p))
  BY <1>1, <1>2 DEF Remaining
<1>5. Remaining(p) = SubSeq(p, i + 1, Len(p))
  BY DEF Remaining, i
<1>6. QED BY <1>1, <1>2, <1>3, <1>4, <1>5

LEMMA ShortRemains ==
  ASSUME NEW r \in Bytes, Len(r) < 64
  PROVE  Remaining(r) = r
<1>1. Len(r) \in Nat /\ Len(r) \div 64 = 0
  BY LenProperties DEF Bytes
<1>2. 64 * (Len(r) \div 64) + 1 = 1
  BY <1>1
<1>3. SubSeq(r, 1, Len(r)) = r
  BY SubSeqFull DEF Bytes
<1>4. QED BY <1>2, <1>3 DEF Remaining

-------------------------------------------------------------------------------
(* memcpy into the buffer. *)

IsBuffer(buf) == buf \in Bytes /\ Len(buf) = 64

LEMMA FunctionsAreSequences ==
  ASSUME NEW S, NEW n \in Nat, NEW f \in [1..n -> S]
  PROVE  f \in Seq(S) /\ Len(f) = n
BY SeqDef

LEMMA BytesAt ==
  ASSUME NEW s \in Bytes
  PROVE  Len(s) \in Nat /\ DOMAIN s = 1..Len(s) /\ \A i \in 1..Len(s) : s[i] \in Byte
<1>1. s \in Seq(Byte)
  BY DEF Bytes
<1>2. QED BY <1>1, LenProperties, ElementOfSeq

LEMMA CopiedFits ==
  ASSUME NEW buf, IsBuffer(buf), NEW p \in Bytes, NEW o \in Nat, o + Len(p) <= 64
  PROVE  /\ IsBuffer(D!Copied(buf, o, p))
         /\ SubSeq(D!Copied(buf, o, p), 1, o + Len(p)) = SubSeq(buf, 1, o) \o p
<1> DEFINE c == [i \in 1..64 |-> IF i - o \in DOMAIN p THEN p[i - o] ELSE buf[i]]
           l == Len(p)
<1>1. D!Copied(buf, o, p) = c
  BY DEF D!Copied, D!Block
<1>2. l \in Nat /\ DOMAIN p = 1..l /\ \A i \in 1..l : p[i] \in Byte
  BY BytesAt
<1>3. \A i \in 1..64 : buf[i] \in Byte
  <2>1. buf \in Bytes /\ Len(buf) = 64
    BY DEF IsBuffer
  <2>2. QED BY <2>1, BytesAt
<1>4. o + l <= 64
  OBVIOUS
<1> HIDE DEF l
<1>5. o \in 0..64 /\ o + l \in 0..64 /\ o + l \in Nat /\ o <= 64
  BY <1>2, <1>4
<1>6. c \in [1..64 -> Byte] /\ \A i \in 1..64 : c[i] = IF i - o \in 1..l THEN p[i - o] ELSE buf[i]
  BY <1>2, <1>3
<1> HIDE DEF c
<1>7. c \in Seq(Byte) /\ Len(c) = 64
  <2>1. 64 \in Nat
    OBVIOUS
  <2>2. QED BY <1>6, <2>1, FunctionsAreSequences
<1>8. c \in Bytes /\ buf \in Bytes /\ Len(buf) = 64
  BY <1>7 DEF Bytes, IsBuffer
<1> DEFINE a == SubSeq(c, 1, o + l)
           b == SubSeq(buf, 1, o)
           d == b \o p
<1>9. a \in Bytes /\ Len(a) = o + l /\ \A k \in 1..(o + l) : a[k] = c[k]
  <2>1. c \in Seq(Byte) /\ o + l \in 0..Len(c)
    BY <1>7, <1>5
  <2>2. QED BY <2>1, DropFits DEF Bytes
<1>10. b \in Bytes /\ Len(b) = o /\ \A k \in 1..o : b[k] = buf[k]
  <2>1. buf \in Seq(Byte) /\ o \in 0..Len(buf)
    BY <1>8, <1>5 DEF Bytes
  <2>2. QED BY <2>1, DropFits DEF Bytes
<1> HIDE DEF a, b
<1>11. d \in Bytes /\ Len(d) = o + l /\ (\A k \in 1..o : d[k] = b[k]) /\ \A k \in 1..l : d[o + k] = p[k]
  BY <1>2, <1>10, JoinFits DEF l
<1> HIDE DEF d
<1>12. \A k \in 1..(o + l) : a[k] = d[k]
  <2>1. SUFFICES ASSUME NEW k \in 1..(o + l) PROVE a[k] = d[k]
    OBVIOUS
  <2>2. k \in 1..64
    BY <1>2, <1>5
  <2>3. CASE k <= o
    <3>1. k \in 1..o /\ k - o \notin 1..l
      BY <2>3
    <3>2. QED BY <1>6, <1>9, <1>10, <1>11, <2>2, <3>1
  <2>4. CASE k > o
    <3>1. k - o \in 1..l /\ o + (k - o) = k
      BY <1>2, <2>4
    <3>2. d[o + (k - o)] = p[k - o]
      BY <1>11, <3>1
    <3>3. QED BY <1>6, <1>9, <2>2, <3>1, <3>2
  <2>5. QED BY <2>3, <2>4
<1>13. a = d
  BY <1>9, <1>11, <1>12, SameBytes
<1>14. QED BY <1>1, <1>7, <1>13 DEF a, b, d, l, IsBuffer, Bytes

-------------------------------------------------------------------------------
(* What an md5_state_t holds of the bytes it was given. *)

State(c, b, k) == [count |-> c, buf |-> b, blocks |-> k]

Holds(t, s) ==
  \E buf : /\ t = State(8 * Len(s), buf, D!BlocksOf(s))
           /\ IsBuffer(buf)
           /\ SubSeq(buf, 1, Len(s) % 64) = Remaining(s)

LEMMA StateIsRead ==
  ASSUME NEW c, NEW b, NEW k
  PROVE  State(c, b, k).count = c /\ State(c, b, k).buf = b /\ State(c, b, k).blocks = k
BY DEF State

LEMMA MoreCounted ==
  ASSUME NEW c, NEW b, NEW k, NEW n, NEW t, t = State(c, b, k)
  PROVE  [t EXCEPT !.count = @ + n] = State(c + n, b, k)
BY DEF State

LEMMA BufferChanges ==
  ASSUME NEW c, NEW b, NEW k, NEW o, NEW p, NEW t, t = State(c, b, k)
  PROVE  [t EXCEPT !.buf = D!Copied(@, o, p)] = State(c, D!Copied(b, o, p), k)
<1>1. [State(c, b, k) EXCEPT !.buf = D!Copied(@, o, p)] = State(c, D!Copied(b, o, p), k)
  BY DEF State
<1>2. QED BY <1>1

LEMMA BlockIsProcessed ==
  ASSUME NEW c, NEW b, NEW k, NEW m, NEW t, t = State(c, b, k)
  PROVE  D!md5_process(t, m) = State(c, b, Append(k, m))
<1>1. D!md5_process(State(c, b, k), m) = State(c, b, Append(k, m))
  BY DEF State, D!md5_process
<1>2. QED BY <1>1

LEMMA BlocksAreProcessed ==
  ASSUME NEW c, NEW b, NEW k, NEW m, NEW t, t = State(c, b, k)
  PROVE  [t EXCEPT !.blocks = @ \o m] = State(c, b, k \o m)
<1>1. t.blocks = k /\ [t EXCEPT !.blocks = k \o m] = State(c, b, k \o m)
  <2> DEFINE x == k \o m
  <2> HIDE DEF x
  <2>1. t.blocks = k /\ [t EXCEPT !.blocks = x] = State(c, b, x)
    BY DEF State
  <2>2. QED BY <2>1 DEF x
<1>2. [t EXCEPT !.blocks = @ \o m] = [t EXCEPT !.blocks = k \o m]
  BY <1>1
<1>3. QED BY <1>1, <1>2

\* The three ways a piece ends: inside the buffer, at the end of a block, or
\* with something that remains.
Appended(l, buf, k, data) ==
  LET n == Len(data)
      o == l % 64
      room == IF o + n > 64 THEN 64 - o ELSE n
      c == 8 * l + 8 * n
      filled == D!Copied(buf, o, SubSeq(data, 1, room))
      p == IF o = 0 THEN data ELSE SubSeq(data, room + 1, n)
      first == IF o = 0 THEN buf ELSE filled
      done == (IF o = 0 THEN k ELSE Append(k, filled)) \o D!BlocksOf(p)
      left == Len(p) % 64
  IN  IF n = 0 THEN State(8 * l, buf, k)
      ELSE IF o > 0 /\ o + room < 64 THEN State(c, filled, k)
      ELSE State(c, IF left = 0 THEN first
                    ELSE D!Copied(first, 0, SubSeq(p, Len(p) - left + 1, Len(p))), done)

LEMMA AppendIs ==
  ASSUME NEW l \in Nat, NEW buf, NEW k, NEW data \in Bytes
  PROVE  D!md5_append(State(8 * l, buf, k), data) = Appended(l, buf, k, data)
<1> DEFINE n == Len(data)
           o == l % 64
           room == IF o + n > 64 THEN 64 - o ELSE n
           c == 8 * l + 8 * n
           filled == D!Copied(buf, o, SubSeq(data, 1, room))
           p == IF o = 0 THEN data ELSE SubSeq(data, room + 1, n)
           first == IF o = 0 THEN buf ELSE filled
           done == (IF o = 0 THEN k ELSE Append(k, filled)) \o D!BlocksOf(p)
           left == Len(p) % 64
           before == State(8 * l, buf, k)
           rest == SubSeq(p, Len(p) - left + 1, Len(p))
           Result(t, at) ==
             LET nbytes == Len(data)
                 offset == at
                 copy == IF offset + nbytes > 64 THEN 64 - offset ELSE nbytes
                 counted == [t EXCEPT !.count = @ + 8 * nbytes]
                 partial == [counted EXCEPT !.buf = D!Copied(@, offset, SubSeq(data, 1, copy))]
                 begun == IF offset = 0 THEN counted ELSE D!md5_process(partial, partial.buf)
                 more == IF offset = 0 THEN data ELSE SubSeq(data, copy + 1, nbytes)
                 ended == [begun EXCEPT !.blocks = @ \o D!BlocksOf(more)]
                 over == Len(more) % 64
             IN  CASE nbytes = 0 -> t
                   [] nbytes > 0 /\ offset > 0 /\ offset + copy < 64 -> partial
                   [] OTHER -> IF over = 0 THEN ended
                               ELSE [ended EXCEPT !.buf =
                                       D!Copied(@, 0, SubSeq(more, Len(more) - over + 1, Len(more)))]
           counted == [before EXCEPT !.count = @ + 8 * n]
           partial == [counted EXCEPT !.buf = D!Copied(@, o, SubSeq(data, 1, room))]
           begun == IF o = 0 THEN counted ELSE D!md5_process(partial, partial.buf)
           ended == [begun EXCEPT !.blocks = @ \o D!BlocksOf(p)]
<1>1. n \in Nat /\ o \in 0..63 /\ (before.count \div 8) % 64 = o
  <2>1. n \in Nat
    BY DEF Bytes
  <2>2. before.count = 8 * l
    BY StateIsRead
  <2>3. (8 * l) \div 8 = l
    OBVIOUS
  <2>4. QED BY <2>1, <2>2, <2>3
<1>2. D!md5_append(before, data)
        = CASE n = 0 -> before
            [] n > 0 /\ o > 0 /\ o + room < 64 -> partial
            [] OTHER -> IF left = 0 THEN ended
                        ELSE [ended EXCEPT !.buf = D!Copied(@, 0, rest)]
  <2>1. D!md5_append(before, data) = Result(before, (before.count \div 8) % 64)
    <3> HIDE DEF before
    <3>1. QED BY DEF D!md5_append, D!Block
  <2>2. Result(before, (before.count \div 8) % 64) = Result(before, o)
    <3> HIDE DEF Result, o, before
    <3>1. QED BY <1>1
  <2>3. QED BY <2>1, <2>2 DEF Result
<1>3. counted = State(c, buf, k)
  BY MoreCounted
<1>4. partial = State(c, filled, k) /\ partial.buf = filled
  <2> DEFINE d == SubSeq(data, 1, room)
  <2> HIDE DEF counted, c, d, o
  <2>1. [counted EXCEPT !.buf = D!Copied(@, o, d)] = State(c, D!Copied(buf, o, d), k)
    BY <1>3, BufferChanges
  <2>2. filled = D!Copied(buf, o, d)
    BY DEF d
  <2>3. partial = State(c, filled, k)
    BY <2>1, <2>2 DEF d
  <2> HIDE DEF partial, filled
  <2>4. QED BY <2>3, StateIsRead
<1>5. begun = State(c, first, IF o = 0 THEN k ELSE Append(k, filled))
  <2> HIDE DEF counted, partial, filled, c
  <2>1. CASE o = 0
    BY <1>3, <2>1
  <2>2. CASE o # 0
    <3>1. begun = D!md5_process(State(c, filled, k), filled)
      BY <1>4, <2>2
    <3>2. begun = State(c, filled, Append(k, filled))
      BY <3>1, BlockIsProcessed
    <3>3. QED BY <2>2, <3>2
  <2>3. QED BY <2>1, <2>2
<1>6. ended = State(c, first, done) /\ ended.buf = first
  <2> DEFINE bs == IF o = 0 THEN k ELSE Append(k, filled)
             more == D!BlocksOf(p)
  <2>1. begun = State(c, first, bs)
    BY <1>5
  <2> HIDE DEF begun, c, first, bs, more
  <2>2. [begun EXCEPT !.blocks = @ \o more] = State(c, first, bs \o more)
    BY <2>1, BlocksAreProcessed
  <2>3. ended = State(c, first, bs \o more)
    BY <2>2 DEF more
  <2>4. done = bs \o more
    BY DEF bs, more
  <2> HIDE DEF ended, done
  <2>5. QED BY <2>3, <2>4, StateIsRead
<1>7. [ended EXCEPT !.buf = D!Copied(@, 0, rest)] = State(c, D!Copied(first, 0, rest), done)
  <2> HIDE DEF ended, c, first, done, rest
  <2>1. QED BY <1>6, BufferChanges
<1> HIDE DEF before, partial, ended, filled, first, done, rest, room, o, c, left
<1>8. D!md5_append(before, data)
        = IF n = 0 THEN before
          ELSE IF o > 0 /\ o + room < 64 THEN State(c, filled, k)
          ELSE State(c, IF left = 0 THEN first ELSE D!Copied(first, 0, rest), done)
  <2>1. CASE n = 0
    BY <1>2, <2>1
  <2>2. CASE n # 0 /\ o > 0 /\ o + room < 64
    <3>1. n > 0 /\ n # 0
      BY <1>1, <2>2
    <3> HIDE DEF n
    <3>2. QED BY <1>2, <1>4, <2>2, <3>1
  <2>3. CASE n # 0 /\ ~(o > 0 /\ o + room < 64)
    BY <1>2, <1>6, <1>7, <2>3
  <2>4. QED BY <2>1, <2>2, <2>3
<1>9. QED BY <1>8 DEF Appended, before, filled, first, done, rest, room, o, c, left

LEMMA BlocksGrow ==
  ASSUME NEW w \in Bytes, NEW b \in Bytes, Len(w) % 64 = 0, Len(b) = 64
  PROVE  /\ D!BlocksOf(w \o b) = Append(D!BlocksOf(w), b)
         /\ w \o b \in Bytes /\ Len(w \o b) % 64 = 0
<1>1. D!BlocksOf(w \o b) = D!BlocksOf(w) \o D!BlocksOf(b) /\ D!BlocksOf(b) = <<b>>
  BY BlocksOfJoin, BlocksOfShort
<1>2. D!BlocksOf(w) \in Seq(Bytes)
  BY BlocksFit
<1> DEFINE k == D!BlocksOf(w)
<1> HIDE DEF k
<1>3. k \o <<b>> = Append(k, b)
  BY <1>2, AppendIsConcat DEF k
<1>4. w \o b \in Bytes /\ Len(w \o b) % 64 = 0
  <2>1. w \o b \in Bytes /\ Len(w \o b) = Len(w) + Len(b) /\ Len(w) \in Nat
    BY JoinFits
  <2>2. QED BY <2>1
<1>5. QED BY <1>1, <1>3, <1>4 DEF k

LEMMA RemainderIsCut ==
  ASSUME NEW p \in Bytes
  PROVE  /\ SubSeq(p, Len(p) - (Len(p) % 64) + 1, Len(p)) = Remaining(p)
         /\ Remaining(p) \in Bytes /\ Len(Remaining(p)) = Len(p) % 64 /\ Len(p) % 64 \in 0..63
<1>1. Len(p) \in Nat
  BY LenProperties DEF Bytes
<1>2. Len(p) - (Len(p) % 64) = 64 * (Len(p) \div 64) /\ Len(p) % 64 \in 0..63
  <2> DEFINE l == Len(p)
  <2>1. l \in Nat
    BY <1>1
  <2> HIDE DEF l
  <2>2. l - (l % 64) = 64 * (l \div 64) /\ l % 64 \in 0..63
    BY <2>1
  <2>3. QED BY <2>2 DEF l
<1>3. QED BY <1>2, WholeAndRemaining DEF Remaining

\* The rest of a piece, behind what filled the buffer.
LEMMA RestIsKept ==
  ASSUME NEW buf, IsBuffer(buf), NEW p \in Bytes
  PROVE  LET left == Len(p) % 64
             kept == IF left = 0 THEN buf
                     ELSE D!Copied(buf, 0, SubSeq(p, Len(p) - left + 1, Len(p)))
         IN  IsBuffer(kept) /\ SubSeq(kept, 1, left) = Remaining(p)
<1> DEFINE left == Len(p) % 64
           q == Remaining(p)
           kept == IF left = 0 THEN buf ELSE D!Copied(buf, 0, q)
<1>1. q \in Bytes /\ Len(q) = left /\ left \in 0..63
      /\ SubSeq(p, Len(p) - left + 1, Len(p)) = q
  BY RemainderIsCut
<1> HIDE DEF q
<1>2. SubSeq(buf, 1, 0) = <<>> /\ buf \in Bytes
  <2>1. buf \in Seq(Byte)
    BY DEF IsBuffer, Bytes
  <2>2. SubSeq(buf, 1, 0) = <<>>
    BY <2>1, SubSeqEmpty
  <2>3. QED BY <2>2 DEF IsBuffer
<1>3. CASE left = 0
  <2>1. q = <<>>
    BY <1>1, <1>3, EmptySeq DEF Bytes
  <2>2. kept = buf
    BY <1>3
  <2>3. IsBuffer(kept) /\ SubSeq(kept, 1, left) = q
    BY <1>2, <1>3, <2>1, <2>2
  <2>4. QED BY <1>1, <2>3 DEF q
<1>4. CASE left # 0
  <2>1. kept = D!Copied(buf, 0, q)
    BY <1>4
  <2>2. 0 \in Nat /\ 0 + Len(q) <= 64 /\ 0 + Len(q) = left
    BY <1>1
  <2>3. IsBuffer(D!Copied(buf, 0, q)) /\ SubSeq(D!Copied(buf, 0, q), 1, 0 + Len(q)) = SubSeq(buf, 1, 0) \o q
    BY <1>1, <2>2, CopiedFits
  <2>4. SubSeq(buf, 1, 0) \o q = q
    BY <1>1, <1>2, ConcatEmptySeq DEF Bytes
  <2> HIDE DEF left, kept
  <2>5. IsBuffer(kept) /\ SubSeq(kept, 1, left) = q
    BY <2>1, <2>2, <2>3, <2>4
  <2>6. QED BY <1>1, <2>5 DEF q, left, kept
<1>5. QED BY <1>3, <1>4

\* The bytes so far end with what is in the buffer: the piece goes on behind.
LEMMA InsideHolds ==
  ASSUME NEW s \in Bytes, NEW data \in Bytes, NEW buf, IsBuffer(buf),
         SubSeq(buf, 1, Len(s) % 64) = Remaining(s), (Len(s) % 64) + Len(data) < 64
  PROVE  Holds(State(8 * Len(s) + 8 * Len(data), D!Copied(buf, Len(s) % 64, data), D!BlocksOf(s)),
               s \o data)
<1> DEFINE w == Whole(s)
           r == Remaining(s)
           o == Len(s) % 64
           u == r \o data
           c == D!Copied(buf, o, data)
<1>1. s = w \o r /\ w \in Bytes /\ r \in Bytes /\ Len(w) % 64 = 0 /\ Len(r) = o
  BY WholeAndRemaining
<1>2. Len(s) \in Nat /\ Len(data) \in Nat /\ o \in Nat /\ Len(s \o data) = Len(s) + Len(data)
      /\ s \o data \in Bytes
  BY JoinFits, BlockCounts
<1> HIDE DEF w, r
<1>3. u \in Bytes /\ Len(u) = o + Len(data)
  BY <1>1, JoinFits
<1> HIDE DEF o, c
<1>4. IsBuffer(c) /\ SubSeq(c, 1, o + Len(data)) = u
  <2>1. o + Len(data) <= 64
    BY <1>2 DEF o
  <2>2. SubSeq(buf, 1, o) = r
    BY DEF o, r
  <2>3. QED BY <1>2, <2>1, <2>2, CopiedFits DEF c
<1>5. s \o data = w \o u
  <2>1. w \in Bytes /\ r \in Bytes /\ data \in Bytes
    BY <1>1
  <2>2. (w \o r) \o data = w \o u
    BY <2>1, Regrouped, Zenon
  <2> HIDE DEF u
  <2>3. QED BY <1>1, <2>2
<1> HIDE DEF u
<1>6. Len(u) < 64 /\ Len(r) < 64
  BY <1>1, <1>2, <1>3 DEF o
<1>7. D!BlocksOf(s \o data) = D!BlocksOf(s)
  <2>1. D!BlocksOf(u) = <<>> /\ D!BlocksOf(r) = <<>>
    BY <1>1, <1>3, <1>6, BlocksOfShort
  <2>2. D!BlocksOf(w \o u) = D!BlocksOf(w) \o D!BlocksOf(u) /\ D!BlocksOf(w \o r) = D!BlocksOf(w) \o D!BlocksOf(r)
    BY <1>1, <1>3, BlocksOfJoin
  <2>3. QED BY <1>1, <1>5, <2>1, <2>2
<1>8. Remaining(s \o data) = u /\ Len(s \o data) % 64 = Len(u)
  <2>1. Remaining(w \o u) = Remaining(u) /\ Len(w \o u) % 64 = Len(u) % 64
    BY <1>1, <1>3, RemainingOfJoin
  <2>2. Remaining(u) = u /\ Len(u) % 64 = Len(u)
    BY <1>2, <1>3, <1>6, ShortRemains
  <2>3. QED BY <1>5, <2>1, <2>2
<1>9. 8 * Len(s) + 8 * Len(data) = 8 * Len(s \o data)
  BY <1>2
<1>10. SubSeq(c, 1, Len(s \o data) % 64) = Remaining(s \o data)
  BY <1>3, <1>4, <1>8
<1>11. Holds(State(8 * Len(s) + 8 * Len(data), c, D!BlocksOf(s)), s \o data)
  BY <1>4, <1>7, <1>9, <1>10 DEF Holds
<1>12. QED BY <1>11 DEF c, o

\* A message of whole blocks goes on with p.
LEMMA BoundaryHolds ==
  ASSUME NEW w \in Bytes, Len(w) % 64 = 0, NEW p \in Bytes, NEW buf, IsBuffer(buf), NEW n,
         n = 8 * Len(w \o p)
  PROVE  LET left == Len(p) % 64
             kept == IF left = 0 THEN buf
                     ELSE D!Copied(buf, 0, SubSeq(p, Len(p) - left + 1, Len(p)))
         IN  Holds(State(n, kept, D!BlocksOf(w) \o D!BlocksOf(p)), w \o p)
<1> DEFINE left == Len(p) % 64
           kept == IF left = 0 THEN buf
                   ELSE D!Copied(buf, 0, SubSeq(p, Len(p) - left + 1, Len(p)))
<1>1. IsBuffer(kept) /\ SubSeq(kept, 1, left) = Remaining(p)
  BY RestIsKept
<1>2. Remaining(w \o p) = Remaining(p) /\ Len(w \o p) % 64 = left
  BY RemainingOfJoin
<1>3. D!BlocksOf(w \o p) = D!BlocksOf(w) \o D!BlocksOf(p)
  BY BlocksOfJoin
<1> HIDE DEF kept, left
<1>4. Holds(State(n, kept, D!BlocksOf(w) \o D!BlocksOf(p)), w \o p)
  BY <1>1, <1>2, <1>3 DEF Holds
<1>5. QED BY <1>4 DEF kept, left

(* Whatever was appended, one more piece is appended right. *)
LEMMA AppendHolds ==
  ASSUME NEW s \in Bytes, NEW data \in Bytes, NEW t, Holds(t, s)
  PROVE  Holds(D!md5_append(t, data), s \o data)
<1> DEFINE l == Len(s)
           n == Len(data)
           o == l % 64
           k == D!BlocksOf(s)
           room == IF o + n > 64 THEN 64 - o ELSE n
           c == 8 * l + 8 * n
<1>1. PICK buf : t = State(8 * l, buf, k) /\ IsBuffer(buf) /\ SubSeq(buf, 1, o) = Remaining(s)
  BY DEF Holds
<1>2. l \in Nat /\ n \in Nat /\ o \in 0..63 /\ Len(s \o data) = l + n /\ s \o data \in Bytes
  BY JoinFits, BlockCounts
<1> DEFINE filled == D!Copied(buf, o, SubSeq(data, 1, room))
           p == IF o = 0 THEN data ELSE SubSeq(data, room + 1, n)
           first == IF o = 0 THEN buf ELSE filled
           done == (IF o = 0 THEN k ELSE Append(k, filled)) \o D!BlocksOf(p)
           left == Len(p) % 64
           kept == IF left = 0 THEN first
                   ELSE D!Copied(first, 0, SubSeq(p, Len(p) - left + 1, Len(p)))
<1>3. D!md5_append(t, data)
        = IF n = 0 THEN t
          ELSE IF o > 0 /\ o + room < 64 THEN State(c, filled, k)
          ELSE State(c, kept, done)
  <2>1. D!md5_append(t, data) = Appended(l, buf, k, data)
    <3> HIDE DEF l, k
    <3>1. QED BY <1>1, <1>2, AppendIs
  <2> HIDE DEF k
  <2>2. Appended(l, buf, k, data)
        = IF n = 0 THEN State(8 * l, buf, k)
          ELSE IF o > 0 /\ o + room < 64 THEN State(c, filled, k)
          ELSE State(c, kept, done)
    BY DEF Appended
  <2> HIDE DEF filled, kept, done, c, room
  <2>3. QED BY <1>1, <2>1, <2>2
<1>4. c = 8 * Len(s \o data)
  BY <1>2
<1> HIDE DEF n, l
<1>5. CASE n = 0
  <2>1. data = <<>>
    BY <1>5, EmptySeq DEF Bytes, n
  <2>2. s \o data = s
    BY <2>1, ConcatEmptySeq DEF Bytes
  <2>3. D!md5_append(t, data) = t
    BY <1>3, <1>5
  <2>4. QED BY <2>2, <2>3
<1>6. CASE n # 0 /\ o > 0 /\ o + room < 64
  <2>1. room = n /\ o + n < 64
    BY <1>2, <1>6
  <2>2. SubSeq(data, 1, n) = data
    <3>1. data \in Seq(Byte)
      BY DEF Bytes
    <3>2. QED BY <3>1, SubSeqFull, Zenon DEF n
  <2>3. D!md5_append(t, data) = State(c, D!Copied(buf, o, data), k)
    <3>1. filled = D!Copied(buf, o, data)
      <4> HIDE DEF room
      <4>1. QED BY <2>1, <2>2
    <3> HIDE DEF filled, kept, done
    <3>2. QED BY <1>3, <1>6, <3>1
  <2>4. Holds(State(c, D!Copied(buf, o, data), k), s \o data)
    <3>1. IsBuffer(buf) /\ SubSeq(buf, 1, Len(s) % 64) = Remaining(s) /\ (Len(s) % 64) + Len(data) < 64
      BY <1>1, <2>1 DEF l, n
    <3>2. QED BY <3>1, InsideHolds DEF l, n
  <2>5. QED BY <2>3, <2>4
<1>7. CASE n # 0 /\ o = 0
  <2>1. D!md5_append(t, data) = State(c, kept, done)
    <3> HIDE DEF kept, done, filled, room, c
    <3>1. ~(n = 0) /\ ~(o > 0 /\ o + room < 64)
      BY <1>7
    <3>2. QED BY <1>3, <3>1
  <2>2. p = data /\ first = buf /\ done = D!BlocksOf(s) \o D!BlocksOf(data)
    BY <1>7
  <2>3. kept = IF Len(data) % 64 = 0 THEN buf
               ELSE D!Copied(buf, 0, SubSeq(data, Len(data) - (Len(data) % 64) + 1, Len(data)))
    BY <2>2
  <2> HIDE DEF kept, done, p, first, k
  <2>4. Len(s) % 64 = 0
    BY <1>7 DEF l
  <2>5. LET left0 == Len(data) % 64
            kept0 == IF left0 = 0 THEN buf
                     ELSE D!Copied(buf, 0, SubSeq(data, Len(data) - left0 + 1, Len(data)))
        IN  Holds(State(c, kept0, D!BlocksOf(s) \o D!BlocksOf(data)), s \o data)
    <3> HIDE DEF c
    <3>1. QED BY <1>1, <1>4, <2>4, BoundaryHolds
  <2>6. QED BY <2>1, <2>2, <2>3, <2>5
<1>8. CASE n # 0 /\ o > 0 /\ ~(o + room < 64)
  <2>1. room = 64 - o /\ room \in 0..n /\ o + room = 64 /\ room \in Nat
    BY <1>2, <1>8
  <2> DEFINE w == Whole(s)
             r == Remaining(s)
             d == SubSeq(data, 1, room)
             e == Drop(data, room)
             b == r \o d
  <2>2. s = w \o r /\ w \in Bytes /\ r \in Bytes /\ Len(w) % 64 = 0 /\ Len(r) = o
    BY WholeAndRemaining, Zenon DEF l
  <2>3. d \in Bytes /\ Len(d) = room /\ e \in Bytes /\ d \o e = data
    <3> HIDE DEF room
    <3>1. data \in Seq(Byte) /\ room \in 0..Len(data)
      BY <2>1 DEF Bytes, n
    <3>2. d \o e = data
      BY <3>1, CutAndJoined
    <3>3. QED BY <3>1, <3>2, DropFits DEF Bytes
  <2>4. D!md5_append(t, data) = State(c, kept, done)
    <3> HIDE DEF kept, done, filled, room, c
    <3>1. o # 0 /\ ~(n = 0) /\ ~(o > 0 /\ o + room < 64)
      BY <1>8
    <3>2. QED BY <1>3, <3>1
  <2>5. p = e /\ first = filled /\ done = Append(k, filled) \o D!BlocksOf(e)
    <3> HIDE DEF filled, room
    <3>1. o # 0
      BY <1>8
    <3>2. p = e
      BY <3>1 DEF Drop, n
    <3> HIDE DEF p
    <3>3. QED BY <3>1, <3>2
  <2>6. kept = IF Len(e) % 64 = 0 THEN filled
               ELSE D!Copied(filled, 0, SubSeq(e, Len(e) - (Len(e) % 64) + 1, Len(e)))
    <3> HIDE DEF p, e, filled, first
    <3>1. QED BY <2>5
  <2> HIDE DEF kept, done, p, first, w, r, d, e
  <2>7. b \in Bytes /\ Len(b) = 64 /\ s \o data = (w \o b) \o e
    <3>1. b \in Bytes /\ Len(b) = Len(r) + Len(d)
      BY <2>2, <2>3, JoinFits
    <3>2. Len(b) = 64
      BY <2>1, <2>2, <2>3, <3>1
    <3>3. s \o data = w \o (r \o (d \o e)) /\ r \o (d \o e) = b \o e
      <4>1. d \in Bytes /\ e \in Bytes /\ w \in Bytes /\ r \in Bytes
        BY <2>2, <2>3
      <4> DEFINE de == d \o e
      <4>2. de \in Bytes
        BY <4>1, JoinsFit, Zenon
      <4>3. (r \o d) \o e = r \o de
        BY <4>1, Regrouped, Zenon
      <4> HIDE DEF de
      <4>4. (w \o r) \o de = w \o (r \o de)
        BY <4>1, <4>2, Regrouped, Zenon
      <4>5. (w \o r) \o de = s \o data
        BY <2>2, <2>3 DEF de
      <4>6. QED BY <4>3, <4>4, <4>5 DEF de
    <3> HIDE DEF b
    <3>4. w \o (b \o e) = (w \o b) \o e
      <4>1. e \in Bytes /\ w \in Bytes /\ b \in Bytes
        BY <2>2, <2>3, <3>1
      <4>2. QED BY <4>1, Regrouped, Zenon
    <3>5. QED BY <3>1, <3>2, <3>3, <3>4
  <2>8. IsBuffer(filled) /\ filled = b
    <3>1. IsBuffer(D!Copied(buf, o, d)) /\ SubSeq(D!Copied(buf, o, d), 1, o + Len(d)) = SubSeq(buf, 1, o) \o d
      <4>1. o \in Nat /\ o + Len(d) <= 64
        <5> HIDE DEF o, room
        <5>1. QED BY <1>2, <2>1, <2>3
      <4> HIDE DEF o
      <4>2. QED BY <1>1, <2>3, <4>1, CopiedFits
    <3>2. filled = D!Copied(buf, o, d)
      BY DEF d
    <3>3. SubSeq(buf, 1, o) = r /\ o + Len(d) = 64
      <4> HIDE DEF o, room
      <4>1. QED BY <1>1, <2>1, <2>3 DEF r
    <3> HIDE DEF filled
    <3>4. SubSeq(filled, 1, 64) = filled
      BY <3>1, <3>2, SubSeqFull DEF IsBuffer, Bytes
    <3>5. QED BY <3>1, <3>2, <3>3, <3>4
  <2> HIDE DEF filled, b
  <2>9. k = D!BlocksOf(w)
    <3>1. D!BlocksOf(s) = D!BlocksOf(w) \o D!BlocksOf(r)
      BY <2>2, BlocksOfJoin
    <3>2. D!BlocksOf(r) = <<>>
      BY <1>2, <2>2, BlocksOfShort
    <3>3. D!BlocksOf(w) \in Seq(Bytes)
      BY <2>2, BlocksFit
    <3> DEFINE bw == D!BlocksOf(w)
    <3> HIDE DEF bw
    <3>4. bw \o <<>> = bw
      BY <3>3, ConcatEmptySeq DEF bw
    <3>5. QED BY <3>1, <3>2, <3>4 DEF bw
  <2> HIDE DEF k
  <2>10. D!BlocksOf(w \o b) = Append(k, filled) /\ w \o b \in Bytes /\ Len(w \o b) % 64 = 0
    BY <2>2, <2>7, <2>8, <2>9, BlocksGrow
  <2> DEFINE w2 == w \o b
  <2>11. c = 8 * Len(w2 \o e)
    BY <1>4, <2>7
  <2> HIDE DEF c, w2
  <2>12. LET left0 == Len(e) % 64
             kept0 == IF left0 = 0 THEN filled
                      ELSE D!Copied(filled, 0, SubSeq(e, Len(e) - left0 + 1, Len(e)))
         IN  Holds(State(c, kept0, D!BlocksOf(w2) \o D!BlocksOf(e)), w2 \o e)
    <3>1. w2 \in Bytes /\ Len(w2) % 64 = 0
      BY <2>10 DEF w2
    <3>2. QED BY <2>3, <2>8, <2>11, <3>1, BoundaryHolds
  <2>13. State(c, kept, done) = State(c, IF Len(e) % 64 = 0 THEN filled
             ELSE D!Copied(filled, 0, SubSeq(e, Len(e) - (Len(e) % 64) + 1, Len(e))),
             D!BlocksOf(w2) \o D!BlocksOf(e))
    <3>1. done = D!BlocksOf(w2) \o D!BlocksOf(e)
      BY <2>5, <2>10 DEF w2
    <3>2. QED BY <2>6, <3>1
  <2>14. w2 \o e = s \o data
    BY <2>7 DEF w2
  <2>15. QED BY <2>4, <2>12, <2>13, <2>14
<1>9. QED BY <1>2, <1>5, <1>6, <1>7, <1>8

-------------------------------------------------------------------------------
(* Padding. *)

LEMMA ZerosFit ==
  ASSUME NEW n \in Nat
  PROVE  /\ D!Zeros(n) \in Bytes /\ Len(D!Zeros(n)) = n
         /\ \A i \in 1..n : D!Zeros(n)[i] = 0
<1> DEFINE z == [i \in 1..n |-> 0]
<1>1. z \in [1..n -> Byte] /\ \A i \in 1..n : z[i] = 0
  BY DEF Byte
<1> HIDE DEF z
<1>2. z \in Seq(Byte) /\ Len(z) = n
  BY <1>1, FunctionsAreSequences
<1>3. D!Zeros(n) = z
  BY DEF D!Zeros, z
<1>4. QED BY <1>1, <1>2, <1>3 DEF Bytes

LEMMA MoreZeros ==
  ASSUME NEW m \in Nat, NEW n \in Nat
  PROVE  D!Zeros(m) \o D!Zeros(n) = D!Zeros(m + n)
<1> DEFINE a == D!Zeros(m)
           b == D!Zeros(n)
           c == D!Zeros(m + n)
           d == a \o b
<1>1. a \in Bytes /\ Len(a) = m /\ \A i \in 1..m : a[i] = 0
  BY ZerosFit
<1>2. b \in Bytes /\ Len(b) = n /\ \A i \in 1..n : b[i] = 0
  BY ZerosFit
<1>3. c \in Bytes /\ Len(c) = m + n /\ \A i \in 1..(m + n) : c[i] = 0
  <2>1. m + n \in Nat
    OBVIOUS
  <2>2. QED BY <2>1, ZerosFit
<1> HIDE DEF a, b, c
<1>4. d \in Bytes /\ Len(d) = m + n /\ (\A i \in 1..m : d[i] = a[i]) /\ \A i \in 1..n : d[m + i] = b[i]
  BY <1>1, <1>2, JoinFits
<1> HIDE DEF d
<1>5. \A i \in 1..(m + n) : d[i] = 0
  <2>1. SUFFICES ASSUME NEW i \in 1..(m + n) PROVE d[i] = 0
    OBVIOUS
  <2>2. CASE i \in 1..m
    BY <1>1, <1>4, <2>2
  <2>3. CASE i \notin 1..m
    <3>1. i - m \in 1..n /\ m + (i - m) = i
      BY <2>3
    <3>2. d[m + (i - m)] = b[i - m] /\ b[i - m] = 0
      BY <1>2, <1>4, <3>1
    <3>3. QED BY <3>1, <3>2
  <2>4. QED BY <2>2, <2>3
<1>6. \A i \in 1..Len(d) : d[i] = c[i]
  BY <1>3, <1>4, <1>5
<1>7. d = c
  BY <1>3, <1>4, <1>6, SameBytes
<1>8. QED BY <1>7 DEF a, b, c, d

One == <<128>>

LEMMA OneFits == One \in Bytes /\ Len(One) = 1 /\ One[1] = 128
<1>1. 128 \in Byte
  BY DEF Byte
<1>2. QED BY <1>1 DEF One, Bytes

\* The padding of MD5, which it cuts out of a table.
LEMMA TableIsCut ==
  ASSUME NEW k \in 0..63
  PROVE  SubSeq(One \o D!Zeros(63), 1, k + 1) = One \o D!Zeros(k)
<1> DEFINE z == D!Zeros(k)
           y == D!Zeros(63 - k)
           p == One \o z
<1>1. k \in Nat /\ 63 - k \in Nat /\ k + (63 - k) = 63
  OBVIOUS
<1>2. z \in Bytes /\ y \in Bytes /\ Len(z) = k /\ One \in Bytes /\ Len(One) = 1
  BY <1>1, ZerosFit, OneFits
<1>3. z \o y = D!Zeros(63)
  <2>1. D!Zeros(k) \o D!Zeros(63 - k) = D!Zeros(k + (63 - k))
    BY <1>1, MoreZeros
  <2>2. QED BY <1>1, <2>1
<1> HIDE DEF z, y
<1>4. p \in Bytes /\ Len(p) = k + 1
  <2>1. p \in Bytes /\ Len(p) = Len(One) + Len(z)
    BY <1>2, JoinFits
  <2> HIDE DEF p
  <2>2. QED BY <1>2, <2>1
<1>5. One \o D!Zeros(63) = p \o y
  <2>1. One \in Bytes /\ z \in Bytes /\ y \in Bytes
    BY <1>2
  <2>2. (One \o z) \o y = One \o (z \o y)
    BY <2>1, Regrouped, Zenon
  <2>3. QED BY <1>3, <2>2
<1> HIDE DEF p
<1>6. SubSeq(p \o y, 1, Len(p)) = p
  <2>1. p \in Seq(Byte) /\ y \in Seq(Byte)
    BY <1>2, <1>4 DEF Bytes
  <2>2. QED BY <2>1, JoinedAndCut
<1>7. SubSeq(One \o D!Zeros(63), 1, k + 1) = p
  BY <1>4, <1>5, <1>6
<1>8. QED BY <1>7 DEF p, z

\* A number in eight bytes.
LEMMA EightBytes ==
  ASSUME NEW n \in Nat
  PROVE  /\ D!LowFirst(n) \in Bytes /\ Len(D!LowFirst(n)) = 8
         /\ n < 2^32 => \A i \in 5..8 : D!LowFirst(n)[i] = 0
         /\ D!HighFirst(n) \in Bytes /\ Len(D!HighFirst(n)) = 8
         /\ n < 2^32 => \A i \in 1..4 : D!HighFirst(n)[i] = 0
<1> DEFINE Is(g) == g = [i \in 1..8 |-> IF i = 1 THEN n ELSE g[i - 1] \div 256]
           from[i \in 1..8] == IF i = 1 THEN n ELSE from[i - 1] \div 256
           low == [i \in 1..8 |-> from[i] % 256]
           high == [i \in 1..8 |-> low[9 - i]]
           n2 == n \div 256
           n3 == n2 \div 256
           n4 == n3 \div 256
           n5 == n4 \div 256
           n6 == n5 \div 256
           n7 == n6 \div 256
           n8 == n7 \div 256
           h == [i \in 1..8 |-> IF i = 1 THEN n ELSE IF i = 2 THEN n2 ELSE IF i = 3 THEN n3
                   ELSE IF i = 4 THEN n4 ELSE IF i = 5 THEN n5 ELSE IF i = 6 THEN n6
                   ELSE IF i = 7 THEN n7 ELSE n8]
<1>1. from = CHOOSE g : Is(g)
  OBVIOUS
<1>2. D!LowFirst(n) = low
  BY DEF D!LowFirst
<1>3. D!HighFirst(n) = high
  <2> HIDE DEF low
  <2>1. QED BY <1>2 DEF D!HighFirst
<1> HIDE DEF from
<1>4. Is(h)
  <2>1. \A i \in 1..8 : h[i] = IF i = 1 THEN n ELSE h[i - 1] \div 256
    <3> HIDE DEF n2, n3, n4, n5, n6, n7, n8
    <3>1. /\ h[1] = n /\ h[2] = n2 /\ h[3] = n3 /\ h[4] = n4 /\ h[5] = n5 /\ h[6] = n6
          /\ h[7] = n7 /\ h[8] = n8
      OBVIOUS
    <3> HIDE DEF h
    <3>2. SUFFICES ASSUME NEW i \in 1..8 PROVE h[i] = IF i = 1 THEN n ELSE h[i - 1] \div 256
      OBVIOUS
    <3>3. i = 1 \/ i = 2 \/ i = 3 \/ i = 4 \/ i = 5 \/ i = 6 \/ i = 7 \/ i = 8
      OBVIOUS
    <3>4. QED BY <3>1, <3>3 DEF n2, n3, n4, n5, n6, n7, n8
  <2> HIDE DEF n2, n3, n4, n5, n6, n7, n8
  <2>2. h = [i \in 1..8 |-> h[i]]
    OBVIOUS
  <2> HIDE DEF h
  <2>3. QED BY <2>1, <2>2
<1> HIDE DEF h, n2, n3, n4, n5, n6, n7, n8, Is
<1>5. Is(from)
  BY <1>1, <1>4
<1>6. \A i \in 1..8 : from[i] = IF i = 1 THEN n ELSE from[i - 1] \div 256
  BY <1>5 DEF Is
<1>7. /\ from[1] = n
      /\ \A i \in 2..8 : from[i] = from[i - 1] \div 256
  BY <1>6
<1>8. /\ from[1] \in Nat /\ from[2] \in Nat /\ from[3] \in Nat /\ from[4] \in Nat
      /\ from[5] \in Nat /\ from[6] \in Nat /\ from[7] \in Nat /\ from[8] \in Nat
  <2>1. from[1] \in Nat
    BY <1>7
  <2>2. ASSUME NEW i \in 2..8, from[i - 1] \in Nat PROVE from[i] \in Nat
    <3>1. from[i] = from[i - 1] \div 256
      BY <1>7
    <3>2. QED BY <2>2, <3>1
  <2>3. from[2] \in Nat
    BY <2>1, <2>2
  <2>4. from[3] \in Nat
    BY <2>3, <2>2
  <2>5. from[4] \in Nat
    BY <2>4, <2>2
  <2>6. from[5] \in Nat
    BY <2>5, <2>2
  <2>7. from[6] \in Nat
    BY <2>6, <2>2
  <2>8. from[7] \in Nat
    BY <2>7, <2>2
  <2>9. from[8] \in Nat
    BY <2>8, <2>2
  <2>10. QED BY <2>1, <2>3, <2>4, <2>5, <2>6, <2>7, <2>8, <2>9
<1>9. \A i \in 1..8 : from[i] \in Nat
  <2>1. SUFFICES ASSUME NEW i \in 1..8 PROVE from[i] \in Nat
    OBVIOUS
  <2>2. i = 1 \/ i = 2 \/ i = 3 \/ i = 4 \/ i = 5 \/ i = 6 \/ i = 7 \/ i = 8
    OBVIOUS
  <2>3. QED BY <1>8, <2>2
<1>10. low \in [1..8 -> Byte] /\ \A i \in 1..8 : low[i] = from[i] % 256
  <2>1. \A i \in 1..8 : from[i] % 256 \in Byte
    BY <1>9 DEF Byte
  <2>2. QED BY <2>1
<1>11. ASSUME n < 2^32 PROVE \A i \in 5..8 : from[i] = 0
  <2>1. from[2] < 2^24
    BY <1>7, <1>8, <1>11
  <2>2. from[3] < 2^16
    BY <1>7, <1>8, <2>1
  <2>3. from[4] < 256
    BY <1>7, <1>8, <2>2
  <2>4. from[5] = 0
    BY <1>7, <1>8, <2>3
  <2>5. from[6] = 0
    BY <1>7, <2>4
  <2>6. from[7] = 0
    BY <1>7, <2>5
  <2>7. from[8] = 0
    BY <1>7, <2>6
  <2>8. SUFFICES ASSUME NEW i \in 5..8 PROVE from[i] = 0
    OBVIOUS
  <2>9. i = 5 \/ i = 6 \/ i = 7 \/ i = 8
    OBVIOUS
  <2>10. QED BY <2>4, <2>5, <2>6, <2>7, <2>9
<1> HIDE DEF low
<1>12. high \in [1..8 -> Byte] /\ \A i \in 1..8 : high[i] = low[9 - i]
  BY <1>10
<1> HIDE DEF high
<1>13. low \in Seq(Byte) /\ Len(low) = 8 /\ high \in Seq(Byte) /\ Len(high) = 8
  <2>1. 8 \in Nat
    OBVIOUS
  <2>2. low \in [1..8 -> Byte] /\ high \in [1..8 -> Byte]
    BY <1>10, <1>12
  <2>3. low \in Seq(Byte) /\ Len(low) = 8
    BY <2>1, <2>2, FunctionsAreSequences
  <2>4. high \in Seq(Byte) /\ Len(high) = 8
    BY <2>1, <2>2, FunctionsAreSequences
  <2>5. QED BY <2>3, <2>4
<1>14. ASSUME n < 2^32
       PROVE  (\A i \in 5..8 : low[i] = 0) /\ \A i \in 1..4 : high[i] = 0
  <2>1. \A i \in 5..8 : low[i] = 0
    BY <1>10, <1>11, <1>14
  <2>2. ASSUME NEW i \in 1..4 PROVE high[i] = 0
    <3>1. 9 - i \in 5..8 /\ i \in 1..8
      OBVIOUS
    <3>2. QED BY <1>12, <2>1, <3>1
  <2>3. QED BY <2>1, <2>2
<1>15. QED BY <1>2, <1>3, <1>13, <1>14 DEF Bytes

\* How many zeros MD5 puts behind a message of n bytes.
Lacking(n) == (55 - n) % 64

LEMMA RestOf64 ==
  ASSUME NEW m \in Int, NEW k \in Int, NEW a \in 0..63, m = 64 * k + a
  PROVE  m % 64 = a
OBVIOUS

LEMMA LackingIsRight ==
  ASSUME NEW n \in Nat
  PROVE  /\ Lacking(n) \in 0..63 /\ (n + 1 + Lacking(n) + 8) % 64 = 0
         /\ \A z \in 0..63 : (n + 1 + z + 8) % 64 = 0 => z = Lacking(n)
         /\ n % 64 < 56 => Lacking(n) = 55 - (n % 64)
         /\ n % 64 >= 56 => Lacking(n) = 119 - (n % 64)
<1> DEFINE q == n \div 64
           r == n % 64
<1>1. q \in Nat /\ r \in 0..63 /\ n = 64 * q + r
  OBVIOUS
<1>2. n % 64 = r
  OBVIOUS
<1> HIDE DEF q, r
<1>3. ASSUME r < 56 PROVE Lacking(n) = 55 - r
  <2>1. 55 - n = 64 * (0 - q) + (55 - r) /\ 55 - n \in Int /\ 0 - q \in Int /\ 55 - r \in 0..63
    BY <1>1, <1>3
  <2>2. QED BY <2>1, RestOf64 DEF Lacking
<1>4. ASSUME r >= 56 PROVE Lacking(n) = 119 - r
  <2>1. /\ 55 - n = 64 * (0 - q - 1) + (119 - r) /\ 55 - n \in Int /\ 0 - q - 1 \in Int
        /\ 119 - r \in 0..63
    BY <1>1, <1>4
  <2>2. QED BY <2>1, RestOf64 DEF Lacking
<1>5. Lacking(n) \in 0..63 /\ (r + Lacking(n) = 55 \/ r + Lacking(n) = 119)
  BY <1>1, <1>3, <1>4
<1>6. ASSUME NEW z \in 0..63
      PROVE  (n + 1 + z + 8) % 64 = 0 <=> (r + z = 55 \/ r + z = 119)
  <2>1. CASE r + z <= 54
    <3>1. /\ n + 1 + z + 8 = 64 * q + (r + z + 9) /\ n + 1 + z + 8 \in Int
          /\ r + z + 9 \in 0..63 /\ r + z + 9 # 0
      BY <1>1, <2>1
    <3>2. (n + 1 + z + 8) % 64 = r + z + 9
      BY <1>1, <3>1, RestOf64
    <3>3. QED BY <1>1, <2>1, <3>1, <3>2
  <2>2. CASE r + z >= 55 /\ r + z <= 118
    <3>1. /\ n + 1 + z + 8 = 64 * (q + 1) + (r + z - 55) /\ n + 1 + z + 8 \in Int
          /\ r + z - 55 \in 0..63 /\ q + 1 \in Int
      BY <1>1, <2>2
    <3>2. (n + 1 + z + 8) % 64 = r + z - 55
      BY <3>1, RestOf64
    <3>3. QED BY <1>1, <2>2, <3>2
  <2>3. CASE r + z >= 119
    <3>1. /\ n + 1 + z + 8 = 64 * (q + 2) + (r + z - 119) /\ n + 1 + z + 8 \in Int
          /\ r + z - 119 \in 0..63 /\ q + 2 \in Int
      BY <1>1, <2>3
    <3>2. (n + 1 + z + 8) % 64 = r + z - 119
      BY <3>1, RestOf64
    <3>3. QED BY <1>1, <2>3, <3>2
  <2>4. QED BY <1>1, <2>1, <2>2, <2>3
<1>7. ASSUME NEW z \in 0..63, (n + 1 + z + 8) % 64 = 0
      PROVE  z = Lacking(n)
  BY <1>1, <1>5, <1>6, <1>7
<1>8. QED BY <1>2, <1>3, <1>4, <1>5, <1>6, <1>7

LEMMA PaddedIs ==
  ASSUME NEW s \in Bytes, NEW l
  PROVE  D!Padded(s, l) = ((s \o One) \o D!Zeros(Lacking(Len(s)))) \o l
<1> DEFINE n == Len(s)
           zeros == CHOOSE z \in 0..(D!Block - 1) : (n + 1 + z + 8) % D!Block = 0
<1>1. n \in Nat
  BY BytesAt
<1>2. D!Padded(s, l) = ((s \o One) \o D!Zeros(zeros)) \o l
  BY DEF D!Padded, One
<1> HIDE DEF n
<1>3. 0..(D!Block - 1) = 0..63 /\ D!Block = 64
  BY DEF D!Block
<1>4. zeros \in 0..63 /\ (n + 1 + zeros + 8) % 64 = 0
  <2>1. Lacking(n) \in 0..(D!Block - 1) /\ (n + 1 + Lacking(n) + 8) % D!Block = 0
    BY <1>1, <1>3, LackingIsRight
  <2>2. zeros \in 0..(D!Block - 1) /\ (n + 1 + zeros + 8) % D!Block = 0
    BY <2>1
  <2> HIDE DEF zeros
  <2>3. QED BY <1>3, <2>2
<1> HIDE DEF zeros
<1>5. zeros = Lacking(n)
  BY <1>1, <1>4, LackingIsRight
<1>6. QED BY <1>2, <1>5 DEF n

LEMMA HoldsIsRead ==
  ASSUME NEW s \in Bytes, NEW t, Holds(t, s)
  PROVE  t.count = 8 * Len(s) /\ t.blocks = D!BlocksOf(s)
<1>1. PICK buf : t = State(8 * Len(s), buf, D!BlocksOf(s))
  BY DEF Holds
<1> DEFINE c == 8 * Len(s)
           k == D!BlocksOf(s)
<1> HIDE DEF c, k
<1>2. t = State(c, buf, k)
  BY <1>1 DEF c, k
<1>3. t.count = c /\ t.blocks = k
  BY <1>2, StateIsRead
<1>4. QED BY <1>3 DEF c, k

(* md5_finish pads what the state holds. *)
LEMMA FinishHolds ==
  ASSUME NEW s \in Bytes, NEW t, Holds(t, s)
  PROVE  D!md5_finish(t).blocks = D!BlocksOf(D!Padded(s, D!LowFirst(8 * Len(s))))
<1> DEFINE n == Len(s)
           z == Lacking(n)
           q == D!Zeros(z)
           p == One \o q
           l == D!LowFirst(8 * n)
           padded == (s \o p) \o l
<1>1. n \in Nat /\ 8 * n \in Nat /\ (8 * n) \div 8 = n
  BY BytesAt
<1>2. t.count = 8 * n
  BY HoldsIsRead
<1>3. z \in 0..63
  BY <1>1, LackingIsRight
<1>4. D!md5_finish(t) = D!md5_append(D!md5_append(t, p), l)
  <2>1. D!md5_finish(t) = D!md5_append(D!md5_append(t,
          SubSeq(One \o D!Zeros(D!Block - 1), 1, ((55 - (t.count \div 8)) % D!Block) + 1)), D!LowFirst(t.count))
    BY DEF D!md5_finish, One
  <2>2. D!Block - 1 = 63 /\ D!Block = 64
    BY DEF D!Block
  <2>3. ((55 - (t.count \div 8)) % D!Block) + 1 = z + 1
    BY <1>1, <1>2, <2>2 DEF Lacking
  <2>4. SubSeq(One \o D!Zeros(63), 1, z + 1) = p
    <3> HIDE DEF z
    <3>1. QED BY <1>3, TableIsCut
  <2> HIDE DEF p, l, z, n
  <2>5. QED BY <1>2, <2>1, <2>2, <2>3, <2>4 DEF l
<1>5. q \in Bytes /\ p \in Bytes /\ One \in Bytes
  <2> HIDE DEF z
  <2>1. z \in Nat
    BY <1>3
  <2>2. q \in Bytes
    BY <2>1, ZerosFit
  <2>3. QED BY <2>2, OneFits, JoinsFit
<1>6. l \in Bytes
  <2> DEFINE m == 8 * n
  <2>1. m \in Nat
    BY <1>1
  <2> HIDE DEF m
  <2>2. D!LowFirst(m) \in Bytes
    BY <2>1, EightBytes
  <2>3. QED BY <2>2 DEF m
<1> HIDE DEF l, q
<1>7. padded = D!Padded(s, l)
  <2>1. (s \o One) \o q = s \o (One \o q)
    BY <1>5, Regrouped, Zenon
  <2>2. D!Padded(s, l) = ((s \o One) \o q) \o l
    BY PaddedIs DEF q
  <2>3. QED BY <2>1, <2>2
<1> HIDE DEF p
<1>8. s \o p \in Bytes
  BY <1>5, JoinsFit
<1>9. Holds(D!md5_append(t, p), s \o p)
  BY <1>5, AppendHolds
<1> DEFINE u == s \o p
           v == D!md5_append(t, p)
<1>10. u \in Bytes /\ Holds(v, u)
  BY <1>8, <1>9
<1> HIDE DEF u, v
<1>11. u \o l \in Bytes /\ Holds(D!md5_append(v, l), u \o l)
  BY <1>6, <1>10, AppendHolds, JoinsFit
<1> DEFINE w == u \o l
           x == D!md5_append(v, l)
<1> HIDE DEF w, x
<1>12. w \in Bytes /\ Holds(x, w)
  BY <1>11 DEF w, x
<1>13. x.blocks = D!BlocksOf(w)
  BY <1>12, HoldsIsRead
<1>14. w = D!Padded(s, l) /\ x = D!md5_finish(t)
  BY <1>4, <1>7 DEF w, x, u, v
<1>15. D!md5_finish(t).blocks = D!BlocksOf(D!Padded(s, l))
  BY <1>13, <1>14
<1>16. QED BY <1>15 DEF l

LEMMA StartHoldsNothing == Holds(D!md5_init, <<>>)
<1> DEFINE buf == D!Zeros(64)
           s == <<>>
<1>1. s \in Bytes /\ Len(s) = 0
  BY EmptySeq DEF Bytes
<1>2. buf \in Bytes /\ Len(buf) = 64
  <2>1. 64 \in Nat
    OBVIOUS
  <2>2. QED BY <2>1, ZerosFit
<1>3. D!BlocksOf(s) = <<>>
  BY <1>1, BlocksOfShort
<1>4. D!md5_init = State(0, buf, <<>>)
  BY DEF D!md5_init, State, D!Block
<1>5. Remaining(s) = <<>>
  <2>1. Remaining(s) = s
    BY <1>1, ShortRemains
  <2>2. QED BY <2>1
<1> HIDE DEF buf
<1>6. SubSeq(buf, 1, 0) = <<>>
  <2>1. buf \in Seq(Byte)
    BY <1>2 DEF Bytes
  <2>2. QED BY <2>1, SubSeqEmpty
<1>7. 8 * Len(s) = 0 /\ Len(s) % 64 = 0
  BY <1>1
<1>8. D!md5_init = State(8 * Len(s), buf, D!BlocksOf(s)) /\ SubSeq(buf, 1, Len(s) % 64) = Remaining(s)
  BY <1>3, <1>4, <1>5, <1>6, <1>7
<1> HIDE DEF s
<1>9. Holds(D!md5_init, s)
  BY <1>2, <1>8 DEF Holds, IsBuffer
<1>10. QED BY <1>9 DEF s

LEMMA HashOfAll ==
  ASSUME NEW s \in Bytes
  PROVE  D!md5_hash_string(s).blocks = D!BlocksOf(D!Padded(s, D!LowFirst(8 * Len(s))))
<1> DEFINE t == D!md5_append(D!md5_init, s)
<1>1. <<>> \in Bytes /\ <<>> \o s = s
  BY ConcatEmptySeq DEF Bytes
<1>2. Holds(D!md5_append(D!md5_init, s), <<>> \o s)
  BY <1>1, StartHoldsNothing, AppendHolds
<1>3. Holds(t, s)
  BY <1>1, <1>2
<1>4. D!md5_hash_string(s) = D!md5_finish(t)
  BY DEF D!md5_hash_string
<1> HIDE DEF t
<1>5. QED BY <1>3, <1>4, FinishHolds

-------------------------------------------------------------------------------
(* SHA-1 pads a message that it has at once. *)

\* Joining, under a name that keeps the provers from taking it apart.
Cat(a, b) == a \o b

LEMMA CatRegrouped ==
  ASSUME NEW a \in Bytes, NEW b \in Bytes, NEW c \in Bytes
  PROVE  Cat(Cat(a, b), c) = Cat(a, Cat(b, c)) /\ Cat(a, b) \in Bytes
BY Regrouped, JoinsFit DEF Cat

LEMMA FourRegrouped ==
  ASSUME NEW a \in Bytes, NEW b \in Bytes, NEW c \in Bytes, NEW d \in Bytes
  PROVE  Cat(Cat(Cat(a, b), c), d) = Cat(a, Cat(Cat(b, c), d))
<1>1. Cat(b, c) \in Bytes /\ Cat(Cat(a, b), c) = Cat(a, Cat(b, c))
  BY CatRegrouped
<1>2. Cat(Cat(a, Cat(b, c)), d) = Cat(a, Cat(Cat(b, c), d))
  BY <1>1, CatRegrouped
<1>3. QED BY <1>1, <1>2

LEMMA SixRegrouped ==
  ASSUME NEW w \in Bytes, NEW r \in Bytes, NEW o \in Bytes, NEW y \in Bytes, NEW z \in Bytes, NEW h \in Bytes
  PROVE  Cat(Cat(Cat(Cat(w, r), o), Cat(y, z)), h) = Cat(Cat(w, Cat(Cat(r, o), y)), Cat(z, h))
<1> DEFINE a == Cat(Cat(w, r), o)
<1>1. a \in Bytes
  <2>1. Cat(w, r) \in Bytes
    BY CatRegrouped
  <2>2. QED BY <2>1, CatRegrouped
<1>2. Cat(a, y) = Cat(w, Cat(Cat(r, o), y))
  BY FourRegrouped
<1> HIDE DEF a
<1>3. Cat(a, y) \in Bytes /\ Cat(Cat(a, y), z) = Cat(a, Cat(y, z))
  BY <1>1, CatRegrouped
<1>4. Cat(Cat(Cat(a, y), z), h) = Cat(Cat(a, y), Cat(z, h))
  BY <1>3, CatRegrouped
<1>5. Cat(Cat(a, Cat(y, z)), h) = Cat(Cat(w, Cat(Cat(r, o), y)), Cat(z, h))
  BY <1>2, <1>3, <1>4
<1>6. QED BY <1>5 DEF a

\* A block whose last eight bytes are zero, with a length of four bytes in it.
LEMMA LengthIsPut ==
  ASSUME NEW y \in Bytes, Len(y) = 56, NEW h \in Bytes, Len(h) = 8, \A i \in 1..4 : h[i] = 0
  PROVE  SubSeq(y \o D!Zeros(8), 1, 60) \o SubSeq(h, 5, 8) = y \o h
<1> DEFINE z == D!Zeros(4)
           e == SubSeq(h, 5, 8)
           x == y \o z
<1>1. 4 \in Nat /\ 4 + 4 = 8
  OBVIOUS
<1>2. z \in Bytes /\ Len(z) = 4 /\ \A i \in 1..4 : z[i] = 0
  BY <1>1, ZerosFit
<1>3. h \in Seq(Byte) /\ 4 \in 0..Len(h)
  BY DEF Bytes
<1>4. SubSeq(h, 1, 4) \o Drop(h, 4) = h
  BY <1>3, CutAndJoined
<1>5. SubSeq(h, 1, 4) \in Bytes /\ Len(SubSeq(h, 1, 4)) = 4 /\ \A i \in 1..4 : SubSeq(h, 1, 4)[i] = h[i]
  BY <1>3, DropFits DEF Bytes
<1>6. e \in Bytes /\ Drop(h, 4) = e
  <2>1. Drop(h, 4) \in Bytes
    BY <1>3, DropFits DEF Bytes
  <2>2. Drop(h, 4) = e
    BY DEF Drop
  <2>3. QED BY <2>1, <2>2
<1> HIDE DEF z, e
<1>7. SubSeq(h, 1, 4) = z
  <2> DEFINE f == SubSeq(h, 1, 4)
  <2>1. f \in Bytes /\ Len(f) = 4 /\ \A i \in 1..4 : f[i] = z[i]
    BY <1>2, <1>5
  <2> HIDE DEF f
  <2>2. Len(f) = Len(z) /\ \A i \in 1..Len(f) : f[i] = z[i]
    BY <1>2, <2>1
  <2>3. f = z
    BY <1>2, <2>1, <2>2, SameBytes
  <2>4. QED BY <2>3 DEF f
<1>8. z \o e = h
  BY <1>4, <1>6, <1>7
<1>9. D!Zeros(8) = z \o z
  BY <1>1, MoreZeros DEF z
<1>10. x \in Bytes /\ Len(x) = 60
  <2>1. x \in Bytes /\ Len(x) = Len(y) + Len(z)
    BY <1>2, JoinFits
  <2> HIDE DEF x
  <2>2. QED BY <1>2, <2>1
<1>11. y \o (z \o z) = x \o z
  BY <1>2, Regrouped, Zenon
<1>12. y \o (z \o e) = x \o e
  BY <1>2, <1>6, Regrouped, Zenon
<1> HIDE DEF x
<1>13. SubSeq(x \o z, 1, Len(x)) = x
  <2>1. x \in Seq(Byte) /\ z \in Seq(Byte)
    BY <1>2, <1>10 DEF Bytes
  <2>2. QED BY <2>1, JoinedAndCut
<1>14. SubSeq(y \o D!Zeros(8), 1, 60) = x
  BY <1>9, <1>10, <1>11, <1>13
<1>15. SubSeq(y \o D!Zeros(8), 1, 60) \o e = y \o h
  BY <1>8, <1>12, <1>14
<1>16. QED BY <1>15 DEF e

LEMMA TwoMore ==
  ASSUME NEW w \in Bytes, Len(w) % 64 = 0, NEW a \in Bytes, Len(a) = 64, NEW b \in Bytes, Len(b) = 64
  PROVE  D!BlocksOf((w \o a) \o b) = D!BlocksOf(w) \o <<a, b>>
<1> DEFINE v == w \o a
           k == D!BlocksOf(w)
<1>1. D!BlocksOf(v) = Append(k, a) /\ v \in Bytes /\ Len(v) % 64 = 0
  BY BlocksGrow
<1>2. k \in Seq(Bytes)
  BY BlocksFit
<1> HIDE DEF v, k
<1>3. D!BlocksOf(v \o b) = Append(D!BlocksOf(v), b)
  BY <1>1, BlocksGrow
<1>4. Append(Append(k, a), b) = k \o <<a, b>>
  BY <1>2
<1>5. QED BY <1>1, <1>3, <1>4 DEF v, k

LEMMA CalcIs ==
  ASSUME NEW s \in Bytes, Len(s) < 2^28
  PROVE  D!calc(s) = D!BlocksOf(D!Padded(s, D!HighFirst(8 * Len(s))))
<1> DEFINE n == Len(s)
           o == n % 64
           w == Whole(s)
           r == Remaining(s)
           h == D!HighFirst(8 * n)
           ro == r \o One
           last == ro \o D!Zeros(63 - o)
           length(b) == SubSeq(b, 1, 60) \o SubSeq(h, 5, 8)
           k == D!BlocksOf(w)
           p == D!Padded(s, h)
<1>1. n \in Nat /\ o \in 0..63 /\ 8 * n \in Nat /\ 8 * n < 2^32
  <2>1. n \in Nat /\ n < 2^28
    BY BytesAt
  <2> HIDE DEF n
  <2>2. QED BY <2>1, SMT
<1>2. s = w \o r /\ w \in Bytes /\ r \in Bytes /\ Len(w) % 64 = 0 /\ Len(r) = o
  BY WholeAndRemaining
<1>3. D!calc(s) = D!BlocksOf(s) \o (IF Len(r) >= 56 THEN <<last, length(D!Zeros(64))>> ELSE <<length(last)>>)
  <2>1. D!calc(s) = D!BlocksOf(s)
          \o (IF Len(r) >= 56
              THEN <<(r \o One) \o D!Zeros((64 - Len(r)) - 1), length(D!Zeros(64))>>
              ELSE <<length((r \o One) \o D!Zeros((64 - Len(r)) - 1))>>)
    <3>1. D!Block - 4 = 60 /\ D!Block = 64
      BY DEF D!Block
    <3>2. QED BY <3>1 DEF D!calc, Remaining, One
  <2>2. (64 - Len(r)) - 1 = 63 - o
    <3> HIDE DEF o, r
    <3>1. QED BY <1>1, <1>2
  <2> HIDE DEF r, o, length
  <2>3. QED BY <2>1, <2>2
<1>4. p = ((s \o One) \o D!Zeros(Lacking(n))) \o h
  BY PaddedIs
<1>5. h \in Bytes /\ Len(h) = 8 /\ \A i \in 1..4 : h[i] = 0
  <2> DEFINE m == 8 * n
  <2>1. m \in Nat /\ m < 2^32
    BY <1>1
  <2> HIDE DEF m
  <2>2. D!HighFirst(m) \in Bytes /\ Len(D!HighFirst(m)) = 8 /\ \A i \in 1..4 : D!HighFirst(m)[i] = 0
    BY <2>1, EightBytes
  <2>3. QED BY <2>2 DEF m
<1>6. Lacking(n) = IF o < 56 THEN 55 - o ELSE 119 - o
  <2> HIDE DEF n
  <2>1. (o < 56 => Lacking(n) = 55 - o) /\ (o >= 56 => Lacking(n) = 119 - o)
    BY <1>1, LackingIsRight
  <2> HIDE DEF o
  <2>2. QED BY <1>1, <2>1
<1> HIDE DEF w, r, h, p, k, n
<1>7. D!BlocksOf(s) = k
  <2>1. D!BlocksOf(s) = D!BlocksOf(w) \o D!BlocksOf(r)
    BY <1>2, BlocksOfJoin
  <2>2. D!BlocksOf(r) = <<>>
    BY <1>1, <1>2, BlocksOfShort
  <2>3. D!BlocksOf(w) \in Seq(Bytes)
    BY <1>2, BlocksFit
  <2>4. k \in Seq(Bytes) /\ k \o <<>> = k
    BY <2>3, ConcatEmptySeq DEF k
  <2>5. QED BY <2>1, <2>2, <2>4 DEF k
<1> HIDE DEF o
<1>8. ro \in Bytes /\ Len(ro) = o + 1 /\ One \in Bytes
  <2>1. ro \in Bytes /\ Len(ro) = Len(r) + Len(One)
    BY <1>2, OneFits, JoinFits
  <2>2. QED BY <1>2, <2>1, OneFits
<1>9. CASE o < 56
  <2> DEFINE z == D!Zeros(55 - o)
             y == ro \o z
             b == y \o h
  <2>1. 55 - o \in Nat /\ 8 \in Nat /\ (55 - o) + 8 = 63 - o
    BY <1>1, <1>9
  <2>2. z \in Bytes /\ Len(z) = 55 - o /\ D!Zeros(8) \in Bytes
    BY <2>1, ZerosFit
  <2>3. z \o D!Zeros(8) = D!Zeros(63 - o)
    <3>1. D!Zeros(55 - o) \o D!Zeros(8) = D!Zeros((55 - o) + 8)
      BY <2>1, MoreZeros
    <3>2. QED BY <2>1, <3>1
  <2> HIDE DEF z, ro
  <2>4. y \in Bytes /\ Len(y) = 56
    <3>1. y \in Bytes /\ Len(y) = Len(ro) + Len(z)
      BY <1>8, <2>2, JoinFits
    <3> HIDE DEF y
    <3>2. QED BY <1>1, <1>8, <2>2, <3>1
  <2>5. last = y \o D!Zeros(8)
    <3>1. (ro \o z) \o D!Zeros(8) = ro \o (z \o D!Zeros(8))
      BY <1>8, <2>2, Regrouped, Zenon
    <3>2. QED BY <2>3, <3>1
  <2> HIDE DEF y, last
  <2>6. length(last) = b
    BY <1>5, <2>4, <2>5, LengthIsPut
  <2>7. b \in Bytes /\ Len(b) = 64
    <3>1. b \in Bytes /\ Len(b) = Len(y) + Len(h)
      BY <1>5, <2>4, JoinFits
    <3> HIDE DEF b
    <3>2. QED BY <1>5, <2>4, <3>1
  <2>8. p = w \o b
    <3>1. ((w \o r) \o One) \o z = w \o ((r \o One) \o z)
      <4>1. w \in Bytes /\ r \in Bytes /\ One \in Bytes /\ z \in Bytes
        BY <1>2, <1>8, <2>2
      <4>2. Cat(Cat(Cat(w, r), One), z) = Cat(w, Cat(Cat(r, One), z))
        BY <4>1, FourRegrouped
      <4>3. QED BY <4>2 DEF Cat
    <3>2. (s \o One) \o z = w \o y
      BY <1>2, <3>1 DEF y, ro
    <3>3. (w \o y) \o h = w \o (y \o h)
      BY <1>2, <1>5, <2>4, Regrouped, Zenon
    <3>4. p = ((s \o One) \o z) \o h
      BY <1>4, <1>6, <1>9 DEF z
    <3>5. QED BY <3>2, <3>3, <3>4
  <2> HIDE DEF b, length
  <2>9. D!BlocksOf(p) = Append(D!BlocksOf(w), b)
    BY <1>2, <2>7, <2>8, BlocksGrow
  <2>10. D!calc(s) = k \o <<b>>
    <3>1. ~(Len(r) >= 56)
      BY <1>1, <1>2, <1>9
    <3>2. QED BY <1>3, <1>7, <2>6, <3>1
  <2>11. k \in Seq(Bytes)
    BY <1>2, BlocksFit DEF k
  <2>12. k \o <<b>> = Append(k, b)
    BY <2>11, AppendIsConcat
  <2>13. D!calc(s) = D!BlocksOf(p)
    BY <2>9, <2>10, <2>12 DEF k
  <2>14. QED BY <2>13 DEF p, h, n
<1>10. CASE ~(o < 56)
  <2> DEFINE y == D!Zeros(63 - o)
             z == D!Zeros(56)
             b == z \o h
  <2>1. 63 - o \in Nat /\ 56 \in Nat /\ 8 \in Nat /\ (63 - o) + 56 = 119 - o /\ 56 + 8 = 64
    BY <1>1, <1>10
  <2>2. y \in Bytes /\ Len(y) = 63 - o /\ z \in Bytes /\ Len(z) = 56
    BY <2>1, ZerosFit
  <2>3. y \o z = D!Zeros(119 - o)
    <3>1. D!Zeros(63 - o) \o D!Zeros(56) = D!Zeros((63 - o) + 56)
      BY <2>1, MoreZeros
    <3>2. QED BY <2>1, <3>1
  <2>4. D!Zeros(64) = z \o D!Zeros(8)
    <3>1. D!Zeros(56) \o D!Zeros(8) = D!Zeros(56 + 8)
      BY <2>1, MoreZeros
    <3>2. QED BY <2>1, <3>1
  <2> HIDE DEF y, z, ro
  <2>5. last \in Bytes /\ Len(last) = 64
    <3>1. ro \o y \in Bytes /\ Len(ro \o y) = Len(ro) + Len(y)
      BY <1>8, <2>2, JoinFits
    <3>2. last = ro \o y
      BY DEF y
    <3> HIDE DEF last
    <3>3. QED BY <1>1, <1>8, <2>2, <3>1, <3>2
  <2>6. length(D!Zeros(64)) = b
    BY <1>5, <2>2, <2>4, LengthIsPut
  <2>7. b \in Bytes /\ Len(b) = 64
    <3>1. b \in Bytes /\ Len(b) = Len(z) + Len(h)
      BY <1>5, <2>2, JoinFits
    <3> HIDE DEF b
    <3>2. QED BY <1>5, <2>2, <3>1
  <2>8. p = (w \o last) \o b
    <3>1. (((w \o r) \o One) \o (y \o z)) \o h = (w \o ((r \o One) \o y)) \o (z \o h)
      <4>1. w \in Bytes /\ r \in Bytes /\ One \in Bytes /\ y \in Bytes /\ z \in Bytes /\ h \in Bytes
        BY <1>2, <1>5, <1>8, <2>2
      <4>2. Cat(Cat(Cat(Cat(w, r), One), Cat(y, z)), h) = Cat(Cat(w, Cat(Cat(r, One), y)), Cat(z, h))
        BY <4>1, SixRegrouped
      <4>3. QED BY <4>2 DEF Cat
    <3>2. p = ((s \o One) \o (y \o z)) \o h
      BY <1>4, <1>6, <1>10, <2>3
    <3>3. last = (r \o One) \o y
      BY DEF y, ro
    <3> HIDE DEF last
    <3>4. QED BY <1>2, <3>1, <3>2, <3>3
  <2> HIDE DEF b, length, last
  <2>9. D!BlocksOf(p) = D!BlocksOf(w) \o <<last, b>>
    BY <1>2, <2>5, <2>7, <2>8, TwoMore
  <2>10. D!calc(s) = k \o <<last, b>>
    <3>1. Len(r) >= 56
      BY <1>1, <1>2, <1>10
    <3>2. QED BY <1>3, <1>7, <2>6, <3>1
  <2>11. D!calc(s) = D!BlocksOf(p)
    BY <2>9, <2>10 DEF k
  <2>12. QED BY <2>11 DEF p, h, n
<1>11. QED BY <1>9, <1>10

-------------------------------------------------------------------------------
(* Pieces one behind the other. *)

IsChain(f, p, m) == f = [i \in 0..m |-> IF i = 0 THEN <<>> ELSE f[i - 1] \o p[i]]

LEMMA ChainGoesOn ==
  ASSUME NEW f, NEW p, NEW m \in Nat, IsChain(f, p, m)
  PROVE  f[0] = <<>> /\ \A i \in 1..m : f[i] = f[i - 1] \o p[i]
<1>1. \A i \in 0..m : f[i] = IF i = 0 THEN <<>> ELSE f[i - 1] \o p[i]
  BY DEF IsChain
<1>2. f[0] = <<>>
  BY <1>1
<1>3. ASSUME NEW i \in 1..m PROVE f[i] = f[i - 1] \o p[i]
  <2>1. i \in 0..m /\ i # 0
    OBVIOUS
  <2>2. QED BY <1>1, <2>1
<1>4. QED BY <1>2, <1>3

SameUpTo(p, q, m) == \A i \in 1..m : q[i] = p[i]

LEMMA ChainExtends ==
  ASSUME NEW f, NEW p, NEW q, NEW m \in Nat, IsChain(f, p, m), SameUpTo(p, q, m)
  PROVE  \E g : IsChain(g, q, m + 1) /\ g[m + 1] = f[m] \o q[m + 1]
<1> DEFINE last == f[m] \o q[m + 1]
           g == [i \in 0..(m + 1) |-> IF i = m + 1 THEN last ELSE f[i]]
<1>1. f[0] = <<>> /\ \A i \in 1..m : f[i] = f[i - 1] \o p[i]
  BY ChainGoesOn
<1> HIDE DEF last
<1>2. g[m + 1] = last /\ \A i \in 0..m : g[i] = f[i]
  BY Z3
<1>3. \A i \in 0..(m + 1) : g[i] = IF i = 0 THEN <<>> ELSE g[i - 1] \o q[i]
  <2>1. SUFFICES ASSUME NEW i \in 0..(m + 1)
                 PROVE  g[i] = IF i = 0 THEN <<>> ELSE g[i - 1] \o q[i]
    OBVIOUS
  <2> HIDE DEF g
  <2>2. CASE i = 0
    BY <1>1, <1>2, <2>2
  <2>3. CASE i \in 1..m
    <3>1. g[i] = f[i] /\ g[i - 1] = f[i - 1] /\ q[i] = p[i] /\ i # 0
      BY <1>2, <2>3 DEF SameUpTo
    <3>2. QED BY <1>1, <2>3, <3>1
  <2>4. CASE i = m + 1
    <3>1. i # 0 /\ i - 1 = m /\ g[m] = f[m]
      BY <1>2, <2>4
    <3>2. QED BY <1>2, <2>4, <3>1 DEF last
  <2>5. QED BY <2>2, <2>3, <2>4
<1>4. IsChain(g, q, m + 1)
  BY <1>3 DEF IsChain
<1> HIDE DEF g
<1>5. QED BY <1>2, <1>4 DEF last

LEMMA ChainExists ==
  ASSUME NEW p, NEW m \in Nat
  PROVE  \E f : IsChain(f, p, m)
<1> DEFINE N == {k \in Nat : \E f : IsChain(f, p, k)}
<1>1. 0 \in N
  <2>1. IsChain([i \in 0..0 |-> <<>>], p, 0)
    BY DEF IsChain
  <2>2. QED BY <2>1
<1>2. ASSUME NEW k \in N PROVE k + 1 \in N
  <2>1. PICK f : IsChain(f, p, k)
    OBVIOUS
  <2>2. k \in Nat /\ SameUpTo(p, p, k)
    BY DEF SameUpTo
  <2>3. \E g : IsChain(g, p, k + 1)
    BY <2>1, <2>2, ChainExtends
  <2>4. QED BY <2>2, <2>3
<1> HIDE DEF N
<1>3. N = Nat
  <2>1. N \subseteq Nat
    BY DEF N
  <2>2. QED BY <1>1, <1>2, <2>1, AllNumbers
<1>4. m \in N
  BY <1>3
<1>5. QED BY <1>4 DEF N

LEMMA ChainIsUnique ==
  ASSUME NEW f, NEW g, NEW p, NEW m \in Nat, IsChain(f, p, m), IsChain(g, p, m)
  PROVE  f[m] = g[m]
<1> DEFINE N == {k \in Nat : k <= m => f[k] = g[k]}
<1>1. /\ f[0] = <<>> /\ g[0] = <<>>
      /\ \A i \in 1..m : f[i] = f[i - 1] \o p[i]
      /\ \A i \in 1..m : g[i] = g[i - 1] \o p[i]
  BY ChainGoesOn
<1>2. 0 \in N
  BY <1>1
<1>3. ASSUME NEW k \in N PROVE k + 1 \in N
  <2>1. k \in Nat
    OBVIOUS
  <2>2. SUFFICES ASSUME k + 1 <= m PROVE f[k + 1] = g[k + 1]
    BY <2>1
  <2>3. k + 1 \in 1..m /\ (k + 1) - 1 = k /\ f[k] = g[k]
    BY <2>1, <2>2
  <2>4. QED BY <1>1, <2>3
<1> HIDE DEF N
<1>4. N = Nat
  <2>1. N \subseteq Nat
    BY DEF N
  <2>2. QED BY <1>2, <1>3, <2>1, AllNumbers
<1>5. m \in N /\ m <= m
  BY <1>4
<1>6. QED BY <1>5 DEF N

\* v is p[1], ..., p[m] in one.
IsChained(v, p, m) == \E f : IsChain(f, p, m) /\ v = f[m]

LEMMA ChainedGrows ==
  ASSUME NEW v, NEW w, NEW p, NEW q, NEW m \in Nat, SameUpTo(p, q, m),
         IsChained(v, p, m), IsChained(w, q, m + 1)
  PROVE  w = v \o q[m + 1]
<1>1. PICK f : IsChain(f, p, m) /\ v = f[m]
  BY DEF IsChained
<1>2. PICK h : IsChain(h, q, m + 1) /\ w = h[m + 1]
  BY DEF IsChained
<1>3. PICK g : IsChain(g, q, m + 1) /\ g[m + 1] = f[m] \o q[m + 1]
  BY <1>1, ChainExtends
<1>4. m + 1 \in Nat
  OBVIOUS
<1>5. g[m + 1] = h[m + 1]
  BY <1>2, <1>3, <1>4, ChainIsUnique
<1>6. QED BY <1>1, <1>2, <1>3, <1>5

LEMMA ChainedOfNone ==
  ASSUME NEW v, NEW p, IsChained(v, p, 0)
  PROVE  v = <<>>
<1>1. PICK f : IsChain(f, p, 0) /\ v = f[0]
  BY DEF IsChained
<1>2. QED BY <1>1, ChainGoesOn

-------------------------------------------------------------------------------
(* The bytes of a wide text. *)

WideChar == 0..(2^27 - 1)

CharPieces(s) == [i \in 1..Len(s) |-> U!CharBytes(s[i])]

LEMMA TextIsChained ==
  ASSUME NEW s, Len(s) \in Nat
  PROVE  IsChained(U!wstring2string(s), CharPieces(s), Len(s))
<1> DEFINE m == Len(s)
           p == CharPieces(s)
           out[i \in 0..m] == IF i = 0 THEN <<>> ELSE out[i - 1] \o U!CharBytes(s[i])
           Is(f) == f = [i \in 0..m |-> IF i = 0 THEN <<>> ELSE f[i - 1] \o U!CharBytes(s[i])]
<1>1. U!wstring2string(s) = out[m]
  BY DEF U!wstring2string
<1>2. out = CHOOSE f : Is(f)
  OBVIOUS
<1> HIDE DEF out
<1>3. m \in Nat /\ \A i \in 1..m : p[i] = U!CharBytes(s[i])
  BY DEF CharPieces
<1> HIDE DEF m, p
<1>4. ASSUME NEW f PROVE Is(f) <=> IsChain(f, p, m)
  <2>1. \A i \in 0..m : (IF i = 0 THEN <<>> ELSE f[i - 1] \o U!CharBytes(s[i]))
                        = (IF i = 0 THEN <<>> ELSE f[i - 1] \o p[i])
    BY <1>3
  <2>2. [i \in 0..m |-> IF i = 0 THEN <<>> ELSE f[i - 1] \o U!CharBytes(s[i])]
        = [i \in 0..m |-> IF i = 0 THEN <<>> ELSE f[i - 1] \o p[i]]
    BY <2>1
  <2>3. QED BY <2>2 DEF IsChain
<1> HIDE DEF Is
<1>5. Is(out)
  <2>1. \E f : IsChain(f, p, m)
    BY <1>3, ChainExists
  <2>2. QED BY <1>2, <1>4, <2>1
<1>6. QED BY <1>1, <1>4, <1>5 DEF IsChained, m, p

LEMMA TextGrows ==
  ASSUME NEW S, NEW s \in Seq(S), NEW ch \in S
  PROVE  U!wstring2string(Append(s, ch)) = U!wstring2string(s) \o U!CharBytes(ch)
<1> DEFINE m == Len(s)
           t == Append(s, ch)
<1>1. m \in Nat /\ Len(t) = m + 1 /\ t[m + 1] = ch /\ \A i \in 1..m : t[i] = s[i]
  BY AppendProperties, LenProperties
<1>2. IsChained(U!wstring2string(s), CharPieces(s), m)
  BY <1>1, TextIsChained
<1> HIDE DEF t
<1>3. IsChained(U!wstring2string(t), CharPieces(t), m + 1)
  <2>1. Len(t) \in Nat
    BY <1>1
  <2>2. QED BY <1>1, <2>1, TextIsChained
<1>4. SameUpTo(CharPieces(s), CharPieces(t), m)
  <2>1. \A i \in 1..m : CharPieces(s)[i] = U!CharBytes(s[i]) /\ CharPieces(t)[i] = U!CharBytes(t[i])
    BY <1>1 DEF CharPieces
  <2>2. QED BY <1>1, <2>1 DEF SameUpTo
<1>5. CharPieces(t)[m + 1] = U!CharBytes(ch)
  BY <1>1 DEF CharPieces
<1>6. U!wstring2string(t) = U!wstring2string(s) \o CharPieces(t)[m + 1]
  <2> HIDE DEF m
  <2>1. QED BY <1>1, <1>2, <1>3, <1>4, ChainedGrows
<1>7. QED BY <1>5, <1>6 DEF t

LEMMA TextOfNothing == U!wstring2string(<<>>) = <<>>
<1>1. Len(<<>>) = 0 /\ 0 \in Nat
  BY EmptySeq
<1>2. IsChained(U!wstring2string(<<>>), CharPieces(<<>>), 0)
  BY <1>1, TextIsChained
<1>3. QED BY <1>2, ChainedOfNone

LEMMA CharBytesFit ==
  ASSUME NEW ch \in WideChar
  PROVE  U!CharBytes(ch) \in Bytes
<1>1. ch \in Nat /\ ch < 2^27
  BY SMT DEF WideChar
<1> DEFINE Six(k) == U!Rest(ch, k)
<1>2. Six(0) \in Byte /\ Six(6) \in Byte /\ Six(12) \in Byte /\ Six(18) \in Byte
  BY <1>1, SMT DEF U!Rest, U!Above, Byte
<1>3. CASE ch < 128
  <2>1. U!CharBytes(ch) = <<ch>>
    BY <1>3 DEF U!CharBytes
  <2>2. ch \in Byte
    BY <1>1, <1>3, SMT DEF Byte
  <2>3. QED BY <2>1, <2>2 DEF Bytes
<1>4. CASE ch \in 128..(2^11 - 1)
  <2>1. 192 + U!Above(ch, 6) \in Byte
    BY <1>1, <1>4, SMT DEF U!Above, Byte
  <2>2. U!CharBytes(ch) = <<192 + U!Above(ch, 6), Six(0)>>
    BY <1>1, <1>4, SMT DEF U!CharBytes
  <2> HIDE DEF Six
  <2>3. QED BY <1>2, <2>1, <2>2 DEF Bytes
<1>5. CASE ch \in 2^11..(2^16 - 1)
  <2>1. 224 + U!Above(ch, 12) \in Byte
    BY <1>1, <1>5, SMT DEF U!Above, Byte
  <2>2. U!CharBytes(ch) = <<224 + U!Above(ch, 12), Six(6), Six(0)>>
    BY <1>1, <1>5, SMT DEF U!CharBytes
  <2> HIDE DEF Six
  <2>3. QED BY <1>2, <2>1, <2>2 DEF Bytes
<1>6. CASE ch \in 2^16..(2^21 - 1)
  <2>1. 240 + U!Above(ch, 18) \in Byte
    BY <1>1, <1>6, SMT DEF U!Above, Byte
  <2>2. U!CharBytes(ch) = <<240 + U!Above(ch, 18), Six(12), Six(6), Six(0)>>
    BY <1>1, <1>6, SMT DEF U!CharBytes
  <2> HIDE DEF Six
  <2>3. QED BY <1>2, <2>1, <2>2 DEF Bytes
<1>7. CASE ch \in 2^21..(2^26 - 1)
  <2>1. 248 + U!Above(ch, 24) \in Byte
    BY <1>1, <1>7, SMT DEF U!Above, Byte
  <2>2. U!CharBytes(ch) = <<248 + U!Above(ch, 24), Six(18), Six(12), Six(6), Six(0)>>
    BY <1>1, <1>7, SMT DEF U!CharBytes
  <2> HIDE DEF Six
  <2>3. QED BY <1>2, <2>1, <2>2 DEF Bytes
<1>8. CASE ch \in 2^26..(2^27 - 1)
  <2>1. 252 + U!Above(ch, 30) \in Byte
    BY <1>1, <1>8, SMT DEF U!Above, Byte
  <2>2. U!CharBytes(ch) = <<252 + U!Above(ch, 30), Six(18), Six(12), Six(6), Six(0)>>
    BY <1>1, <1>8, SMT DEF U!CharBytes
  <2> HIDE DEF Six
  <2>3. QED BY <1>2, <2>1, <2>2 DEF Bytes
<1>9. QED BY <1>1, <1>3, <1>4, <1>5, <1>6, <1>7, <1>8, SMT

-------------------------------------------------------------------------------
(* What a message, its wide text and the MD5 state know of each other. *)

MessageInv ==
  /\ message \in Bytes
  /\ wide # Raw => wide \in Seq(WideChar) /\ message = U!wstring2string(wide)
  /\ Holds(pms, message)

LEMMA StartAgrees == MessageInit => MessageInv
<1>1. SUFFICES ASSUME MessageInit PROVE MessageInv
  OBVIOUS
<1>2. <<>> \in Bytes /\ <<>> \in Seq(WideChar)
  BY DEF Bytes
<1>3. message = <<>> /\ wide = <<>> /\ pms = D!md5_init
  BY <1>1 DEF MessageInit
<1>4. QED BY <1>2, <1>3, TextOfNothing, StartHoldsNothing DEF MessageInv

LEMMA PieceAgrees ==
  ASSUME MessageInv, NEW p \in Pieces, AppendPiece(p)
  PROVE  MessageInv'
<1>1. message \in Bytes /\ Holds(pms, message)
  BY DEF MessageInv
<1>2. p \in Bytes
  BY CodecsAssumption DEF Bytes, Byte
<1>3. message' = message \o p /\ wide' = Raw /\ pms' = D!md5_append(pms, p)
  BY DEF AppendPiece
<1>4. message \o p \in Bytes /\ Holds(D!md5_append(pms, p), message \o p)
  BY <1>1, <1>2, JoinsFit, AppendHolds
<1>5. message' \in Bytes /\ Holds(pms', message')
  BY <1>3, <1>4
<1>6. QED BY <1>3, <1>5 DEF MessageInv, Holds

LEMMA WideAgrees ==
  ASSUME MessageInv, NEW ch \in WideChars, AppendWide(ch)
  PROVE  MessageInv'
<1>1. message \in Bytes /\ Holds(pms, message)
  BY DEF MessageInv
<1>2. /\ wide # Raw /\ wide' = Append(wide, ch)
      /\ message' = U!wstring2string(wide') /\ pms' = D!md5_append(pms, U!CharBytes(ch))
  BY DEF AppendWide
<1>3. wide \in Seq(WideChar) /\ message = U!wstring2string(wide)
  BY <1>2 DEF MessageInv
<1>4. ch \in WideChar
  BY CodecsAssumption DEF WideChar
<1> DEFINE b == U!CharBytes(ch)
<1>5. b \in Bytes
  BY <1>4, CharBytesFit
<1>6. U!wstring2string(Append(wide, ch)) = message \o b
  BY <1>3, <1>4, TextGrows
<1> HIDE DEF b
<1>7. message \o b \in Bytes /\ Holds(D!md5_append(pms, b), message \o b)
  BY <1>1, <1>5, JoinsFit, AppendHolds
<1>8. message' = message \o b /\ pms' = D!md5_append(pms, b)
  BY <1>2, <1>6 DEF b
<1>9. wide' \in Seq(WideChar)
  BY <1>2, <1>3, <1>4
<1>10. message' \in Bytes /\ Holds(pms', message')
  BY <1>7, <1>8
<1>11. QED BY <1>2, <1>9, <1>10 DEF MessageInv, Holds

LEMMA MessagesAgree == MessageInv /\ [MessageNext]_messageVars => MessageInv'
<1>1. SUFFICES ASSUME MessageInv, [MessageNext]_messageVars PROVE MessageInv'
  OBVIOUS
<1>2. CASE \E p \in Pieces : AppendPiece(p)
  BY <1>1, <1>2, PieceAgrees
<1>3. CASE \E ch \in WideChars : AppendWide(ch)
  BY <1>1, <1>3, WideAgrees
<1>4. CASE UNCHANGED messageVars
  BY <1>1, <1>4 DEF MessageInv, messageVars, Holds, Raw
<1>5. QED BY <1>1, <1>2, <1>3, <1>4 DEF MessageNext

LEMMA AlwaysAgree == Messages => []MessageInv
<1>1. MessageInit => MessageInv
  BY StartAgrees
<1>2. MessageInv /\ [MessageNext]_messageVars => MessageInv'
  BY MessagesAgree
<1>3. QED BY <1>1, <1>2, PTL DEF Messages

LEMMA DigestsFromInv == MessageInv => DigestsSeeThePaddedMessage
<1>1. SUFFICES ASSUME MessageInv PROVE DigestsSeeThePaddedMessage
  OBVIOUS
<1>2. message \in Bytes /\ Holds(pms, message)
  BY <1>1 DEF MessageInv
<1>3. D!md5_finish(pms).blocks = D!BlocksOf(D!Padded(message, D!LowFirst(8 * Len(message))))
  BY <1>2, FinishHolds
<1>4. D!md5_hash_string(message).blocks = D!BlocksOf(D!Padded(message, D!LowFirst(8 * Len(message))))
  BY <1>2, HashOfAll
<1>5. Len(message) < 2^28 => D!calc(message) = D!BlocksOf(D!Padded(message, D!HighFirst(8 * Len(message))))
  BY <1>2, CalcIs
<1>6. QED BY <1>3, <1>4, <1>5 DEF DigestsSeeThePaddedMessage

(* In whatever pieces a message arrives, md5_append and md5_finish compress *)
(* the blocks of the padded message and nothing else that lay in the       *)
(* buffer (md5.hpp:310-367); so does calc at once (sha1.hpp:91-151).       *)
THEOREM DigestsArePadded == Messages => []DigestsSeeThePaddedMessage
<1>1. MessageInv => DigestsSeeThePaddedMessage
  BY DigestsFromInv
<1>2. QED BY <1>1, AlwaysAgree, PTL

-------------------------------------------------------------------------------
(* AES in blocks of 16 (aes.cpp:1282-1367). *)

Lack(n) == 16 - (n % 16)

BlockCount(n) == IF n = 0 THEN 0 ELSE (n \div 16) + 1

LEMMA CountsOfBlocks ==
  ASSUME NEW n \in Nat
  PROVE  /\ Lack(n) \in 1..16 /\ BlockCount(n) \in Nat /\ (BlockCount(n) = 0 <=> n = 0)
         /\ 16 * BlockCount(n) <= n + 16
         /\ n # 0 => /\ n + Lack(n) = 16 * BlockCount(n)
                     /\ n = 16 * (BlockCount(n) - 1) + (16 - Lack(n))
BY DEF Lack, BlockCount

Filling(n) == [i \in 1..Lack(n) |-> Lack(n)]

LEMMA FillingFits ==
  ASSUME NEW n \in Nat
  PROVE  /\ Filling(n) \in Bytes /\ Len(Filling(n)) = Lack(n)
         /\ \A i \in 1..Lack(n) : Filling(n)[i] = Lack(n)
<1> DEFINE l == Lack(n)
           f == [i \in 1..l |-> l]
<1>1. l \in 1..16
  BY CountsOfBlocks
<1> HIDE DEF l
<1>2. l \in Nat /\ l \in Byte
  BY <1>1 DEF Byte
<1>3. f \in [1..l -> Byte] /\ \A i \in 1..l : f[i] = l
  BY <1>2
<1> HIDE DEF f
<1>4. f \in Seq(Byte) /\ Len(f) = l
  BY <1>2, <1>3, FunctionsAreSequences
<1>5. Filling(n) = f
  BY DEF Filling, f, l
<1>6. QED BY <1>3, <1>4, <1>5 DEF Bytes, l

LEMMA BlocksAre ==
  ASSUME NEW s \in Bytes
  PROVE  LET b == A!Blocks(s)
             p == s \o Filling(Len(s))
             m == BlockCount(Len(s))
         IN  /\ b = [k \in 1..m |-> SubSeq(p, 16 * (k - 1) + 1, 16 * k)]
             /\ Len(b) = m
BY CountsOfBlocks, BytesAt DEF A!Blocks, Filling, BlockCount, Lack, A!BLOCK_SIZE

(* What decryption takes from one block. *)
Step(t, plaintext, isLast, outlen) ==
  LET padlen == plaintext[16]
      datalen == IF isLast THEN 16 - padlen ELSE 16
  IN  IF \/ t.failed
         \/ isLast /\ padlen \notin 1..16
         \/ outlen - Len(t.output) < datalen
      THEN [t EXCEPT !.failed = TRUE]
      ELSE [t EXCEPT !.output = @ \o SubSeq(plaintext, 1, datalen)]

Fresh == [output |-> <<>>, failed |-> FALSE]

IsDecryption(f, input, whole, outlen, m) ==
  f = [k \in 0..m |-> IF k = 0 THEN Fresh
                      ELSE Step(f[k - 1], A!Opened(input[k]), k = whole, outlen)]

LEMMA DecryptionGoesOn ==
  ASSUME NEW f, NEW input, NEW whole, NEW outlen, NEW m \in Nat, IsDecryption(f, input, whole, outlen, m)
  PROVE  /\ f[0] = Fresh
         /\ \A k \in 1..m : f[k] = Step(f[k - 1], A!Opened(input[k]), k = whole, outlen)
<1>1. \A k \in 0..m : f[k] = IF k = 0 THEN Fresh
                             ELSE Step(f[k - 1], A!Opened(input[k]), k = whole, outlen)
  BY DEF IsDecryption
<1>2. f[0] = Fresh
  BY <1>1
<1>3. ASSUME NEW k \in 1..m PROVE f[k] = Step(f[k - 1], A!Opened(input[k]), k = whole, outlen)
  <2>1. k \in 0..m /\ k # 0
    OBVIOUS
  <2>2. QED BY <1>1, <2>1
<1>4. QED BY <1>2, <1>3

LEMMA DecryptionExists ==
  ASSUME NEW input, NEW whole, NEW outlen, NEW m \in Nat
  PROVE  \E f : IsDecryption(f, input, whole, outlen, m)
<1> DEFINE N == {k \in Nat : \E f : IsDecryption(f, input, whole, outlen, k)}
<1>1. 0 \in N
  <2>1. IsDecryption([k \in 0..0 |-> Fresh], input, whole, outlen, 0)
    BY DEF IsDecryption
  <2>2. QED BY <2>1
<1>2. ASSUME NEW n \in N PROVE n + 1 \in N
  <2>1. PICK f : IsDecryption(f, input, whole, outlen, n)
    OBVIOUS
  <2>2. n \in Nat
    OBVIOUS
  <2>3. /\ f[0] = Fresh
        /\ \A k \in 1..n : f[k] = Step(f[k - 1], A!Opened(input[k]), k = whole, outlen)
    BY <2>1, <2>2, DecryptionGoesOn
  <2> DEFINE last == Step(f[n], A!Opened(input[n + 1]), n + 1 = whole, outlen)
             g == [k \in 0..(n + 1) |-> IF k = n + 1 THEN last ELSE f[k]]
  <2> HIDE DEF last
  <2>4. g[n + 1] = last /\ \A k \in 0..n : g[k] = f[k]
    BY <2>2, Z3
  <2>5. \A k \in 0..(n + 1) : g[k] = IF k = 0 THEN Fresh
                                     ELSE Step(g[k - 1], A!Opened(input[k]), k = whole, outlen)
    <3>1. SUFFICES ASSUME NEW k \in 0..(n + 1)
                   PROVE  g[k] = IF k = 0 THEN Fresh
                                 ELSE Step(g[k - 1], A!Opened(input[k]), k = whole, outlen)
      OBVIOUS
    <3> HIDE DEF g
    <3>2. CASE k = 0
      BY <2>2, <2>3, <2>4, <3>2
    <3>3. CASE k \in 1..n
      <4>1. g[k] = f[k] /\ g[k - 1] = f[k - 1] /\ k # 0
        BY <2>2, <2>4, <3>3
      <4>2. QED BY <2>3, <3>3, <4>1
    <3>4. CASE k = n + 1
      <4>1. k # 0 /\ k - 1 = n /\ g[n] = f[n]
        BY <2>2, <2>4, <3>4
      <4>2. QED BY <2>4, <3>4, <4>1 DEF last
    <3>5. QED BY <2>2, <3>2, <3>3, <3>4
  <2>6. IsDecryption(g, input, whole, outlen, n + 1)
    BY <2>5 DEF IsDecryption
  <2> HIDE DEF g
  <2>7. QED BY <2>2, <2>6
<1> HIDE DEF N
<1>3. N = Nat
  <2>1. N \subseteq Nat
    BY DEF N
  <2>2. QED BY <1>1, <1>2, <2>1, AllNumbers
<1>4. m \in N
  BY <1>3
<1>5. QED BY <1>4 DEF N

LEMMA DecryptIs ==
  ASSUME NEW outlen, NEW input, NEW m \in Nat
  PROVE  \E f : /\ IsDecryption(f, input, m, outlen, m)
                /\ A!aesDecrypt(outlen, input, 16 * m)
                     = [output |-> f[m].output,
                        ret |-> IF f[m].failed THEN -1 ELSE Len(f[m].output)]
<1> DEFINE whole == (16 * m) \div A!BLOCK_SIZE
           after[k \in 0..whole] ==
             IF k = 0 THEN [output |-> <<>>, failed |-> FALSE]
             ELSE LET before == after[k - 1]
                      plaintext == A!Opened(input[k])
                      padlen == plaintext[A!BLOCK_SIZE]
                      isLast == k = whole
                      datalen == IF isLast THEN A!BLOCK_SIZE - padlen ELSE A!BLOCK_SIZE
                  IN  IF \/ before.failed
                         \/ isLast /\ padlen \notin 1..16
                         \/ outlen - Len(before.output) < datalen
                      THEN [before EXCEPT !.failed = TRUE]
                      ELSE [before EXCEPT !.output = @ \o SubSeq(plaintext, 1, datalen)]
<1>1. A!BLOCK_SIZE = 16 /\ whole = m /\ (16 * m) % A!BLOCK_SIZE = 0
  BY DEF A!BLOCK_SIZE
<1>2. A!aesDecrypt(outlen, input, 16 * m)
        = [output |-> after[whole].output,
           ret |-> IF after[whole].failed \/ (16 * m) % A!BLOCK_SIZE # 0 THEN A!Failure
                   ELSE Len(after[whole].output)]
  BY DEF A!aesDecrypt
<1>3. after = CHOOSE f : IsDecryption(f, input, whole, outlen, whole)
  BY DEF IsDecryption, Step, Fresh, A!BLOCK_SIZE
<1> HIDE DEF after, whole
<1>4. IsDecryption(after, input, m, outlen, m)
  <2>1. after = CHOOSE f : IsDecryption(f, input, m, outlen, m)
    BY <1>1, <1>3
  <2>2. QED BY <2>1, DecryptionExists
<1>5. A!aesDecrypt(outlen, input, 16 * m)
        = [output |-> after[m].output,
           ret |-> IF after[m].failed THEN -1 ELSE Len(after[m].output)]
  BY <1>1, <1>2 DEF A!Failure
<1>6. QED BY <1>4, <1>5

LEMMA LastBlockCounts ==
  ASSUME NEW n \in Nat, NEW c \in Nat, NEW l \in 1..16, n + l = 16 * c
  PROVE  LET i == 16 * (c - 1)
         IN  c \in 1..c /\ i <= n /\ n - i = 16 - l /\ i + 16 = n + l /\ 16 - l \in 0..16 /\ i \in Nat
OBVIOUS

LEMMA BlocksHold ==
  ASSUME NEW s \in Bytes, NEW n, n = Len(s), NEW c, c = BlockCount(n), NEW b, b = A!Blocks(s)
  PROVE  /\ n \in Nat /\ c \in Nat /\ Len(b) = c
         /\ \A k \in 1..c : b[k] \in Bytes /\ Len(b[k]) = 16
         /\ \A k \in 1..(c - 1) : /\ 16 * k <= n
                                  /\ b[k] = SubSeq(s, 16 * (k - 1) + 1, 16 * k)
         /\ n # 0 => /\ c # 0 /\ 16 * (c - 1) <= n
                     /\ b[c][16] = Lack(n)
                     /\ SubSeq(b[c], 1, 16 - Lack(n)) = Drop(s, 16 * (c - 1))
<1> DEFINE l == Lack(n)
           g == Filling(n)
           p == s \o g
<1>1. n \in Nat
  BY BytesAt
<1>2. /\ l \in 1..16 /\ c \in Nat /\ (c = 0 <=> n = 0)
      /\ n # 0 => n + l = 16 * c /\ n = 16 * (c - 1) + (16 - l)
  BY <1>1, CountsOfBlocks
<1>3. g \in Bytes /\ Len(g) = l /\ \A i \in 1..l : g[i] = l
  BY <1>1, FillingFits
<1>4. b = [k \in 1..c |-> SubSeq(p, 16 * (k - 1) + 1, 16 * k)] /\ Len(b) = c
  BY BlocksAre
<1> HIDE DEF l, g
<1>5. /\ p \in Bytes /\ Len(p) = n + l
      /\ \A i \in 1..n : p[i] = s[i]
      /\ \A i \in 1..l : p[n + i] = l
  <2>1. /\ p \in Bytes /\ Len(p) = Len(s) + Len(g)
        /\ \A i \in 1..Len(s) : p[i] = s[i]
        /\ \A i \in 1..Len(g) : p[Len(s) + i] = g[i]
    BY <1>3, JoinFits
  <2> HIDE DEF p
  <2>2. QED BY <1>3, <2>1
<1>6. ASSUME NEW k \in 1..c
      PROVE  /\ b[k] = SubSeq(p, 16 * (k - 1) + 1, 16 * k)
             /\ b[k] \in Bytes /\ Len(b[k]) = 16
             /\ \A i \in 1..16 : b[k][i] = p[16 * (k - 1) + i]
  <2>1. b[k] = SubSeq(p, 16 * (k - 1) + 1, 16 * k)
    BY <1>4
  <2> DEFINE i == 16 * (k - 1)
             j == 16 * k
  <2>2. i \in Nat /\ j \in Nat /\ i <= j /\ j <= n + l /\ j - i = 16
    BY <1>1, <1>2
  <2> HIDE DEF i, j, p
  <2>3. /\ SubSeq(p, i + 1, j) \in Bytes /\ Len(SubSeq(p, i + 1, j)) = j - i
        /\ \A m \in 1..(j - i) : SubSeq(p, i + 1, j)[m] = p[i + m]
    BY <1>5, <2>2, CutsFit
  <2>4. QED BY <2>1, <2>2, <2>3 DEF i, j
<1>7. ASSUME NEW k \in 1..(c - 1)
      PROVE  16 * k <= n /\ b[k] = SubSeq(s, 16 * (k - 1) + 1, 16 * k)
  <2> DEFINE i == 16 * (k - 1)
             j == 16 * k
  <2>1. i \in Nat /\ j \in Nat /\ i <= j /\ j <= n /\ k \in 1..c
    BY <1>1, <1>2
  <2>2. b[k] = SubSeq(p, i + 1, j)
    BY <1>6, <2>1
  <2> HIDE DEF i, j
  <2>3. SubSeq(s \o g, i + 1, j) = SubSeq(s, i + 1, j)
    BY <1>3, <2>1, CutsOfJoin
  <2>4. QED BY <2>1, <2>2, <2>3 DEF i, j
<1>8. ASSUME n # 0
      PROVE  /\ c # 0 /\ 16 * (c - 1) <= n /\ b[c][16] = l
             /\ SubSeq(b[c], 1, 16 - l) = Drop(s, 16 * (c - 1))
  <2> DEFINE i == 16 * (c - 1)
             q == b[c]
  <2>1. /\ i \in Nat /\ i <= n /\ n - i = 16 - l /\ i + 16 = n + l /\ c \in 1..c /\ c # 0
        /\ 16 - l \in 0..16
    <3>1. c \in Nat /\ c # 0 /\ l \in 1..16 /\ n + l = 16 * c /\ n = 16 * (c - 1) + (16 - l) /\ n \in Nat
      BY <1>1, <1>2, <1>8
    <3> HIDE DEF p, q, i
    <3>2. QED BY <3>1, LastBlockCounts DEF i
  <2>2. q \in Bytes /\ Len(q) = 16 /\ \A k \in 1..16 : q[k] = p[i + k]
    BY <1>6, <2>1
  <2> HIDE DEF i, q, p
  <2>3. q[16] = l
    <3>1. 16 \in 1..16 /\ l \in 1..l
      BY <1>2
    <3>2. QED BY <1>5, <2>1, <2>2, <3>1
  <2>4. /\ Drop(s, i) \in Bytes /\ Len(Drop(s, i)) = 16 - l
        /\ \A k \in 1..(16 - l) : Drop(s, i)[k] = s[i + k]
    <3>1. s \in Seq(Byte) /\ i \in 0..Len(s)
      BY <1>1, <2>1 DEF Bytes
    <3>2. /\ Drop(s, i) \in Seq(Byte) /\ Len(Drop(s, i)) = Len(s) - i
          /\ \A k \in 1..(Len(s) - i) : Drop(s, i)[k] = s[i + k]
      BY <3>1, DropFits
    <3>3. QED BY <2>1, <3>2 DEF Bytes
  <2>5. /\ SubSeq(q, 1, 16 - l) \in Bytes /\ Len(SubSeq(q, 1, 16 - l)) = 16 - l
        /\ \A k \in 1..(16 - l) : SubSeq(q, 1, 16 - l)[k] = q[k]
    <3>1. q \in Seq(Byte) /\ 16 - l \in 0..Len(q)
      BY <2>1, <2>2 DEF Bytes
    <3>2. QED BY <3>1, DropFits DEF Bytes
  <2> DEFINE u == SubSeq(q, 1, 16 - l)
             v == Drop(s, i)
  <2>6. \A k \in 1..(16 - l) : u[k] = v[k]
    <3>1. SUFFICES ASSUME NEW k \in 1..(16 - l) PROVE u[k] = v[k]
      OBVIOUS
    <3>2. k \in 1..16 /\ i + k \in 1..n
      BY <1>1, <1>2, <2>1
    <3>3. q[k] = s[i + k]
      BY <1>5, <2>2, <3>2
    <3>4. QED BY <2>4, <2>5, <3>3
  <2>7. u \in Bytes /\ v \in Bytes /\ Len(u) = Len(v) /\ \A k \in 1..Len(u) : u[k] = v[k]
    BY <2>4, <2>5, <2>6
  <2> HIDE DEF u, v
  <2>8. u = v
    BY <2>7, SameBytes
  <2>9. QED BY <2>1, <2>3, <2>8 DEF i, q, u, v
<1>9. QED BY <1>1, <1>2, <1>4, <1>6, <1>7, <1>8 DEF l

LEMMA EncryptIs ==
  ASSUME NEW s \in Bytes, NEW outlen \in Nat
  PROVE  LET e == A!aesEncrypt(outlen, s)
             c == BlockCount(Len(s))
         IN  /\ 16 * Len(e.output) <= outlen
             /\ outlen >= Len(s) + 16 => e.ret # -1
             /\ e.ret # -1 => /\ e.ret = 16 * c
                              /\ \A k \in 1..c : A!Opened(e.output[k]) = A!Blocks(s)[k]
<1> DEFINE n == Len(s)
           c == BlockCount(n)
           b == A!Blocks(s)
           fit == A!Least(c, outlen \div 16)
           o == [k \in 1..fit |-> A!Sealed(b[k])]
           e == A!aesEncrypt(outlen, s)
<1>1. n \in Nat /\ c \in Nat /\ Len(b) = c /\ 16 * c <= n + 16
  <2>1. n \in Nat /\ c \in Nat /\ Len(b) = c
    BY BlocksHold
  <2>2. 16 * c <= n + 16
    BY <2>1, CountsOfBlocks
  <2>3. QED BY <2>1, <2>2
<1>2. e.output = o /\ e.ret = IF fit < c THEN -1 ELSE 16 * fit
  BY <1>1 DEF A!aesEncrypt, A!BLOCK_SIZE, A!Failure
<1> HIDE DEF e, n, b
<1>3. fit \in Nat /\ fit <= c /\ 16 * fit <= outlen /\ (fit < c => outlen < 16 * c)
  <2> HIDE DEF c
  <2>1. outlen \div 16 \in Nat /\ 16 * (outlen \div 16) <= outlen /\ outlen < 16 * (outlen \div 16) + 16
    OBVIOUS
  <2> DEFINE r == outlen \div 16
  <2> HIDE DEF r
  <2>2. r \in Nat /\ 16 * r <= outlen /\ outlen < 16 * r + 16
    BY <2>1 DEF r
  <2>3. fit = IF c < r THEN c ELSE r
    BY DEF A!Least, r
  <2> HIDE DEF fit
  <2>4. QED BY <1>1, <2>2, <2>3
<1> HIDE DEF fit, c
<1>4. Len(o) = fit /\ \A k \in 1..fit : A!Opened(o[k]) = b[k]
  <2> DEFINE T == {A!Sealed(b[k]) : k \in 1..fit}
  <2>1. o \in [1..fit -> T]
    OBVIOUS
  <2>2. \A k \in 1..fit : A!Opened(o[k]) = b[k]
    BY DEF A!Opened, A!Sealed
  <2> HIDE DEF o, T
  <2>3. Len(o) = fit
    BY <1>3, <2>1, FunctionsAreSequences
  <2>4. QED BY <2>2, <2>3
<1> HIDE DEF o
<1>5. /\ 16 * Len(e.output) <= outlen
      /\ outlen >= n + 16 => e.ret # -1
      /\ e.ret # -1 => e.ret = 16 * c /\ fit = c
  <2> DEFINE r == e.ret
             m == Len(e.output)
  <2>1. m = fit /\ r = IF fit < c THEN -1 ELSE 16 * fit
    BY <1>2, <1>4
  <2> HIDE DEF r, m
  <2>2. /\ 16 * m <= outlen
        /\ outlen >= n + 16 => r # -1
        /\ r # -1 => r = 16 * c /\ fit = c
    BY <1>1, <1>3, <2>1
  <2>3. QED BY <2>2 DEF r, m
<1>6. QED BY <1>2, <1>4, <1>5 DEF e, c, n, b

-------------------------------------------------------------------------------
(* A step of decryption. *)

Outcome(o, x) == [output |-> o, failed |-> x]

LEMMA OutcomeFails ==
  ASSUME NEW o, NEW x, NEW t, t = Outcome(o, x)
  PROVE  /\ t.output = o /\ t.failed = x
         /\ [t EXCEPT !.failed = TRUE] = Outcome(o, TRUE)
<1> DEFINE y == TRUE
<1> HIDE DEF y
<1>1. Outcome(o, x).output = o /\ Outcome(o, x).failed = x
  BY DEF Outcome
<1>2. [Outcome(o, x) EXCEPT !.failed = y] = Outcome(o, y)
  BY DEF Outcome
<1>3. [t EXCEPT !.failed = y] = Outcome(o, y)
  BY <1>2
<1>4. QED BY <1>1, <1>3, Zenon DEF y

LEMMA OutcomeGrows ==
  ASSUME NEW o, NEW x, NEW r, NEW t, t = Outcome(o, x)
  PROVE  [t EXCEPT !.output = @ \o r] = Outcome(o \o r, x)
<1> DEFINE u == o \o r
<1>1. t.output \o r = u
  BY OutcomeFails
<1> HIDE DEF u
<1>2. [Outcome(o, x) EXCEPT !.output = u] = Outcome(u, x)
  BY DEF Outcome
<1>3. [t EXCEPT !.output = u] = Outcome(u, x)
  BY <1>2
<1>4. QED BY <1>1, <1>3 DEF u

LEMMA StepIs ==
  ASSUME NEW o \in Bytes, NEW q \in Bytes, Len(q) = 16, NEW room \in Nat, NEW t, NEW isLast \in BOOLEAN
  PROVE  /\ t = Outcome(o, TRUE) => Step(t, q, isLast, room) = Outcome(o, TRUE)
         /\ t = Outcome(o, FALSE) =>
              Step(t, q, FALSE, room)
                = IF room - Len(o) < 16 THEN Outcome(o, TRUE) ELSE Outcome(o \o q, FALSE)
         /\ t = Outcome(o, FALSE) /\ q[16] \in 1..16 =>
              Step(t, q, TRUE, room)
                = IF room - Len(o) < 16 - q[16] THEN Outcome(o, TRUE)
                  ELSE Outcome(o \o SubSeq(q, 1, 16 - q[16]), FALSE)
<1>1. SubSeq(q, 1, 16) = q
  BY SubSeqFull DEF Bytes
<1>2. ASSUME t = Outcome(o, TRUE) PROVE Step(t, q, isLast, room) = Outcome(o, TRUE)
  <2>1. t.failed = TRUE /\ [t EXCEPT !.failed = TRUE] = Outcome(o, TRUE)
    BY <1>2, OutcomeFails
  <2>2. QED BY <2>1 DEF Step
<1>3. ASSUME t = Outcome(o, FALSE)
      PROVE  Step(t, q, FALSE, room)
               = IF room - Len(o) < 16 THEN Outcome(o, TRUE) ELSE Outcome(o \o q, FALSE)
  <2>1. /\ t.failed = FALSE /\ t.output = o
        /\ [t EXCEPT !.failed = TRUE] = Outcome(o, TRUE)
    <3>1. t.failed = FALSE /\ t.output = o
      BY <1>3 DEF Outcome
    <3>2. [t EXCEPT !.failed = TRUE] = Outcome(o, TRUE)
      BY <1>3, OutcomeFails
    <3>3. QED BY <3>1, <3>2
  <2>2. [t EXCEPT !.output = @ \o q] = Outcome(o \o q, FALSE)
    BY <1>3, OutcomeGrows
  <2>3. QED BY <1>1, <2>1, <2>2 DEF Step
<1>4. ASSUME t = Outcome(o, FALSE), q[16] \in 1..16
      PROVE  Step(t, q, TRUE, room)
               = IF room - Len(o) < 16 - q[16] THEN Outcome(o, TRUE)
                 ELSE Outcome(o \o SubSeq(q, 1, 16 - q[16]), FALSE)
  <2> DEFINE r == SubSeq(q, 1, 16 - q[16])
  <2> HIDE DEF r
  <2>1. /\ t.failed = FALSE /\ t.output = o
        /\ [t EXCEPT !.failed = TRUE] = Outcome(o, TRUE)
    <3>1. t.failed = FALSE /\ t.output = o
      BY <1>4 DEF Outcome
    <3>2. [t EXCEPT !.failed = TRUE] = Outcome(o, TRUE)
      BY <1>4, OutcomeFails
    <3>3. QED BY <3>1, <3>2
  <2>2. [t EXCEPT !.output = @ \o r] = Outcome(o \o r, FALSE)
    BY <1>4, OutcomeGrows
  <2>3. QED BY <1>4, <2>1, <2>2 DEF Step, r
<1>5. QED BY <1>2, <1>3, <1>4

-------------------------------------------------------------------------------
(* What decryption has written after k blocks that are not the last. *)

Written(t, s, room, k) ==
  IF 16 * k <= room THEN t = Outcome(SubSeq(s, 1, 16 * k), FALSE)
  ELSE \E o \in Bytes : Len(o) <= room /\ t = Outcome(o, TRUE)

LEMMA WrittenGoesOn ==
  ASSUME NEW s \in Bytes, NEW room \in Nat, NEW k \in Nat, 16 * (k + 1) <= Len(s),
         NEW t, Written(t, s, room, k)
  PROVE  Written(Step(t, SubSeq(s, 16 * k + 1, 16 * (k + 1)), FALSE, room), s, room, k + 1)
<1> DEFINE q == SubSeq(s, 16 * k + 1, 16 * (k + 1))
           h == SubSeq(s, 1, 16 * k)
<1>1. Len(s) \in Nat /\ 16 * k \in Nat /\ 16 * (k + 1) \in Nat /\ 16 * k <= 16 * (k + 1)
      /\ 16 * (k + 1) - 16 * k = 16
  BY BytesAt
<1>2. q \in Bytes /\ Len(q) = 16 /\ \A i \in 1..16 : q[i] = s[16 * k + i]
  <2> DEFINE i == 16 * k
             j == 16 * (k + 1)
  <2> HIDE DEF i, j
  <2>1. /\ SubSeq(s, i + 1, j) \in Bytes /\ Len(SubSeq(s, i + 1, j)) = j - i
        /\ \A m \in 1..(j - i) : SubSeq(s, i + 1, j)[m] = s[i + m]
    BY <1>1, CutsFit DEF i, j
  <2>2. QED BY <1>1, <2>1 DEF i, j
<1>3. h \in Bytes /\ Len(h) = 16 * k
  <2>1. s \in Seq(Byte) /\ 16 * k \in 0..Len(s)
    BY <1>1 DEF Bytes
  <2>2. QED BY <2>1, DropFits DEF Bytes
<1>4. h \o q = SubSeq(s, 1, 16 * (k + 1))
  <2> DEFINE v == SubSeq(s, 1, 16 * (k + 1))
  <2>1. v \in Bytes /\ Len(v) = 16 * (k + 1)
    <3>1. s \in Seq(Byte) /\ 16 * (k + 1) \in 0..Len(s)
      BY <1>1 DEF Bytes
    <3>2. QED BY <3>1, DropFits DEF Bytes
  <2>2. v \in Seq(Byte) /\ 16 * k \in 0..Len(v)
    BY <1>1, <2>1 DEF Bytes
  <2>3. SubSeq(v, 1, 16 * k) \o Drop(v, 16 * k) = v
    BY <2>2, CutAndJoined
  <2>4. SubSeq(v, 1, 16 * k) = h /\ Drop(v, 16 * k) = q
    <3>1. \A i \in 1..(16 * (k + 1)) : v[i] = s[i]
      <4>1. s \in Seq(Byte) /\ 16 * (k + 1) \in 0..Len(s)
        BY <1>1 DEF Bytes
      <4>2. QED BY <4>1, DropFits
    <3>2. \A i \in 1..(16 * k) : h[i] = s[i]
      <4>1. s \in Seq(Byte) /\ 16 * k \in 0..Len(s)
        BY <1>1 DEF Bytes
      <4>2. QED BY <4>1, DropFits
    <3> DEFINE x == SubSeq(v, 1, 16 * k)
               y == Drop(v, 16 * k)
    <3>3. /\ x \in Bytes /\ Len(x) = 16 * k /\ \A i \in 1..(16 * k) : x[i] = v[i]
          /\ y \in Bytes /\ Len(y) = Len(v) - 16 * k
          /\ \A i \in 1..(Len(v) - 16 * k) : y[i] = v[16 * k + i]
      <4> HIDE DEF v
      <4>1. QED BY <2>2, DropFits DEF Bytes
    <3>4. Len(y) = 16 /\ \A i \in 1..16 : y[i] = v[16 * k + i]
      <4> HIDE DEF v, x, y
      <4>1. QED BY <1>1, <2>1, <3>3
    <3> HIDE DEF v, x, y, h, q
    <3>5. \A i \in 1..Len(x) : x[i] = h[i]
      BY <1>1, <3>1, <3>2, <3>3
    <3>6. \A i \in 1..Len(y) : y[i] = q[i]
      <4>1. SUFFICES ASSUME NEW i \in 1..16 PROVE y[i] = q[i]
        BY <3>4
      <4>2. 16 * k + i \in 1..(16 * (k + 1))
        BY <1>1
      <4>3. QED BY <1>2, <3>1, <3>4, <4>2
    <3>7. x = h
      BY <1>3, <3>3, <3>5, SameBytes
    <3>8. y = q
      <4>1. y \in Bytes /\ q \in Bytes /\ Len(y) = Len(q)
        BY <1>2, <3>3, <3>4
      <4>2. QED BY <3>6, <4>1, SameBytes
    <3>9. QED BY <3>7, <3>8 DEF x, y
  <2>5. QED BY <2>3, <2>4
<1> HIDE DEF q, h
<1>5. CASE 16 * k <= room
  <2>1. t = Outcome(h, FALSE)
    BY <1>5 DEF Written, h
  <2>2. Step(t, q, FALSE, room) = IF room - Len(h) < 16 THEN Outcome(h, TRUE) ELSE Outcome(h \o q, FALSE)
    BY <1>2, <1>3, <2>1, StepIs
  <2>3. CASE 16 * (k + 1) <= room
    <3>1. ~(room - Len(h) < 16)
      BY <1>1, <1>3, <2>3
    <3>2. QED BY <1>4, <2>2, <2>3, <3>1 DEF Written, q
  <2>4. CASE ~(16 * (k + 1) <= room)
    <3>1. room - Len(h) < 16 /\ Len(h) <= room
      BY <1>1, <1>3, <1>5, <2>4
    <3>2. QED BY <1>3, <2>2, <2>4, <3>1 DEF Written, q
  <2>5. QED BY <2>3, <2>4
<1>6. CASE ~(16 * k <= room)
  <2>1. PICK o \in Bytes : Len(o) <= room /\ t = Outcome(o, TRUE)
    BY <1>6 DEF Written
  <2>2. Step(t, q, FALSE, room) = Outcome(o, TRUE)
    BY <1>2, <2>1, StepIs
  <2>3. ~(16 * (k + 1) <= room)
    BY <1>1, <1>6
  <2>4. QED BY <2>1, <2>2, <2>3 DEF Written, q
<1>7. QED BY <1>5, <1>6

Finished(t, s, room) ==
  IF Len(s) <= room THEN t = Outcome(s, FALSE)
  ELSE \E o \in Bytes : Len(o) <= room /\ t = Outcome(o, TRUE)

LEMMA WrittenLast ==
  ASSUME NEW s \in Bytes, NEW room \in Nat, NEW k \in Nat, 16 * k <= Len(s),
         NEW t, Written(t, s, room, k),
         NEW q \in Bytes, Len(q) = 16, NEW l \in 1..16, q[16] = l,
         Len(s) = 16 * k + (16 - l), SubSeq(q, 1, 16 - l) = Drop(s, 16 * k)
  PROVE  Finished(Step(t, q, TRUE, room), s, room)
<1> DEFINE n == Len(s)
           h == SubSeq(s, 1, 16 * k)
<1>1. n \in Nat /\ 16 * k \in Nat /\ 16 * k <= n /\ n = 16 * k + (16 - l)
  BY BytesAt
<1>2. s \in Seq(Byte) /\ 16 * k \in 0..Len(s)
  BY <1>1 DEF Bytes
<1>3. h \in Bytes /\ Len(h) = 16 * k
  BY <1>2, DropFits DEF Bytes
<1>4. h \o SubSeq(q, 1, 16 - q[16]) = s
  BY <1>2, CutAndJoined
<1> HIDE DEF n, h
<1>5. CASE 16 * k <= room
  <2>1. t = Outcome(h, FALSE)
    BY <1>5 DEF Written, h
  <2>2. Step(t, q, TRUE, room) = IF room - Len(h) < 16 - q[16] THEN Outcome(h, TRUE) ELSE Outcome(s, FALSE)
    BY <1>3, <1>4, <2>1, StepIs
  <2>3. CASE n <= room
    <3>1. ~(room - Len(h) < 16 - q[16])
      BY <1>1, <1>3, <2>3
    <3>2. QED BY <2>2, <2>3, <3>1 DEF n, Finished
  <2>4. CASE ~(n <= room)
    <3>1. room - Len(h) < 16 - q[16] /\ Len(h) <= room
      BY <1>1, <1>3, <1>5, <2>4
    <3>2. QED BY <1>3, <2>2, <2>4, <3>1 DEF n, Finished
  <2>5. QED BY <2>3, <2>4
<1>6. CASE ~(16 * k <= room)
  <2>1. PICK o \in Bytes : Len(o) <= room /\ t = Outcome(o, TRUE)
    BY <1>6 DEF Written
  <2>2. Step(t, q, TRUE, room) = Outcome(o, TRUE)
    BY <2>1, StepIs
  <2>3. ~(n <= room)
    BY <1>1, <1>6
  <2>4. QED BY <2>1, <2>2, <2>3 DEF n, Finished
<1>7. QED BY <1>5, <1>6

LEMMA DecryptGives ==
  ASSUME NEW s \in Bytes, NEW room \in Nat, NEW n, n = Len(s), NEW c, c = BlockCount(n), NEW input,
         \A k \in 1..c : A!Opened(input[k]) = A!Blocks(s)[k]
  PROVE  LET d == A!aesDecrypt(room, input, 16 * c)
         IN  /\ Len(d.output) <= room
             /\ IF room >= n THEN d.ret = n /\ d.output = s ELSE d.ret = -1
<1> DEFINE b == A!Blocks(s)
           d == A!aesDecrypt(room, input, 16 * c)
<1>1. /\ n \in Nat /\ c \in Nat
      /\ \A k \in 1..c : b[k] \in Bytes /\ Len(b[k]) = 16
      /\ \A k \in 1..(c - 1) : 16 * k <= n /\ b[k] = SubSeq(s, 16 * (k - 1) + 1, 16 * k)
      /\ n # 0 => /\ c # 0 /\ 16 * (c - 1) <= n
                  /\ b[c][16] = Lack(n)
                  /\ SubSeq(b[c], 1, 16 - Lack(n)) = Drop(s, 16 * (c - 1))
  BY BlocksHold
<1>2. /\ Lack(n) \in 1..16 /\ (c = 0 <=> n = 0)
      /\ n # 0 => n = 16 * (c - 1) + (16 - Lack(n))
  BY <1>1, CountsOfBlocks
<1>3. PICK f : /\ IsDecryption(f, input, c, room, c)
               /\ d = [output |-> f[c].output, ret |-> IF f[c].failed THEN -1 ELSE Len(f[c].output)]
  <2>1. c \in Nat
    BY <1>1
  <2>2. QED BY <2>1, DecryptIs
<1>4. /\ f[0] = Fresh
      /\ \A k \in 1..c : f[k] = Step(f[k - 1], A!Opened(input[k]), k = c, room)
  BY <1>1, <1>3, DecryptionGoesOn
<1>5. \A k \in 1..c : f[k] = Step(f[k - 1], b[k], k = c, room)
  BY <1>4
<1> HIDE DEF b, d
<1> DEFINE N == {k \in Nat : k <= c - 1 => Written(f[k], s, room, k)}
<1>6. 0 \in N
  <2>1. 16 * 0 = 0 /\ 0 <= room
    OBVIOUS
  <2>2. SubSeq(s, 1, 0) = <<>>
    BY SubSeqEmpty DEF Bytes
  <2>3. Written(f[0], s, room, 0)
    BY <1>4, <2>1, <2>2 DEF Written, Fresh, Outcome
  <2>4. QED BY <2>3
<1>7. ASSUME NEW k \in N PROVE k + 1 \in N
  <2>1. k \in Nat
    OBVIOUS
  <2>2. SUFFICES ASSUME k + 1 <= c - 1 PROVE Written(f[k + 1], s, room, k + 1)
    BY <2>1
  <2>3. k + 1 \in 1..(c - 1) /\ k + 1 \in 1..c /\ (k + 1) - 1 = k /\ k <= c - 1 /\ k + 1 # c
    BY <1>1, <2>1, <2>2
  <2>4. Written(f[k], s, room, k)
    BY <2>3
  <2>5. f[k + 1] = Step(f[k], b[k + 1], FALSE, room)
    <3>1. (k + 1 = c) = FALSE
      BY <2>3
    <3>2. f[k + 1] = Step(f[(k + 1) - 1], b[k + 1], k + 1 = c, room)
      BY <1>5, <2>3
    <3>3. QED BY <2>3, <3>1, <3>2
  <2>6. 16 * (k + 1) <= n /\ b[k + 1] = SubSeq(s, 16 * k + 1, 16 * (k + 1))
    BY <1>1, <2>3
  <2>7. QED BY <2>1, <2>4, <2>5, <2>6, WrittenGoesOn
<1> HIDE DEF N
<1>8. N = Nat
  <2>1. N \subseteq Nat
    BY DEF N
  <2>2. QED BY <1>6, <1>7, <2>1, AllNumbers
<1>9. \A k \in Nat : k <= c - 1 => Written(f[k], s, room, k)
  BY <1>8 DEF N
<1>10. IF n <= room THEN f[c] = Outcome(s, FALSE)
       ELSE \E o \in Bytes : Len(o) <= room /\ f[c] = Outcome(o, TRUE)
  <2>1. CASE n = 0
    <3>1. c = 0 /\ n <= room /\ s = <<>>
      <4>1. s \in Seq(Byte) /\ Len(s) = 0
        BY <2>1 DEF Bytes
      <4>2. s = <<>>
        BY <4>1, EmptySeq
      <4>3. QED BY <1>2, <2>1, <4>2
    <3>2. QED BY <1>4, <3>1 DEF Fresh, Outcome
  <2>2. CASE n # 0
    <3> DEFINE k == c - 1
    <3>1. k \in Nat /\ k <= c - 1 /\ c \in 1..c /\ 16 * k <= n /\ n = 16 * k + (16 - Lack(n))
      BY <1>1, <1>2, <2>2
    <3>2. Written(f[k], s, room, k)
      BY <1>9, <3>1
    <3>3. f[c] = Step(f[k], b[c], TRUE, room)
      <4>1. (c = c) = TRUE
        OBVIOUS
      <4>2. QED BY <1>5, <3>1, <4>1
    <3>4. /\ b[c] \in Bytes /\ Len(b[c]) = 16 /\ b[c][16] = Lack(n)
          /\ SubSeq(b[c], 1, 16 - Lack(n)) = Drop(s, 16 * k)
      BY <1>1, <2>2, <3>1
    <3> DEFINE l == Lack(n)
               q == b[c]
               t == f[k]
    <3>5. /\ k \in Nat /\ 16 * k <= Len(s) /\ l \in 1..16 /\ Len(s) = 16 * k + (16 - l)
          /\ Written(t, s, room, k) /\ q \in Bytes /\ Len(q) = 16 /\ q[16] = l
          /\ SubSeq(q, 1, 16 - l) = Drop(s, 16 * k)
      BY <1>2, <3>1, <3>2, <3>4
    <3> HIDE DEF k, l, q, t
    <3>6. Finished(Step(t, q, TRUE, room), s, room)
      BY <3>5, WrittenLast, Zenon
    <3>7. f[c] = Step(t, q, TRUE, room)
      BY <3>3 DEF t, q
    <3>8. QED BY <3>6, <3>7 DEF Finished
  <2>3. QED BY <2>1, <2>2
<1>11. CASE n <= room
  <2>1. f[c].output = s /\ f[c].failed = FALSE
    BY <1>10, <1>11 DEF Outcome
  <2>2. d.output = s /\ d.ret = n
    BY <1>3, <2>1
  <2>3. QED BY <1>1, <1>11, <2>2 DEF d
<1>12. CASE ~(n <= room)
  <2>1. PICK o \in Bytes : Len(o) <= room /\ f[c] = Outcome(o, TRUE)
    BY <1>10, <1>12
  <2>2. d.output = o /\ d.ret = -1
    BY <1>3, <2>1 DEF Outcome
  <2>3. ~(room >= n)
    BY <1>1, <1>12
  <2>4. QED BY <2>1, <2>2, <2>3 DEF d
<1>13. QED BY <1>11, <1>12

LEMMA CipherFromInv == MessageInv => CipherIsUndone
<1>1. SUFFICES ASSUME MessageInv PROVE CipherIsUndone
  OBVIOUS
<1> DEFINE n == Len(message)
           rooms == {r \in {0, 15, 16, n - 1, n, n + 15, n + 16} : r >= 0}
           c == BlockCount(n)
<1>2. message \in Bytes /\ n \in Nat
  BY <1>1, BytesAt DEF MessageInv
<1>3. \A r \in rooms : r \in Nat
  BY <1>2
<1> HIDE DEF rooms, n
<1>4. ASSUME NEW outlen \in rooms
      PROVE  LET e == A!aesEncrypt(outlen, message) IN
             /\ 16 * Len(e.output) <= outlen
             /\ outlen >= n + 16 => e.ret # A!Failure
             /\ e.ret # A!Failure => \A room \in rooms :
                  LET d == A!aesDecrypt(room, e.output, e.ret) IN
                  /\ Len(d.output) <= room
                  /\ IF room >= n THEN d.ret = n /\ d.output = message ELSE d.ret = A!Failure
  <2> DEFINE e == A!aesEncrypt(outlen, message)
  <2>1. outlen \in Nat /\ A!Failure = -1
    BY <1>3 DEF A!Failure
  <2>2. /\ 16 * Len(e.output) <= outlen
        /\ outlen >= n + 16 => e.ret # -1
        /\ e.ret # -1 => /\ e.ret = 16 * c
                         /\ \A k \in 1..c : A!Opened(e.output[k]) = A!Blocks(message)[k]
    BY <1>2, <2>1, EncryptIs DEF n
  <2> HIDE DEF e
  <2>3. ASSUME e.ret # -1, NEW room \in rooms
        PROVE  LET d == A!aesDecrypt(room, e.output, e.ret) IN
               /\ Len(d.output) <= room
               /\ IF room >= n THEN d.ret = n /\ d.output = message ELSE d.ret = -1
    <3>1. room \in Nat
      BY <1>3
    <3>2. e.ret = 16 * c /\ \A k \in 1..c : A!Opened(e.output[k]) = A!Blocks(message)[k]
      BY <2>2, <2>3
    <3>3. LET d == A!aesDecrypt(room, e.output, 16 * c) IN
          /\ Len(d.output) <= room
          /\ IF room >= n THEN d.ret = n /\ d.output = message ELSE d.ret = -1
      BY <1>2, <3>1, <3>2, DecryptGives DEF n
    <3>4. QED BY <3>2, <3>3
  <2>4. QED BY <2>1, <2>2, <2>3 DEF e
<1>5. QED BY <1>4 DEF CipherIsUndone, rooms, n

(* aesDecrypt gives back what aesEncrypt wrote, in every room it fits in,  *)
(* and refuses the smaller ones; neither writes beyond its room            *)
(* (aes.cpp:1282-1367).                                                    *)
THEOREM CiphersAreUndone == Messages => []CipherIsUndone
<1>1. MessageInv => CipherIsUndone
  BY CipherFromInv
<1>2. QED BY <1>1, AlwaysAgree, PTL

-------------------------------------------------------------------------------
(* Base64 (Base64.cpp).  Its reader, like those of UTF-8 and of the fields, *)
(* is a walk through a text from the front: what it reads at a place, and  *)
(* what it finds from a later place on.                                    *)

LEMMA FromTheEnd ==
  ASSUME NEW low \in Nat, NEW top \in Nat, NEW S,
         \A i \in low..top : (\A j \in (i + 1)..top : j \in S) => i \in S
  PROVE  \A i \in low..top : i \in S
<1> DEFINE N == {d \in Nat : \A i \in low..top : top - i < d => i \in S}
<1>1. 0 \in N
  OBVIOUS
<1>2. ASSUME NEW d \in N PROVE d + 1 \in N
  <2>1. d \in Nat /\ \A i \in low..top : top - i < d => i \in S
    OBVIOUS
  <2>2. ASSUME NEW i \in low..top, top - i < d + 1 PROVE i \in S
    <3>1. \A j \in (i + 1)..top : j \in low..top /\ top - j < d
      BY <2>1, <2>2
    <3>2. \A j \in (i + 1)..top : j \in S
      BY <2>1, <3>1
    <3>3. QED BY <3>2
  <2>3. QED BY <2>1, <2>2
<1> HIDE DEF N
<1>3. N = Nat
  <2>1. N \subseteq Nat
    BY DEF N
  <2>2. QED BY <1>1, <1>2, <2>1, AllNumbers
<1>4. top + 1 \in N
  BY <1>3
<1>5. QED
  <2>1. \A i \in low..top : top - i < top + 1 => i \in S
    BY <1>4 DEF N
  <2>2. \A i \in low..top : top - i < top + 1
    OBVIOUS
  <2>3. QED BY <2>1, <2>2

\* A walk stops with a value of its own, skips to a later place, or puts what
\* it reads in front of what it finds from a later place on.
Goes(w, f, i) ==
  IF w.stops[i] THEN w.ends[i]
  ELSE IF w.skips[i] THEN f[w.next[i]]
  ELSE w.reads[i] \o f[w.next[i]]

IsWalk(f, w, low, top) == f = [i \in low..top |-> Goes(w, f, i)]

GoesOn(w, low, top) == \A i \in low..top : w.stops[i] \/ w.next[i] \in (i + 1)..top

LEMMA WalkIs ==
  ASSUME NEW f, NEW w, NEW low \in Nat, NEW top \in Nat, IsWalk(f, w, low, top)
  PROVE  \A i \in low..top : f[i] = Goes(w, f, i)
BY DEF IsWalk

LEMMA WalkExists ==
  ASSUME NEW w, NEW low \in Nat, NEW top \in Nat, GoesOn(w, low, top)
  PROVE  \E f : IsWalk(f, w, low, top)
<1> DEFINE N == {d \in Nat : \A b \in low..top : top - b = d => \E f : IsWalk(f, w, b, top)}
<1>1. 0 \in N
  <2>1. SUFFICES ASSUME NEW b \in low..top, top - b = 0 PROVE \E f : IsWalk(f, w, b, top)
    OBVIOUS
  <2>2. b = top
    BY <2>1
  <2> DEFINE g == [i \in b..top |-> w.ends[i]]
  <2>3. \A i \in b..top : g[i] = Goes(w, g, i)
    <3>1. SUFFICES ASSUME NEW i \in b..top PROVE g[i] = Goes(w, g, i)
      OBVIOUS
    <3>2. i = top /\ i \in low..top
      BY <2>2
    <3>3. w.stops[i]
      BY <3>2 DEF GoesOn
    <3>4. QED BY <3>3 DEF Goes
  <2>4. IsWalk(g, w, b, top)
    BY <2>3 DEF IsWalk
  <2>5. QED BY <2>4
<1>2. ASSUME NEW d \in N PROVE d + 1 \in N
  <2>1. d \in Nat
    OBVIOUS
  <2>2. SUFFICES ASSUME NEW b \in low..top, top - b = d + 1 PROVE \E f : IsWalk(f, w, b, top)
    BY <2>1
  <2>3. b \in Nat /\ b + 1 \in low..top /\ top - (b + 1) = d
    BY <2>1, <2>2
  <2>4. PICK f : IsWalk(f, w, b + 1, top)
    BY <2>3
  <2>5. \A i \in (b + 1)..top : f[i] = Goes(w, f, i)
    <3>1. b + 1 \in Nat
      BY <2>3
    <3>2. QED BY <2>4, <3>1, WalkIs
  <2> DEFINE first == Goes(w, f, b)
             g == [i \in b..top |-> IF i = b THEN first ELSE f[i]]
  <2> HIDE DEF first
  <2>6. g[b] = first /\ \A i \in (b + 1)..top : g[i] = f[i]
    BY <2>3
  <2> HIDE DEF N
  <2>7. ASSUME NEW i \in b..top PROVE Goes(w, g, i) = Goes(w, f, i)
    <3> HIDE DEF g
    <3>1. i \in low..top
      BY <2>3
    <3>2. CASE w.stops[i]
      BY <3>2 DEF Goes
    <3>3. CASE ~w.stops[i]
      <4>1. w.next[i] \in (i + 1)..top
        BY <3>1, <3>3 DEF GoesOn
      <4>2. w.next[i] \in (b + 1)..top
        BY <2>3, <4>1
      <4>3. g[w.next[i]] = f[w.next[i]]
        BY <2>6, <4>2
      <4>4. QED BY <4>3 DEF Goes
    <3>4. QED BY <3>2, <3>3
  <2>8. \A i \in b..top : g[i] = Goes(w, g, i)
    <3>1. SUFFICES ASSUME NEW i \in b..top PROVE g[i] = Goes(w, g, i)
      OBVIOUS
    <3> HIDE DEF g
    <3>2. CASE i = b
      BY <2>6, <2>7, <3>2 DEF first
    <3>3. CASE i # b
      <4>1. i \in (b + 1)..top
        BY <2>3, <3>3
      <4>2. QED BY <2>5, <2>6, <2>7, <4>1
    <3>4. QED BY <3>2, <3>3
  <2>9. IsWalk(g, w, b, top)
    BY <2>8 DEF IsWalk
  <2> HIDE DEF g
  <2>10. QED BY <2>9
<1> HIDE DEF N
<1>3. N = Nat
  <2>1. N \subseteq Nat
    BY DEF N
  <2>2. QED BY <1>1, <1>2, <2>1, AllNumbers
<1>4. CASE low <= top
  <2>1. top - low \in N /\ low \in low..top
    BY <1>3, <1>4
  <2>2. QED BY <2>1 DEF N
<1>5. CASE ~(low <= top)
  <2>1. low..top = {}
    BY <1>5
  <2>2. IsWalk([i \in low..top |-> 0], w, low, top)
    BY <2>1 DEF IsWalk
  <2>3. QED BY <2>2
<1>6. QED BY <1>4, <1>5

-------------------------------------------------------------------------------
(* Where the pieces of a chain stand in it. *)

ArePieces(p, m) == \A i \in 1..m : p[i] \in Bytes

LEMMA ChainFits ==
  ASSUME NEW f, NEW p, NEW m \in Nat, IsChain(f, p, m), ArePieces(p, m)
  PROVE  \A i \in 0..m : f[i] \in Bytes
<1> DEFINE N == {k \in Nat : k <= m => f[k] \in Bytes}
<1>1. f[0] = <<>> /\ \A i \in 1..m : f[i] = f[i - 1] \o p[i]
  BY ChainGoesOn
<1>2. 0 \in N
  <2>1. <<>> \in Bytes
    BY DEF Bytes
  <2>2. QED BY <1>1, <2>1
<1>3. ASSUME NEW k \in N PROVE k + 1 \in N
  <2>1. k \in Nat
    OBVIOUS
  <2>2. SUFFICES ASSUME k + 1 <= m PROVE f[k + 1] \in Bytes
    BY <2>1
  <2>3. k + 1 \in 1..m /\ (k + 1) - 1 = k /\ f[k] \in Bytes
    BY <2>1, <2>2
  <2>4. p[k + 1] \in Bytes
    BY <2>3 DEF ArePieces
  <2>5. QED BY <1>1, <2>3, <2>4, JoinsFit
<1> HIDE DEF N
<1>4. N = Nat
  <2>1. N \subseteq Nat
    BY DEF N
  <2>2. QED BY <1>2, <1>3, <2>1, AllNumbers
<1>5. QED BY <1>4 DEF N

Prefixes(a, b) == Len(a) <= Len(b) /\ \A j \in 1..Len(a) : b[j] = a[j]

LEMMA JoinPrefixes ==
  ASSUME NEW a \in Bytes, NEW b \in Bytes, NEW c \in Bytes, Prefixes(a, b)
  PROVE  Prefixes(a, b \o c)
<1>1. /\ Len(b \o c) = Len(b) + Len(c) /\ Len(a) \in Nat /\ Len(b) \in Nat /\ Len(c) \in Nat
      /\ \A i \in 1..Len(b) : (b \o c)[i] = b[i]
  BY JoinFits, BytesAt
<1> DEFINE d == b \o c
<1> HIDE DEF d
<1>2. Len(d) = Len(b) + Len(c) /\ \A i \in 1..Len(b) : d[i] = b[i]
  BY <1>1 DEF d
<1>3. Prefixes(a, d)
  BY <1>1, <1>2 DEF Prefixes
<1>4. QED BY <1>3 DEF d

LEMMA ChainGrows ==
  ASSUME NEW f, NEW p, NEW m \in Nat, IsChain(f, p, m), ArePieces(p, m), NEW k \in 0..m
  PROVE  Prefixes(f[k], f[m])
<1> DEFINE N == {d \in Nat : k + d <= m => Prefixes(f[k], f[k + d])}
<1>1. f[0] = <<>> /\ \A i \in 1..m : f[i] = f[i - 1] \o p[i]
  BY ChainGoesOn
<1>2. \A i \in 0..m : f[i] \in Bytes
  BY ChainFits
<1>3. 0 \in N
  <2>1. f[k] \in Bytes /\ k + 0 = k
    BY <1>2
  <2>2. Len(f[k]) \in Nat
    BY <2>1, BytesAt
  <2>3. Prefixes(f[k], f[k + 0])
    BY <2>1, <2>2 DEF Prefixes
  <2>4. QED BY <2>3
<1>4. ASSUME NEW d \in N PROVE d + 1 \in N
  <2>1. d \in Nat
    OBVIOUS
  <2>2. SUFFICES ASSUME k + (d + 1) <= m PROVE Prefixes(f[k], f[k + (d + 1)])
    BY <2>1
  <2> DEFINE i == k + d
  <2>3. i \in 0..m /\ i + 1 \in 1..m /\ (i + 1) - 1 = i /\ k + (d + 1) = i + 1
    BY <2>1, <2>2
  <2>4. Prefixes(f[k], f[i])
    BY <2>3
  <2> HIDE DEF i
  <2>5. f[i + 1] = f[i] \o p[i + 1] /\ f[i] \in Bytes /\ p[i + 1] \in Bytes /\ f[k] \in Bytes
    BY <1>1, <1>2, <2>3 DEF ArePieces
  <2>6. QED BY <2>3, <2>4, <2>5, JoinPrefixes
<1> HIDE DEF N
<1>5. N = Nat
  <2>1. N \subseteq Nat
    BY DEF N
  <2>2. QED BY <1>3, <1>4, <2>1, AllNumbers
<1>6. m - k \in N /\ k + (m - k) = m
  BY <1>5
<1>7. QED BY <1>6 DEF N

\* before is what stands in text before the piece, behind what stands up to its end.
Stands(text, before, piece, behind) ==
  /\ before \in Bytes /\ piece \in Bytes /\ behind \in Bytes /\ text \in Bytes
  /\ Len(behind) = Len(before) + Len(piece) /\ Len(behind) <= Len(text)
  /\ \A j \in 1..Len(piece) : text[Len(before) + j] = piece[j]

LEMMA PieceStands ==
  ASSUME NEW f, NEW p, NEW m \in Nat, IsChain(f, p, m), ArePieces(p, m), NEW g \in 1..m
  PROVE  Stands(f[m], f[g - 1], p[g], f[g])
<1> DEFINE a == f[g - 1]
           b == p[g]
           c == f[m]
           d == a \o b
<1>1. g \in 0..m /\ g - 1 \in 0..m /\ m \in 0..m
  OBVIOUS
<1>2. a \in Bytes /\ b \in Bytes /\ c \in Bytes /\ f[g] \in Bytes
  BY <1>1, ChainFits DEF ArePieces
<1>3. f[g] = d
  BY ChainGoesOn
<1>4. Prefixes(f[g], c)
  BY <1>1, ChainGrows
<1> HIDE DEF a, b, c
<1>5. Len(d) = Len(a) + Len(b) /\ Len(a) \in Nat /\ Len(b) \in Nat
      /\ \A j \in 1..Len(b) : d[Len(a) + j] = b[j]
  BY <1>2, JoinFits
<1> HIDE DEF d
<1>6. Len(d) <= Len(c) /\ \A j \in 1..Len(d) : c[j] = d[j]
  BY <1>3, <1>4 DEF Prefixes
<1>7. \A j \in 1..Len(b) : c[Len(a) + j] = b[j]
  <2>1. SUFFICES ASSUME NEW j \in 1..Len(b) PROVE c[Len(a) + j] = b[j]
    OBVIOUS
  <2>2. Len(a) + j \in 1..Len(d)
    BY <1>5
  <2>3. QED BY <1>5, <1>6, <2>2
<1>8. QED BY <1>2, <1>3, <1>5, <1>6, <1>7 DEF a, b, c, Stands

-------------------------------------------------------------------------------
(* Three bytes in four characters, and back. *)

Six == 0..63

LEMMA CharOfSix ==
  ASSUME NEW v \in Six, NEW stray
  PROVE  /\ B!bstr[v] \in Byte /\ B!bstr[v] \notin {10, 13, 61}
         /\ B!Bits(B!bstr[v], stray) = v
<1>1. B!bstr[v] = CASE v < 26 -> 65 + v        [] v \in 26..51 -> 71 + v
                    [] v \in 52..61 -> v - 4   [] v = 62 -> 43 [] v = 63 -> 47
  BY DEF B!bstr, Six
<1> DEFINE c == B!bstr[v]
<1>2. /\ v < 26 => c = 65 + v
      /\ v \in 26..51 => c = 71 + v
      /\ v \in 52..61 => c = v - 4
      /\ v = 62 => c = 43
      /\ v = 63 => c = 47
  <2>1. v \in 0..63
    BY DEF Six
  <2>2. QED BY <1>1, <2>1
<1> HIDE DEF c
<1>3. v \in Nat /\ (v < 26 \/ v \in 26..51 \/ v \in 52..61 \/ v = 62 \/ v = 63)
  BY DEF Six
<1>4. c \in 0..127 /\ c \notin {10, 13, 61}
  BY <1>2, <1>3
<1>5. B!rstr[c] = CASE c \in 65..90 -> c - 65  [] c \in 97..122 -> c - 71
                    [] c \in 48..57 -> c + 4   [] c = 43 -> 62 [] c = 47 -> 63 [] OTHER -> 0
  BY <1>4 DEF B!rstr
<1>6. B!rstr[c] = v
  <2>1. CASE v < 26
    <3>1. c \in 65..90 /\ c - 65 = v
      BY <1>2, <1>3, <2>1
    <3>2. QED BY <1>5, <3>1
  <2>2. CASE v \in 26..51
    <3>1. c \in 97..122 /\ c \notin 65..90 /\ c \notin 48..57 /\ c # 43 /\ c # 47 /\ c - 71 = v
      BY <1>2, <1>3, <2>2
    <3>2. QED BY <1>5, <3>1
  <2>3. CASE v \in 52..61
    <3>1. c \in 48..57 /\ c \notin 65..90 /\ c \notin 97..122 /\ c # 43 /\ c # 47 /\ c + 4 = v
      BY <1>2, <1>3, <2>3
    <3>2. QED BY <1>5, <3>1
  <2>4. CASE v = 62
    <3>1. c = 43
      BY <1>2, <2>4
    <3>2. QED BY <1>5, <2>4, <3>1
  <2>5. CASE v = 63
    <3>1. c = 47
      BY <1>2, <2>5
    <3>2. QED BY <1>5, <2>5, <3>1
  <2>6. QED BY <1>3, <2>1, <2>2, <2>3, <2>4, <2>5
<1>7. DOMAIN B!rstr = 0..127
  BY DEF B!rstr
<1>8. B!Bits(c, stray) = v
  BY <1>4, <1>6, <1>7 DEF B!Bits
<1>9. QED BY <1>4, <1>8 DEF c, Byte

LEMMA SixesOfBytes ==
  ASSUME NEW x \in Byte, NEW y \in Byte, NEW z \in Byte
  PROVE  LET v == x \div 4
             w == (x % 4) * 16 + y \div 16
             u == (y % 16) * 4 + z \div 64
             t == z % 64
         IN  /\ v \in Six /\ w \in Six /\ u \in Six /\ t \in Six
             /\ v * 4 + w \div 16 = x
             /\ (w % 16) * 16 + u \div 4 = y
             /\ (u % 4) * 64 + t = z
BY SMT DEF Byte, Six

\* What is read from four characters.
FirstOf(q, stray) == B!Bits(q[1], stray) * 4 + B!Bits(q[2], stray) \div 16
SecondOf(q, stray) == (B!Bits(q[2], stray) % 16) * 16 + B!Bits(q[3], stray) \div 4
ThirdOf(q, stray) == (B!Bits(q[3], stray) % 4) * 64 + B!Bits(q[4], stray)

LEMMA QuartetIs ==
  ASSUME NEW s \in Bytes, NEW i \in Nat, i < Len(s), NEW stray
  PROVE  LET q == B!Quartet(s, i)
             remain == Len(s) - i
         IN  /\ q \in Bytes /\ Len(q) = 4 /\ q[1] \notin {10, 13}
             /\ q[3] = 61 <=> remain = 1
             /\ q[4] = 61 <=> remain <= 2
             /\ FirstOf(q, stray) = s[i + 1]
             /\ remain >= 2 => SecondOf(q, stray) = s[i + 2]
             /\ remain >= 3 => ThirdOf(q, stray) = s[i + 3]
<1> DEFINE remain == Len(s) - i
           b(k) == IF k < remain THEN s[i + k + 1] ELSE 0
           x == b(0)
           y == b(1)
           z == b(2)
           v == x \div 4
           w == (x % 4) * 16 + y \div 16
           u == (y % 16) * 4 + z \div 64
           t == z % 64
           e == IF remain = 1 THEN 61 ELSE B!bstr[u]
           d == IF remain <= 2 THEN 61 ELSE B!bstr[t]
           q == <<B!bstr[v], B!bstr[w], e, d>>
<1>1. B!Quartet(s, i) = q
  BY DEF B!Quartet, B!Equals
<1>2. remain \in Nat /\ remain >= 1 /\ Len(s) = i + remain
  BY BytesAt
<1> HIDE DEF remain
<1>3. ASSUME NEW k \in 0..2
      PROVE  b(k) \in Byte /\ (k < remain => b(k) = s[i + k + 1])
  <2>1. CASE k < remain
    <3>1. i + k + 1 \in 1..Len(s)
      BY <1>2, <2>1
    <3>2. QED BY <2>1, <3>1, BytesAt
  <2>2. CASE ~(k < remain)
    BY <2>2 DEF Byte
  <2>3. QED BY <2>1, <2>2
<1>4. /\ x \in Byte /\ y \in Byte /\ z \in Byte
      /\ x = s[i + 1]
      /\ remain >= 2 => y = s[i + 2]
      /\ remain >= 3 => z = s[i + 3]
  <2>1. 0 \in 0..2 /\ 1 \in 0..2 /\ 2 \in 0..2 /\ 0 < remain
        /\ (remain >= 2 => 1 < remain) /\ (remain >= 3 => 2 < remain)
        /\ i + 0 + 1 = i + 1 /\ i + 1 + 1 = i + 2 /\ i + 2 + 1 = i + 3
    BY <1>2
  <2> HIDE DEF b
  <2>2. /\ b(0) \in Byte /\ (0 < remain => b(0) = s[i + 0 + 1])
        /\ b(1) \in Byte /\ (1 < remain => b(1) = s[i + 1 + 1])
        /\ b(2) \in Byte /\ (2 < remain => b(2) = s[i + 2 + 1])
    BY <1>3, <2>1
  <2>3. QED BY <2>1, <2>2
<1> HIDE DEF x, y, z
<1>5. /\ v \in Six /\ w \in Six /\ u \in Six /\ t \in Six
      /\ v * 4 + w \div 16 = x
      /\ (w % 16) * 16 + u \div 4 = y
      /\ (u % 4) * 64 + t = z
  BY <1>4, SixesOfBytes
<1> HIDE DEF v, w, u, t
<1>6. \A k \in Six : /\ B!bstr[k] \in Byte /\ B!bstr[k] \notin {10, 13, 61}
                     /\ B!Bits(B!bstr[k], stray) = k
  BY CharOfSix
<1>7. /\ e \in Byte /\ d \in Byte
      /\ e = 61 <=> remain = 1
      /\ d = 61 <=> remain <= 2
      /\ remain >= 2 => e = B!bstr[u]
      /\ remain >= 3 => d = B!bstr[t]
  <2>1. 61 \in Byte
    BY DEF Byte
  <2>2. B!bstr[u] \in Byte /\ B!bstr[t] \in Byte /\ B!bstr[u] # 61 /\ B!bstr[t] # 61
    BY <1>5, <1>6
  <2>3. QED BY <1>2, <2>1, <2>2
<1> HIDE DEF e, d
<1>8. q \in Bytes /\ Len(q) = 4 /\ q[1] = B!bstr[v] /\ q[2] = B!bstr[w] /\ q[3] = e /\ q[4] = d
  <2>1. B!bstr[v] \in Byte /\ B!bstr[w] \in Byte
    BY <1>5, <1>6
  <2> DEFINE f == B!bstr[v]
             h == B!bstr[w]
  <2> HIDE DEF f, h
  <2>2. <<f, h, e, d>> \in Bytes /\ Len(<<f, h, e, d>>) = 4
    BY <1>7, <2>1 DEF f, h, Bytes
  <2>3. QED BY <2>2 DEF f, h
<1> HIDE DEF q
<1>9. q[1] \notin {10, 13} /\ B!Bits(q[1], stray) = v /\ B!Bits(q[2], stray) = w
      /\ (remain >= 2 => B!Bits(q[3], stray) = u) /\ (remain >= 3 => B!Bits(q[4], stray) = t)
  BY <1>5, <1>6, <1>7, <1>8
<1>10. /\ FirstOf(q, stray) = s[i + 1]
       /\ remain >= 2 => SecondOf(q, stray) = s[i + 2]
       /\ remain >= 3 => ThirdOf(q, stray) = s[i + 3]
  <2>1. FirstOf(q, stray) = s[i + 1]
    BY <1>4, <1>5, <1>9 DEF FirstOf
  <2>2. ASSUME remain >= 2 PROVE SecondOf(q, stray) = s[i + 2]
    BY <1>4, <1>5, <1>9, <2>2 DEF SecondOf
  <2>3. ASSUME remain >= 3 PROVE ThirdOf(q, stray) = s[i + 3]
    <3>1. remain >= 2
      BY <1>2, <2>3
    <3>2. QED BY <1>4, <1>5, <1>9, <2>3, <3>1 DEF ThirdOf
  <2>4. QED BY <2>1, <2>2, <2>3
<1>11. QED BY <1>1, <1>7, <1>8, <1>9, <1>10 DEF remain

-------------------------------------------------------------------------------
(* The pieces of an encoded text. *)

GroupCount(n) == (n + 2) \div 3

Breaks(add_crlf, g) == add_crlf /\ 4 * (g - 1) # 0 /\ (4 * (g - 1)) % 76 = 0

Break(add_crlf, g) == IF Breaks(add_crlf, g) THEN <<10>> ELSE <<>>

EncodePieces(s, add_crlf) ==
  [g \in 1..GroupCount(Len(s)) |-> Break(add_crlf, g) \o B!Quartet(s, 3 * (g - 1))]

LEMMA GroupCounts ==
  ASSUME NEW n \in Nat
  PROVE  /\ GroupCount(n) \in Nat /\ n <= 3 * GroupCount(n) /\ 3 * GroupCount(n) <= n + 2
         /\ GroupCount(n) = 0 <=> n = 0
BY DEF GroupCount

LEMMA OneByte ==
  ASSUME NEW c \in Byte
  PROVE  <<c>> \in Bytes /\ Len(<<c>>) = 1 /\ <<c>>[1] = c
BY DEF Bytes

LEMMA EncodePieceIs ==
  ASSUME NEW s \in Bytes, NEW add_crlf, NEW g \in 1..GroupCount(Len(s))
  PROVE  LET p == EncodePieces(s, add_crlf)[g]
             q == B!Quartet(s, 3 * (g - 1))
         IN  /\ p \in Bytes
             /\ Breaks(add_crlf, g) => /\ Len(p) = 5 /\ p[1] = 10
                                       /\ \A k \in 1..4 : p[1 + k] = q[k]
             /\ ~Breaks(add_crlf, g) => p = q
             /\ q \in Bytes /\ Len(q) = 4 /\ Break(add_crlf, g) \in Bytes
             /\ 3 * (g - 1) \in Nat /\ 3 * (g - 1) < Len(s)
<1> DEFINE p == EncodePieces(s, add_crlf)[g]
           i == 3 * (g - 1)
           q == B!Quartet(s, i)
           b == Break(add_crlf, g)
<1>1. i \in Nat /\ i < Len(s)
  <2>1. Len(s) \in Nat
    BY BytesAt
  <2> DEFINE n == Len(s)
             m == GroupCount(n)
  <2>2. m \in Nat /\ n <= 3 * m /\ 3 * m <= n + 2 /\ n \in Nat
    BY <2>1, GroupCounts
  <2> HIDE DEF n, m
  <2>3. g \in 1..m
    BY DEF n, m
  <2>4. i \in Nat /\ i < n
    BY <2>2, <2>3
  <2>5. QED BY <2>4 DEF n
<1>2. p = b \o q
  BY DEF EncodePieces
<1> HIDE DEF i
<1>3. q \in Bytes /\ Len(q) = 4
  BY <1>1, QuartetIs
<1>4. <<10>> \in Bytes /\ Len(<<10>>) = 1 /\ <<10>>[1] = 10 /\ <<>> \in Bytes
  <2>1. 10 \in Byte
    BY DEF Byte
  <2>2. QED BY <2>1, OneByte DEF Bytes
<1> HIDE DEF p, q
<1>5. CASE Breaks(add_crlf, g)
  <2> DEFINE a == <<10>>
  <2>1. b = a
    BY <1>5 DEF Break
  <2>2. a \in Bytes /\ Len(a) = 1 /\ a[1] = 10
    BY <1>4
  <2> HIDE DEF a, b
  <2>3. /\ p \in Bytes /\ Len(p) = Len(a) + Len(q)
        /\ \A j \in 1..Len(a) : p[j] = a[j]
        /\ \A j \in 1..Len(q) : p[Len(a) + j] = q[j]
    BY <1>2, <1>3, <2>1, <2>2, JoinFits
  <2>4. Len(p) = 5 /\ p[1] = 10 /\ \A k \in 1..4 : p[1 + k] = q[k]
    BY <1>3, <2>2, <2>3
  <2>5. QED BY <1>1, <1>3, <1>5, <2>1, <2>2, <2>3, <2>4 DEF b, p, q, i
<1>6. CASE ~Breaks(add_crlf, g)
  <2>1. b = <<>>
    BY <1>6 DEF Break
  <2>2. p = q
    <3>1. <<>> \o q = q
      BY <1>3, ConcatEmptySeq DEF Bytes
    <3>2. QED BY <1>2, <2>1, <3>1
  <2> HIDE DEF b
  <2>3. QED BY <1>1, <1>3, <1>4, <1>6, <2>1, <2>2 DEF b, p, q, i
<1>7. QED BY <1>5, <1>6

LEMMA EncodePiecesFit ==
  ASSUME NEW s \in Bytes, NEW add_crlf
  PROVE  ArePieces(EncodePieces(s, add_crlf), GroupCount(Len(s)))
BY EncodePieceIs DEF ArePieces

IsEncoding(f, s, add_crlf) ==
  f = [g \in 0..GroupCount(Len(s)) |->
         IF g = 0 THEN <<>> ELSE f[g - 1] \o Break(add_crlf, g) \o B!Quartet(s, 3 * (g - 1))]

LEMMA EncodingIsChain ==
  ASSUME NEW f, NEW s \in Bytes, NEW add_crlf, \A g \in 0..GroupCount(Len(s)) : f[g] \in Bytes
  PROVE  IsEncoding(f, s, add_crlf) <=> IsChain(f, EncodePieces(s, add_crlf), GroupCount(Len(s)))
<1> DEFINE m == GroupCount(Len(s))
           p == EncodePieces(s, add_crlf)
           one(g) == IF g = 0 THEN <<>> ELSE f[g - 1] \o Break(add_crlf, g) \o B!Quartet(s, 3 * (g - 1))
           two(g) == IF g = 0 THEN <<>> ELSE f[g - 1] \o p[g]
<1>1. ASSUME NEW g \in 0..m PROVE one(g) = two(g)
  <2>1. CASE g = 0
    BY <2>1
  <2>2. CASE g # 0
    <3>1. g \in 1..m /\ g - 1 \in 0..m
      <4>1. Len(s) \in Nat
        BY BytesAt
      <4>2. m \in Nat
        BY <4>1, GroupCounts
      <4> HIDE DEF m
      <4>3. QED BY <2>2, <4>2
    <3> DEFINE a == f[g - 1]
               b == Break(add_crlf, g)
               c == B!Quartet(s, 3 * (g - 1))
    <3>2. a \in Bytes /\ b \in Bytes /\ c \in Bytes
      BY <3>1, EncodePieceIs
    <3>3. p[g] = b \o c
      BY <3>1 DEF EncodePieces
    <3> HIDE DEF a, b, c, p
    <3>4. (a \o b) \o c = a \o (b \o c)
      BY <3>2, Regrouped, Zenon
    <3>5. (a \o b) \o c = a \o p[g]
      BY <3>3, <3>4
    <3>6. QED BY <2>2, <3>5 DEF a, b, c
  <2>3. QED BY <2>1, <2>2
<1> HIDE DEF one, two
<1>2. [g \in 0..m |-> one(g)] = [g \in 0..m |-> two(g)]
  BY <1>1
<1>3. QED BY <1>2 DEF one, two, IsEncoding, IsChain

LEMMA EncodingFits ==
  ASSUME NEW f, NEW s \in Bytes, NEW add_crlf, IsEncoding(f, s, add_crlf)
  PROVE  \A g \in 0..GroupCount(Len(s)) : f[g] \in Bytes
<1> DEFINE m == GroupCount(Len(s))
           N == {k \in Nat : k <= m => f[k] \in Bytes}
<1>1. m \in Nat
  <2>1. Len(s) \in Nat
    BY BytesAt
  <2>2. QED BY <2>1, GroupCounts
<1>2. \A g \in 0..m : f[g] = IF g = 0 THEN <<>>
                             ELSE f[g - 1] \o Break(add_crlf, g) \o B!Quartet(s, 3 * (g - 1))
  BY DEF IsEncoding
<1>3. \A g \in 1..m : Break(add_crlf, g) \in Bytes /\ B!Quartet(s, 3 * (g - 1)) \in Bytes
  BY EncodePieceIs
<1> HIDE DEF m
<1>4. 0 \in N
  <2>1. <<>> \in Bytes
    BY DEF Bytes
  <2>2. f[0] = <<>>
    BY <1>1, <1>2
  <2>3. QED BY <2>1, <2>2
<1>5. ASSUME NEW k \in N PROVE k + 1 \in N
  <2>1. k \in Nat
    OBVIOUS
  <2>2. SUFFICES ASSUME k + 1 <= m PROVE f[k + 1] \in Bytes
    BY <2>1
  <2>3. k + 1 \in 1..m /\ k + 1 \in 0..m /\ k + 1 # 0 /\ (k + 1) - 1 = k /\ f[k] \in Bytes
    BY <1>1, <2>1, <2>2
  <2> DEFINE b == Break(add_crlf, k + 1)
             c == B!Quartet(s, 3 * k)
  <2>4. b \in Bytes /\ c \in Bytes
    BY <1>3, <2>3
  <2>5. f[k + 1] = (f[k] \o b) \o c
    BY <1>2, <2>3
  <2> HIDE DEF b, c
  <2>6. QED BY <2>3, <2>4, <2>5, JoinsFit
<1> HIDE DEF N
<1>6. N = Nat
  <2>1. N \subseteq Nat
    BY DEF N
  <2>2. QED BY <1>4, <1>5, <2>1, AllNumbers
<1>7. QED BY <1>6 DEF N, m

LEMMA EncodeIs ==
  ASSUME NEW s \in Bytes, NEW add_crlf
  PROVE  \E f : /\ IsChain(f, EncodePieces(s, add_crlf), GroupCount(Len(s)))
                /\ B!encode(s, add_crlf) = f[GroupCount(Len(s))]
<1> DEFINE m == GroupCount(Len(s))
           out[g \in 0..((Len(s) + 2) \div 3)] ==
             IF g = 0 THEN <<>>
             ELSE LET o == 4 * (g - 1)
                      break == add_crlf /\ o # 0 /\ o % 76 = 0
                  IN  out[g - 1] \o (IF break THEN <<B!LineFeed>> ELSE <<>>) \o B!Quartet(s, 3 * (g - 1))
<1>1. B!encode(s, add_crlf) = out[m]
  BY DEF B!encode, GroupCount
<1>2. out = CHOOSE f : IsEncoding(f, s, add_crlf)
  BY DEF IsEncoding, GroupCount, Break, Breaks, B!LineFeed
<1> HIDE DEF out
<1>3. m \in Nat
  <2>1. Len(s) \in Nat
    BY BytesAt
  <2>2. QED BY <2>1, GroupCounts
<1>4. PICK f : IsChain(f, EncodePieces(s, add_crlf), m)
  BY <1>3, ChainExists
<1>5. \A g \in 0..m : f[g] \in Bytes
  <2>1. ArePieces(EncodePieces(s, add_crlf), m)
    BY EncodePiecesFit
  <2> HIDE DEF m
  <2>2. QED BY <1>3, <1>4, <2>1, ChainFits
<1>6. IsEncoding(f, s, add_crlf)
  BY <1>4, <1>5, EncodingIsChain
<1>7. IsEncoding(out, s, add_crlf)
  BY <1>2, <1>6
<1>8. IsChain(out, EncodePieces(s, add_crlf), m)
  BY <1>7, EncodingFits, EncodingIsChain
<1>9. QED BY <1>1, <1>8

-------------------------------------------------------------------------------
(* Decoding is a walk, and so is the search for what ends inside four       *)
(* characters.                                                              *)

BreakChar == {10, 13}

NextRead(text, i) == IF text[i + 1] \in BreakChar THEN i + 1 ELSE i + 4

DecodeWalk(text, stray) ==
  [stops |-> [i \in 0..(Len(text) + 3) |-> i >= Len(text)],
   ends  |-> [i \in 0..(Len(text) + 3) |-> <<>>],
   skips |-> [i \in 0..(Len(text) + 3) |-> text[i + 1] \in BreakChar],
   reads |-> [i \in 0..(Len(text) + 3) |-> B!Triple(text, i, stray)],
   next  |-> [i \in 0..(Len(text) + 3) |-> NextRead(text, i)]]

Decodes(f, text, stray) ==
  \A i \in 0..(Len(text) + 3) :
    /\ i >= Len(text) => f[i] = <<>>
    /\ i < Len(text) /\ text[i + 1] \in BreakChar => f[i] = f[i + 1]
    /\ i < Len(text) /\ text[i + 1] \notin BreakChar => f[i] = B!Triple(text, i, stray) \o f[i + 4]

LEMMA DecodeIs ==
  ASSUME NEW text, Len(text) \in Nat, NEW stray
  PROVE  \E f : B!decode(text, stray) = f[0] /\ Decodes(f, text, stray)
<1> DEFINE n == Len(text)
           top == n + 3
           w == DecodeWalk(text, stray)
           from[i \in 0..(Len(text) + 3)] ==
             IF i >= Len(text) THEN <<>>
             ELSE IF text[i + 1] \in {B!LineFeed, B!CarriageReturn} THEN from[i + 1]
             ELSE B!Triple(text, i, stray) \o from[i + 4]
           value(f, i) == IF i >= Len(text) THEN <<>>
                          ELSE IF text[i + 1] \in {B!LineFeed, B!CarriageReturn} THEN f[i + 1]
                          ELSE B!Triple(text, i, stray) \o f[i + 4]
           Is(f) == f = [i \in 0..top |-> value(f, i)]
<1>1. B!decode(text, stray) = from[0]
  BY DEF B!decode
<1>2. from = CHOOSE f : Is(f)
  OBVIOUS
<1> HIDE DEF from
<1>3. n \in Nat /\ top \in Nat /\ 0 \in Nat
  OBVIOUS
<1>4. \A i \in 0..top : /\ w.stops[i] = (i >= n) /\ w.ends[i] = <<>>
                        /\ w.skips[i] = (text[i + 1] \in BreakChar)
                        /\ w.reads[i] = B!Triple(text, i, stray)
                        /\ w.next[i] = NextRead(text, i)
  BY DEF DecodeWalk
<1>5. ASSUME NEW f, NEW i \in 0..top PROVE value(f, i) = Goes(w, f, i)
  <2>1. /\ w.stops[i] <=> i >= n
        /\ w.ends[i] = <<>>
        /\ w.skips[i] <=> text[i + 1] \in BreakChar
        /\ w.reads[i] = B!Triple(text, i, stray)
        /\ w.next[i] = NextRead(text, i)
    BY <1>4
  <2> HIDE DEF w
  <2>2. BreakChar = {B!LineFeed, B!CarriageReturn}
    BY DEF BreakChar, B!LineFeed, B!CarriageReturn
  <2>3. CASE i >= n
    BY <2>1, <2>3 DEF Goes
  <2>4. CASE ~(i >= n) /\ text[i + 1] \in BreakChar
    BY <2>1, <2>2, <2>4 DEF Goes, NextRead
  <2>5. CASE ~(i >= n) /\ text[i + 1] \notin BreakChar
    BY <2>1, <2>2, <2>5 DEF Goes, NextRead
  <2> HIDE DEF value
  <2>6. QED BY <2>3, <2>4, <2>5
<1> HIDE DEF value
<1>6. ASSUME NEW f PROVE Is(f) <=> IsWalk(f, w, 0, top)
  <2>1. [i \in 0..top |-> value(f, i)] = [i \in 0..top |-> Goes(w, f, i)]
    BY <1>5
  <2>2. QED BY <2>1 DEF IsWalk
<1>7. GoesOn(w, 0, top)
  <2>1. ASSUME NEW i \in 0..top PROVE w.stops[i] \/ w.next[i] \in (i + 1)..top
    <3>1. (w.stops[i] <=> i >= n) /\ w.next[i] = NextRead(text, i)
      BY <1>4
    <3>2. i < n => NextRead(text, i) \in (i + 1)..top
      BY DEF NextRead
    <3> HIDE DEF w
    <3>3. QED BY <1>3, <3>1, <3>2
  <2>2. QED BY <2>1 DEF GoesOn
<1> HIDE DEF w
<1>8. \E f : IsWalk(f, w, 0, top)
  <2> HIDE DEF top
  <2>1. QED BY <1>3, <1>7, WalkExists
<1>9. Is(from)
  BY <1>2, <1>6, <1>8
<1>10. \A i \in 0..top : from[i] = value(from, i)
  BY <1>9
<1>11. ASSUME NEW i \in 0..top
       PROVE  /\ i >= Len(text) => from[i] = <<>>
              /\ i < Len(text) /\ text[i + 1] \in BreakChar => from[i] = from[i + 1]
              /\ i < Len(text) /\ text[i + 1] \notin BreakChar =>
                   from[i] = B!Triple(text, i, stray) \o from[i + 4]
  <2>1. from[i] = value(from, i)
    BY <1>10
  <2>2. BreakChar = {B!LineFeed, B!CarriageReturn}
    BY DEF BreakChar, B!LineFeed, B!CarriageReturn
  <2>3. i < Len(text) => ~(i >= Len(text))
    OBVIOUS
  <2>4. i >= Len(text) => from[i] = <<>>
    BY <2>1 DEF value
  <2>5. i < Len(text) /\ text[i + 1] \in BreakChar => from[i] = from[i + 1]
    BY <2>1, <2>2, <2>3 DEF value
  <2>6. i < Len(text) /\ text[i + 1] \notin BreakChar => from[i] = B!Triple(text, i, stray) \o from[i + 4]
    BY <2>1, <2>2, <2>3 DEF value
  <2>7. QED BY <2>4, <2>5, <2>6
<1>12. Decodes(from, text, stray)
  BY <1>11 DEF Decodes
<1>13. QED BY <1>1, <1>12

PastEndWalk(text) ==
  [stops |-> [i \in 0..(Len(text) + 3) |-> i >= Len(text)],
   ends  |-> [i \in 0..(Len(text) + 3) |-> i > Len(text)],
   skips |-> [i \in 0..(Len(text) + 3) |-> TRUE],
   reads |-> [i \in 0..(Len(text) + 3) |-> <<>>],
   next  |-> [i \in 0..(Len(text) + 3) |-> NextRead(text, i)]]

FindsEnd(f, text) ==
  \A i \in 0..(Len(text) + 3) :
    /\ i = Len(text) => ~f[i]
    /\ i < Len(text) => f[i] = f[NextRead(text, i)]

LEMMA PastEndIs ==
  ASSUME NEW text, Len(text) \in Nat
  PROVE  \E f : B!ReadsPastEnd(text) = f[0] /\ FindsEnd(f, text)
<1> DEFINE n == Len(text)
           top == n + 3
           w == PastEndWalk(text)
           from[i \in 0..(Len(text) + 3)] ==
             IF i >= Len(text) THEN i > Len(text)
             ELSE IF text[i + 1] \in {B!LineFeed, B!CarriageReturn} THEN from[i + 1]
             ELSE from[i + 4]
           value(f, i) == IF i >= Len(text) THEN i > Len(text)
                          ELSE IF text[i + 1] \in {B!LineFeed, B!CarriageReturn} THEN f[i + 1]
                          ELSE f[i + 4]
           Is(f) == f = [i \in 0..top |-> value(f, i)]
<1>1. B!ReadsPastEnd(text) = from[0]
  BY DEF B!ReadsPastEnd
<1>2. from = CHOOSE f : Is(f)
  OBVIOUS
<1> HIDE DEF from
<1>3. n \in Nat /\ top \in Nat /\ 0 \in Nat
  OBVIOUS
<1>4. \A i \in 0..top : /\ w.stops[i] = (i >= n)
                        /\ w.ends[i] = (i > n)
                        /\ w.skips[i] = TRUE
                        /\ w.next[i] = NextRead(text, i)
  BY DEF PastEndWalk
<1>5. ASSUME NEW f, NEW i \in 0..top PROVE value(f, i) = Goes(w, f, i)
  <2>1. /\ w.stops[i] <=> i >= n
        /\ w.ends[i] = (i > n)
        /\ w.skips[i] <=> TRUE
        /\ w.next[i] = NextRead(text, i)
    BY <1>4
  <2> HIDE DEF w
  <2>2. BreakChar = {B!LineFeed, B!CarriageReturn}
    BY DEF BreakChar, B!LineFeed, B!CarriageReturn
  <2>3. CASE i >= n
    <3>1. Goes(w, f, i) = w.ends[i]
      BY <2>1, <2>3, Zenon DEF Goes
    <3>2. value(f, i) = (i > n)
      BY <2>3, Zenon
    <3>3. QED BY <2>1, <3>1, <3>2, Zenon
  <2>5. CASE i < n
    <3>1. ~(i = n) /\ ~(i > n) /\ ~(i >= n)
      BY <2>5
    <3>2. Goes(w, f, i) = f[NextRead(text, i)]
      BY <2>1, <3>1 DEF Goes
    <3>3. value(f, i) = f[NextRead(text, i)]
      BY <2>2, <3>1 DEF NextRead
    <3>4. QED BY <3>2, <3>3
  <2> HIDE DEF value
  <2>6. i >= n \/ i < n
    BY <1>3
  <2>7. QED BY <2>3, <2>5, <2>6
<1>6. ASSUME NEW f PROVE Is(f) <=> IsWalk(f, w, 0, top)
  <2> HIDE DEF value
  <2>1. [i \in 0..top |-> value(f, i)] = [i \in 0..top |-> Goes(w, f, i)]
    BY <1>5
  <2>2. QED BY <2>1 DEF IsWalk
<1>7. GoesOn(w, 0, top)
  <2>1. ASSUME NEW i \in 0..top PROVE w.stops[i] \/ w.next[i] \in (i + 1)..top
    <3>1. (w.stops[i] <=> i >= n) /\ w.next[i] = NextRead(text, i)
      BY <1>4
    <3>2. i < n => NextRead(text, i) \in (i + 1)..top
      BY DEF NextRead
    <3> HIDE DEF w
    <3>3. QED BY <1>3, <3>1, <3>2
  <2>2. QED BY <2>1 DEF GoesOn
<1> HIDE DEF w
<1>8. \E f : IsWalk(f, w, 0, top)
  <2> HIDE DEF top
  <2>1. QED BY <1>3, <1>7, WalkExists
<1> HIDE DEF Is
<1>9. Is(from)
  BY <1>2, <1>6, <1>8
<1>10. \A i \in 0..top : from[i] = value(from, i)
  <2> HIDE DEF value
  <2>1. QED BY <1>9 DEF Is
<1>11. ASSUME NEW i \in 0..top
       PROVE  /\ i = Len(text) => ~from[i]
              /\ i < Len(text) => from[i] = from[NextRead(text, i)]
  <2>1. from[i] = value(from, i)
    BY <1>10
  <2>2. BreakChar = {B!LineFeed, B!CarriageReturn}
    BY DEF BreakChar, B!LineFeed, B!CarriageReturn
  <2>3. i < n => ~(i = n) /\ ~(i > n)
    OBVIOUS
  <2>4. i < Len(text) => from[i] = from[NextRead(text, i)]
    BY <2>1, <2>2, <2>3 DEF NextRead
  <2>5. ASSUME i = Len(text) PROVE ~from[i]
    <3>1. i >= Len(text) /\ ~(i > Len(text))
      BY <2>5
    <3>2. from[i] = (i > Len(text))
      BY <2>1, <3>1, Zenon
    <3>3. QED BY <3>1, <3>2, Zenon
  <2>6. QED BY <2>4, <2>5
<1>12. FindsEnd(from, text)
  BY <1>11 DEF FindsEnd
<1>13. QED BY <1>1, <1>12

-------------------------------------------------------------------------------
(* What four characters give back. *)

Head1(s, i) == IF i < Len(s) THEN <<s[i + 1]>> ELSE <<>>

LEMMA DropsGoOn ==
  ASSUME NEW s \in Bytes, NEW i \in Nat
  PROVE  /\ Drop(s, i) = Head1(s, i) \o Drop(s, i + 1)
         /\ Head1(s, i) \in Bytes /\ Drop(s, i) \in Bytes /\ Drop(s, i + 1) \in Bytes
         /\ i >= Len(s) => Drop(s, i) = <<>>
<1>1. s \in Seq(Byte) /\ Len(s) \in Nat /\ \A j \in 1..Len(s) : s[j] \in Byte
  BY BytesAt DEF Bytes
<1>2. ASSUME NEW j \in Nat, j >= Len(s) PROVE Drop(s, j) = <<>>
  <2>1. j + 1 > Len(s)
    BY <1>1, <1>2
  <2>2. QED BY <1>1, <2>1, SubSeqEmpty DEF Drop
<1>3. <<>> \in Bytes
  BY DEF Bytes
<1>4. CASE i < Len(s)
  <2> DEFINE a == Drop(s, i)
             c == s[i + 1]
  <2>1. i \in 0..Len(s) /\ i + 1 \in 0..Len(s) /\ i + 1 \in 1..Len(s)
    BY <1>1, <1>4
  <2>2. a \in Seq(Byte) /\ Len(a) = Len(s) - i /\ \A k \in 1..(Len(s) - i) : a[k] = s[i + k]
    BY <1>1, <2>1, DropFits
  <2>3. Drop(s, i + 1) \in Bytes
    BY <1>1, <2>1, DropFits DEF Bytes
  <2>4. c \in Byte
    BY <1>1, <2>1
  <2>5. 1 \in 0..(Len(s) - i) /\ 1 \in 0..Len(a) /\ 1 \in 1..(Len(s) - i)
    BY <1>1, <1>4, <2>2
  <2>6. Drop(a, 1) = Drop(s, i + 1)
    BY <1>1, <2>1, <2>5, DropTwice
  <2> HIDE DEF a
  <2>7. SubSeq(a, 1, 1) \o Drop(a, 1) = a
    BY <2>2, <2>5, CutAndJoined
  <2>8. SubSeq(a, 1, 1) = <<c>>
    <3> DEFINE b == SubSeq(a, 1, 1)
    <3>1. b \in Bytes /\ Len(b) = 1 /\ \A k \in 1..1 : b[k] = a[k]
      BY <2>2, <2>5, DropFits DEF Bytes
    <3>2. a[1] = c
      BY <2>2, <2>5
    <3> HIDE DEF b, c
    <3>3. <<c>> \in Bytes /\ Len(<<c>>) = 1 /\ <<c>>[1] = c
      BY <2>4, OneByte
    <3>4. \A k \in 1..Len(b) : b[k] = <<c>>[k]
      BY <3>1, <3>2, <3>3
    <3>5. b = <<c>>
      BY <3>1, <3>3, <3>4, SameBytes
    <3>6. QED BY <3>5 DEF b
  <2>9. Head1(s, i) = <<c>> /\ <<c>> \in Bytes
    BY <1>4, <2>4, OneByte DEF Head1
  <2>10. a = Head1(s, i) \o Drop(s, i + 1)
    BY <2>6, <2>7, <2>8, <2>9
  <2>11. QED BY <1>1, <1>4, <2>2, <2>3, <2>9, <2>10 DEF a, Bytes
<1>5. CASE ~(i < Len(s))
  <2>1. i >= Len(s) /\ i + 1 \in Nat /\ i + 1 >= Len(s)
    BY <1>1, <1>5
  <2>2. Drop(s, i) = <<>> /\ Drop(s, i + 1) = <<>> /\ Head1(s, i) = <<>>
    BY <1>2, <1>5, <2>1 DEF Head1
  <2>3. <<>> \o <<>> = <<>>
    BY <1>3, ConcatEmptySeq DEF Bytes
  <2>4. QED BY <1>3, <2>2, <2>3
<1>6. QED BY <1>4, <1>5

LEMMA ThreeRegrouped ==
  ASSUME NEW x \in Bytes, NEW y \in Bytes, NEW z \in Bytes, NEW d \in Bytes
  PROVE  Cat(Cat(Cat(x, y), z), d) = Cat(x, Cat(y, Cat(z, d)))
<1>1. Cat(x, y) \in Bytes /\ Cat(z, d) \in Bytes
  BY CatRegrouped
<1>2. Cat(Cat(Cat(x, y), z), d) = Cat(Cat(x, y), Cat(z, d))
  BY <1>1, CatRegrouped
<1>3. Cat(Cat(x, y), Cat(z, d)) = Cat(x, Cat(y, Cat(z, d)))
  BY <1>1, CatRegrouped
<1>4. QED BY <1>2, <1>3

LEMMA TripleIs ==
  ASSUME NEW s \in Bytes, NEW i \in Nat, i < Len(s), NEW stray, NEW text, Len(text) \in Nat,
         NEW at \in Nat, at + 4 <= Len(text),
         \A k \in 1..4 : text[at + k] = B!Quartet(s, i)[k]
  PROVE  B!Triple(text, at, stray) \o Drop(s, i + 3) = Drop(s, i)
<1> DEFINE q == B!Quartet(s, i)
           n == Len(s)
           t == B!Triple(text, at, stray)
<1>1. n \in Nat
  BY BytesAt
<1>2. /\ q[3] = 61 <=> n - i = 1
      /\ q[4] = 61 <=> n - i <= 2
      /\ FirstOf(q, stray) = s[i + 1]
      /\ n - i >= 2 => SecondOf(q, stray) = s[i + 2]
      /\ n - i >= 3 => ThirdOf(q, stray) = s[i + 3]
  BY QuartetIs
<1> HIDE DEF q
<1>3. /\ B!At(text, at + 0, stray) = q[1] /\ B!At(text, at + 1, stray) = q[2]
      /\ B!At(text, at + 2, stray) = q[3] /\ B!At(text, at + 3, stray) = q[4]
  <2>1. \A k \in 1..4 : text[at + k] = q[k]
    BY DEF q
  <2>2. ASSUME NEW k \in 0..3 PROVE B!At(text, at + k, stray) = q[k + 1]
    <3>1. at + k < Len(text) /\ (at + k) + 1 = at + (k + 1) /\ k + 1 \in 1..4
      OBVIOUS
    <3>2. B!At(text, at + k, stray) = text[(at + k) + 1]
      BY <3>1 DEF B!At
    <3>3. QED BY <2>1, <3>1, <3>2
  <2>3. 0 \in 0..3 /\ 1 \in 0..3 /\ 2 \in 0..3 /\ 3 \in 0..3
        /\ 0 + 1 = 1 /\ 1 + 1 = 2 /\ 2 + 1 = 3 /\ 3 + 1 = 4
    OBVIOUS
  <2>4. /\ B!At(text, at + 0, stray) = q[0 + 1] /\ B!At(text, at + 1, stray) = q[1 + 1]
        /\ B!At(text, at + 2, stray) = q[2 + 1] /\ B!At(text, at + 3, stray) = q[3 + 1]
    BY <2>2, <2>3
  <2>5. QED BY <2>3, <2>4
<1>4. t = (<<FirstOf(q, stray)>> \o (IF q[3] = 61 THEN <<>> ELSE <<SecondOf(q, stray)>>))
            \o (IF q[4] = 61 THEN <<>> ELSE <<ThirdOf(q, stray)>>)
  BY <1>3, Zenon DEF B!Triple, FirstOf, SecondOf, ThirdOf, B!Equals
<1> HIDE DEF t
<1> DEFINE x == Head1(s, i)
           y == Head1(s, i + 1)
           z == Head1(s, i + 2)
           d == Drop(s, i + 3)
<1>5. i < n /\ i + 1 \in Nat /\ i + 2 \in Nat /\ (i + 1) + 1 = i + 2 /\ (i + 2) + 1 = i + 3
  BY <1>1
<1>6. <<FirstOf(q, stray)>> = x
  BY <1>2, <1>5 DEF Head1
<1>7. (IF q[3] = 61 THEN <<>> ELSE <<SecondOf(q, stray)>>) = y
  <2>1. CASE n - i = 1
    <3>1. ~(i + 1 < n)
      BY <1>1, <2>1
    <3>2. y = <<>>
      BY <3>1 DEF Head1
    <3>3. QED BY <1>2, <2>1, <3>2
  <2>2. CASE n - i # 1
    <3>1. i + 1 < n /\ n - i >= 2
      BY <1>1, <1>5, <2>2
    <3>2. y = <<s[i + 2]>>
      BY <1>5, <3>1 DEF Head1
    <3>3. QED BY <1>2, <2>2, <3>1, <3>2
  <2>3. QED BY <2>1, <2>2
<1>8. (IF q[4] = 61 THEN <<>> ELSE <<ThirdOf(q, stray)>>) = z
  <2>1. CASE n - i <= 2
    <3>1. ~(i + 2 < n)
      BY <1>1, <2>1
    <3>2. z = <<>>
      BY <3>1 DEF Head1
    <3>3. QED BY <1>2, <2>1, <3>2
  <2>2. CASE ~(n - i <= 2)
    <3>1. i + 2 < n /\ n - i >= 3
      BY <1>1, <1>5, <2>2
    <3>2. z = <<s[i + 3]>>
      BY <1>5, <3>1 DEF Head1
    <3>3. QED BY <1>2, <2>2, <3>1, <3>2
  <2>3. QED BY <2>1, <2>2
<1>9. /\ x \in Bytes /\ y \in Bytes /\ z \in Bytes /\ d \in Bytes
      /\ Drop(s, i) = x \o Drop(s, i + 1)
      /\ Drop(s, i + 1) = y \o Drop(s, i + 2)
      /\ Drop(s, i + 2) = z \o d
  <2>1. /\ Drop(s, i + 1) = y \o Drop(s, (i + 1) + 1) /\ y \in Bytes
    BY <1>5, DropsGoOn
  <2>2. /\ Drop(s, i + 2) = z \o Drop(s, (i + 2) + 1) /\ z \in Bytes /\ Drop(s, (i + 2) + 1) \in Bytes
    BY <1>5, DropsGoOn
  <2>3. Drop(s, i) = x \o Drop(s, i + 1) /\ x \in Bytes
    BY DropsGoOn
  <2>4. QED BY <1>5, <2>1, <2>2, <2>3
<1>10. t = (x \o y) \o z
  BY <1>4, <1>6, <1>7, <1>8
<1> HIDE DEF x, y, z, d
<1>11. ((x \o y) \o z) \o d = x \o (y \o (z \o d))
  <2>1. x \in Bytes /\ y \in Bytes /\ z \in Bytes /\ d \in Bytes
    BY <1>9
  <2>2. Cat(Cat(Cat(x, y), z), d) = Cat(x, Cat(y, Cat(z, d)))
    BY <2>1, ThreeRegrouped
  <2>3. QED BY <2>2 DEF Cat
<1>12. t \o d = Drop(s, i)
  BY <1>9, <1>10, <1>11
<1>13. QED BY <1>12 DEF t, d

-------------------------------------------------------------------------------
(* The whole text. *)

\* The four characters of the bytes from i stand in the text behind at, or
\* behind a line feed there, and z is where they end.
GroupFound(s, add_crlf, text, i, at, z) ==
  LET q == B!Quartet(s, i)
  IN  /\ text \in Bytes /\ Len(text) \in Nat /\ at \in Nat /\ z <= Len(text)
      /\ i \in Nat /\ i < Len(s) /\ q \in Bytes /\ Len(q) = 4 /\ q[1] \notin {10, 13}
      /\ \/ z = at + 4 /\ \A k \in 1..4 : text[at + k] = q[k]
         \/ z = at + 5 /\ text[at + 1] = 10 /\ \A k \in 1..4 : text[(at + 1) + k] = q[k]
      /\ ~add_crlf => z = at + 4

LEMMA GroupStands ==
  ASSUME NEW s \in Bytes, NEW add_crlf, NEW m, m = GroupCount(Len(s)),
         NEW f, IsChain(f, EncodePieces(s, add_crlf), m), NEW g \in 1..m
  PROVE  GroupFound(s, add_crlf, f[m], 3 * (g - 1), Len(f[g - 1]), Len(f[g]))
<1> DEFINE p == EncodePieces(s, add_crlf)
           b == p[g]
           text == f[m]
           at == Len(f[g - 1])
           i == 3 * (g - 1)
           q == B!Quartet(s, i)
<1>1. m \in Nat
  <2>1. Len(s) \in Nat
    BY BytesAt
  <2>2. QED BY <2>1, GroupCounts
<1>2. ArePieces(p, m) /\ IsChain(f, p, m)
  BY EncodePiecesFit
<1>3. /\ b \in Bytes
      /\ Breaks(add_crlf, g) => /\ Len(b) = 5 /\ b[1] = 10
                                /\ \A k \in 1..4 : b[1 + k] = q[k]
      /\ ~Breaks(add_crlf, g) => b = q
      /\ q \in Bytes /\ Len(q) = 4 /\ i \in Nat /\ i < Len(s)
  BY EncodePieceIs
<1>4. q[1] \notin {10, 13}
  <2>1. i \in Nat /\ i < Len(s)
    BY <1>3
  <2> HIDE DEF i
  <2>2. QED BY <2>1, QuartetIs
<1> HIDE DEF p
<1>5. /\ f[g - 1] \in Bytes /\ text \in Bytes
      /\ Len(f[g]) = at + Len(b) /\ Len(f[g]) <= Len(text)
      /\ \A j \in 1..Len(b) : text[at + j] = b[j]
  <2>1. Stands(f[m], f[g - 1], p[g], f[g])
    BY <1>1, <1>2, PieceStands
  <2>2. QED BY <2>1 DEF Stands
<1>6. at \in Nat /\ Len(text) \in Nat
  BY <1>5, BytesAt
<1> HIDE DEF b, text, at, q, i
<1>7. CASE Breaks(add_crlf, g)
  <2>1. Len(b) = 5 /\ b[1] = 10 /\ \A k \in 1..4 : b[1 + k] = q[k]
    BY <1>3, <1>7
  <2>2. \A j \in 1..5 : text[at + j] = b[j]
    BY <1>5, <2>1
  <2>3. text[at + 1] = 10
    BY <2>1, <2>2
  <2>4. ASSUME NEW k \in 1..4 PROVE text[(at + 1) + k] = q[k]
    <3>1. 1 + k \in 1..5 /\ (at + 1) + k = at + (1 + k)
      BY <1>6
    <3>2. QED BY <2>1, <2>2, <3>1
  <2>5. add_crlf
    BY <1>7 DEF Breaks
  <2>6. QED BY <1>3, <1>4, <1>5, <1>6, <2>1, <2>3, <2>4, <2>5 DEF text, at, q, i, GroupFound
<1>8. CASE ~Breaks(add_crlf, g)
  <2>1. Len(b) = 4 /\ \A k \in 1..4 : text[at + k] = q[k]
    BY <1>3, <1>5, <1>8
  <2>2. QED BY <1>3, <1>4, <1>5, <1>6, <2>1 DEF text, at, q, i, GroupFound
<1>9. QED BY <1>7, <1>8

LEMMA DecodeUndoesEncode ==
  ASSUME NEW s \in Bytes, NEW add_crlf, NEW stray
  PROVE  /\ B!decode(B!encode(s, add_crlf), stray) = s
         /\ ~B!ReadsPastEnd(B!encode(s, add_crlf))
<1> DEFINE n == Len(s)
           m == GroupCount(n)
           p == EncodePieces(s, add_crlf)
<1>1. n \in Nat /\ m \in Nat /\ n <= 3 * m
  <2>1. n \in Nat
    BY BytesAt
  <2>2. QED BY <2>1, GroupCounts
<1>2. PICK f : IsChain(f, p, m) /\ B!encode(s, add_crlf) = f[m]
  BY EncodeIs
<1> DEFINE text == f[m]
<1>3. \A g \in 0..m : f[g] \in Bytes /\ Len(f[g]) \in Nat
  <2>1. ArePieces(p, m)
    BY EncodePiecesFit
  <2> HIDE DEF p, m
  <2>2. \A g \in 0..m : f[g] \in Bytes
    BY <1>1, <1>2, <2>1, ChainFits
  <2>3. QED BY <2>2, BytesAt
<1>4. f[0] = <<>>
  <2> HIDE DEF p, m
  <2>1. QED BY <1>1, <1>2, ChainGoesOn
<1>5 \A g \in 1..m : GroupFound(s, add_crlf, f[m], 3 * (g - 1), Len(f[g - 1]), Len(f[g]))
  BY <1>2, GroupStands
<1> HIDE DEF p
<1>6. m \in 0..m /\ text \in Bytes /\ Len(text) \in Nat
  BY <1>1, <1>3
<1> HIDE DEF text
<1>7. PICK from : B!decode(text, stray) = from[0] /\ Decodes(from, text, stray)
  BY <1>6, DecodeIs
<1>8. PICK past : B!ReadsPastEnd(text) = past[0] /\ FindsEnd(past, text)
  BY <1>6, PastEndIs
<1> DEFINE S == {g \in 0..m : from[Len(f[g])] = Drop(s, 3 * g) /\ ~past[Len(f[g])]}
<1>9. m \in S
  <2>1. Len(text) \in 0..(Len(text) + 3) /\ Len(text) >= Len(text)
    BY <1>6
  <2>2. from[Len(text)] = <<>> /\ ~past[Len(text)]
    BY <1>7, <1>8, <2>1 DEF Decodes, FindsEnd
  <2>3. 3 * m \in Nat /\ 3 * m >= Len(s)
    BY <1>1
  <2>4. Drop(s, 3 * m) = <<>>
    BY <2>3, DropsGoOn
  <2>5. QED BY <1>6, <2>2, <2>4 DEF text
<1>10. ASSUME NEW g \in 1..m, g \in S PROVE g - 1 \in S
  <2> DEFINE at == Len(f[g - 1])
             i == 3 * (g - 1)
             q == B!Quartet(s, i)
             z == Len(f[g])
  <2>1. /\ at \in Nat /\ z <= Len(text) /\ Len(text) \in Nat
        /\ i \in Nat /\ i < Len(s) /\ q[1] \notin {10, 13}
        /\ \/ z = at + 4 /\ \A k \in 1..4 : text[at + k] = q[k]
           \/ z = at + 5 /\ text[at + 1] = 10 /\ \A k \in 1..4 : text[(at + 1) + k] = q[k]
    BY <1>5 DEF GroupFound, text
  <2>2. from[z] = Drop(s, i + 3) /\ ~past[z] /\ g - 1 \in 0..m
    <3>1. 3 * g = i + 3 /\ g - 1 \in 0..m
      BY <1>1
    <3>2. QED BY <1>10, <3>1
  <2> HIDE DEF at, z, i, m, S
  <2>3. ASSUME NEW a \in Nat, a + 4 = z, \A k \in 1..4 : text[a + k] = q[k]
        PROVE  from[a] = Drop(s, i) /\ ~past[a]
    <3>1. a < Len(text) /\ a \in 0..(Len(text) + 3) /\ a + 4 <= Len(text)
      BY <2>1, <2>3
    <3>2. text[a + 1] \notin BreakChar
      BY <2>1, <2>3 DEF BreakChar
    <3>3. from[a] = B!Triple(text, a, stray) \o Drop(s, i + 3)
      BY <1>7, <2>2, <2>3, <3>1, <3>2 DEF Decodes
    <3>4. B!Triple(text, a, stray) \o Drop(s, i + 3) = Drop(s, i)
      <4>1. /\ i \in Nat /\ i < Len(s) /\ Len(text) \in Nat /\ a + 4 <= Len(text)
            /\ \A k \in 1..4 : text[a + k] = B!Quartet(s, i)[k]
        BY <2>1, <2>3, <3>1
      <4> HIDE DEF q
      <4>2. QED BY <4>1, TripleIs
    <3>5. ~past[a]
      <4>1. NextRead(text, a) = z
        BY <2>3, <3>2 DEF NextRead
      <4>2. past[a] = past[z]
        BY <1>8, <3>1, <4>1 DEF FindsEnd
      <4>3. QED BY <2>2, <4>2
    <3>6. QED BY <3>3, <3>4, <3>5
  <2>4. from[at] = Drop(s, i) /\ ~past[at]
    <3>1. CASE z = at + 4 /\ \A k \in 1..4 : text[at + k] = q[k]
      BY <2>1, <2>3, <3>1
    <3>2. CASE z = at + 5 /\ text[at + 1] = 10 /\ \A k \in 1..4 : text[(at + 1) + k] = q[k]
      <4>1. at + 1 \in Nat /\ (at + 1) + 4 = z /\ at < Len(text) /\ at \in 0..(Len(text) + 3)
        BY <2>1, <3>2
      <4>2. from[at + 1] = Drop(s, i) /\ ~past[at + 1]
        BY <2>3, <3>2, <4>1
      <4>3. text[at + 1] \in BreakChar
        BY <3>2 DEF BreakChar
      <4>4. NextRead(text, at) = at + 1
        BY <4>3 DEF NextRead
      <4>5. from[at] = from[at + 1] /\ past[at] = past[at + 1]
        BY <1>7, <1>8, <4>1, <4>3, <4>4 DEF Decodes, FindsEnd
      <4>6. QED BY <4>2, <4>5
    <3>3. QED BY <2>1, <3>1, <3>2
  <2>5. QED BY <2>2, <2>4 DEF at, i, S
<1> HIDE DEF S
<1>11. 0 \in S
  <2> DEFINE N == {d \in Nat : d <= m => m - d \in S}
  <2>1. 0 \in N
    BY <1>1, <1>9
  <2>2. ASSUME NEW d \in N PROVE d + 1 \in N
    <3>1. d \in Nat
      OBVIOUS
    <3>2. SUFFICES ASSUME d + 1 <= m PROVE m - (d + 1) \in S
      BY <3>1
    <3> HIDE DEF m
    <3>3. m - d \in 1..m /\ d <= m /\ (m - d) - 1 = m - (d + 1)
      BY <1>1, <3>1, <3>2
    <3>4. m - d \in S
      BY <3>3
    <3>5. QED BY <1>10, <3>3, <3>4
  <2> HIDE DEF N
  <2>3. N = Nat
    <3>1. N \subseteq Nat
      BY DEF N
    <3>2. QED BY <2>1, <2>2, <3>1, AllNumbers
  <2> HIDE DEF m
  <2>4. m \in N /\ m - m = 0 /\ m <= m
    BY <1>1, <2>3
  <2>5. m - m \in S
    BY <2>4 DEF N
  <2>6. QED BY <2>4, <2>5
<1>12. from[0] = s /\ ~past[0]
  <2>1. from[Len(f[0])] = Drop(s, 3 * 0) /\ ~past[Len(f[0])]
    BY <1>11 DEF S
  <2>2. Len(f[0]) = 0 /\ 3 * 0 = 0
    BY <1>4, EmptySeq
  <2>3. Drop(s, 0) = s
    BY SubSeqFull DEF Drop, Bytes
  <2>4. QED BY <2>1, <2>2, <2>3
<1>13. QED BY <1>2, <1>7, <1>8, <1>12 DEF text

LEMMA LengthIsDecoded ==
  ASSUME NEW s \in Bytes
  PROVE  B!decode_length(B!encode(s, FALSE)) = Len(s)
<1> DEFINE n == Len(s)
           m == GroupCount(n)
           p == EncodePieces(s, FALSE)
<1>1. n \in Nat /\ m \in Nat /\ n <= 3 * m /\ 3 * m <= n + 2 /\ (m = 0 <=> n = 0)
  <2>1. n \in Nat
    BY BytesAt
  <2>2. QED BY <2>1, GroupCounts
<1>2. PICK f : IsChain(f, p, m) /\ B!encode(s, FALSE) = f[m]
  BY EncodeIs
<1>3 \A g \in 1..m : GroupFound(s, FALSE, f[m], 3 * (g - 1), Len(f[g - 1]), Len(f[g]))
  BY <1>2, GroupStands
<1>4. f[0] = <<>>
  <2> HIDE DEF p, m
  <2>1. QED BY <1>1, <1>2, ChainGoesOn
<1> HIDE DEF p
<1> DEFINE text == f[m]
           N == {k \in Nat : k <= m => Len(f[k]) = 4 * k}
<1>5. 0 \in N
  BY <1>4, EmptySeq
<1>6. ASSUME NEW k \in N PROVE k + 1 \in N
  <2> HIDE DEF m
  <2>1. k \in Nat
    OBVIOUS
  <2>2. SUFFICES ASSUME k + 1 <= m PROVE Len(f[k + 1]) = 4 * (k + 1)
    BY <2>1
  <2>3. k + 1 \in 1..m /\ (k + 1) - 1 = k /\ Len(f[k]) = 4 * k
    BY <1>1, <2>1, <2>2
  <2>4. Len(f[k + 1]) = Len(f[(k + 1) - 1]) + 4
    BY <1>3, <2>3 DEF GroupFound
  <2>5. Len(f[k + 1]) = 4 * k + 4
    BY <2>3, <2>4
  <2>6. QED BY <2>1, <2>5
<1> HIDE DEF N
<1>7. N = Nat
  <2>1. N \subseteq Nat
    BY DEF N
  <2>2. QED BY <1>5, <1>6, <2>1, AllNumbers
<1>8. \A k \in Nat : k <= m => Len(f[k]) = 4 * k
  BY <1>7 DEF N
<1>9. CASE m = 0
  <2>1. Len(text) = 0 /\ n = 0
    BY <1>1, <1>4, <1>9, EmptySeq
  <2> HIDE DEF text
  <2>2. B!decode_length(text) = 0
    BY <2>1 DEF B!decode_length
  <2>3. QED BY <1>2, <2>1, <2>2 DEF text
<1>10. CASE m # 0
  <2> DEFINE i == 3 * (m - 1)
             at == Len(f[m - 1])
             q == B!Quartet(s, i)
             l == Len(text)
  <2>1. m \in 1..m /\ m - 1 \in Nat /\ m - 1 <= m /\ m <= m
    <3> HIDE DEF m
    <3>1. QED BY <1>1, <1>10
  <2>2. at = 4 * (m - 1) /\ l = 4 * m
    BY <1>1, <1>8, <2>1
  <2>3. /\ i \in Nat /\ i < n /\ l = at + 4
        /\ \A k \in 1..4 : text[at + k] = q[k]
    <3>1. /\ i \in Nat /\ i < n
          /\ \/ l = at + 4 /\ \A k \in 1..4 : text[at + k] = q[k]
             \/ l = at + 5 /\ text[at + 1] = 10 /\ \A k \in 1..4 : text[(at + 1) + k] = q[k]
          /\ l = at + 4
      BY <1>3, <2>1 DEF GroupFound
    <3> HIDE DEF i, at, l, q, text, n, m
    <3>2. l # at + 5
      BY <2>1, <2>2, <3>1
    <3>3. QED BY <3>1, <3>2
  <2>4. /\ q[3] = 61 <=> n - i = 1
        /\ q[4] = 61 <=> n - i <= 2
    <3>1. i \in Nat /\ i < n
      BY <2>3
    <3> HIDE DEF i
    <3>2. QED BY <3>1, QuartetIs
  <2> HIDE DEF at, q, text
  <2>5. text[l - 1] = q[3] /\ text[l] = q[4]
    <3>1. text[at + 3] = q[3] /\ text[at + 4] = q[4]
      BY <2>3
    <3> HIDE DEF l, m
    <3>2. l - 1 = at + 3 /\ l = at + 4
      BY <2>1, <2>2
    <3>3. QED BY <3>1, <3>2
  <2>6. l # 0 /\ l % 4 = 0 /\ l \div 4 = m
    <3> HIDE DEF l, m
    <3>1. QED BY <2>1, <2>2
  <2>7. B!decode_length(text) = 3 * (m - 1) + 1 + (IF q[3] # 61 THEN 1 ELSE 0) + (IF q[4] # 61 THEN 1 ELSE 0)
    <3> HIDE DEF m
    <3>1. QED BY <2>5, <2>6 DEF B!decode_length, B!Equals
  <2> HIDE DEF n, m
  <2>8. i = 3 * (m - 1) /\ i < n /\ n <= i + 3
    <3> HIDE DEF i
    <3>1. i = 3 * (m - 1)
      BY DEF i
    <3>2. i < n
      BY <2>3
    <3>3. QED BY <1>1, <2>1, <3>1, <3>2
  <2> HIDE DEF i
  <2>9. n - i = 1 \/ n - i = 2 \/ n - i = 3
    BY <1>1, <2>1, <2>3, <2>8
  <2>10. i + 1 + (IF q[3] # 61 THEN 1 ELSE 0) + (IF q[4] # 61 THEN 1 ELSE 0) = n
    <3>1. i \in Nat /\ n \in Nat
      BY <1>1, <2>3
    <3>2. CASE n - i = 1
      <4>1. q[3] = 61 /\ q[4] = 61 /\ n = i + 1
        BY <2>4, <3>1, <3>2
      <4>2. QED BY <3>1, <4>1
    <3>3. CASE n - i = 2
      <4>1. q[3] # 61 /\ q[4] = 61 /\ n = i + 2
        BY <2>4, <3>1, <3>3
      <4>2. QED BY <3>1, <4>1
    <3>4. CASE n - i = 3
      <4>1. q[3] # 61 /\ q[4] # 61 /\ n = i + 3
        BY <2>4, <3>1, <3>4
      <4>2. QED BY <3>1, <4>1
    <3>5. QED BY <2>9, <3>2, <3>3, <3>4
  <2>11. B!decode_length(text) = n
    BY <2>7, <2>8, <2>10
  <2>12. QED BY <1>2, <2>11 DEF text, n
<1>11. QED BY <1>9, <1>10

LEMMA Base64FromInv == MessageInv => Base64IsUndone
<1>1. SUFFICES ASSUME MessageInv PROVE Base64IsUndone
  OBVIOUS
<1>2. message \in Bytes
  BY <1>1 DEF MessageInv
<1>3. \A add_crlf \in BOOLEAN : /\ B!decode(B!encode(message, add_crlf), 77) = message
                               /\ ~B!ReadsPastEnd(B!encode(message, add_crlf))
  BY <1>2, DecodeUndoesEncode
<1>4. B!decode_length(B!encode(message, FALSE)) = Len(message)
  BY <1>2, LengthIsDecoded
<1>5. QED BY <1>3, <1>4 DEF Base64IsUndone

(* Decoding gives every message back, with line feeds and without, and     *)
(* never reads behind the text; decode_length knows its length             *)
(* (Base64.cpp).                                                           *)
THEOREM Base64ComesBack == Messages => []Base64IsUndone
<1>1. MessageInv => Base64IsUndone
  BY Base64FromInv
<1>2. QED BY <1>1, AlwaysAgree, PTL

-------------------------------------------------------------------------------
(* UTF-8, read character by character as the program does (Unicode.cpp)    *)
(* and as the scripts do (utf8len of stringex.lua).                        *)

LEMMA AnnouncedFits ==
  ASSUME NEW b \in Byte
  PROVE  U!Announced(b) \in 1..6
BY DEF U!Announced, Byte

Reaches(tmp, i) == U!arr[i] <= tmp /\ \A k \in (i + 1)..6 : tmp < U!arr[k]

LEMMA StepIsAnnounced ==
  ASSUME NEW b \in Byte
  PROVE  U!Step(b) = U!Announced(b)
<1> DEFINE a == U!Announced(b)
<1>1. a \in 1..6
  BY AnnouncedFits
<1>2. U!arr[1] = 0 /\ U!arr[2] = 192 /\ U!arr[3] = 224 /\ U!arr[4] = 240 /\ U!arr[5] = 248 /\ U!arr[6] = 252
  BY DEF U!arr
<1>3. \A i \in 1..6 : U!arr[i] \in Nat
  <2>1. \A i \in 1..6 : i = 1 \/ i = 2 \/ i = 3 \/ i = 4 \/ i = 5 \/ i = 6
    OBVIOUS
  <2>2. QED BY <1>2, <2>1
<1>4. b \in Nat
  BY DEF Byte
<1>5. /\ b < 192 => a = 1
      /\ b \in 192..223 => a = 2
      /\ b \in 224..239 => a = 3
      /\ b \in 240..247 => a = 4
      /\ b \in 248..251 => a = 5
      /\ b >= 252 => a = 6
  BY <1>4 DEF U!Announced
<1> HIDE DEF a
<1>6. Reaches(b, a)
  <2>1. U!arr[a] <= b
    BY <1>2, <1>4, <1>5
  <2>2. ASSUME NEW k \in (a + 1)..6 PROVE b < U!arr[k]
    <3>1. k = 2 \/ k = 3 \/ k = 4 \/ k = 5 \/ k = 6
      BY <1>1
    <3>2. /\ k = 2 => b < 192
          /\ k = 3 => b < 224
          /\ k = 4 => b < 240
          /\ k = 5 => b < 248
          /\ k = 6 => b < 252
      BY <1>1, <1>4, <1>5
    <3>3. QED BY <1>2, <3>1, <3>2
  <2>3. QED BY <2>1, <2>2 DEF Reaches
<1>7. ASSUME NEW i \in 1..6, Reaches(b, i) PROVE i = a
  <2>1. U!arr[i] \in Nat /\ U!arr[a] \in Nat
    BY <1>1, <1>3
  <2>2. ~(i < a)
    <3>1. SUFFICES ASSUME i < a PROVE FALSE
      OBVIOUS
    <3>2. a \in (i + 1)..6
      BY <1>1, <3>1
    <3>3. b < U!arr[a] /\ U!arr[a] <= b
      BY <1>6, <1>7, <3>2 DEF Reaches
    <3>4. QED BY <1>4, <2>1, <3>3
  <2>3. ~(a < i)
    <3>1. SUFFICES ASSUME a < i PROVE FALSE
      OBVIOUS
    <3>2. i \in (a + 1)..6
      BY <1>1, <3>1
    <3>3. b < U!arr[i] /\ U!arr[i] <= b
      BY <1>6, <1>7, <3>2 DEF Reaches
    <3>4. QED BY <1>4, <2>1, <3>3
  <2>4. QED BY <1>1, <2>2, <2>3
<1>8. U!Step(b) = CHOOSE i \in 1..6 : Reaches(b, i)
  BY DEF U!Step, Reaches
<1>9. QED BY <1>1, <1>6, <1>7, <1>8 DEF a

\* Where the character behind the one at i begins.
NextChar(text, i) == i + U!Announced(text[i + 1])

ConvertWalk(text, wideBits, stray) ==
  [stops |-> [i \in 0..(Len(text) + 5) |-> i >= Len(text)],
   ends  |-> [i \in 0..(Len(text) + 5) |-> <<>>],
   skips |-> [i \in 0..(Len(text) + 5) |-> FALSE],
   reads |-> [i \in 0..(Len(text) + 5) |-> <<U!WideChar(text, i, wideBits, stray)>>],
   next  |-> [i \in 0..(Len(text) + 5) |-> NextChar(text, i)]]

Converts(f, text, wideBits, stray) ==
  \A i \in 0..(Len(text) + 5) :
    /\ i >= Len(text) => f[i] = <<>>
    /\ i < Len(text) => f[i] = <<U!WideChar(text, i, wideBits, stray)>> \o f[NextChar(text, i)]

LEMMA NextCharFits ==
  ASSUME NEW text \in Bytes, NEW i \in Nat, i < Len(text)
  PROVE  NextChar(text, i) \in (i + 1)..(Len(text) + 5) /\ text[i + 1] \in Byte
<1>1. Len(text) \in Nat /\ i + 1 \in 1..Len(text)
  BY BytesAt
<1>2. text[i + 1] \in Byte
  BY <1>1, BytesAt
<1> DEFINE a == U!Announced(text[i + 1])
<1>3. a \in 1..6
  BY <1>2, AnnouncedFits
<1> HIDE DEF a
<1>4. i + a \in (i + 1)..(Len(text) + 5)
  BY <1>1, <1>3
<1>5. QED BY <1>2, <1>4 DEF NextChar, a

LEMMA ConvertIs ==
  ASSUME NEW text \in Bytes, NEW wideBits, NEW stray
  PROVE  \E f : U!string2wstring(text, wideBits, stray) = f[0] /\ Converts(f, text, wideBits, stray)
<1> DEFINE n == Len(text)
           top == n + 5
           w == ConvertWalk(text, wideBits, stray)
           from[i \in 0..(Len(text) + 5)] ==
             IF i >= Len(text) THEN <<>>
             ELSE <<U!WideChar(text, i, wideBits, stray)>> \o from[i + U!Announced(text[i + 1])]
           value(f, i) == IF i >= Len(text) THEN <<>>
                          ELSE <<U!WideChar(text, i, wideBits, stray)>> \o f[i + U!Announced(text[i + 1])]
           Is(f) == f = [i \in 0..top |-> value(f, i)]
<1>1. U!string2wstring(text, wideBits, stray) = from[0]
  BY DEF U!string2wstring
<1>2. from = CHOOSE f : Is(f)
  OBVIOUS
<1> HIDE DEF from
<1>3. n \in Nat /\ top \in Nat /\ 0 \in Nat
  BY BytesAt
<1>4. \A i \in 0..top : /\ w.stops[i] = (i >= n)
                        /\ w.ends[i] = <<>>
                        /\ w.skips[i] = FALSE
                        /\ w.reads[i] = <<U!WideChar(text, i, wideBits, stray)>>
                        /\ w.next[i] = NextChar(text, i)
  BY DEF ConvertWalk
<1>5. ASSUME NEW f, NEW i \in 0..top PROVE value(f, i) = Goes(w, f, i)
  <2>1. /\ w.stops[i] <=> i >= n
        /\ w.ends[i] = <<>>
        /\ ~w.skips[i]
        /\ w.reads[i] = <<U!WideChar(text, i, wideBits, stray)>>
        /\ w.next[i] = NextChar(text, i)
    BY <1>4
  <2> HIDE DEF w
  <2>2. CASE i >= n
    BY <2>1, <2>2 DEF Goes
  <2>3. CASE ~(i >= n)
    BY <2>1, <2>3 DEF Goes, NextChar
  <2> HIDE DEF value
  <2>4. QED BY <2>2, <2>3
<1> HIDE DEF value
<1>6. ASSUME NEW f PROVE Is(f) <=> IsWalk(f, w, 0, top)
  <2>1. [i \in 0..top |-> value(f, i)] = [i \in 0..top |-> Goes(w, f, i)]
    BY <1>5
  <2>2. QED BY <2>1 DEF IsWalk
<1>7. GoesOn(w, 0, top)
  <2>1. ASSUME NEW i \in 0..top PROVE w.stops[i] \/ w.next[i] \in (i + 1)..top
    <3>1. (w.stops[i] <=> i >= n) /\ w.next[i] = NextChar(text, i)
      BY <1>4
    <3>2. i < n => NextChar(text, i) \in (i + 1)..top
      BY NextCharFits
    <3> HIDE DEF w
    <3>3. QED BY <1>3, <3>1, <3>2
  <2>2. QED BY <2>1 DEF GoesOn
<1> HIDE DEF w
<1>8. \E f : IsWalk(f, w, 0, top)
  <2> HIDE DEF top
  <2>1. QED BY <1>3, <1>7, WalkExists
<1>9. Is(from)
  BY <1>2, <1>6, <1>8
<1>10. \A i \in 0..top : from[i] = value(from, i)
  BY <1>9
<1>11. ASSUME NEW i \in 0..top
       PROVE  /\ i >= Len(text) => from[i] = <<>>
              /\ i < Len(text) =>
                   from[i] = <<U!WideChar(text, i, wideBits, stray)>> \o from[NextChar(text, i)]
  <2>1. from[i] = value(from, i)
    BY <1>10
  <2>2. i < Len(text) => ~(i >= Len(text))
    BY <1>3
  <2>3. i >= Len(text) => from[i] = <<>>
    BY <2>1 DEF value
  <2>4. i < Len(text) =>
          from[i] = <<U!WideChar(text, i, wideBits, stray)>> \o from[NextChar(text, i)]
    BY <2>1, <2>2 DEF value, NextChar
  <2>5. QED BY <2>3, <2>4
<1>12. Converts(from, text, wideBits, stray)
  BY <1>11 DEF Converts
<1>13. QED BY <1>1, <1>12

CutWalk(text) ==
  [stops |-> [i \in 0..(Len(text) + 5) |-> i >= Len(text)],
   ends  |-> [i \in 0..(Len(text) + 5) |-> i > Len(text)],
   skips |-> [i \in 0..(Len(text) + 5) |-> TRUE],
   reads |-> [i \in 0..(Len(text) + 5) |-> <<>>],
   next  |-> [i \in 0..(Len(text) + 5) |-> NextChar(text, i)]]

FindsCut(f, text) ==
  \A i \in 0..(Len(text) + 5) :
    /\ i >= Len(text) => (f[i] <=> i > Len(text))
    /\ i < Len(text) => f[i] = f[NextChar(text, i)]

LEMMA CutIs ==
  ASSUME NEW text \in Bytes
  PROVE  \E f : U!ReadsPastEnd(text) = f[0] /\ FindsCut(f, text)
<1> DEFINE n == Len(text)
           top == n + 5
           w == CutWalk(text)
           from[i \in 0..(Len(text) + 5)] ==
             IF i >= Len(text) THEN i > Len(text) ELSE from[i + U!Announced(text[i + 1])]
           value(f, i) == IF i >= Len(text) THEN i > Len(text) ELSE f[i + U!Announced(text[i + 1])]
           Is(f) == f = [i \in 0..top |-> value(f, i)]
<1>1. U!ReadsPastEnd(text) = from[0]
  BY DEF U!ReadsPastEnd
<1>2. from = CHOOSE f : Is(f)
  OBVIOUS
<1> HIDE DEF from
<1>3. n \in Nat /\ top \in Nat /\ 0 \in Nat
  BY BytesAt
<1>4. \A i \in 0..top : /\ w.stops[i] = (i >= n)
                        /\ w.ends[i] = (i > n)
                        /\ w.skips[i] = TRUE
                        /\ w.next[i] = NextChar(text, i)
  BY DEF CutWalk
<1>5. ASSUME NEW f, NEW i \in 0..top PROVE value(f, i) = Goes(w, f, i)
  <2>1. /\ w.stops[i] <=> i >= n
        /\ w.ends[i] = (i > n)
        /\ w.skips[i]
        /\ w.next[i] = NextChar(text, i)
    BY <1>4
  <2> HIDE DEF w
  <2>2. CASE i >= n
    <3>1. Goes(w, f, i) = w.ends[i]
      BY <2>1, <2>2, Zenon DEF Goes
    <3>2. value(f, i) = (i > n)
      BY <2>2, Zenon
    <3>3. QED BY <2>1, <3>1, <3>2, Zenon
  <2>3. CASE ~(i >= n)
    <3>1. Goes(w, f, i) = f[NextChar(text, i)]
      BY <2>1, <2>3 DEF Goes
    <3>2. value(f, i) = f[NextChar(text, i)]
      BY <2>3 DEF NextChar
    <3>3. QED BY <3>1, <3>2
  <2> HIDE DEF value
  <2>4. QED BY <2>2, <2>3
<1> HIDE DEF value
<1>6. ASSUME NEW f PROVE Is(f) <=> IsWalk(f, w, 0, top)
  <2>1. [i \in 0..top |-> value(f, i)] = [i \in 0..top |-> Goes(w, f, i)]
    BY <1>5
  <2>2. QED BY <2>1 DEF IsWalk
<1>7. GoesOn(w, 0, top)
  <2>1. ASSUME NEW i \in 0..top PROVE w.stops[i] \/ w.next[i] \in (i + 1)..top
    <3>1. (w.stops[i] <=> i >= n) /\ w.next[i] = NextChar(text, i)
      BY <1>4
    <3>2. i < n => NextChar(text, i) \in (i + 1)..top
      BY NextCharFits
    <3> HIDE DEF w
    <3>3. QED BY <1>3, <3>1, <3>2
  <2>2. QED BY <2>1 DEF GoesOn
<1> HIDE DEF w
<1>8. \E f : IsWalk(f, w, 0, top)
  <2> HIDE DEF top
  <2>1. QED BY <1>3, <1>7, WalkExists
<1> HIDE DEF Is
<1>9. Is(from)
  BY <1>2, <1>6, <1>8
<1>10. \A i \in 0..top : from[i] = value(from, i)
  BY <1>9 DEF Is
<1>11. ASSUME NEW i \in 0..top
       PROVE  /\ i >= Len(text) => (from[i] <=> i > Len(text))
              /\ i < Len(text) => from[i] = from[NextChar(text, i)]
  <2>1. from[i] = value(from, i)
    BY <1>10
  <2>2. i < Len(text) => ~(i >= Len(text))
    BY <1>3
  <2>3. ASSUME i >= Len(text) PROVE from[i] <=> i > Len(text)
    <3>1. from[i] = (i > Len(text))
      BY <2>1, <2>3, Zenon DEF value
    <3>2. QED BY <3>1, Zenon
  <2>4. i < Len(text) => from[i] = from[NextChar(text, i)]
    BY <2>1, <2>2 DEF value, NextChar
  <2>5. QED BY <2>3, <2>4
<1>12. FindsCut(from, text)
  BY <1>11 DEF FindsCut
<1>13. QED BY <1>1, <1>12

LEMMA ConvertedFits ==
  ASSUME NEW text \in Bytes, NEW wideBits, NEW stray, NEW f, Converts(f, text, wideBits, stray)
  PROVE  \A i \in 0..(Len(text) + 5) :
           /\ Len(f[i]) \in Nat
           /\ i < Len(text) => Len(f[i]) = Len(f[NextChar(text, i)]) + 1
<1> DEFINE n == Len(text)
           top == n + 5
           T == {U!WideChar(text, i, wideBits, stray) : i \in 0..top}
           S == {i \in 0..top : f[i] \in Seq(T)}
<1>1. n \in Nat /\ top \in Nat /\ 0 \in Nat
  BY BytesAt
<1>2. \A i \in 0..top : U!WideChar(text, i, wideBits, stray) \in T
  OBVIOUS
<1> HIDE DEF T
<1>3. ASSUME NEW i \in 0..top, i < n PROVE NextChar(text, i) \in (i + 1)..top
  BY <1>3, NextCharFits
<1>4. ASSUME NEW i \in 0..top, \A j \in (i + 1)..top : j \in S PROVE i \in S
  <2>1. CASE i >= n
    <3>1. f[i] = <<>>
      BY <2>1 DEF Converts
    <3>2. <<>> \in Seq(T)
      OBVIOUS
    <3>3. QED BY <3>1, <3>2
  <2>2. CASE ~(i >= n)
    <3>1. i < n
      BY <1>1, <2>2
    <3>2. NextChar(text, i) \in S
      BY <1>3, <1>4, <3>1
    <3> DEFINE c == U!WideChar(text, i, wideBits, stray)
               s == f[NextChar(text, i)]
    <3>3. c \in T /\ s \in Seq(T)
      BY <1>2, <3>2
    <3>4. f[i] = <<c>> \o s
      BY <3>1 DEF Converts
    <3> HIDE DEF c, s
    <3>5. <<c>> \o s \in Seq(T)
      BY <3>3
    <3>6. QED BY <3>4, <3>5
  <2>3. QED BY <2>1, <2>2
<1> HIDE DEF S
<1>5. \A i \in 0..top : i \in S
  <2> HIDE DEF top
  <2>1. QED BY <1>1, <1>4, FromTheEnd
<1>6. ASSUME NEW i \in 0..top
      PROVE  Len(f[i]) \in Nat /\ (i < n => Len(f[i]) = Len(f[NextChar(text, i)]) + 1)
  <2>1. f[i] \in Seq(T)
    BY <1>5 DEF S
  <2>2. ASSUME i < n PROVE Len(f[i]) = Len(f[NextChar(text, i)]) + 1
    <3> DEFINE c == U!WideChar(text, i, wideBits, stray)
               s == f[NextChar(text, i)]
    <3>1. NextChar(text, i) \in 0..top
      <4> DEFINE j == NextChar(text, i)
      <4>1. j \in (i + 1)..top
        BY <1>3, <2>2
      <4> HIDE DEF j
      <4>2. j \in 0..top
        BY <1>1, <4>1
      <4>3. QED BY <4>2 DEF j
    <3>2. c \in T /\ s \in Seq(T)
      BY <1>2, <1>5, <3>1 DEF S
    <3>3. f[i] = <<c>> \o s
      BY <2>2 DEF Converts
    <3> HIDE DEF c, s
    <3>4. Len(<<c>> \o s) = Len(s) + 1
      BY <3>2
    <3>5. QED BY <3>3, <3>4 DEF s
  <2>3. QED BY <2>1, <2>2, LenProperties
<1>7. QED BY <1>6

LEMMA ScriptsCount ==
  ASSUME NEW text \in Bytes, NEW wideBits, NEW stray
  PROVE  U!utf8len(text) = IF U!ReadsPastEnd(text) THEN U!Raises
                           ELSE Len(U!string2wstring(text, wideBits, stray))
<1> DEFINE n == Len(text)
           top == n + 5
           count[left \in -5..Len(text)] ==
             CASE left = 0 -> 0
               [] left < 0 -> U!Raises
               [] OTHER -> LET k == count[left - U!Step(text[Len(text) - left + 1])]
                           IN  IF k = U!Raises THEN U!Raises ELSE k + 1
           more(k) == IF k = U!Raises THEN U!Raises ELSE k + 1
           value(f, left) == CASE left = 0 -> 0
                               [] left < 0 -> U!Raises
                               [] OTHER -> more(f[left - U!Step(text[Len(text) - left + 1])])
           Is(f) == f = [left \in -5..n |-> value(f, left)]
<1>1. U!utf8len(text) = count[n]
  BY DEF U!utf8len
<1>2. count = CHOOSE f : Is(f)
  OBVIOUS
<1> HIDE DEF count, more
<1>3. n \in Nat /\ top \in Nat /\ 0 \in Nat /\ top = n + 5
  BY BytesAt
<1>4. PICK from : U!string2wstring(text, wideBits, stray) = from[0] /\ Converts(from, text, wideBits, stray)
  BY ConvertIs
<1>5. PICK past : U!ReadsPastEnd(text) = past[0] /\ FindsCut(past, text)
  BY CutIs
<1>6. \A i \in 0..top : /\ Len(from[i]) \in Nat
                        /\ i < n => Len(from[i]) = Len(from[NextChar(text, i)]) + 1
  BY <1>4, ConvertedFits
<1> DEFINE got(i) == IF past[i] THEN -1 ELSE Len(from[i])
<1>7. ASSUME NEW f, NEW i \in 0..top,
             i < n => f[n - NextChar(text, i)] = got(NextChar(text, i))
      PROVE  value(f, n - i) = got(i)
  <2>1. CASE i = n
    <3>1. ~past[i] /\ from[i] = <<>>
      <4>1. i \in 0..(Len(text) + 5) /\ i >= Len(text) /\ ~(i > Len(text))
        BY <1>3, <2>1
      <4>2. from[i] = <<>>
        BY <1>4, <4>1 DEF Converts
      <4>3. past[i] <=> i > Len(text)
        BY <1>5, <4>1 DEF FindsCut
      <4>4. QED BY <4>1, <4>2, <4>3
    <3>2. got(i) = 0
      BY <3>1, EmptySeq
    <3>3. n - i = 0
      BY <1>3, <2>1
    <3>4. value(f, n - i) = 0
      BY <3>3
    <3>5. QED BY <3>2, <3>4
  <2>2. CASE i > n
    <3>1. past[i]
      BY <1>3, <1>5, <2>2 DEF FindsCut
    <3>2. n - i # 0 /\ n - i < 0
      BY <1>3, <2>2
    <3>3. value(f, n - i) = -1
      BY <3>2 DEF U!Raises
    <3>4. QED BY <3>1, <3>3
  <2>3. CASE i < n
    <3> DEFINE j == NextChar(text, i)
               b == text[i + 1]
    <3>1. j \in (i + 1)..top /\ b \in Byte
      BY <2>3, NextCharFits
    <3>2. U!Step(b) = U!Announced(b) /\ j = i + U!Announced(b) /\ U!Announced(b) \in 1..6
      BY <3>1, StepIsAnnounced, AnnouncedFits DEF NextChar
    <3>3. n - (n - i) + 1 = i + 1 /\ n - i # 0 /\ ~(n - i < 0)
      BY <1>3, <2>3
    <3>4. (n - i) - U!Step(text[n - (n - i) + 1]) = n - j
      <4> DEFINE a == U!Announced(b)
      <4> HIDE DEF a, j, n, b
      <4>1. (n - i) - a = n - j
        BY <1>3, <3>2 DEF a
      <4>2. U!Step(text[n - (n - i) + 1]) = a
        BY <3>2, <3>3 DEF a, b
      <4>3. QED BY <4>1, <4>2
    <3>5. value(f, n - i) = more(f[n - j])
      BY <3>3, <3>4
    <3>6. f[n - j] = got(j)
      BY <1>7, <2>3
    <3>7. past[i] = past[j] /\ Len(from[i]) = Len(from[j]) + 1 /\ Len(from[j]) \in Nat
      <4>1. j \in 0..top
        <5> HIDE DEF j, top, n
        <5>1. QED BY <1>3, <3>1
      <4>2. QED BY <1>5, <1>6, <2>3, <4>1 DEF FindsCut
    <3> HIDE DEF value, j
    <3>8. CASE past[j]
      BY <3>5, <3>6, <3>7, <3>8 DEF more, U!Raises
    <3>9. CASE ~past[j]
      <4> DEFINE l == Len(from[j])
      <4>1. got(j) = l /\ got(i) = l + 1 /\ l \in Nat
        BY <3>7, <3>9
      <4> HIDE DEF l
      <4>2. more(l) = l + 1
        BY <4>1 DEF more, U!Raises
      <4>3. QED BY <3>5, <3>6, <4>1, <4>2
    <3>10. QED BY <3>8, <3>9
  <2>4. QED BY <1>3, <2>1, <2>2, <2>3
<1>8. ASSUME NEW i \in 0..top, i < n
      PROVE  NextChar(text, i) \in (i + 1)..top
  BY <1>8, NextCharFits
<1> HIDE DEF value
<1> DEFINE g == [left \in -5..n |-> got(n - left)]
<1>9. Is(g)
  <2>1. ASSUME NEW left \in -5..n PROVE g[left] = value(g, left)
    <3> DEFINE i == n - left
    <3>1. i \in 0..top /\ n - i = left
      BY <1>3
    <3> HIDE DEF i
    <3>2. g[left] = got(i)
      BY DEF i
    <3>3. i < n => g[n - NextChar(text, i)] = got(NextChar(text, i))
      <4> DEFINE j == NextChar(text, i)
      <4>1. i < n => j \in (i + 1)..top
        BY <1>8, <3>1
      <4> HIDE DEF j, got
      <4>2. i < n => n - j \in -5..n /\ n - (n - j) = j
        BY <1>3, <3>1, <4>1
      <4>3. i < n => g[n - j] = got(j)
        BY <4>2
      <4>4. QED BY <4>3 DEF j
    <3>4. value(g, n - i) = got(i)
      <4> HIDE DEF g, got
      <4>1. QED BY <1>7, <3>1, <3>3
    <3>5. QED BY <3>1, <3>2, <3>4
  <2>2. [left \in -5..n |-> got(n - left)] = [left \in -5..n |-> value(g, left)]
    <3>1. \A left \in -5..n : got(n - left) = value(g, left)
      BY <2>1
    <3> HIDE DEF g
    <3>2. QED BY <3>1
  <2>3. QED BY <2>2
<1> HIDE DEF g
<1>10. Is(count)
  BY <1>2, <1>9
<1>11. \A left \in -5..n : count[left] = value(count, left)
  BY <1>10
<1> HIDE DEF Is, got
<1> DEFINE S == {i \in 0..top : count[n - i] = got(i)}
<1>12. ASSUME NEW i \in 0..top, \A j \in (i + 1)..top : j \in S PROVE i \in S
  <2>1. i < n => count[n - NextChar(text, i)] = got(NextChar(text, i))
    BY <1>8, <1>12
  <2>2. value(count, n - i) = got(i)
    BY <1>7, <2>1
  <2>3. n - i \in -5..n
    BY <1>3
  <2>4. QED BY <1>11, <2>2, <2>3
<1> HIDE DEF S
<1>13. \A i \in 0..top : i \in S
  <2> HIDE DEF top
  <2>1. QED BY <1>3, <1>12, FromTheEnd
<1>14. count[n] = got(0)
  <2>1. 0 \in 0..top /\ n - 0 = n
    BY <1>3
  <2>2. QED BY <1>13, <2>1 DEF S
<1>15. QED BY <1>1, <1>4, <1>5, <1>14 DEF got, U!Raises

-------------------------------------------------------------------------------
(* A wide character and its bytes. *)

IsValue(f, n, v, d) == f = [k \in 1..n |-> IF k = 1 THEN v ELSE f[k - 1] * 64 + d[k]]

LEMMA ValueIs ==
  ASSUME NEW n \in 1..6, NEW v, NEW d, NEW f, IsValue(f, n, v, d)
  PROVE  f[1] = v /\ \A k \in 2..n : f[k] = f[k - 1] * 64 + d[k]
<1>1. \A k \in 1..n : f[k] = IF k = 1 THEN v ELSE f[k - 1] * 64 + d[k]
  BY DEF IsValue
<1>2. 1 \in 1..n /\ \A k \in 2..n : k \in 1..n /\ k # 1
  OBVIOUS
<1>3. QED BY <1>1, <1>2

LEMMA ValueExists ==
  ASSUME NEW n \in 1..6, NEW v, NEW d
  PROVE  \E f : IsValue(f, n, v, d)
<1> DEFINE w == v * 64 + d[2]
           x == w * 64 + d[3]
           y == x * 64 + d[4]
           z == y * 64 + d[5]
           u == z * 64 + d[6]
           g == [k \in 1..n |-> IF k = 1 THEN v ELSE IF k = 2 THEN w ELSE IF k = 3 THEN x
                                ELSE IF k = 4 THEN y ELSE IF k = 5 THEN z ELSE u]
<1>1. w = v * 64 + d[2] /\ x = w * 64 + d[3] /\ y = x * 64 + d[4] /\ z = y * 64 + d[5] /\ u = z * 64 + d[6]
  OBVIOUS
<1> HIDE DEF w, x, y, z, u
<1>2. \A k \in 1..n : g[k] = IF k = 1 THEN v ELSE g[k - 1] * 64 + d[k]
  <2>1. SUFFICES ASSUME NEW k \in 1..n
                 PROVE  g[k] = IF k = 1 THEN v ELSE g[k - 1] * 64 + d[k]
    OBVIOUS
  <2>2. k = 1 \/ k = 2 \/ k = 3 \/ k = 4 \/ k = 5 \/ k = 6
    OBVIOUS
  <2>3. CASE k = 1
    BY <2>3
  <2>4. CASE k = 2
    <3>1. g[k] = w /\ g[k - 1] = v /\ d[k] = d[2]
      BY <2>4
    <3> HIDE DEF g
    <3>2. QED BY <1>1, <2>4, <3>1
  <2>5. CASE k = 3
    <3>1. g[k] = x /\ g[k - 1] = w /\ d[k] = d[3]
      BY <2>5
    <3> HIDE DEF g
    <3>2. QED BY <1>1, <2>5, <3>1
  <2>6. CASE k = 4
    <3>1. g[k] = y /\ g[k - 1] = x /\ d[k] = d[4]
      BY <2>6
    <3> HIDE DEF g
    <3>2. QED BY <1>1, <2>6, <3>1
  <2>7. CASE k = 5
    <3>1. g[k] = z /\ g[k - 1] = y /\ d[k] = d[5]
      BY <2>7
    <3> HIDE DEF g
    <3>2. QED BY <1>1, <2>7, <3>1
  <2>8. CASE k = 6
    <3>1. g[k] = u /\ g[k - 1] = z /\ d[k] = d[6]
      BY <2>8
    <3> HIDE DEF g
    <3>2. QED BY <1>1, <2>8, <3>1
  <2> HIDE DEF g
  <2>9. QED BY <2>2, <2>3, <2>4, <2>5, <2>6, <2>7, <2>8
<1>3. IsValue(g, n, v, d)
  BY <1>2 DEF IsValue
<1> HIDE DEF g
<1>4. QED BY <1>3

Narrowed(ch, wideBits) == IF wideBits = 16 THEN ch % 2^16 ELSE ch

ReadsAs(f, text, i, n, wideBits, stray) ==
  /\ U!WideChar(text, i, wideBits, stray) = Narrowed(f[n], wideBits)
  /\ f[1] = text[i + 1] % 2^(7 - n)
  /\ \A k \in 2..n : f[k] = f[k - 1] * 64 + (U!At(text, i + k - 1, stray) % 64)

LEMMA WideCharIs ==
  ASSUME NEW text, NEW i \in Nat, NEW wideBits, NEW stray, NEW n \in 1..6,
         n = U!Announced(text[i + 1])
  PROVE  /\ n = 1 /\ text[i + 1] <= 127 /\ text[i + 1] \in Nat =>
              U!WideChar(text, i, wideBits, stray) = Narrowed(text[i + 1], wideBits)
         /\ n > 1 => \E f : ReadsAs(f, text, i, n, wideBits, stray)
<1> DEFINE a == U!Announced(text[i + 1])
           value[k \in 1..a] == IF k = 1 THEN text[i + 1] % 2^(7 - a)
                                ELSE value[k - 1] * 64 + (U!At(text, i + k - 1, stray) % 64)
           ch == IF a > 1 THEN value[a]
                 ELSE IF text[i + 1] > 127 THEN text[i + 1] - 256 ELSE text[i + 1]
           d == [k \in 1..n |-> U!At(text, i + k - 1, stray) % 64]
           v == text[i + 1] % 2^(7 - n)
           Is(f) == f = [k \in 1..n |-> IF k = 1 THEN v
                                        ELSE f[k - 1] * 64 + (U!At(text, i + k - 1, stray) % 64)]
<1>1. U!WideChar(text, i, wideBits, stray) = Narrowed(ch, wideBits)
  BY DEF U!WideChar, Narrowed
<1>2. value = CHOOSE f : Is(f)
  OBVIOUS
<1> HIDE DEF value
<1>3. \A k \in 1..n : d[k] = U!At(text, i + k - 1, stray) % 64
  OBVIOUS
<1> HIDE DEF v, d
<1>4. ASSUME NEW f PROVE Is(f) <=> IsValue(f, n, v, d)
  <2>1. [k \in 1..n |-> IF k = 1 THEN v ELSE f[k - 1] * 64 + (U!At(text, i + k - 1, stray) % 64)]
        = [k \in 1..n |-> IF k = 1 THEN v ELSE f[k - 1] * 64 + d[k]]
    BY <1>3
  <2>2. QED BY <2>1 DEF IsValue
<1> HIDE DEF Is
<1>5. IsValue(value, n, v, d)
  BY <1>2, <1>4, ValueExists
<1>6. value[1] = v /\ \A k \in 2..n : value[k] = value[k - 1] * 64 + d[k]
  BY <1>5, ValueIs
<1>7. \A k \in 2..n : value[k] = value[k - 1] * 64 + (U!At(text, i + k - 1, stray) % 64)
  <2>1. \A k \in 2..n : k \in 1..n
    OBVIOUS
  <2>2. QED BY <1>3, <1>6, <2>1
<1>8. ASSUME n = 1, text[i + 1] <= 127, text[i + 1] \in Nat
      PROVE  U!WideChar(text, i, wideBits, stray) = Narrowed(text[i + 1], wideBits)
  <2>1. ch = text[i + 1]
    BY <1>8
  <2>2. QED BY <1>1, <2>1
<1>9. ASSUME n > 1
      PROVE  \E f : ReadsAs(f, text, i, n, wideBits, stray)
  <2>1. ch = value[n]
    BY <1>9
  <2>2. U!WideChar(text, i, wideBits, stray) = Narrowed(value[n], wideBits)
    BY <1>1, <2>1
  <2>3. value[1] = text[i + 1] % 2^(7 - n)
    BY <1>6 DEF v
  <2>4. ReadsAs(value, text, i, n, wideBits, stray)
    BY <1>7, <2>2, <2>3 DEF ReadsAs
  <2>5. QED BY <2>4
<1>10. QED BY <1>8, <1>9

LEMMA AnnouncedIs ==
  ASSUME NEW b \in Nat
  PROVE  /\ b < 192 => U!Announced(b) = 1
         /\ b \in 192..223 => U!Announced(b) = 2
         /\ b \in 224..239 => U!Announced(b) = 3
         /\ b \in 240..247 => U!Announced(b) = 4
         /\ b \in 248..251 => U!Announced(b) = 5
BY DEF U!Announced

(* The numbers. *)

LEMMA SmallIsKept ==
  ASSUME NEW ch \in Nat, ch < 2^16
  PROVE  ch % 2^16 = ch
BY SMT

LEMMA TwoBytes ==
  ASSUME NEW ch \in 128..(2^11 - 1)
  PROVE  LET b == 192 + U!Above(ch, 6)
         IN  /\ b \in 192..223
             /\ (b % 2^5) * 64 + (U!Rest(ch, 0) % 64) = ch
BY SMT DEF U!Above, U!Rest

LEMMA ThreeBytes ==
  ASSUME NEW ch \in 2^11..(2^16 - 1)
  PROVE  LET b == 224 + U!Above(ch, 12)
         IN  /\ b \in 224..239
             /\ ((b % 2^4) * 64 + (U!Rest(ch, 6) % 64)) * 64 + (U!Rest(ch, 0) % 64) = ch
BY SMT DEF U!Above, U!Rest

LEMMA FourBytes ==
  ASSUME NEW ch \in 2^16..(2^21 - 1)
  PROVE  LET b == 240 + U!Above(ch, 18)
         IN  /\ b \in 240..247
             /\ (((b % 2^3) * 64 + (U!Rest(ch, 12) % 64)) * 64 + (U!Rest(ch, 6) % 64)) * 64
                  + (U!Rest(ch, 0) % 64) = ch
BY SMT DEF U!Above, U!Rest

LEMMA FiveBytes ==
  ASSUME NEW ch \in 2^21..(2^26 - 1)
  PROVE  LET b == 248 + U!Above(ch, 24)
         IN  /\ b \in 248..251
             /\ ((((b % 2^2) * 64 + (U!Rest(ch, 18) % 64)) * 64 + (U!Rest(ch, 12) % 64)) * 64
                  + (U!Rest(ch, 6) % 64)) * 64 + (U!Rest(ch, 0) % 64) = ch
BY SMT DEF U!Above, U!Rest

\* The characters that need no more than five bytes.
Readable == 0..(2^26 - 1)

\* The bytes of ch stand in text behind the first i.
Shows(text, i, ch) ==
  /\ i + Len(U!CharBytes(ch)) <= Len(text)
  /\ \A k \in 1..Len(U!CharBytes(ch)) : text[i + k] = U!CharBytes(ch)[k]

ReadsBack(text, i, ch, wideBits, stray) ==
  /\ U!WideChar(text, i, wideBits, stray) = ch
  /\ NextChar(text, i) = i + Len(U!CharBytes(ch))

LEMMA CharIsRead ==
  ASSUME NEW text, Len(text) \in Nat, NEW i \in Nat, NEW ch \in Readable, NEW stray,
         NEW wideBits, wideBits = 16 => ch < 2^16, Shows(text, i, ch)
  PROVE  ReadsBack(text, i, ch, wideBits, stray)
<1> DEFINE p == U!CharBytes(ch)
<1>1. i + Len(p) <= Len(text) /\ \A k \in 1..Len(p) : text[i + k] = p[k]
  BY DEF Shows
<1>2. p = U!CharBytes(ch)
  OBVIOUS
<1> HIDE DEF p
<1>3. ch \in Nat /\ ch < 2^26
  BY SMT DEF Readable
<1>4. Narrowed(ch, wideBits) = ch
  <2>1. wideBits = 16 => ch % 2^16 = ch
    <3>1. ch < 2^16 => ch % 2^16 = ch
      BY <1>3, SmallIsKept
    <3>2. QED BY <3>1
  <2>2. QED BY <2>1 DEF Narrowed
<1>5. ASSUME NEW k \in Nat, k >= 2, k <= Len(p), Len(p) \in Nat PROVE U!At(text, i + k - 1, stray) = p[k]
  <2>1. i + k - 1 < Len(text) /\ (i + k - 1) + 1 = i + k /\ k \in 1..Len(p)
    BY <1>1, <1>5
  <2>2. U!At(text, i + k - 1, stray) = text[(i + k - 1) + 1]
    BY <2>1 DEF U!At
  <2>3. QED BY <1>1, <2>1, <2>2
<1>6. CASE ch < 128
  <2>1. p = <<ch>>
    BY <1>2, <1>6 DEF U!CharBytes
  <2>2. Len(p) = 1 /\ p[1] = ch
    BY <2>1
  <2>3. text[i + 1] = ch
    BY <1>1, <2>2
  <2>4. U!Announced(ch) = 1
    <3>1. ch < 192
      BY <1>3, <1>6
    <3>2. QED BY <1>3, <3>1, AnnouncedIs
  <2>5. U!WideChar(text, i, wideBits, stray) = Narrowed(ch, wideBits)
    <3>1. 1 \in 1..6 /\ 1 = U!Announced(text[i + 1]) /\ text[i + 1] <= 127 /\ text[i + 1] \in Nat
      BY <1>3, <1>6, <2>3, <2>4
    <3>2. QED BY <2>3, <3>1, WideCharIs
  <2>6. NextChar(text, i) = i + 1
    BY <2>3, <2>4 DEF NextChar
  <2>7. QED BY <1>2, <1>4, <2>2, <2>5, <2>6 DEF ReadsBack
<1>7. CASE ch \in 128..(2^11 - 1)
  <2> DEFINE b == 192 + U!Above(ch, 6)
             r2 == U!Rest(ch, 0)
  <2>1. p = <<b, r2>>
    BY <1>2, <1>3, <1>7, SMT DEF U!CharBytes
  <2>2. U!Announced(b) = 2 /\ (b % 2^5) * 64 + (r2 % 64) = ch
    <3>1. b \in 192..223 /\ (b % 2^5) * 64 + (r2 % 64) = ch
      BY <1>7, TwoBytes
    <3> HIDE DEF b, r2
    <3>2. U!Announced(b) = 2
      BY <3>1, AnnouncedIs
    <3>3. QED BY <3>1, <3>2
  <2> HIDE DEF b, r2
  <2>3. Len(p) = 2 /\ p[1] = b /\ p[2] = r2
    BY <2>1
  <2>4. text[i + 1] = b /\ U!At(text, i + 2 - 1, stray) = r2
    <3>1. 1 \in 1..Len(p)
      BY <2>3
    <3>2. text[i + 1] = b
      BY <1>1, <2>3, <3>1
    <3>3. U!At(text, i + 2 - 1, stray) = r2
      BY <1>5, <2>3
    <3>4. QED BY <3>2, <3>3
  <2>5. 2 \in 1..6 /\ 2 > 1 /\ 2 = U!Announced(text[i + 1])
    BY <2>2, <2>4
  <2>6. PICK f : ReadsAs(f, text, i, 2, wideBits, stray)
    BY <2>5, WideCharIs
  <2>7. f[2] = (b % 2^5) * 64 + (r2 % 64)
    <3>1. f[1] = b % 2^5
      <4>1. 7 - 2 = 5
        OBVIOUS
      <4>2. QED BY <2>4, <2>6, <4>1 DEF ReadsAs
    <3>2. f[2] = f[1] * 64 + (r2 % 64)
      <4>1. 2 \in 2..2 /\ 2 - 1 = 1
        OBVIOUS
      <4>2. f[2] = f[2 - 1] * 64 + (U!At(text, i + 2 - 1, stray) % 64)
        BY <2>6, <4>1 DEF ReadsAs
      <4>3. QED BY <2>4, <4>1, <4>2
    <3>3. QED BY <3>1, <3>2
  <2>8. NextChar(text, i) = i + 2
    BY <2>2, <2>4 DEF NextChar
  <2>9. QED BY <1>2, <1>4, <2>2, <2>3, <2>6, <2>7, <2>8 DEF ReadsAs, ReadsBack
<1>8. CASE ch \in 2^11..(2^16 - 1)
  <2> DEFINE b == 224 + U!Above(ch, 12)
             r2 == U!Rest(ch, 6)
             r3 == U!Rest(ch, 0)
  <2>1. p = <<b, r2, r3>>
    BY <1>2, <1>3, <1>8, SMT DEF U!CharBytes
  <2>2. U!Announced(b) = 3 /\ ((b % 2^4) * 64 + (r2 % 64)) * 64 + (r3 % 64) = ch
    <3>1. b \in 224..239 /\ ((b % 2^4) * 64 + (r2 % 64)) * 64 + (r3 % 64) = ch
      BY <1>8, ThreeBytes
    <3> HIDE DEF b, r2, r3
    <3>2. U!Announced(b) = 3
      BY <3>1, AnnouncedIs
    <3>3. QED BY <3>1, <3>2
  <2> HIDE DEF b, r2, r3
  <2>3. Len(p) = 3 /\ p[1] = b /\ p[2] = r2 /\ p[3] = r3
    BY <2>1
  <2>4. text[i + 1] = b /\ U!At(text, i + 2 - 1, stray) = r2 /\ U!At(text, i + 3 - 1, stray) = r3
    <3>1. 1 \in 1..Len(p)
      BY <2>3
    <3>2. text[i + 1] = b
      BY <1>1, <2>3, <3>1
    <3>3. U!At(text, i + 2 - 1, stray) = r2
      BY <1>5, <2>3
    <3>4. U!At(text, i + 3 - 1, stray) = r3
      BY <1>5, <2>3
    <3>5. QED BY <3>2, <3>3, <3>4
  <2>5. 3 \in 1..6 /\ 3 > 1 /\ 3 = U!Announced(text[i + 1])
    BY <2>2, <2>4
  <2>6. PICK f : ReadsAs(f, text, i, 3, wideBits, stray)
    BY <2>5, WideCharIs
  <2>7. f[3] = ((b % 2^4) * 64 + (r2 % 64)) * 64 + (r3 % 64)
    <3>1. f[1] = b % 2^4
      <4>1. 7 - 3 = 4
        OBVIOUS
      <4>2. QED BY <2>4, <2>6, <4>1 DEF ReadsAs
    <3>2. f[2] = f[1] * 64 + (r2 % 64)
      <4>1. 2 \in 2..3 /\ 2 - 1 = 1
        OBVIOUS
      <4>2. f[2] = f[2 - 1] * 64 + (U!At(text, i + 2 - 1, stray) % 64)
        BY <2>6, <4>1 DEF ReadsAs
      <4>3. QED BY <2>4, <4>1, <4>2
    <3>3. f[3] = f[2] * 64 + (r3 % 64)
      <4>1. 3 \in 2..3 /\ 3 - 1 = 2
        OBVIOUS
      <4>2. f[3] = f[3 - 1] * 64 + (U!At(text, i + 3 - 1, stray) % 64)
        BY <2>6, <4>1 DEF ReadsAs
      <4>3. QED BY <2>4, <4>1, <4>2
    <3>4. QED BY <3>1, <3>2, <3>3
  <2>8. NextChar(text, i) = i + 3
    BY <2>2, <2>4 DEF NextChar
  <2>9. QED BY <1>2, <1>4, <2>2, <2>3, <2>6, <2>7, <2>8 DEF ReadsAs, ReadsBack
<1>9. CASE ch \in 2^16..(2^21 - 1)
  <2> DEFINE b == 240 + U!Above(ch, 18)
             r2 == U!Rest(ch, 12)
             r3 == U!Rest(ch, 6)
             r4 == U!Rest(ch, 0)
  <2>1. p = <<b, r2, r3, r4>>
    BY <1>2, <1>3, <1>9, SMT DEF U!CharBytes
  <2>2. U!Announced(b) = 4 /\ (((b % 2^3) * 64 + (r2 % 64)) * 64 + (r3 % 64)) * 64 + (r4 % 64) = ch
    <3>1. b \in 240..247 /\ (((b % 2^3) * 64 + (r2 % 64)) * 64 + (r3 % 64)) * 64 + (r4 % 64) = ch
      BY <1>9, FourBytes
    <3> HIDE DEF b, r2, r3, r4
    <3>2. U!Announced(b) = 4
      BY <3>1, AnnouncedIs
    <3>3. QED BY <3>1, <3>2
  <2> HIDE DEF b, r2, r3, r4
  <2>3. Len(p) = 4 /\ p[1] = b /\ p[2] = r2 /\ p[3] = r3 /\ p[4] = r4
    BY <2>1
  <2>4. text[i + 1] = b /\ U!At(text, i + 2 - 1, stray) = r2 /\ U!At(text, i + 3 - 1, stray) = r3 /\ U!At(text, i + 4 - 1, stray) = r4
    <3>1. 1 \in 1..Len(p)
      BY <2>3
    <3>2. text[i + 1] = b
      BY <1>1, <2>3, <3>1
    <3>3. U!At(text, i + 2 - 1, stray) = r2
      BY <1>5, <2>3
    <3>4. U!At(text, i + 3 - 1, stray) = r3
      BY <1>5, <2>3
    <3>5. U!At(text, i + 4 - 1, stray) = r4
      BY <1>5, <2>3
    <3>6. QED BY <3>2, <3>3, <3>4, <3>5
  <2>5. 4 \in 1..6 /\ 4 > 1 /\ 4 = U!Announced(text[i + 1])
    BY <2>2, <2>4
  <2>6. PICK f : ReadsAs(f, text, i, 4, wideBits, stray)
    BY <2>5, WideCharIs
  <2>7. f[4] = (((b % 2^3) * 64 + (r2 % 64)) * 64 + (r3 % 64)) * 64 + (r4 % 64)
    <3>1. f[1] = b % 2^3
      <4>1. 7 - 4 = 3
        OBVIOUS
      <4>2. QED BY <2>4, <2>6, <4>1 DEF ReadsAs
    <3>2. f[2] = f[1] * 64 + (r2 % 64)
      <4>1. 2 \in 2..4 /\ 2 - 1 = 1
        OBVIOUS
      <4>2. f[2] = f[2 - 1] * 64 + (U!At(text, i + 2 - 1, stray) % 64)
        BY <2>6, <4>1 DEF ReadsAs
      <4>3. QED BY <2>4, <4>1, <4>2
    <3>3. f[3] = f[2] * 64 + (r3 % 64)
      <4>1. 3 \in 2..4 /\ 3 - 1 = 2
        OBVIOUS
      <4>2. f[3] = f[3 - 1] * 64 + (U!At(text, i + 3 - 1, stray) % 64)
        BY <2>6, <4>1 DEF ReadsAs
      <4>3. QED BY <2>4, <4>1, <4>2
    <3>4. f[4] = f[3] * 64 + (r4 % 64)
      <4>1. 4 \in 2..4 /\ 4 - 1 = 3
        OBVIOUS
      <4>2. f[4] = f[4 - 1] * 64 + (U!At(text, i + 4 - 1, stray) % 64)
        BY <2>6, <4>1 DEF ReadsAs
      <4>3. QED BY <2>4, <4>1, <4>2
    <3>5. QED BY <3>1, <3>2, <3>3, <3>4
  <2>8. NextChar(text, i) = i + 4
    BY <2>2, <2>4 DEF NextChar
  <2>9. QED BY <1>2, <1>4, <2>2, <2>3, <2>6, <2>7, <2>8 DEF ReadsAs, ReadsBack
<1>10. CASE ch \in 2^21..(2^26 - 1)
  <2> DEFINE b == 248 + U!Above(ch, 24)
             r2 == U!Rest(ch, 18)
             r3 == U!Rest(ch, 12)
             r4 == U!Rest(ch, 6)
             r5 == U!Rest(ch, 0)
  <2>1. p = <<b, r2, r3, r4, r5>>
    BY <1>2, <1>3, <1>10, SMT DEF U!CharBytes
  <2>2. U!Announced(b) = 5 /\ ((((b % 2^2) * 64 + (r2 % 64)) * 64 + (r3 % 64)) * 64 + (r4 % 64)) * 64 + (r5 % 64) = ch
    <3>1. b \in 248..251 /\ ((((b % 2^2) * 64 + (r2 % 64)) * 64 + (r3 % 64)) * 64 + (r4 % 64)) * 64 + (r5 % 64) = ch
      BY <1>10, FiveBytes
    <3> HIDE DEF b, r2, r3, r4, r5
    <3>2. U!Announced(b) = 5
      BY <3>1, AnnouncedIs
    <3>3. QED BY <3>1, <3>2
  <2> HIDE DEF b, r2, r3, r4, r5
  <2>3. Len(p) = 5 /\ p[1] = b /\ p[2] = r2 /\ p[3] = r3 /\ p[4] = r4 /\ p[5] = r5
    BY <2>1
  <2>4. text[i + 1] = b /\ U!At(text, i + 2 - 1, stray) = r2 /\ U!At(text, i + 3 - 1, stray) = r3 /\ U!At(text, i + 4 - 1, stray) = r4 /\ U!At(text, i + 5 - 1, stray) = r5
    <3>1. 1 \in 1..Len(p)
      BY <2>3
    <3>2. text[i + 1] = b
      BY <1>1, <2>3, <3>1
    <3>3. U!At(text, i + 2 - 1, stray) = r2
      BY <1>5, <2>3
    <3>4. U!At(text, i + 3 - 1, stray) = r3
      BY <1>5, <2>3
    <3>5. U!At(text, i + 4 - 1, stray) = r4
      BY <1>5, <2>3
    <3>6. U!At(text, i + 5 - 1, stray) = r5
      BY <1>5, <2>3
    <3>7. QED BY <3>2, <3>3, <3>4, <3>5, <3>6
  <2>5. 5 \in 1..6 /\ 5 > 1 /\ 5 = U!Announced(text[i + 1])
    BY <2>2, <2>4
  <2>6. PICK f : ReadsAs(f, text, i, 5, wideBits, stray)
    BY <2>5, WideCharIs
  <2>7. f[5] = ((((b % 2^2) * 64 + (r2 % 64)) * 64 + (r3 % 64)) * 64 + (r4 % 64)) * 64 + (r5 % 64)
    <3>1. f[1] = b % 2^2
      <4>1. 7 - 5 = 2
        OBVIOUS
      <4>2. QED BY <2>4, <2>6, <4>1 DEF ReadsAs
    <3>2. f[2] = f[1] * 64 + (r2 % 64)
      <4>1. 2 \in 2..5 /\ 2 - 1 = 1
        OBVIOUS
      <4>2. f[2] = f[2 - 1] * 64 + (U!At(text, i + 2 - 1, stray) % 64)
        BY <2>6, <4>1 DEF ReadsAs
      <4>3. QED BY <2>4, <4>1, <4>2
    <3>3. f[3] = f[2] * 64 + (r3 % 64)
      <4>1. 3 \in 2..5 /\ 3 - 1 = 2
        OBVIOUS
      <4>2. f[3] = f[3 - 1] * 64 + (U!At(text, i + 3 - 1, stray) % 64)
        BY <2>6, <4>1 DEF ReadsAs
      <4>3. QED BY <2>4, <4>1, <4>2
    <3>4. f[4] = f[3] * 64 + (r4 % 64)
      <4>1. 4 \in 2..5 /\ 4 - 1 = 3
        OBVIOUS
      <4>2. f[4] = f[4 - 1] * 64 + (U!At(text, i + 4 - 1, stray) % 64)
        BY <2>6, <4>1 DEF ReadsAs
      <4>3. QED BY <2>4, <4>1, <4>2
    <3>5. f[5] = f[4] * 64 + (r5 % 64)
      <4>1. 5 \in 2..5 /\ 5 - 1 = 4
        OBVIOUS
      <4>2. f[5] = f[5 - 1] * 64 + (U!At(text, i + 5 - 1, stray) % 64)
        BY <2>6, <4>1 DEF ReadsAs
      <4>3. QED BY <2>4, <4>1, <4>2
    <3>6. QED BY <3>1, <3>2, <3>3, <3>4, <3>5
  <2>8. NextChar(text, i) = i + 5
    BY <2>2, <2>4 DEF NextChar
  <2>9. QED BY <1>2, <1>4, <2>2, <2>3, <2>6, <2>7, <2>8 DEF ReadsAs, ReadsBack
<1>11. QED BY <1>3, <1>6, <1>7, <1>8, <1>9, <1>10, SMT

LEMMA FirstAndRest ==
  ASSUME NEW S, NEW s \in Seq(S), NEW i \in Nat, i < Len(s)
  PROVE  Drop(s, i) = <<s[i + 1]>> \o Drop(s, i + 1) /\ s[i + 1] \in S /\ Drop(s, i + 1) \in Seq(S)
<1> DEFINE a == Drop(s, i)
           b == Drop(s, i + 1)
           c == s[i + 1]
<1>1. Len(s) \in Nat /\ i \in 0..Len(s) /\ i + 1 \in 0..Len(s) /\ i + 1 \in 1..Len(s)
  OBVIOUS
<1>2. c \in S
  BY <1>1
<1>3. a \in Seq(S) /\ Len(a) = Len(s) - i /\ \A k \in 1..(Len(s) - i) : a[k] = s[i + k]
  BY <1>1, DropFits
<1>4. /\ b \in Seq(S) /\ Len(b) = Len(s) - (i + 1)
      /\ \A k \in 1..(Len(s) - (i + 1)) : b[k] = s[(i + 1) + k]
  BY <1>1, DropFits
<1> HIDE DEF a, b
<1> DEFINE d == <<c>> \o b
<1>5. d \in Seq(S) /\ Len(d) = 1 + Len(b) /\ d[1] = c /\ \A k \in 1..Len(b) : d[k + 1] = b[k]
  <2> DEFINE h == <<c>>
  <2>1. h \in Seq(S) /\ Len(h) = 1 /\ h[1] = c
    BY <1>2
  <2> HIDE DEF h, c
  <2>2. /\ h \o b \in Seq(S) /\ Len(h \o b) = Len(h) + Len(b)
        /\ \A k \in 1..Len(h) + Len(b) : (h \o b)[k] = IF k <= Len(h) THEN h[k] ELSE b[k - Len(h)]
    BY <1>4, <2>1, ConcatProperties
  <2>3. (h \o b)[1] = c /\ \A k \in 1..Len(b) : (h \o b)[k + 1] = b[k]
    <3>1. Len(b) \in Nat
      BY <1>4
    <3>2. QED BY <2>1, <2>2, <3>1
  <2>4. QED BY <2>1, <2>2, <2>3 DEF h
<1> HIDE DEF d
<1>6. Len(d) = Len(a)
  BY <1>1, <1>3, <1>4, <1>5
<1>7. \A k \in 1..Len(a) : a[k] = d[k]
  <2>1. SUFFICES ASSUME NEW k \in 1..Len(a) PROVE a[k] = d[k]
    OBVIOUS
  <2>2. CASE k = 1
    BY <1>1, <1>3, <1>5, <2>2 DEF c
  <2>3. CASE k # 1
    <3>1. k - 1 \in 1..Len(b) /\ (k - 1) + 1 = k /\ (i + 1) + (k - 1) = i + k
      BY <1>1, <1>3, <1>4, <2>3
    <3>2. d[k] = b[k - 1]
      BY <1>5, <3>1
    <3>3. b[k - 1] = s[i + k]
      BY <1>4, <3>1
    <3>4. QED BY <1>3, <3>2, <3>3
  <2>4. QED BY <2>2, <2>3
<1>8. a = d
  BY <1>3, <1>5, <1>6, <1>7, SeqEqual
<1>9. QED BY <1>2, <1>4, <1>8 DEF a, b, c, d

LEMMA SomeBytes ==
  ASSUME NEW ch \in Readable
  PROVE  Len(U!CharBytes(ch)) # 0
<1>1. ch \in Nat /\ ch < 2^26
  BY SMT DEF Readable
<1> DEFINE r0 == U!Rest(ch, 0)
           r1 == U!Rest(ch, 6)
           r2 == U!Rest(ch, 12)
           r3 == U!Rest(ch, 18)
<1>2. CASE ch < 128
  BY <1>2 DEF U!CharBytes
<1>3. CASE ch \in 128..(2^11 - 1)
  <2>1. U!CharBytes(ch) = <<192 + U!Above(ch, 6), r0>>
    BY <1>1, <1>3, SMT DEF U!CharBytes
  <2> HIDE DEF r0
  <2>2. QED BY <2>1
<1>4. CASE ch \in 2^11..(2^16 - 1)
  <2>1. U!CharBytes(ch) = <<224 + U!Above(ch, 12), r1, r0>>
    BY <1>1, <1>4, SMT DEF U!CharBytes
  <2> HIDE DEF r0, r1
  <2>2. QED BY <2>1
<1>5. CASE ch \in 2^16..(2^21 - 1)
  <2>1. U!CharBytes(ch) = <<240 + U!Above(ch, 18), r2, r1, r0>>
    BY <1>1, <1>5, SMT DEF U!CharBytes
  <2> HIDE DEF r0, r1, r2
  <2>2. QED BY <2>1
<1>6. CASE ch \in 2^21..(2^26 - 1)
  <2>1. U!CharBytes(ch) = <<248 + U!Above(ch, 24), r3, r2, r1, r0>>
    BY <1>1, <1>6, SMT DEF U!CharBytes
  <2> HIDE DEF r0, r1, r2, r3
  <2>2. QED BY <2>1
<1>7. QED BY <1>1, <1>2, <1>3, <1>4, <1>5, <1>6, SMT

LEMMA NarrowEnough ==
  ASSUME NEW ch \in WideChar, NEW wideBits \in {16, 32},
         ch < (IF wideBits = 16 THEN 2^16 ELSE 2^26)
  PROVE  ch \in Readable /\ (wideBits = 16 => ch < 2^16)
BY SMT DEF WideChar, Readable

LEMMA WideComesBack ==
  ASSUME NEW s \in Seq(WideChar), NEW wideBits \in {16, 32}, NEW stray,
         \A i \in DOMAIN s : s[i] < (IF wideBits = 16 THEN 2^16 ELSE 2^26)
  PROVE  U!string2wstring(U!wstring2string(s), wideBits, stray) = s
<1> DEFINE n == Len(s)
           p == CharPieces(s)
           text == U!wstring2string(s)
<1>1. n \in Nat /\ \A g \in 1..n : s[g] \in WideChar
  OBVIOUS
<1>2. \A g \in 1..n : p[g] = U!CharBytes(s[g])
  BY DEF CharPieces
<1>3. PICK f : IsChain(f, p, n) /\ text = f[n]
  BY <1>1, TextIsChained DEF IsChained
<1> HIDE DEF text, p
<1>4. ArePieces(p, n)
  BY <1>1, <1>2, CharBytesFit DEF ArePieces
<1>5. \A g \in 0..n : f[g] \in Bytes
  BY <1>1, <1>3, <1>4, ChainFits
<1>6. text \in Bytes
  BY <1>1, <1>3, <1>5
<1>7. PICK from : U!string2wstring(text, wideBits, stray) = from[0] /\ Converts(from, text, wideBits, stray)
  BY <1>6, ConvertIs
<1>8. Len(text) \in Nat
  BY <1>6, BytesAt
<1> DEFINE S == {g \in 0..n : from[Len(f[g])] = Drop(s, g)}
<1>9. ASSUME NEW g \in 0..n, \A j \in (g + 1)..n : j \in S PROVE g \in S
  <2>1. CASE g = n
    <3>1. Len(f[g]) = Len(text)
      BY <1>3, <2>1
    <3>2. Len(text) \in 0..(Len(text) + 5) /\ Len(text) >= Len(text)
      BY <1>8
    <3>3. from[Len(text)] = <<>>
      BY <1>7, <3>2 DEF Converts
    <3>4. Drop(s, n) = <<>>
      <4>1. n + 1 > n /\ n + 1 \in Int /\ n \in Int
        BY <1>1
      <4>2. QED BY <1>1, <4>1, SubSeqEmpty DEF Drop
    <3>5. QED BY <2>1, <3>1, <3>3, <3>4
  <2>2. CASE g # n
    <3> DEFINE i == Len(f[g])
               b == p[g + 1]
               ch == s[g + 1]
    <3>1. g + 1 \in 1..n /\ (g + 1) - 1 = g /\ g \in Nat /\ g < n /\ g + 1 \in (g + 1)..n
      BY <1>1, <2>2
    <3>2. Stands(text, f[(g + 1) - 1], p[g + 1], f[g + 1])
      BY <1>1, <1>3, <1>4, <3>1, PieceStands
    <3>3. /\ f[g] \in Bytes /\ b \in Bytes
          /\ Len(f[g + 1]) = i + Len(b) /\ Len(f[g + 1]) <= Len(text)
          /\ \A k \in 1..Len(b) : text[i + k] = b[k]
      BY <3>1, <3>2 DEF Stands
    <3>4. i \in Nat /\ Len(b) \in Nat
      BY <3>3, BytesAt
    <3>5. ch \in Readable /\ (wideBits = 16 => ch < 2^16)
      <4>1. ch \in WideChar /\ ch < (IF wideBits = 16 THEN 2^16 ELSE 2^26)
        BY <1>1, <3>1
      <4> HIDE DEF ch
      <4>2. QED BY <4>1, NarrowEnough
    <3>6. b = U!CharBytes(ch)
      BY <1>2, <3>1
    <3>7. i + Len(b) <= Len(text) /\ \A k \in 1..Len(b) : text[i + k] = b[k]
      BY <3>3
    <3> HIDE DEF i, b, ch
    <3>8. U!WideChar(text, i, wideBits, stray) = ch /\ NextChar(text, i) = i + Len(b)
      <4>1. Shows(text, i, ch)
        BY <3>6, <3>7 DEF Shows
      <4>2. ReadsBack(text, i, ch, wideBits, stray)
        BY <1>8, <3>4, <3>5, <4>1, CharIsRead
      <4>3. QED BY <3>6, <4>2 DEF ReadsBack
    <3>9. Len(b) # 0
      BY <3>5, <3>6, SomeBytes
    <3>10. i < Len(text) /\ i \in 0..(Len(text) + 5)
      BY <1>8, <3>4, <3>7, <3>9
    <3>11. from[i] = <<U!WideChar(text, i, wideBits, stray)>> \o from[NextChar(text, i)]
      BY <1>7, <3>10 DEF Converts
    <3>12. from[Len(f[g + 1])] = Drop(s, g + 1)
      BY <1>9, <3>1
    <3>13. Drop(s, g) = <<ch>> \o Drop(s, g + 1)
      BY <3>1, FirstAndRest DEF ch
    <3>14. from[i] = <<ch>> \o Drop(s, g + 1)
      BY <3>3, <3>8, <3>11, <3>12
    <3>15. QED BY <3>13, <3>14 DEF i
  <2>3. QED BY <2>1, <2>2
<1> HIDE DEF S
<1>10. \A g \in 0..n : g \in S
  <2> HIDE DEF n
  <2>1. 0 \in Nat
    OBVIOUS
  <2>2. QED BY <1>1, <1>9, <2>1, FromTheEnd
<1>11. from[Len(f[0])] = Drop(s, 0)
  BY <1>1, <1>10 DEF S
<1>12. Len(f[0]) = 0
  BY <1>1, <1>3, ChainGoesOn, EmptySeq
<1>13. Drop(s, 0) = s
  BY DEF Drop
<1>14. QED BY <1>7, <1>11, <1>12, <1>13 DEF text

-------------------------------------------------------------------------------
(* Cutting a text into fields. *)

LEMMA LeastPlace ==
  ASSUME NEW T, T \subseteq Nat, T # {}
  PROVE  \E i \in T : \A k \in T : i <= k
<1> DEFINE R == OpToRel(<, Nat)
<1>1. \A x, y \in Nat : <<x, y>> \in R <=> x < y
  BY DEF OpToRel
<1>2. IsWellFoundedOn(R, Nat)
  BY NatLessThanWellFounded
<1> HIDE DEF R
<1>3. PICK k \in T : \A j \in T : ~(<<j, k>> \in R)
  BY <1>2, WFMin
<1>4. \A j \in T : k <= j
  <2>1. SUFFICES ASSUME NEW j \in T PROVE k <= j
    OBVIOUS
  <2>2. ~(j < k) /\ j \in Nat /\ k \in Nat
    BY <1>1, <1>3
  <2>3. QED BY <2>2
<1>5. QED BY <1>4

LEMMA FindIs ==
  ASSUME NEW str \in Bytes, NEW separator, NEW pos \in 1..(Len(str) + 1)
  PROVE  LET st == F!Find(str, separator, pos)
         IN  st # 0 => st \in pos..Len(str) /\ str[st] = separator
<1> DEFINE places == {i \in pos..Len(str) : str[i] = separator}
           st == F!Find(str, separator, pos)
           IsLeast(i) == \A k \in places : i <= k
<1>1. st = IF places = {} THEN 0 ELSE CHOOSE i \in places : IsLeast(i)
  BY DEF F!Find
<1>2. places \subseteq Nat
  BY BytesAt
<1>3. ASSUME places # {} PROVE st \in places
  <2>1. \E i \in places : IsLeast(i)
    <3> HIDE DEF places
    <3>1. QED BY <1>2, <1>3, LeastPlace
  <2> HIDE DEF places, IsLeast
  <2>2. QED BY <1>1, <1>3, <2>1
<1>4. places = {} => st = 0
  BY <1>1
<1> HIDE DEF st
<1>5. st # 0 => st \in places
  BY <1>3, <1>4
<1>6. QED BY <1>5 DEF st

\* The walk of a way to cut: last is what is found where no separator follows.
FieldWalk(str, separator, last) ==
  [stops |-> [pos \in 1..(Len(str) + 1) |-> F!Find(str, separator, pos) = 0],
   ends  |-> last,
   skips |-> [pos \in 1..(Len(str) + 1) |-> FALSE],
   reads |-> [pos \in 1..(Len(str) + 1) |-> <<SubSeq(str, pos, F!Find(str, separator, pos) - 1)>>],
   next  |-> [pos \in 1..(Len(str) + 1) |-> F!Find(str, separator, pos) + 1]]

Cuts(f, str, separator, last) ==
  \A pos \in 1..(Len(str) + 1) :
    LET st == F!Find(str, separator, pos)
    IN  /\ st = 0 => f[pos] = last[pos]
        /\ st # 0 => f[pos] = <<SubSeq(str, pos, st - 1)>> \o f[st + 1]

LEMMA FieldWalkIs ==
  ASSUME NEW f, NEW str \in Bytes, NEW separator, NEW last, NEW pos \in 1..(Len(str) + 1)
  PROVE  LET st == F!Find(str, separator, pos)
         IN  /\ st = 0 => Goes(FieldWalk(str, separator, last), f, pos) = last[pos]
             /\ st # 0 => Goes(FieldWalk(str, separator, last), f, pos)
                          = <<SubSeq(str, pos, st - 1)>> \o f[st + 1]
<1> DEFINE st == F!Find(str, separator, pos)
           w == FieldWalk(str, separator, last)
<1>1. /\ w.stops[pos] <=> st = 0
      /\ w.ends[pos] = last[pos]
      /\ ~w.skips[pos]
      /\ w.reads[pos] = <<SubSeq(str, pos, st - 1)>>
      /\ w.next[pos] = st + 1
  BY DEF FieldWalk
<1> HIDE DEF w, st
<1>2. st = 0 => Goes(w, f, pos) = last[pos]
  BY <1>1 DEF Goes
<1>3. st # 0 => Goes(w, f, pos) = <<SubSeq(str, pos, st - 1)>> \o f[st + 1]
  BY <1>1 DEF Goes
<1>4. QED BY <1>2, <1>3 DEF w, st

LEMMA FieldWalkExists ==
  ASSUME NEW str \in Bytes, NEW separator, NEW last
  PROVE  \E f : IsWalk(f, FieldWalk(str, separator, last), 1, Len(str) + 1)
<1> DEFINE w == FieldWalk(str, separator, last)
           top == Len(str) + 1
<1>1. top \in Nat /\ 1 \in Nat
  BY BytesAt
<1>2. ASSUME NEW pos \in 1..top PROVE w.stops[pos] \/ w.next[pos] \in (pos + 1)..top
  <2> DEFINE st == F!Find(str, separator, pos)
  <2>1. (w.stops[pos] <=> st = 0) /\ w.next[pos] = st + 1
    BY DEF FieldWalk
  <2>2. st # 0 => st \in pos..Len(str)
    BY FindIs
  <2>3. Len(str) \in Nat
    BY BytesAt
  <2> HIDE DEF st, w
  <2>4. QED BY <2>1, <2>2, <2>3
<1>3. GoesOn(w, 1, top)
  BY <1>2 DEF GoesOn
<1> HIDE DEF w, top
<1>4. \E f : IsWalk(f, w, 1, top)
  BY <1>1, <1>3, WalkExists
<1>5. QED BY <1>4 DEF w, top

Behind(str, pos) == SubSeq(str, pos, Len(str))

LastField(str) == [pos \in 1..(Len(str) + 1) |-> <<Behind(str, pos)>>]

LastLine(str) ==
  [pos \in 1..(Len(str) + 1) |-> IF pos > Len(str) THEN <<>> ELSE <<Behind(str, pos)>>]

LastIterated(str) ==
  [pos \in 1..(Len(str) + 1) |-> IF pos >= Len(str) THEN <<>> ELSE <<Behind(str, pos)>>]

LEMMA SplitIs ==
  ASSUME NEW str \in Bytes, NEW separator
  PROVE  \E f : F!split(str, separator) = f[1] /\ Cuts(f, str, separator, LastField(str))
<1> DEFINE st(pos) == F!Find(str, separator, pos)
           top == Len(str) + 1
           last == LastField(str)
           w == FieldWalk(str, separator, last)
           from[pos \in 1..(Len(str) + 1)] ==
             IF st(pos) = 0 THEN <<SubSeq(str, pos, Len(str))>>
           ELSE <<SubSeq(str, pos, st(pos) - 1)>> \o from[st(pos) + 1]
           value(f, pos) ==
             IF st(pos) = 0 THEN <<SubSeq(str, pos, Len(str))>>
           ELSE <<SubSeq(str, pos, st(pos) - 1)>> \o f[st(pos) + 1]
           Is(f) == f = [pos \in 1..top |-> value(f, pos)]
<1>1. F!split(str, separator) = from[1]
  BY DEF F!split
<1>2. from = CHOOSE f : Is(f)
  OBVIOUS
<1> HIDE DEF from
<1>3. Len(str) \in Nat /\ top \in Nat /\ 1 \in Nat
  BY BytesAt
<1>4. ASSUME NEW f, NEW pos \in 1..top
      PROVE  /\ st(pos) = 0 => value(f, pos) = last[pos]
             /\ st(pos) # 0 => value(f, pos) = <<SubSeq(str, pos, st(pos) - 1)>> \o f[st(pos) + 1]
  <2> DEFINE x == st(pos)
             rest == f[x + 1]
  <2>1. last[pos] = <<SubSeq(str, pos, Len(str))>>
    BY DEF LastField, Behind
  <2>2. x # 0 => x \in pos..Len(str)
    BY FindIs
  <2>3. value(f, pos) = IF x = 0 THEN <<SubSeq(str, pos, Len(str))>>
           ELSE <<SubSeq(str, pos, x - 1)>> \o rest
    OBVIOUS
  <2> HIDE DEF x, rest, last, value, st
  <2>4. ASSUME x = 0 PROVE value(f, pos) = last[pos]
    BY <1>3, <2>1, <2>3, <2>4
  <2>5. ASSUME x # 0 PROVE value(f, pos) = <<SubSeq(str, pos, x - 1)>> \o rest
    BY <1>3, <2>2, <2>3, <2>5
  <2>6. QED BY <2>4, <2>5 DEF x, rest
<1> HIDE DEF value
<1>5. ASSUME NEW f, NEW pos \in 1..top PROVE value(f, pos) = Goes(w, f, pos)
  <2>1. /\ st(pos) = 0 => Goes(w, f, pos) = last[pos]
        /\ st(pos) # 0 => Goes(w, f, pos) = <<SubSeq(str, pos, st(pos) - 1)>> \o f[st(pos) + 1]
    BY FieldWalkIs
  <2> HIDE DEF w, last, st
  <2>2. QED BY <1>4, <2>1
<1>6. ASSUME NEW f PROVE Is(f) <=> IsWalk(f, w, 1, top)
  <2>1. [pos \in 1..top |-> value(f, pos)] = [pos \in 1..top |-> Goes(w, f, pos)]
    BY <1>5
  <2>2. QED BY <2>1 DEF IsWalk
<1>7. \E f : IsWalk(f, w, 1, top)
  BY FieldWalkExists
<1>8. Is(from)
  <2> HIDE DEF Is, w
  <2>1. QED BY <1>2, <1>6, <1>7
<1>9. \A pos \in 1..top : from[pos] = value(from, pos)
  BY <1>8
<1>10. ASSUME NEW pos \in 1..(Len(str) + 1)
       PROVE  /\ st(pos) = 0 => from[pos] = last[pos]
              /\ st(pos) # 0 => from[pos] = <<SubSeq(str, pos, st(pos) - 1)>> \o from[st(pos) + 1]
  BY <1>4, <1>9
<1>11. Cuts(from, str, separator, last)
  BY <1>10 DEF Cuts
<1>12. QED BY <1>1, <1>11

LEMMA GetlineIs ==
  ASSUME NEW str \in Bytes, NEW separator
  PROVE  \E f : F!getlineSplit(str, separator) = f[1] /\ Cuts(f, str, separator, LastLine(str))
<1> DEFINE st(pos) == F!Find(str, separator, pos)
           top == Len(str) + 1
           last == LastLine(str)
           w == FieldWalk(str, separator, last)
           from[pos \in 1..(Len(str) + 1)] ==
             CASE pos > Len(str) -> <<>>
             [] pos <= Len(str) /\ st(pos) = 0 -> <<SubSeq(str, pos, Len(str))>>
             [] OTHER -> <<SubSeq(str, pos, st(pos) - 1)>> \o from[st(pos) + 1]
           value(f, pos) ==
             CASE pos > Len(str) -> <<>>
             [] pos <= Len(str) /\ st(pos) = 0 -> <<SubSeq(str, pos, Len(str))>>
             [] OTHER -> <<SubSeq(str, pos, st(pos) - 1)>> \o f[st(pos) + 1]
           Is(f) == f = [pos \in 1..top |-> value(f, pos)]
<1>1. F!getlineSplit(str, separator) = from[1]
  BY DEF F!getlineSplit
<1>2. from = CHOOSE f : Is(f)
  OBVIOUS
<1> HIDE DEF from
<1>3. Len(str) \in Nat /\ top \in Nat /\ 1 \in Nat
  BY BytesAt
<1>4. ASSUME NEW f, NEW pos \in 1..top
      PROVE  /\ st(pos) = 0 => value(f, pos) = last[pos]
             /\ st(pos) # 0 => value(f, pos) = <<SubSeq(str, pos, st(pos) - 1)>> \o f[st(pos) + 1]
  <2> DEFINE x == st(pos)
             rest == f[x + 1]
  <2>1. last[pos] = IF pos > Len(str) THEN <<>> ELSE <<SubSeq(str, pos, Len(str))>>
    BY DEF LastLine, Behind
  <2>2. x # 0 => x \in pos..Len(str)
    BY FindIs
  <2>3. value(f, pos) = CASE pos > Len(str) -> <<>>
             [] pos <= Len(str) /\ x = 0 -> <<SubSeq(str, pos, Len(str))>>
             [] OTHER -> <<SubSeq(str, pos, x - 1)>> \o rest
    OBVIOUS
  <2> HIDE DEF x, rest, last, value, st
  <2>4. ASSUME x = 0 PROVE value(f, pos) = last[pos]
    BY <1>3, <2>1, <2>3, <2>4
  <2>5. ASSUME x # 0 PROVE value(f, pos) = <<SubSeq(str, pos, x - 1)>> \o rest
    BY <1>3, <2>2, <2>3, <2>5
  <2>6. QED BY <2>4, <2>5 DEF x, rest
<1> HIDE DEF value
<1>5. ASSUME NEW f, NEW pos \in 1..top PROVE value(f, pos) = Goes(w, f, pos)
  <2>1. /\ st(pos) = 0 => Goes(w, f, pos) = last[pos]
        /\ st(pos) # 0 => Goes(w, f, pos) = <<SubSeq(str, pos, st(pos) - 1)>> \o f[st(pos) + 1]
    BY FieldWalkIs
  <2> HIDE DEF w, last, st
  <2>2. QED BY <1>4, <2>1
<1>6. ASSUME NEW f PROVE Is(f) <=> IsWalk(f, w, 1, top)
  <2>1. [pos \in 1..top |-> value(f, pos)] = [pos \in 1..top |-> Goes(w, f, pos)]
    BY <1>5
  <2>2. QED BY <2>1 DEF IsWalk
<1>7. \E f : IsWalk(f, w, 1, top)
  BY FieldWalkExists
<1>8. Is(from)
  <2> HIDE DEF Is, w
  <2>1. QED BY <1>2, <1>6, <1>7
<1>9. \A pos \in 1..top : from[pos] = value(from, pos)
  BY <1>8
<1>10. ASSUME NEW pos \in 1..(Len(str) + 1)
       PROVE  /\ st(pos) = 0 => from[pos] = last[pos]
              /\ st(pos) # 0 => from[pos] = <<SubSeq(str, pos, st(pos) - 1)>> \o from[st(pos) + 1]
  BY <1>4, <1>9
<1>11. Cuts(from, str, separator, last)
  BY <1>10 DEF Cuts
<1>12. QED BY <1>1, <1>11

LEMMA IteratorIs ==
  ASSUME NEW str \in Bytes, NEW separator, Literal(separator)
  PROVE  \E f : F!SplitIterator(str, separator) = f[1] /\ Cuts(f, str, separator, LastIterated(str))
<1> DEFINE st(pos) == F!FindPattern(str, separator, pos)
           top == Len(str) + 1
           last == LastIterated(str)
           w == FieldWalk(str, separator, last)
           from[pos \in 1..(Len(str) + 1)] ==
             CASE st(pos) # 0 -> <<SubSeq(str, pos, st(pos) - 1)>> \o from[st(pos) + 1]
             [] st(pos) = 0 /\ pos >= Len(str) -> <<>>
             [] OTHER -> <<SubSeq(str, pos, Len(str))>>
           value(f, pos) ==
             CASE st(pos) # 0 -> <<SubSeq(str, pos, st(pos) - 1)>> \o f[st(pos) + 1]
             [] st(pos) = 0 /\ pos >= Len(str) -> <<>>
             [] OTHER -> <<SubSeq(str, pos, Len(str))>>
           Is(f) == f = [pos \in 1..top |-> value(f, pos)]
<1>0. \A pos : st(pos) = F!Find(str, separator, pos)
  BY DEF F!FindPattern, Literal
<1>1. F!SplitIterator(str, separator) = from[1]
  <2>1. /\ separator \notin F!NoPatterns /\ separator \notin F!Places
    BY DEF Literal
  <2>2. F!SplitIterator(str, separator) =
          CASE separator \in F!NoPatterns -> F!Raises
            [] separator \in F!Places -> F!Endless
            [] OTHER -> from[1]
    BY DEF F!SplitIterator
  <2> HIDE DEF from
  <2>3. QED BY <2>1, <2>2
<1>2. from = CHOOSE f : Is(f)
  OBVIOUS
<1> HIDE DEF from
<1>3. Len(str) \in Nat /\ top \in Nat /\ 1 \in Nat
  BY BytesAt
<1>4. ASSUME NEW f, NEW pos \in 1..top
      PROVE  /\ st(pos) = 0 => value(f, pos) = last[pos]
             /\ st(pos) # 0 => value(f, pos) = <<SubSeq(str, pos, st(pos) - 1)>> \o f[st(pos) + 1]
  <2> DEFINE x == st(pos)
             rest == f[x + 1]
  <2>1. last[pos] = IF pos >= Len(str) THEN <<>> ELSE <<SubSeq(str, pos, Len(str))>>
    BY DEF LastIterated, Behind
  <2>2. x # 0 => x \in pos..Len(str)
    <3>1. x = F!Find(str, separator, pos)
      BY <1>0
    <3>2. QED BY <3>1, FindIs
  <2>3. value(f, pos) = CASE x # 0 -> <<SubSeq(str, pos, x - 1)>> \o rest
             [] x = 0 /\ pos >= Len(str) -> <<>>
             [] OTHER -> <<SubSeq(str, pos, Len(str))>>
    OBVIOUS
  <2> HIDE DEF x, rest, last, value, st
  <2>4. ASSUME x = 0 PROVE value(f, pos) = last[pos]
    BY <1>3, <2>1, <2>3, <2>4
  <2>5. ASSUME x # 0 PROVE value(f, pos) = <<SubSeq(str, pos, x - 1)>> \o rest
    BY <1>3, <2>2, <2>3, <2>5
  <2>6. QED BY <2>4, <2>5 DEF x, rest
<1> HIDE DEF value
<1>5. ASSUME NEW f, NEW pos \in 1..top PROVE value(f, pos) = Goes(w, f, pos)
  <2>1. /\ st(pos) = 0 => Goes(w, f, pos) = last[pos]
        /\ st(pos) # 0 => Goes(w, f, pos) = <<SubSeq(str, pos, st(pos) - 1)>> \o f[st(pos) + 1]
    <3>1. st(pos) = F!Find(str, separator, pos)
      BY <1>0
    <3>2. /\ w.stops[pos] <=> F!Find(str, separator, pos) = 0
          /\ w.ends[pos] = last[pos]
          /\ ~w.skips[pos]
          /\ w.reads[pos] = <<SubSeq(str, pos, F!Find(str, separator, pos) - 1)>>
          /\ w.next[pos] = F!Find(str, separator, pos) + 1
      BY DEF FieldWalk
    <3> HIDE DEF st, w, last
    <3>3. QED BY <3>1, <3>2 DEF Goes
  <2> HIDE DEF w, last, st
  <2>2. QED BY <1>4, <2>1
<1>6. ASSUME NEW f PROVE Is(f) <=> IsWalk(f, w, 1, top)
  <2>1. [pos \in 1..top |-> value(f, pos)] = [pos \in 1..top |-> Goes(w, f, pos)]
    BY <1>5
  <2>2. QED BY <2>1 DEF IsWalk
<1>7. \E f : IsWalk(f, w, 1, top)
  BY FieldWalkExists
<1>8. Is(from)
  <2> HIDE DEF Is, w
  <2>1. QED BY <1>2, <1>6, <1>7
<1>9. \A pos \in 1..top : from[pos] = value(from, pos)
  BY <1>8
<1>10. ASSUME NEW pos \in 1..(Len(str) + 1)
       PROVE  /\ st(pos) = 0 => from[pos] = last[pos]
              /\ st(pos) # 0 => from[pos] = <<SubSeq(str, pos, st(pos) - 1)>> \o from[st(pos) + 1]
  BY <1>4, <1>9
<1>11. Cuts(from, str, separator, last)
  <2> HIDE DEF st
  <2>1. QED BY <1>0, <1>10 DEF Cuts
<1>12. QED BY <1>1, <1>11

JoinPieces(fields, separator) ==
  [i \in 1..Len(fields) |-> IF i = 1 THEN fields[i] ELSE <<separator>> \o fields[i]]

LEMMA JoinedIsChained ==
  ASSUME NEW fields, Len(fields) \in Nat, NEW separator
  PROVE  IsChained(F!Joined(fields, separator), JoinPieces(fields, separator), Len(fields))
<1> DEFINE m == Len(fields)
           p == JoinPieces(fields, separator)
           piece(i) == IF i = 1 THEN fields[i] ELSE <<separator>> \o fields[i]
           text[i \in 0..m] == IF i = 0 THEN <<>> ELSE text[i - 1] \o piece(i)
           Is(f) == f = [i \in 0..m |-> IF i = 0 THEN <<>> ELSE f[i - 1] \o piece(i)]
<1>1. F!Joined(fields, separator) = text[m]
  BY DEF F!Joined
<1>2. text = CHOOSE f : Is(f)
  OBVIOUS
<1> HIDE DEF text
<1>3. m \in Nat /\ \A i \in 1..m : p[i] = piece(i)
  BY DEF JoinPieces
<1> HIDE DEF m, p, piece
<1>4. ASSUME NEW f PROVE Is(f) <=> IsChain(f, p, m)
  <2>1. \A i \in 0..m : (IF i = 0 THEN <<>> ELSE f[i - 1] \o piece(i))
                        = (IF i = 0 THEN <<>> ELSE f[i - 1] \o p[i])
    BY <1>3
  <2>2. [i \in 0..m |-> IF i = 0 THEN <<>> ELSE f[i - 1] \o piece(i)]
        = [i \in 0..m |-> IF i = 0 THEN <<>> ELSE f[i - 1] \o p[i]]
    BY <2>1
  <2>3. QED BY <2>2 DEF IsChain
<1> HIDE DEF Is
<1>5. Is(text)
  <2>1. \E f : IsChain(f, p, m)
    BY <1>3, ChainExists
  <2>2. QED BY <1>2, <1>4, <2>1
<1>6. QED BY <1>1, <1>4, <1>5 DEF IsChained, m, p

LEMMA FrontOfAField ==
  ASSUME NEW x \in Bytes, NEW r \in Seq(Bytes)
  PROVE  LET s == <<x>> \o r
         IN  /\ s \in Seq(Bytes) /\ Len(s) = Len(r) + 1 /\ s[1] = x
             /\ \A i \in 1..Len(r) : s[i + 1] = r[i]
<1> DEFINE h == <<x>>
<1>1. h \in Seq(Bytes) /\ Len(h) = 1 /\ h[1] = x
  OBVIOUS
<1> HIDE DEF h
<1>2. /\ h \o r \in Seq(Bytes) /\ Len(h \o r) = Len(h) + Len(r)
      /\ \A k \in 1..Len(h) + Len(r) : (h \o r)[k] = IF k <= Len(h) THEN h[k] ELSE r[k - Len(h)]
  BY <1>1, ConcatProperties
<1>3. (h \o r)[1] = x /\ \A k \in 1..Len(r) : (h \o r)[k + 1] = r[k]
  <2>1. Len(r) \in Nat
    OBVIOUS
  <2>2. QED BY <1>1, <1>2, <2>1
<1>4. QED BY <1>1, <1>2, <1>3 DEF h

LEMMA JoinedGrows ==
  ASSUME NEW x \in Bytes, NEW r \in Seq(Bytes), Len(r) >= 1, NEW separator \in Byte
  PROVE  F!Joined(<<x>> \o r, separator) = (x \o <<separator>>) \o F!Joined(r, separator)
<1> DEFINE m == Len(r)
           s == <<x>> \o r
           p == JoinPieces(r, separator)
           q == JoinPieces(s, separator)
           d == <<separator>>
           y == x \o d
<1>1. m \in Nat /\ m >= 1 /\ \A i \in 1..m : r[i] \in Bytes
  OBVIOUS
<1>2. s \in Seq(Bytes) /\ Len(s) = m + 1 /\ s[1] = x /\ \A i \in 1..m : s[i + 1] = r[i]
  BY FrontOfAField
<1> HIDE DEF s
<1>3. p[1] = r[1] /\ \A i \in 2..m : p[i] = d \o r[i]
  BY <1>1 DEF JoinPieces
<1>4. q[1] = x /\ \A i \in 1..m : q[i + 1] = d \o r[i]
  <2>1. \A i \in 1..(m + 1) : q[i] = IF i = 1 THEN s[i] ELSE d \o s[i]
    BY <1>2 DEF JoinPieces
  <2>2. ASSUME NEW i \in 1..m PROVE q[i + 1] = d \o r[i]
    <3>1. i + 1 \in 1..(m + 1) /\ i + 1 # 1
      BY <1>1
    <3> HIDE DEF q, m, d
    <3>2. QED BY <1>2, <2>1, <3>1
  <2>3. 1 \in 1..(m + 1)
    BY <1>1
  <2>4. QED BY <1>2, <2>1, <2>2, <2>3
<1>5. d \in Bytes /\ y \in Bytes
  <2>1. d \in Bytes
    BY DEF Bytes
  <2>2. QED BY <2>1, JoinsFit
<1>6. PICK f : IsChain(f, p, m) /\ F!Joined(r, separator) = f[m]
  BY <1>1, JoinedIsChained DEF IsChained
<1>7. PICK g : IsChain(g, q, m + 1) /\ F!Joined(s, separator) = g[m + 1]
  <2>1. Len(s) \in Nat
    BY <1>1, <1>2
  <2>2. IsChained(F!Joined(s, separator), q, m + 1)
    BY <1>2, <2>1, JoinedIsChained
  <2>3. QED BY <2>2 DEF IsChained
<1> HIDE DEF m, p, q, d
<1>8. f[0] = <<>> /\ \A i \in 1..m : f[i] = f[i - 1] \o p[i]
  BY <1>1, <1>6, ChainGoesOn
<1>9. g[0] = <<>> /\ \A i \in 1..(m + 1) : g[i] = g[i - 1] \o q[i]
  <2>1. m + 1 \in Nat
    BY <1>1
  <2>2. QED BY <1>7, <2>1, ChainGoesOn
<1>10. \A i \in 1..m : d \o r[i] \in Bytes
  BY <1>1, <1>5, JoinsFit
<1>11. ArePieces(p, m)
  <2>1. ASSUME NEW i \in 1..m PROVE p[i] \in Bytes
    <3>1. i = 1 \/ i \in 2..m
      BY <1>1
    <3>2. QED BY <1>1, <1>3, <1>10, <3>1
  <2>2. QED BY <2>1 DEF ArePieces
<1>12. \A i \in 0..m : f[i] \in Bytes
  BY <1>1, <1>6, <1>11, ChainFits
<1> DEFINE N == {k \in Nat : k + 1 <= m => g[k + 2] = y \o f[k + 1]}
<1>13. 0 \in N
  <2>1. 1 \in 1..m /\ 1 \in 1..(m + 1) /\ 2 \in 1..(m + 1) /\ 1 - 1 = 0 /\ 2 - 1 = 1 /\ 1 + 1 = 2
    BY <1>1
  <2>2. g[1] = g[0] \o q[1] /\ g[2] = g[1] \o q[2] /\ f[1] = f[0] \o p[1] /\ q[2] = d \o r[1]
    BY <1>4, <1>8, <1>9, <2>1
  <2>3. r[1] \in Bytes
    BY <1>1, <2>1
  <2>4. <<>> \o x = x /\ <<>> \o r[1] = r[1]
    BY <2>3, ConcatEmptySeq DEF Bytes
  <2>5. g[1] = x /\ f[1] = r[1]
    BY <1>3, <1>4, <1>8, <1>9, <2>2, <2>4
  <2>6. g[2] = x \o (d \o r[1])
    BY <2>2, <2>5
  <2>7. (x \o d) \o r[1] = x \o (d \o r[1])
    BY <1>5, <2>3, Regrouped
  <2>8. g[2] = y \o f[1]
    BY <2>5, <2>6, <2>7, Zenon
  <2> HIDE DEF y
  <2>9. 0 \in Nat /\ 0 + 2 = 2 /\ 0 + 1 = 1
    OBVIOUS
  <2>10. QED BY <2>8, <2>9
<1> HIDE DEF y
<1>14. ASSUME NEW k \in N PROVE k + 1 \in N
  <2>1. k \in Nat
    OBVIOUS
  <2>2. SUFFICES ASSUME (k + 1) + 1 <= m PROVE g[(k + 1) + 2] = y \o f[(k + 1) + 1]
    BY <2>1
  <2> DEFINE i == k + 1
  <2>3. /\ i \in 0..m /\ i + 1 \in 1..m /\ (i + 1) - 1 = i /\ i + 1 \in 2..m
        /\ i + 2 \in 1..(m + 1) /\ (i + 2) - 1 = i + 1 /\ (i + 1) + 1 = i + 2
        /\ k + 2 = i + 1
    BY <1>1, <2>1, <2>2
  <2>4. g[i + 1] = y \o f[i]
    BY <2>1, <2>3
  <2> HIDE DEF i
  <2> DEFINE a == f[i]
             b == d \o r[i + 1]
  <2>5. f[i + 1] = a \o b
    BY <1>3, <1>8, <2>3
  <2>6. g[i + 2] = g[i + 1] \o b
    BY <1>4, <1>9, <2>3
  <2>7. a \in Bytes /\ b \in Bytes /\ y \in Bytes
    BY <1>5, <1>10, <1>12, <2>3
  <2> HIDE DEF a, b
  <2>8. (y \o a) \o b = y \o (a \o b)
    BY <2>7, Regrouped, Zenon
  <2>9. g[i + 2] = y \o f[i + 1]
    BY <2>4, <2>5, <2>6, <2>8 DEF a
  <2>10. QED BY <2>9 DEF i
<1> HIDE DEF N
<1>15. N = Nat
  <2>1. N \subseteq Nat
    BY DEF N
  <2>2. QED BY <1>13, <1>14, <2>1, AllNumbers
<1>16. m - 1 \in N /\ (m - 1) + 1 = m /\ (m - 1) + 2 = m + 1
  BY <1>1, <1>15
<1>17. g[m + 1] = y \o f[m]
  BY <1>1, <1>16 DEF N
<1>18. QED BY <1>6, <1>7, <1>17 DEF s, y, d

LEMMA JoinedOfOne ==
  ASSUME NEW x \in Bytes, NEW separator
  PROVE  F!Joined(<<x>>, separator) = x
<1> DEFINE s == <<x>>
           p == JoinPieces(s, separator)
<1>1. Len(s) = 1 /\ 1 \in Nat /\ s[1] = x
  OBVIOUS
<1>2. p[1] = x
  BY <1>1 DEF JoinPieces
<1> HIDE DEF s, p
<1>3. PICK f : IsChain(f, p, 1) /\ F!Joined(s, separator) = f[1]
  BY <1>1, JoinedIsChained DEF IsChained, p
<1>4. f[0] = <<>> /\ \A i \in 1..1 : f[i] = f[i - 1] \o p[i]
  BY <1>1, <1>3, ChainGoesOn
<1>5. 1 \in 1..1 /\ 1 - 1 = 0
  OBVIOUS
<1>6. f[1] = <<>> \o x
  BY <1>2, <1>4, <1>5
<1>7. QED BY <1>3, <1>6, ConcatEmptySeq DEF s, Bytes

\* What a text looks like from pos on, where a separator stands at st.
LEMMA FieldAndRest ==
  ASSUME NEW str \in Bytes, NEW pos \in 1..(Len(str) + 1), NEW st \in pos..Len(str), NEW separator,
         str[st] = separator
  PROVE  /\ Behind(str, pos) = (SubSeq(str, pos, st - 1) \o <<separator>>) \o Behind(str, st + 1)
         /\ SubSeq(str, pos, st - 1) \in Bytes /\ separator \in Byte
         /\ st + 1 \in (pos + 1)..(Len(str) + 1)
<1> DEFINE n == Len(str)
           j == pos - 1
           k == st - pos
           a == Drop(str, j)
           x == SubSeq(str, pos, st - 1)
           b == Drop(str, st)
<1>1. str \in Seq(Byte) /\ n \in Nat /\ \A i \in 1..n : str[i] \in Byte
  BY BytesAt DEF Bytes
<1>2. /\ j \in 0..n /\ k \in 0..(n - j) /\ j + k = st - 1 /\ pos = j + 1 /\ st - 1 \in Nat /\ st - 1 < n
      /\ (st - 1) + 1 = st /\ st \in 1..n /\ st \in Int
  BY <1>1
<1>3. /\ a \in Seq(Byte) /\ Len(a) = n - j
      /\ \A i \in 1..(n - j) : a[i] = str[j + i]
  BY <1>1, <1>2, DropFits
<1>4. Drop(a, k) = Drop(str, st - 1)
  BY <1>1, <1>2, DropTwice
<1>5. Drop(str, st - 1) = <<str[st]>> \o b /\ b \in Seq(Byte)
  <2>1. /\ Drop(str, st - 1) = <<str[(st - 1) + 1]>> \o Drop(str, (st - 1) + 1)
        /\ Drop(str, (st - 1) + 1) \in Seq(Byte)
    BY <1>1, <1>2, FirstAndRest
  <2>2. QED BY <1>2, <2>1
<1>6. x \in Seq(Byte) /\ SubSeq(a, 1, k) = x
  <2> DEFINE l == st - 1
  <2>1. pos \in Nat /\ l \in Int /\ pos >= 1 /\ l <= n /\ pos <= l + 1 /\ l - pos + 1 = k
    BY <1>1, <1>2
  <2> HIDE DEF l
  <2>2. /\ SubSeq(str, pos, l) \in Seq(Byte) /\ Len(SubSeq(str, pos, l)) = k
        /\ \A i \in 1..k : SubSeq(str, pos, l)[i] = str[pos + i - 1]
    <3>1. SubSeq(str, pos, l) \in Seq(Byte)
      BY <1>1, <2>1, SubSeqProperties
    <3>2. Len(SubSeq(str, pos, l)) = k
      BY <1>1, <2>1, SubSeqProperties
    <3>3. \A i \in 1..k : SubSeq(str, pos, l)[i] = str[pos + i - 1]
      BY <1>1, <2>1, SubSeqProperties
    <3>4. QED BY <3>1, <3>2, <3>3
  <2>3. k \in 0..Len(a)
    BY <1>2, <1>3
  <2> HIDE DEF k, a
  <2>4. /\ SubSeq(a, 1, k) \in Seq(Byte) /\ Len(SubSeq(a, 1, k)) = k
        /\ \A i \in 1..k : SubSeq(a, 1, k)[i] = a[i]
    BY <1>3, <2>3, DropFits
  <2>5. \A i \in 1..k : a[i] = str[pos + i - 1]
    <3>1. SUFFICES ASSUME NEW i \in 1..k PROVE a[i] = str[pos + i - 1]
      OBVIOUS
    <3>2. i \in 1..(n - j) /\ j + i = pos + i - 1
      BY <1>1, <1>2
    <3>3. QED BY <1>3, <3>2
  <2>6. SubSeq(a, 1, k) = SubSeq(str, pos, l)
    BY <2>2, <2>4, <2>5, SeqEqual
  <2>7. QED BY <2>2, <2>6 DEF l
<1>7. SubSeq(a, 1, k) \o Drop(a, k) = a
  <2>1. k \in 0..Len(a)
    BY <1>2, <1>3
  <2> HIDE DEF a, k
  <2>2. QED BY <1>3, <2>1, CutAndJoined
<1>8. separator \in Byte
  BY <1>1, <1>2
<1>9. Behind(str, pos) = a /\ Behind(str, st + 1) = b
  <2>1. Behind(str, pos) = a
    BY <1>2 DEF Behind, Drop
  <2>2. Behind(str, st + 1) = b
    BY DEF Behind, Drop
  <2>3. QED BY <2>1, <2>2
<1> DEFINE d == <<separator>>
<1>10. d \in Bytes
  BY <1>8 DEF Bytes
<1>11. a = x \o (d \o b)
  BY <1>4, <1>5, <1>6, <1>7
<1> HIDE DEF a, b, x, d
<1>12. x \in Bytes /\ b \in Bytes
  BY <1>5, <1>6 DEF Bytes
<1>13. (x \o d) \o b = x \o (d \o b)
  BY <1>10, <1>12, Regrouped, Zenon
<1>14. st + 1 \in (pos + 1)..(Len(str) + 1)
  BY <1>1
<1>15. Behind(str, pos) = (x \o d) \o Behind(str, st + 1)
  BY <1>9, <1>11, <1>13
<1>16. QED BY <1>8, <1>12, <1>14, <1>15 DEF x, d

LEMMA LastStays ==
  ASSUME NEW x \in Bytes, NEW r \in Seq(Bytes), Len(r) >= 1
  PROVE  LET s == <<x>> \o r
         IN  s[Len(s)] = r[Len(r)] /\ AllButLast(s) = <<x>> \o AllButLast(r)
<1> DEFINE m == Len(r)
           s == <<x>> \o r
           t == AllButLast(r)
           u == <<x>> \o t
<1>1. m \in Nat /\ m >= 1
  OBVIOUS
<1>2. s \in Seq(Bytes) /\ Len(s) = m + 1 /\ s[1] = x /\ \A i \in 1..m : s[i + 1] = r[i]
  BY FrontOfAField
<1>3. s[Len(s)] = r[m]
  BY <1>1, <1>2
<1>4. t \in Seq(Bytes) /\ Len(t) = m - 1 /\ \A i \in 1..(m - 1) : t[i] = r[i]
  <2>1. m - 1 \in 0..Len(r)
    BY <1>1
  <2>2. QED BY <2>1, DropFits DEF AllButLast
<1> HIDE DEF t
<1>5. u \in Seq(Bytes) /\ Len(u) = Len(t) + 1 /\ u[1] = x /\ \A i \in 1..Len(t) : u[i + 1] = t[i]
  BY <1>4, FrontOfAField
<1> HIDE DEF s, u
<1> DEFINE v == AllButLast(s)
<1>6. v \in Seq(Bytes) /\ Len(v) = m /\ \A i \in 1..m : v[i] = s[i]
  <2>1. m \in 0..Len(s) /\ Len(s) - 1 = m
    BY <1>1, <1>2
  <2> HIDE DEF m
  <2>2. QED BY <1>2, <2>1, DropFits DEF AllButLast
<1> HIDE DEF v, m
<1>7. Len(u) = m
  BY <1>1, <1>4, <1>5
<1>8. \A i \in 1..m : v[i] = u[i]
  <2>1. SUFFICES ASSUME NEW i \in 1..m PROVE v[i] = u[i]
    OBVIOUS
  <2>2. CASE i = 1
    BY <1>2, <1>5, <1>6, <2>2
  <2>3. CASE i # 1
    <3>1. i - 1 \in 1..(m - 1) /\ i - 1 \in 1..m /\ (i - 1) + 1 = i
      BY <1>1, <2>3
    <3>2. s[i] = r[i - 1] /\ u[i] = t[i - 1] /\ t[i - 1] = r[i - 1]
      BY <1>2, <1>4, <1>5, <3>1
    <3>3. QED BY <1>6, <3>2
  <2>4. QED BY <2>2, <2>3
<1>9. v = u
  BY <1>5, <1>6, <1>7, <1>8, SeqEqual
<1>10. QED BY <1>3, <1>9 DEF s, t, u, v, m

LEMMA NothingButLast ==
  ASSUME NEW x \in Bytes
  PROVE  AllButLast(<<x>>) = <<>>
<1>1. <<x>> \in Seq(Bytes) /\ Len(<<x>>) = 1 /\ 1 > 1 - 1
  OBVIOUS
<1>2. SubSeq(<<x>>, 1, 1 - 1) = <<>>
  BY <1>1, SubSeqEmpty
<1>3. QED BY <1>1, <1>2 DEF AllButLast

\* What one way gives of a text from pos on, and the two others beside it.
Field(fields, lines, iterated, str, pos, separator) ==
  /\ fields \in Seq(Bytes) /\ Len(fields) >= 1
  /\ F!Joined(fields, separator) = Behind(str, pos)
  /\ lines = IF Len(fields[Len(fields)]) = 0 THEN AllButLast(fields) ELSE fields
  /\ iterated = IF Len(fields[Len(fields)]) <= 1 THEN AllButLast(fields) ELSE fields

LEMMA LastOfAll ==
  ASSUME NEW str \in Bytes, NEW pos \in 1..(Len(str) + 1), NEW separator
  PROVE  Field(LastField(str)[pos], LastLine(str)[pos], LastIterated(str)[pos], str, pos, separator)
<1> DEFINE d == Behind(str, pos)
           n == Len(str)
           s == <<d>>
<1>1. str \in Seq(Byte) /\ n \in Nat
  BY BytesAt DEF Bytes
<1>2. d \in Bytes /\ Len(d) = n - (pos - 1)
  <2>1. pos - 1 \in 0..n /\ (pos - 1) + 1 = pos
    BY <1>1
  <2>2. Drop(str, pos - 1) \in Seq(Byte) /\ Len(Drop(str, pos - 1)) = n - (pos - 1)
    BY <1>1, <2>1, DropFits
  <2>3. Drop(str, pos - 1) = d
    BY <2>1 DEF Drop, Behind
  <2>4. QED BY <2>2, <2>3 DEF Bytes
<1>3. /\ LastField(str)[pos] = s
      /\ LastLine(str)[pos] = IF pos > n THEN <<>> ELSE s
      /\ LastIterated(str)[pos] = IF pos >= n THEN <<>> ELSE s
  BY DEF LastField, LastLine, LastIterated
<1> HIDE DEF d
<1>4. s \in Seq(Bytes) /\ Len(s) = 1 /\ s[1] = d
  BY <1>2
<1>5. F!Joined(s, separator) = d /\ AllButLast(s) = <<>>
  BY <1>2, JoinedOfOne, NothingButLast
<1> HIDE DEF s
<1>6. (Len(d) = 0 <=> pos > n) /\ (Len(d) <= 1 <=> pos >= n)
  BY <1>1, <1>2
<1>7. s[Len(s)] = d
  BY <1>4
<1> HIDE DEF n
<1>8. QED BY <1>3, <1>4, <1>5, <1>6, <1>7 DEF Field, d

LEMMA FieldGoesOn ==
  ASSUME NEW str \in Bytes, NEW pos \in 1..(Len(str) + 1), NEW separator,
         NEW st \in pos..Len(str), str[st] = separator,
         NEW fields, NEW lines, NEW iterated, Field(fields, lines, iterated, str, st + 1, separator)
  PROVE  LET x == SubSeq(str, pos, st - 1)
         IN  Field(<<x>> \o fields, <<x>> \o lines, <<x>> \o iterated, str, pos, separator)
<1> DEFINE x == SubSeq(str, pos, st - 1)
           s == <<x>> \o fields
<1>1. /\ fields \in Seq(Bytes) /\ Len(fields) >= 1
      /\ F!Joined(fields, separator) = Behind(str, st + 1)
      /\ lines = IF Len(fields[Len(fields)]) = 0 THEN AllButLast(fields) ELSE fields
      /\ iterated = IF Len(fields[Len(fields)]) <= 1 THEN AllButLast(fields) ELSE fields
  BY DEF Field
<1>2. /\ Behind(str, pos) = (x \o <<separator>>) \o Behind(str, st + 1)
      /\ x \in Bytes /\ separator \in Byte
  BY FieldAndRest
<1> HIDE DEF x
<1>3. s \in Seq(Bytes) /\ Len(s) = Len(fields) + 1
  BY <1>1, <1>2, FrontOfAField
<1>4. F!Joined(s, separator) = (x \o <<separator>>) \o F!Joined(fields, separator)
  BY <1>1, <1>2, JoinedGrows
<1>5. s[Len(s)] = fields[Len(fields)] /\ AllButLast(s) = <<x>> \o AllButLast(fields)
  BY <1>1, <1>2, LastStays
<1> HIDE DEF s
<1>6. Len(s) >= 1
  BY <1>1, <1>3
<1>7. F!Joined(s, separator) = Behind(str, pos)
  BY <1>1, <1>2, <1>4
<1>8. <<x>> \o lines = IF Len(s[Len(s)]) = 0 THEN AllButLast(s) ELSE s
  BY <1>1, <1>5, Zenon DEF s
<1>9. <<x>> \o iterated = IF Len(s[Len(s)]) <= 1 THEN AllButLast(s) ELSE s
  BY <1>1, <1>5, Zenon DEF s
<1>10. Field(s, <<x>> \o lines, <<x>> \o iterated, str, pos, separator)
  BY <1>3, <1>6, <1>7, <1>8, <1>9 DEF Field
<1>11. QED BY <1>10 DEF s, x

LEMMA SomeCut ==
  ASSUME NEW str \in Bytes, NEW separator
  PROVE  \E f : Cuts(f, str, separator, LastIterated(str))
<1> DEFINE last == LastIterated(str)
           w == FieldWalk(str, separator, last)
           top == Len(str) + 1
<1>1. PICK f : IsWalk(f, w, 1, top)
  BY FieldWalkExists
<1>2. \A pos \in 1..top : f[pos] = Goes(w, f, pos)
  <2> HIDE DEF w, top
  <2>1. QED BY <1>1 DEF IsWalk
<1>3. Cuts(f, str, separator, last)
  <2>1. SUFFICES ASSUME NEW pos \in 1..top
                 PROVE  LET st == F!Find(str, separator, pos)
                        IN  /\ st = 0 => f[pos] = last[pos]
                            /\ st # 0 => f[pos] = <<SubSeq(str, pos, st - 1)>> \o f[st + 1]
    BY DEF Cuts
  <2>2. f[pos] = Goes(w, f, pos)
    BY <1>2
  <2> HIDE DEF last
  <2>3. QED BY <2>2, FieldWalkIs
<1>4. QED BY <1>3

LEMMA FieldsAreTheSame ==
  ASSUME NEW str \in Bytes, NEW separator
  PROVE  \E iterated :
           /\ Field(F!split(str, separator), F!getlineSplit(str, separator),
                    iterated, str, 1, separator)
           /\ Literal(separator) => F!SplitIterator(str, separator) = iterated
<1> DEFINE top == Len(str) + 1
<1>1. PICK f : F!split(str, separator) = f[1] /\ Cuts(f, str, separator, LastField(str))
  BY SplitIs
<1>2. PICK g : F!getlineSplit(str, separator) = g[1] /\ Cuts(g, str, separator, LastLine(str))
  BY GetlineIs
<1>3. PICK h : /\ Literal(separator) => F!SplitIterator(str, separator) = h[1]
               /\ Cuts(h, str, separator, LastIterated(str))
  BY IteratorIs, SomeCut
<1>4. Len(str) \in Nat
  BY BytesAt
<1> DEFINE S == {pos \in 1..top : Field(f[pos], g[pos], h[pos], str, pos, separator)}
<1>5. ASSUME NEW pos \in 1..top, \A j \in (pos + 1)..top : j \in S PROVE pos \in S
  <2> DEFINE st == F!Find(str, separator, pos)
             x == SubSeq(str, pos, st - 1)
  <2>1. /\ st = 0 => f[pos] = LastField(str)[pos]
        /\ st # 0 => f[pos] = <<x>> \o f[st + 1]
    BY <1>1 DEF Cuts
  <2>2. /\ st = 0 => g[pos] = LastLine(str)[pos]
        /\ st # 0 => g[pos] = <<x>> \o g[st + 1]
    BY <1>2 DEF Cuts
  <2>3. /\ st = 0 => h[pos] = LastIterated(str)[pos]
        /\ st # 0 => h[pos] = <<x>> \o h[st + 1]
    BY <1>3 DEF Cuts
  <2>4. st # 0 => st \in pos..Len(str) /\ str[st] = separator
    BY FindIs
  <2>5. Field(LastField(str)[pos], LastLine(str)[pos], LastIterated(str)[pos], str, pos, separator)
    BY LastOfAll
  <2> HIDE DEF st
  <2>6. CASE st = 0
    BY <2>1, <2>2, <2>3, <2>5, <2>6
  <2>7. CASE st # 0
    <3>1. st + 1 \in (pos + 1)..top
      BY <1>4, <2>4, <2>7
    <3>2. Field(f[st + 1], g[st + 1], h[st + 1], str, st + 1, separator)
      BY <1>5, <3>1
    <3>3. Field(<<x>> \o f[st + 1], <<x>> \o g[st + 1], <<x>> \o h[st + 1], str, pos, separator)
      BY <2>4, <2>7, <3>2, FieldGoesOn
    <3> HIDE DEF x
    <3>4. QED BY <2>1, <2>2, <2>3, <2>7, <3>3
  <2>8. QED BY <2>6, <2>7
<1> HIDE DEF S
<1>6. \A pos \in 1..top : pos \in S
  <2>1. top \in Nat /\ 1 \in Nat
    BY <1>4
  <2> HIDE DEF top
  <2>2. QED BY <1>5, <2>1, FromTheEnd
<1>7. 1 \in S
  BY <1>4, <1>6
<1>8. QED BY <1>1, <1>2, <1>3, <1>7 DEF S

LEMMA TextsFromInv == MessageInv => TextsAgree
<1>1. SUFFICES ASSUME MessageInv PROVE TextsAgree
  OBVIOUS
<1>2. message \in Bytes
  BY <1>1 DEF MessageInv
<1>3. U!utf8len(message) = IF U!ReadsPastEnd(message) THEN U!Raises
                           ELSE Len(U!string2wstring(message, 32, 77))
  BY <1>2, ScriptsCount
<1>4. WideTextComesBack
  <2>1. SUFFICES ASSUME wide # Raw, NEW wideBits \in {16, 32},
                        \A i \in DOMAIN wide : wide[i] < (IF wideBits = 16 THEN 2^16 ELSE 2^26)
                 PROVE  U!string2wstring(message, wideBits, 77) = wide
    BY DEF WideTextComesBack
  <2>2. wide \in Seq(WideChar) /\ message = U!wstring2string(wide)
    BY <1>1, <2>1 DEF MessageInv
  <2>3. QED BY <2>1, <2>2, WideComesBack
<1>5. FieldsRejoin
  <2>0. SUFFICES ASSUME NEW separator \in Separators
                 PROVE  LET fields == F!split(message, separator)
                            last == Len(fields[Len(fields)])
                        IN  /\ F!Joined(fields, separator) = message
                            /\ F!getlineSplit(message, separator) = IF last = 0 THEN AllButLast(fields) ELSE fields
                            /\ Literal(separator) =>
                                 F!SplitIterator(message, separator) = IF last <= 1 THEN AllButLast(fields) ELSE fields
    BY DEF FieldsRejoin
  <2> DEFINE fields == F!split(message, separator)
             lines == F!getlineSplit(message, separator)
             found == F!SplitIterator(message, separator)
  <2>1. PICK iterated : /\ Field(fields, lines, iterated, message, 1, separator)
                        /\ Literal(separator) => found = iterated
    BY <1>2, FieldsAreTheSame
  <2>2. Behind(message, 1) = message
    <3>1. message \in Seq(Byte)
      BY <1>2 DEF Bytes
    <3>2. QED BY <3>1 DEF Behind
  <2> HIDE DEF fields, lines, found
  <2>3. /\ F!Joined(fields, separator) = message
        /\ lines = IF Len(fields[Len(fields)]) = 0 THEN AllButLast(fields) ELSE fields
        /\ iterated = IF Len(fields[Len(fields)]) <= 1 THEN AllButLast(fields) ELSE fields
    BY <2>1, <2>2 DEF Field
  <2>4. QED BY <2>1, <2>3 DEF fields, lines, found
<1>6. QED BY <1>3, <1>4, <1>5 DEF TextsAgree

(* utf8len of the scripts counts the characters that string2wstring makes  *)
(* of any bytes and refuses those it would read behind; a wide text of     *)
(* characters below 2^26 comes back from its bytes, through 16 bits below  *)
(* 2^16; the fields of the three ways to cut a text are the same but for   *)
(* the last, and give the text back - those of the iterator for separators *)
(* that are no pattern in Lua (Unicode.cpp, stringex.lua:13-59, 93-111,    *)
(* Functional.cpp:71-87).                                                  *)
THEOREM TextsAlwaysAgree == Messages => []TextsAgree
<1>1. MessageInv => TextsAgree
  BY TextsFromInv
<1>2. QED BY <1>1, AlwaysAgree, PTL

===============================================================================
