---------------------------- MODULE BitStreamProofs ----------------------------
(***************************************************************************)
(* That a bit stream stays inside its memory and that what is written is   *)
(* kept and read back, for every size of memory, padding, number of bits,  *)
(* values and sequence of calls: proofs about BitStream.                   *)
(*                                                                         *)
(* The first part is about sizes, and the contents of the memory play no   *)
(* part in it: growth, whenever it is asked for, ends beyond the limit by  *)
(* what was asked and sets both limits to the memory it takes, so only the *)
(* program can put a limit beyond the memory.                              *)
(* The second is about contents: what the shifts and masks of the code do  *)
(* to the bits of its bytes, then that every call deposits in the memory   *)
(* the bits it records and no others.                                      *)
(***************************************************************************)
EXTENDS BitStream, WellFoundedInduction, TLAPS

(* The inductive invariant of the sizes. *)
StaysInside == SizesOK /\ LimitsInside /\ BitsStayInside

-------------------------------------------------------------------------------
(* Growth. *)

(* A space is large enough for the limits that the program has not         *)
(* overstated, and for the bits asked for.                                 *)
Fits(space, newBits) ==
  /\ space.cap \in Nat /\ space.used \in Nat
  /\ space.read \in Nat /\ space.write \in Nat
  /\ space.over \subseteq overstated
  /\ space.read <= 8 * space.cap \/ "read" \in space.over
  /\ space.write <= 8 * space.cap \/ "write" \in space.over
  /\ space.used <= space.cap /\ m_capacity <= space.cap
  /\ newBits > 0 => maxWriteBitNum + newBits <= 8 * space.cap

LEMMA NewSizeFits ==
  ASSUME SizesOK, NEW newBits \in Nat
  PROVE  /\ NewSize(newBits) \in Nat
         /\ maxWriteBitNum + newBits <= 8 * NewSize(newBits)
<1> DEFINE n == maxWriteBitNum + newBits + 7
           d == n \div 8
<1>1. n \in Nat /\ ResizePad \in Nat
  BY SizesAssumption DEF SizesOK
<1>2. d \in Nat /\ n < 8 * d + 8
  BY <1>1
<1>3. NewSize(newBits) = d + ResizePad
  BY DEF NewSize
<1>4. maxWriteBitNum \in Nat
  BY DEF SizesOK
<1> HIDE DEF d
<1>5. QED
  BY <1>1, <1>2, <1>3, <1>4

(* What a call gets from resizeBits, or has already, fits. *)
LEMMA SpacesFit ==
  ASSUME SizesOK, LimitsInside, NEW newBits \in Nat, NEW space \in Spaces(newBits)
  PROVE  Fits(space, newBits)
<1>1. CASE newBits = 0
  <2>1. space = Space
    BY <1>1 DEF Spaces
  <2>2. QED
    BY <1>1, <2>1 DEF Space, Fits, SizesOK, LimitsInside
<1>2. CASE newBits # 0
  <2> DEFINE size == NewSize(newBits)
             cap  == IF size > m_capacity THEN size ELSE m_capacity
  <2>1. space \in ResizeBits(newBits)
    BY <1>2 DEF Spaces
  <2>2. /\ space.cap = cap /\ space.used = size /\ space.over = {}
        /\ space.read = 8 * size /\ space.write = 8 * size
    BY <2>1 DEF ResizeBits
  <2>3. size \in Nat /\ maxWriteBitNum + newBits <= 8 * size
    BY NewSizeFits
  <2>4. m_capacity \in Nat /\ maxWriteBitNum \in Nat /\ ResizePad \in Nat
    BY SizesAssumption DEF SizesOK
  <2> HIDE DEF size
  <2>5. cap \in Nat /\ size <= cap /\ m_capacity <= cap
    BY <2>3, <2>4
  <2> HIDE DEF cap
  <2>6. QED
    BY <2>2, <2>3, <2>4, <2>5 DEF Fits
<1>3. QED
  BY <1>1, <1>2

-------------------------------------------------------------------------------
(* Calls that write.  Of what they do, only the sizes matter here. *)

Sized(operation, newBits, q, end) ==
  \/ Throws
  \/ \E space \in Spaces(newBits) :
       IF q > 8 * space.cap THEN Outside(operation)
       ELSE Install(space) /\ bitNum' = end

(* A call that installs a space that fits keeps the invariant. *)
LEMMA InstallStays ==
  ASSUME StaysInside, Call, NEW newBits \in Nat, NEW space, Fits(space, newBits),
         NEW end \in Nat, Install(space), bitNum' = end
  PROVE  StaysInside'
<1>1. calls' \in 0..MaxCalls
  BY SizesAssumption DEF StaysInside, SizesOK, Call
<1>2. SizesOK'
  BY <1>1 DEF StaysInside, SizesOK, Install, Fits
<1>3. LimitsInside'
  BY DEF LimitsInside, Install, Fits
<1>4. fault' = "none"
  BY DEF Call, Install
<1>5. QED
  BY <1>2, <1>3, <1>4 DEF StaysInside, BitsStayInside

(* A call that leaves the memory, or throws, keeps the sizes. *)
LEMMA OutsideStays ==
  ASSUME StaysInside, Call, NEW operation \in Faults, Outside(operation),
         operation = "readBits" => "read" \in overstated,
         operation = "writeBits" => "write" \in overstated
  PROVE  StaysInside'
<1>1. calls' \in 0..MaxCalls
  BY SizesAssumption DEF StaysInside, SizesOK, Call
<1>2. SizesOK' /\ LimitsInside'
  BY <1>1 DEF StaysInside, SizesOK, LimitsInside, Outside, bufferVars, limitVars
<1>3. BitsStayInside'
  BY DEF BitsStayInside, Outside, limitVars
<1>4. QED
  BY <1>2, <1>3 DEF StaysInside

LEMMA ThrowsStays ==
  ASSUME StaysInside, Call, Throws
  PROVE  StaysInside'
<1>1. calls' \in 0..MaxCalls
  BY SizesAssumption DEF StaysInside, SizesOK, Call
<1>2. QED
  BY <1>1 DEF StaysInside, SizesOK, LimitsInside, BitsStayInside, Throws, bufferVars, limitVars

(* Together: a call that writes keeps the invariant if it can leave the    *)
(* memory only under an operation's name that allows it.                   *)
LEMMA SizedStays ==
  ASSUME StaysInside, Call, NEW operation \in Faults, NEW newBits \in Nat,
         NEW q \in Nat, NEW end \in Nat, Sized(operation, newBits, q, end),
         \A space : Fits(space, newBits) /\ q > 8 * space.cap =>
           /\ operation # "readBits"
           /\ operation = "writeBits" => "write" \in overstated
  PROVE  StaysInside'
<1>1. CASE Throws
  BY <1>1, ThrowsStays
<1>2. ASSUME NEW space \in Spaces(newBits),
             IF q > 8 * space.cap THEN Outside(operation)
             ELSE Install(space) /\ bitNum' = end
      PROVE  StaysInside'
  <2>1. Fits(space, newBits)
    BY SpacesFit DEF StaysInside
  <2>2. CASE q > 8 * space.cap
    <3>1. Outside(operation)
      BY <1>2, <2>2
    <3>2. QED
      BY <2>1, <2>2, <3>1, OutsideStays
  <2>3. CASE ~(q > 8 * space.cap)
    <3>1. Install(space) /\ bitNum' = end
      BY <1>2, <2>3
    <3>2. QED
      BY <2>1, <3>1, InstallStays
  <2>4. QED
    BY <2>2, <2>3
<1>3. QED
  BY <1>1, <1>2 DEF Sized

LEMMA WriteBitsStays ==
  ASSUME StaysInside, NEW count \in Counts, NEW s \in Sources, WriteBits(count, s)
  PROVE  StaysInside'
<1> DEFINE newBits == IF count + bitNum > maxWriteBitNum
                      THEN count + bitNum - maxWriteBitNum ELSE 0
           q       == bitNum + count
<1>1. /\ count \in Nat /\ bitNum \in Nat /\ maxWriteBitNum \in Nat
      /\ m_capacity \in Nat /\ ResizePad \in Nat
  BY SizesAssumption DEF StaysInside, SizesOK
<1>2. newBits \in Nat /\ q \in Nat
  BY <1>1
<1>3. Call /\ Sized("writeBits", newBits, q, q)
  BY DEF WriteBits, Write, Sized, Record
<1>4. ASSUME NEW space, Fits(space, newBits), q > 8 * space.cap
      PROVE  "write" \in overstated
  BY <1>1, <1>4 DEF Fits, StaysInside, LimitsInside
<1> HIDE DEF newBits, q
<1>5. QED
  BY <1>2, <1>3, <1>4, SizedStays DEF Faults

LEMMA SetBitStays ==
  ASSUME StaysInside, NEW p \in Positions, NEW v \in {0, 1}, SetBit(p, v)
  PROVE  StaysInside'
<1> DEFINE newBits == IF p >= maxWriteBitNum THEN p - maxWriteBitNum + 1 ELSE 0
           q       == p + 1
<1>1. /\ p \in Nat /\ bitNum \in Nat /\ maxWriteBitNum \in Nat
      /\ m_capacity \in Nat /\ ResizePad \in Nat
  BY SizesAssumption DEF StaysInside, SizesOK
<1>2. newBits \in Nat /\ q \in Nat
  BY <1>1
<1>3. Call /\ Sized("writeBits", newBits, q, bitNum)
  BY DEF SetBit, Write, Sized, Record
<1>4. ASSUME NEW space, Fits(space, newBits), q > 8 * space.cap
      PROVE  "write" \in overstated
  BY <1>1, <1>4 DEF Fits, StaysInside, LimitsInside
<1> HIDE DEF newBits, q
<1>5. QED
  BY <1>1, <1>2, <1>3, <1>4, SizedStays DEF Faults

LEMMA WriteFlagStays ==
  ASSUME StaysInside, NEW v \in {0, 1}, WriteFlag(v)
  PROVE  StaysInside'
<1> DEFINE newBits == IF bitNum + 1 > maxWriteBitNum THEN 1 ELSE 0
           q       == bitNum + 1
<1>1. newBits \in Nat /\ q \in Nat
  BY DEF StaysInside, SizesOK
<1>2. Call /\ Sized("writeFlag", newBits, q, q)
  BY DEF WriteFlag, Write, Sized, Record
<1> HIDE DEF newBits, q
<1>3. QED
  BY <1>1, <1>2, SizedStays DEF Faults

LEMMA StoreStays ==
  ASSUME StaysInside, NEW operation \in {"typed", "string"}, NEW bytes,
         Len(bytes) \in Nat, NEW length \in Nat, Store(operation, bytes, length)
  PROVE  StaysInside'
<1> DEFINE q == 8 * NextByte + 8 * Len(bytes)
           r == 8 * NextByte + 8 * length
<1>1. NextByte \in Nat
  BY DEF StaysInside, SizesOK, NextByte
<1>2. q \in Nat /\ r \in Nat
  BY <1>1
<1>3. Call /\ Sized(operation, 0, q, r)
  BY DEF Store, Write, Sized, Record
<1>4. operation \in Faults /\ operation \notin {"readBits", "writeBits"}
  BY DEF Faults
<1> HIDE DEF q, r
<1>5. QED
  BY <1>2, <1>3, <1>4, SizedStays

LEMMA WriteStringStays ==
  ASSUME StaysInside, NEW s \in Strings, NEW width \in {1, 2},
         NEW length \in Lengths, WriteString(s, width, length)
  PROVE  StaysInside'
<1> DEFINE bytes == Encoded(s, width)
           long  == IF length > Len(s) + 1 THEN length ELSE Len(s) + 1
           n     == width * (Len(s) + 1)
<1>1. Len(s) \in Nat /\ length \in Nat
  BY SizesAssumption, DataAssumption
<1>2. n \in Nat /\ width * long \in Nat
  BY <1>1
<1>3. Len(bytes) = n
  <2>1. DOMAIN bytes = 1..n
    BY DEF Encoded
  <2>2. bytes \in Seq({bytes[i] : i \in 1..n})
    BY <1>2 DEF Encoded
  <2> HIDE DEF bytes, n
  <2>3. QED
    BY <1>2, <2>1, <2>2
<1>4. Store("string", bytes, width * long)
  BY DEF WriteString
<1> HIDE DEF bytes, long, n
<1>5. QED
  BY <1>2, <1>3, <1>4, StoreStays

-------------------------------------------------------------------------------
(* Calls that read or move. *)

(* A call that leaves the sizes alone and moves to an end. *)
LEMMA MovesStays ==
  ASSUME StaysInside, Call, bitNum' \in Nat, error' \in BOOLEAN,
         UNCHANGED <<m_ownMem, m_capacity, m_used, limitVars, fault>>
  PROVE  StaysInside'
<1>1. calls' \in 0..MaxCalls
  BY SizesAssumption DEF StaysInside, SizesOK, Call
<1>2. fault' = "none"
  BY DEF Call
<1>3. QED
  BY <1>1, <1>2 DEF StaysInside, SizesOK, LimitsInside, BitsStayInside, limitVars

LEMMA ReadsStays ==
  ASSUME StaysInside, Call, NEW p, NEW n, NEW bytes, NEW end \in Nat,
         Reads(p, n, bytes, end)
  PROVE  StaysInside'
BY MovesStays DEF Reads, bufferVars, StaysInside, SizesOK

LEMMA RefusedStays ==
  ASSUME StaysInside, Call, Refused
  PROVE  StaysInside'
BY MovesStays DEF Refused, bufferVars, StaysInside, SizesOK

LEMMA ReadBitsStays ==
  ASSUME StaysInside, NEW count \in Counts, ReadBits(count)
  PROVE  StaysInside'
<1>1. count \in Nat /\ bitNum \in Nat /\ maxReadBitNum \in Nat /\ m_capacity \in Nat
  BY SizesAssumption DEF StaysInside, SizesOK
<1>2. CASE count + bitNum > maxReadBitNum
  BY <1>2, RefusedStays DEF ReadBits
<1>3. CASE ~(count + bitNum > maxReadBitNum)
  <2>1. CASE bitNum + count > 8 * m_capacity
    <3>1. "read" \in overstated
      BY <1>1, <1>3, <2>1 DEF StaysInside, LimitsInside
    <3>2. Call /\ Outside("readBits")
      BY <1>3, <2>1 DEF ReadBits
    <3>3. QED
      BY <3>1, <3>2, OutsideStays DEF Faults
  <2>2. CASE ~(bitNum + count > 8 * m_capacity)
    <3>1. Call /\ Reads(bitNum, count, Fetched(bitNum, count), bitNum + count)
      BY <1>3, <2>2 DEF ReadBits
    <3>2. bitNum + count \in Nat
      BY <1>1
    <3>3. QED
      BY <3>1, <3>2, ReadsStays
  <2>3. QED
    BY <2>1, <2>2
<1>4. QED
  BY <1>2, <1>3

LEMMA ReadFlagStays ==
  ASSUME StaysInside, ReadFlag
  PROVE  StaysInside'
<1>1. bitNum \in Nat /\ maxReadBitNum \in Nat /\ m_capacity \in Nat
  BY DEF StaysInside, SizesOK
<1>2. CASE bitNum > maxReadBitNum
  BY <1>2, RefusedStays DEF ReadFlag
<1>3. CASE ~(bitNum > maxReadBitNum) /\ bitNum >= 8 * m_capacity
  <2>1. Call /\ Outside("readFlag")
    BY <1>3 DEF ReadFlag
  <2>2. QED
    BY <2>1, OutsideStays DEF Faults
<1>4. CASE ~(bitNum > maxReadBitNum) /\ ~(bitNum >= 8 * m_capacity)
  <2>1. Call /\ Reads(bitNum, 1, <<BitAt(bitNum)>>, bitNum + 1)
    BY <1>4 DEF ReadFlag
  <2>2. QED
    BY <1>1, <2>1, ReadsStays
<1>5. QED
  BY <1>2, <1>3, <1>4

LEMMA TestBitStays ==
  ASSUME StaysInside, NEW p \in Positions, TestBit(p)
  PROVE  StaysInside'
<1>1. bitNum \in Nat
  BY DEF StaysInside, SizesOK
<1>2. CASE p >= 8 * m_capacity
  BY <1>2, OutsideStays DEF TestBit, Faults
<1>3. CASE ~(p >= 8 * m_capacity)
  BY <1>1, <1>3, ReadsStays DEF TestBit
<1>4. QED
  BY <1>2, <1>3

LEMMA ReadTypedStays ==
  ASSUME StaysInside, NEW n \in Nat, ReadTyped(n)
  PROVE  StaysInside'
<1>1. NextByte \in Nat
  BY DEF StaysInside, SizesOK, NextByte
<1>2. CASE NextByte + n > m_capacity
  BY <1>2, OutsideStays DEF ReadTyped, Faults
<1>3. CASE ~(NextByte + n > m_capacity)
  <2>1. 8 * (NextByte + n) \in Nat
    BY <1>1
  <2>2. Call /\ Reads(8 * NextByte, 8 * n, [k \in 1..n |-> m_ptr[NextByte + k - 1]],
                      8 * (NextByte + n))
    BY <1>3 DEF ReadTyped
  <2>3. QED
    BY <2>1, <2>2, ReadsStays
<1>4. QED
  BY <1>2, <1>3

(* The first of some numbers is one of them. *)
LEMMA FirstIsOne ==
  ASSUME NEW S, S \subseteq Nat, S # {}
  PROVE  First(S) \in S
<1> DEFINE R == OpToRel(<, Nat)
<1>1. \A x, y \in Nat : <<x, y>> \in R <=> x < y
  BY DEF OpToRel
<1>2. IsWellFoundedOn(R, Nat)
  BY NatLessThanWellFounded
<1> HIDE DEF R
<1>3. PICK k \in S : \A j \in S : ~(<<j, k>> \in R)
  BY <1>2, WFMin
<1>4. \A j \in S : ~(j < k)
  BY <1>1, <1>3
<1>5. \A j \in S : k <= j
  BY <1>4
<1>6. QED
  BY <1>5 DEF First

LEMMA ReadStringStays ==
  ASSUME StaysInside, NEW width \in {1, 2}, NEW length \in Lengths,
         ReadString(width, length)
  PROVE  StaysInside'
<1> DEFINE n   == IF length > 0 THEN length ELSE First(Zeros(width)) + 1
           end == 8 * (NextByte + width * n)
           out == \/ length = 0 /\ Zeros(width) = {}
                  \/ length > 0 /\ width > 1 /\ NextByte + width * length > m_capacity
<1>1. NextByte \in Nat /\ length \in Nat /\ m_capacity \in Nat
  BY SizesAssumption DEF StaysInside, SizesOK, NextByte
<1>2. CASE out
  <2>1. Call /\ Outside("string")
    BY <1>2 DEF ReadString
  <2>2. QED
    BY <2>1, OutsideStays DEF Faults
<1>3. CASE ~out
  <2>1. Call /\ Reads(bitNum, 0, <<>>, end)
    BY <1>3 DEF ReadString
  <2>2. n \in Nat
    <3>1. CASE length > 0
      BY <1>1, <3>1
    <3>2. CASE length = 0
      <4>1. Zeros(width) # {} /\ Zeros(width) \subseteq Nat
        BY <1>1, <1>3, <3>2 DEF Zeros
      <4>2. First(Zeros(width)) \in Zeros(width)
        BY <4>1, FirstIsOne
      <4>3. QED
        BY <3>2, <4>1, <4>2
    <3>3. QED
      BY <1>1, <3>1, <3>2
  <2> HIDE DEF n
  <2>3. end \in Nat
    BY <1>1, <2>2
  <2> HIDE DEF end
  <2>4. QED
    BY <2>1, <2>3, ReadsStays
<1>4. QED
  BY <1>2, <1>3

(* The calls that only move, or set the limits. *)
LEMMA SettersStay ==
  ASSUME StaysInside,
         \/ \E p \in Positions : Seek(p)
         \/ \E read, write \in Positions : SetMaxSizes(read, write)
         \/ Reset
         \/ ClearError
  PROVE  StaysInside'
<1>1. ASSUME NEW p \in Positions, Seek(p) PROVE StaysInside'
  BY <1>1, MovesStays, SizesAssumption DEF Seek, bufferVars, StaysInside, SizesOK
<1>2. ASSUME NEW read \in Positions, NEW write \in Positions, SetMaxSizes(read, write)
      PROVE  StaysInside'
  <2>1. calls' \in 0..MaxCalls
    BY <1>2, SizesAssumption DEF StaysInside, SizesOK, SetMaxSizes, Call
  <2>2. SizesOK' /\ LimitsInside'
    BY <1>2, <2>1, SizesAssumption
    DEF StaysInside, SizesOK, LimitsInside, SetMaxSizes, Beyond, bufferVars
  <2>3. fault' = "none"
    BY <1>2 DEF SetMaxSizes, Call
  <2>4. QED
    BY <2>2, <2>3 DEF StaysInside, BitsStayInside
<1>3. CASE Reset
  BY <1>3, MovesStays DEF Reset
<1>4. CASE ClearError
  BY <1>4, MovesStays DEF ClearError, bufferVars, StaysInside, SizesOK
<1>5. QED
  BY <1>1, <1>2, <1>3, <1>4

-------------------------------------------------------------------------------
(* The theorems. *)

LEMMA StartsInside == Init => StaysInside
<1> SUFFICES ASSUME Init PROVE StaysInside
  OBVIOUS
<1>1. bitNum = 0 /\ error = FALSE /\ fault = "none" /\ calls \in 0..MaxCalls
  BY SizesAssumption DEF Init
<1>2. ASSUME NEW n \in Capacities, InitOwned(n) PROVE StaysInside
  <2>1. n \in Nat
    BY SizesAssumption
  <2>2. SizesOK
    BY <1>1, <1>2, <2>1 DEF InitOwned, SizesOK, Faults
  <2>3. LimitsInside
    BY <1>2, <2>1 DEF InitOwned, LimitsInside
  <2>4. QED
    BY <1>1, <2>2, <2>3 DEF StaysInside, BitsStayInside
<1>3. ASSUME NEW n \in Foreign, InitForeign(n) PROVE StaysInside
  <2>1. PICK most \in {n} \cup WriteSizes : maxWriteBitNum = 8 * most
    BY <1>3 DEF InitForeign
  <2>2. n \in Nat /\ 8 * n \in Nat /\ 8 * most \in Nat
    BY SizesAssumption
  <2>3. SizesOK
    BY <1>1, <1>3, <2>1, <2>2 DEF InitForeign, SizesOK, Faults, Beyond
  <2>4. LimitsInside
    BY <1>3, <2>1, <2>2 DEF InitForeign, LimitsInside, Beyond
  <2>5. QED
    BY <1>1, <2>3, <2>4 DEF StaysInside, BitsStayInside
<1>4. QED
  BY <1>2, <1>3 DEF Init

LEMMA CallsStayInside == StaysInside /\ [Next]_vars => StaysInside'
<1> SUFFICES ASSUME StaysInside, [Next]_vars PROVE StaysInside'
  OBVIOUS
<1>1. CASE UNCHANGED vars
  BY <1>1 DEF vars, bufferVars, limitVars, StaysInside, SizesOK, LimitsInside,
     BitsStayInside
<1>2. CASE \E n \in Counts : ReadBits(n) \/ (\E s \in Sources : WriteBits(n, s))
  BY <1>2, ReadBitsStays, WriteBitsStays
<1>3. CASE \E p \in Positions : TestBit(p) \/ \E v \in {0, 1} : SetBit(p, v)
  BY <1>3, TestBitStays, SetBitStays
<1>4. CASE ReadFlag \/ \E v \in {0, 1} : WriteFlag(v)
  BY <1>4, ReadFlagStays, WriteFlagStays
<1>5. ASSUME NEW v \in TypedValues, WriteTyped(v) \/ ReadTyped(Len(v))
      PROVE  StaysInside'
  <2>1. Len(v) \in Nat
    BY DataAssumption
  <2>2. QED
    BY <1>5, <2>1, StoreStays, ReadTypedStays DEF WriteTyped
<1>6. CASE \E width \in {1, 2}, length \in Lengths :
             ReadString(width, length) \/ \E s \in Strings : WriteString(s, width, length)
  BY <1>6, ReadStringStays, WriteStringStays
<1>7. CASE \/ \E p \in Positions : Seek(p)
           \/ \E read, write \in Positions : SetMaxSizes(read, write)
           \/ Reset
           \/ ClearError
  BY <1>7, SettersStay
<1>8. QED
  BY <1>1, <1>2, <1>3, <1>4, <1>5, <1>6, <1>7 DEF Next

(* The sizes, the limits and the faults, at every moment of every program. *)
THEOREM StreamStaysInside == Spec => []StaysInside
BY StartsInside, CallsStayInside, PTL DEF Spec

(* A limit lies beyond the memory only where the program has put it there  *)
(* (BitStream.h:93, BitStream.cpp:21-31) and the stream has not grown      *)
(* since: no growth leaves one there (BitStream.cpp:46-53), whatever the   *)
(* sizes, the padding and the calls.                                       *)
THEOREM LimitsStayInside == Spec => []LimitsInside
<1>1. StaysInside => LimitsInside
  BY DEF StaysInside
<1>2. QED
  BY <1>1, StreamStaysInside, PTL

(* writeBits, setBit and readBits touch a byte outside the memory only     *)
(* under a limit that the program itself put beyond it                     *)
(* (BitStream.cpp:55-182), whatever the position and the number of bits.   *)
THEOREM BitsNeverLeave == Spec => []BitsStayInside
<1>1. StaysInside => BitsStayInside
  BY DEF StaysInside
<1>2. QED
  BY <1>1, StreamStaysInside, PTL

-------------------------------------------------------------------------------
(* What the bytes hold.                                                    *)
(*                                                                         *)
(* The code shifts, masks and adds bytes; the history remembers bits.  A   *)
(* byte is the sum of its eight bits, and what a shift, a mask or a sum of *)
(* bytes without a common bit does to the sum is arithmetic on at most     *)
(* eight literal positions.                                                *)

EightBits == [0..7 -> {0, 1}]

ByteOf(c) == c[0] + 2 * c[1] + 4 * c[2] + 8 * c[3] + 16 * c[4] + 32 * c[5]
             + 64 * c[6] + 128 * c[7]

BitsOf(x) == [j \in 0..7 |-> Bit(x, j)]

UpBits(c, k) == [j \in 0..7 |-> IF j < k THEN 0 ELSE c[j - k]]
DownBits(c, k) == [j \in 0..7 |-> IF j + k < 8 THEN c[j + k] ELSE 0]
Masked(c, lo, hi) == [j \in 0..7 |-> IF lo <= j /\ j < hi THEN c[j] ELSE 0]
Mixed(c, d, lo, hi) ==
  [j \in 0..7 |-> IF lo <= j /\ j < hi THEN d[j] ELSE c[j]]

LEMMA Powers ==
  /\ 2^0 = 1 /\ 2^1 = 2 /\ 2^2 = 4 /\ 2^3 = 8 /\ 2^4 = 16
  /\ 2^5 = 32 /\ 2^6 = 64 /\ 2^7 = 128 /\ 2^8 = 256
BY SMT

LEMMA EightPlaces ==
  \A j \in 0..7 : \/ j = 0 \/ j = 1 \/ j = 2 \/ j = 3
                  \/ j = 4 \/ j = 5 \/ j = 6 \/ j = 7
BY SMT

LEMMA NinePlaces ==
  \A j \in 0..8 : \/ j = 0 \/ j = 1 \/ j = 2 \/ j = 3
                  \/ j = 4 \/ j = 5 \/ j = 6 \/ j = 7 \/ j = 8
BY SMT

LEMMA EightValues ==
  ASSUME NEW c \in EightBits
  PROVE  /\ c[0] \in {0, 1} /\ c[1] \in {0, 1}
         /\ c[2] \in {0, 1} /\ c[3] \in {0, 1}
         /\ c[4] \in {0, 1} /\ c[5] \in {0, 1}
         /\ c[6] \in {0, 1} /\ c[7] \in {0, 1}
BY SMT DEF EightBits

LEMMA BitsOfSum ==
  ASSUME NEW a \in {0, 1}, NEW b \in {0, 1}, NEW c \in {0, 1},
         NEW d \in {0, 1}, NEW e \in {0, 1}, NEW f \in {0, 1},
         NEW g \in {0, 1}, NEW h \in {0, 1}
  PROVE  LET x == a + 2 * b + 4 * c + 8 * d + 16 * e + 32 * f + 64 * g
                  + 128 * h
         IN  /\ x \in Byte
             /\ x % 2 = a
             /\ (x \div 2) % 2 = b
             /\ (x \div 4) % 2 = c
             /\ (x \div 8) % 2 = d
             /\ (x \div 16) % 2 = e
             /\ (x \div 32) % 2 = f
             /\ (x \div 64) % 2 = g
             /\ (x \div 128) % 2 = h
BY SMT DEF Byte

LEMMA BitsAre ==
  ASSUME NEW x \in Nat
  PROVE  /\ Bit(x, 0) = x % 2
         /\ Bit(x, 1) = (x \div 2) % 2
         /\ Bit(x, 2) = (x \div 4) % 2
         /\ Bit(x, 3) = (x \div 8) % 2
         /\ Bit(x, 4) = (x \div 16) % 2
         /\ Bit(x, 5) = (x \div 32) % 2
         /\ Bit(x, 6) = (x \div 64) % 2
         /\ Bit(x, 7) = (x \div 128) % 2
BY Powers, SMT DEF Bit

LEMMA BitIsBit ==
  ASSUME NEW x \in Nat, NEW j \in 0..7
  PROVE  Bit(x, j) \in {0, 1}
<1>1. /\ Bit(x, 0) \in {0, 1} /\ Bit(x, 1) \in {0, 1}
      /\ Bit(x, 2) \in {0, 1} /\ Bit(x, 3) \in {0, 1}
      /\ Bit(x, 4) \in {0, 1} /\ Bit(x, 5) \in {0, 1}
      /\ Bit(x, 6) \in {0, 1} /\ Bit(x, 7) \in {0, 1}
  BY Powers, SMT DEF Bit
<1>2. QED
  BY <1>1, EightPlaces

(* The sum of eight bits is a byte with these bits, *)
LEMMA ByteHasBits ==
  ASSUME NEW c \in EightBits
  PROVE  ByteOf(c) \in Byte /\ \A j \in 0..7 : Bit(ByteOf(c), j) = c[j]
<1>1. ByteOf(c) \in Byte
  BY EightValues, BitsOfSum, SMT DEF ByteOf
<1>2. ByteOf(c) \in Nat
  BY <1>1, SMT DEF Byte
<1>3. /\ ByteOf(c) % 2 = c[0] /\ (ByteOf(c) \div 2) % 2 = c[1]
      /\ (ByteOf(c) \div 4) % 2 = c[2] /\ (ByteOf(c) \div 8) % 2 = c[3]
      /\ (ByteOf(c) \div 16) % 2 = c[4] /\ (ByteOf(c) \div 32) % 2 = c[5]
      /\ (ByteOf(c) \div 64) % 2 = c[6] /\ (ByteOf(c) \div 128) % 2 = c[7]
  BY EightValues, BitsOfSum, SMT DEF ByteOf
<1>4. /\ Bit(ByteOf(c), 0) = ByteOf(c) % 2
      /\ Bit(ByteOf(c), 1) = (ByteOf(c) \div 2) % 2
      /\ Bit(ByteOf(c), 2) = (ByteOf(c) \div 4) % 2
      /\ Bit(ByteOf(c), 3) = (ByteOf(c) \div 8) % 2
      /\ Bit(ByteOf(c), 4) = (ByteOf(c) \div 16) % 2
      /\ Bit(ByteOf(c), 5) = (ByteOf(c) \div 32) % 2
      /\ Bit(ByteOf(c), 6) = (ByteOf(c) \div 64) % 2
      /\ Bit(ByteOf(c), 7) = (ByteOf(c) \div 128) % 2
  BY <1>2, BitsAre
<1>5. /\ Bit(ByteOf(c), 0) = c[0] /\ Bit(ByteOf(c), 1) = c[1]
      /\ Bit(ByteOf(c), 2) = c[2] /\ Bit(ByteOf(c), 3) = c[3]
      /\ Bit(ByteOf(c), 4) = c[4] /\ Bit(ByteOf(c), 5) = c[5]
      /\ Bit(ByteOf(c), 6) = c[6] /\ Bit(ByteOf(c), 7) = c[7]
  BY <1>3, <1>4
<1>6. QED
  BY <1>1, <1>5, EightPlaces

LEMMA LowSums ==
  ASSUME NEW x \in Nat
  PROVE  /\ x % 4 = (x % 2) + 2 * ((x \div 2) % 2)
         /\ x % 8 = (x % 4) + 4 * ((x \div 4) % 2)
         /\ x % 16 = (x % 8) + 8 * ((x \div 8) % 2)
         /\ x % 32 = (x % 16) + 16 * ((x \div 16) % 2)
         /\ x % 64 = (x % 32) + 32 * ((x \div 32) % 2)
         /\ x % 128 = (x % 64) + 64 * ((x \div 64) % 2)
         /\ x % 256 = (x % 128) + 128 * ((x \div 128) % 2)
BY SMT

(* and every byte is the sum of its bits. *)
LEMMA ByteIsSum ==
  ASSUME NEW x \in Byte
  PROVE  BitsOf(x) \in EightBits /\ ByteOf(BitsOf(x)) = x
<1>1. x \in Nat
  BY SMT DEF Byte
<1>2. BitsOf(x) \in EightBits
  BY <1>1, BitIsBit DEF BitsOf, EightBits
<1>3. x % 256 = x
  BY SMT DEF Byte
<1>4. /\ BitsOf(x)[0] = x % 2
      /\ BitsOf(x)[1] = (x \div 2) % 2
      /\ BitsOf(x)[2] = (x \div 4) % 2
      /\ BitsOf(x)[3] = (x \div 8) % 2
      /\ BitsOf(x)[4] = (x \div 16) % 2
      /\ BitsOf(x)[5] = (x \div 32) % 2
      /\ BitsOf(x)[6] = (x \div 64) % 2
      /\ BitsOf(x)[7] = (x \div 128) % 2
  BY <1>1, BitsAre, SMT DEF BitsOf
<1>5. ByteOf(BitsOf(x)) = x % 256
  BY <1>1, <1>4, LowSums, SMT DEF ByteOf
<1>6. QED
  BY <1>2, <1>3, <1>5

(* Shifting down, shifting up and masking drop terms of the sum. *)
LEMMA Downs ==
  ASSUME NEW a \in {0, 1}, NEW b \in {0, 1}, NEW c \in {0, 1},
         NEW d \in {0, 1}, NEW e \in {0, 1}, NEW f \in {0, 1},
         NEW g \in {0, 1}, NEW h \in {0, 1}, NEW x,
         x = a + 2 * b + 4 * c + 8 * d + 16 * e + 32 * f + 64 * g + 128 * h
  PROVE  /\ x \div 2 = b + 2 * c + 4 * d + 8 * e + 16 * f + 32 * g + 64 * h
         /\ x \div 4 = c + 2 * d + 4 * e + 8 * f + 16 * g + 32 * h
         /\ x \div 8 = d + 2 * e + 4 * f + 8 * g + 16 * h
         /\ x \div 16 = e + 2 * f + 4 * g + 8 * h
         /\ x \div 32 = f + 2 * g + 4 * h
         /\ x \div 64 = g + 2 * h
         /\ x \div 128 = h
BY SMT

LEMMA Ups ==
  ASSUME NEW a \in {0, 1}, NEW b \in {0, 1}, NEW c \in {0, 1},
         NEW d \in {0, 1}, NEW e \in {0, 1}, NEW f \in {0, 1},
         NEW g \in {0, 1}, NEW h \in {0, 1}, NEW x,
         x = a + 2 * b + 4 * c + 8 * d + 16 * e + 32 * f + 64 * g + 128 * h
  PROVE  /\ (x * 2) % 256 =
              2 * a + 4 * b + 8 * c + 16 * d + 32 * e + 64 * f + 128 * g
         /\ (x * 4) % 256 = 4 * a + 8 * b + 16 * c + 32 * d + 64 * e + 128 * f
         /\ (x * 8) % 256 = 8 * a + 16 * b + 32 * c + 64 * d + 128 * e
         /\ (x * 16) % 256 = 16 * a + 32 * b + 64 * c + 128 * d
         /\ (x * 32) % 256 = 32 * a + 64 * b + 128 * c
         /\ (x * 64) % 256 = 64 * a + 128 * b
         /\ (x * 128) % 256 = 128 * a
BY SMT

LEMMA Lows ==
  ASSUME NEW a \in {0, 1}, NEW b \in {0, 1}, NEW c \in {0, 1},
         NEW d \in {0, 1}, NEW e \in {0, 1}, NEW f \in {0, 1},
         NEW g \in {0, 1}, NEW h \in {0, 1}, NEW x,
         x = a + 2 * b + 4 * c + 8 * d + 16 * e + 32 * f + 64 * g + 128 * h
  PROVE  /\ x % 2 = a
         /\ x % 4 = a + 2 * b
         /\ x % 8 = a + 2 * b + 4 * c
         /\ x % 16 = a + 2 * b + 4 * c + 8 * d
         /\ x % 32 = a + 2 * b + 4 * c + 8 * d + 16 * e
         /\ x % 64 = a + 2 * b + 4 * c + 8 * d + 16 * e + 32 * f
         /\ x % 128 = a + 2 * b + 4 * c + 8 * d + 16 * e + 32 * f + 64 * g
         /\ x % 256 = x
BY SMT

(* The same for every shift and every mask, position by position. *)
LEMMA ByteUp ==
  ASSUME NEW c \in EightBits
  PROVE  \A k \in 0..7 : (ByteOf(c) * 2^k) % 256 = ByteOf(UpBits(c, k))
<1> DEFINE up(k) == (ByteOf(c) * 2^k) % 256
<1>0. up(0) = ByteOf(UpBits(c, 0))
  BY EightValues, Ups, BitsOfSum, Powers, SMT DEF ByteOf, UpBits, Byte
<1>1. up(1) = ByteOf(UpBits(c, 1))
  BY EightValues, Ups, BitsOfSum, Powers, SMT DEF ByteOf, UpBits, Byte
<1>2. up(2) = ByteOf(UpBits(c, 2))
  BY EightValues, Ups, BitsOfSum, Powers, SMT DEF ByteOf, UpBits, Byte
<1>3. up(3) = ByteOf(UpBits(c, 3))
  BY EightValues, Ups, BitsOfSum, Powers, SMT DEF ByteOf, UpBits, Byte
<1>4. up(4) = ByteOf(UpBits(c, 4))
  BY EightValues, Ups, BitsOfSum, Powers, SMT DEF ByteOf, UpBits, Byte
<1>5. up(5) = ByteOf(UpBits(c, 5))
  BY EightValues, Ups, BitsOfSum, Powers, SMT DEF ByteOf, UpBits, Byte
<1>6. up(6) = ByteOf(UpBits(c, 6))
  BY EightValues, Ups, BitsOfSum, Powers, SMT DEF ByteOf, UpBits, Byte
<1>7. up(7) = ByteOf(UpBits(c, 7))
  BY EightValues, Ups, BitsOfSum, Powers, SMT DEF ByteOf, UpBits, Byte
<1> HIDE DEF up
<1>a. \A k \in 0..7 : up(k) = ByteOf(UpBits(c, k))
  BY <1>0, <1>1, <1>2, <1>3, <1>4, <1>5, <1>6, <1>7, EightPlaces, Zenon
<1> QED
  BY <1>a DEF up

LEMMA ByteDown ==
  ASSUME NEW c \in EightBits
  PROVE  \A k \in 0..7 : ByteOf(c) \div 2^k = ByteOf(DownBits(c, k))
<1>0. ByteOf(c) \div 2^0 = ByteOf(DownBits(c, 0))
  BY EightValues, Downs, Powers, SMT DEF ByteOf, DownBits
<1>1. ByteOf(c) \div 2^1 = ByteOf(DownBits(c, 1))
  BY EightValues, Downs, Powers, SMT DEF ByteOf, DownBits
<1>2. ByteOf(c) \div 2^2 = ByteOf(DownBits(c, 2))
  BY EightValues, Downs, Powers, SMT DEF ByteOf, DownBits
<1>3. ByteOf(c) \div 2^3 = ByteOf(DownBits(c, 3))
  BY EightValues, Downs, Powers, SMT DEF ByteOf, DownBits
<1>4. ByteOf(c) \div 2^4 = ByteOf(DownBits(c, 4))
  BY EightValues, Downs, Powers, SMT DEF ByteOf, DownBits
<1>5. ByteOf(c) \div 2^5 = ByteOf(DownBits(c, 5))
  BY EightValues, Downs, Powers, SMT DEF ByteOf, DownBits
<1>6. ByteOf(c) \div 2^6 = ByteOf(DownBits(c, 6))
  BY EightValues, Downs, Powers, SMT DEF ByteOf, DownBits
<1>7. ByteOf(c) \div 2^7 = ByteOf(DownBits(c, 7))
  BY EightValues, Downs, Powers, SMT DEF ByteOf, DownBits
<1> QED
  BY <1>0, <1>1, <1>2, <1>3, <1>4, <1>5, <1>6, <1>7, EightPlaces, Zenon

LEMMA ByteLow ==
  ASSUME NEW c \in EightBits
  PROVE  \A k \in 0..8 : ByteOf(c) % 2^k = ByteOf(Masked(c, 0, k))
<1>0. ByteOf(c) % 2^0 = ByteOf(Masked(c, 0, 0))
  BY EightValues, Lows, Powers, SMT DEF ByteOf, Masked
<1>1. ByteOf(c) % 2^1 = ByteOf(Masked(c, 0, 1))
  BY EightValues, Lows, Powers, SMT DEF ByteOf, Masked
<1>2. ByteOf(c) % 2^2 = ByteOf(Masked(c, 0, 2))
  BY EightValues, Lows, Powers, SMT DEF ByteOf, Masked
<1>3. ByteOf(c) % 2^3 = ByteOf(Masked(c, 0, 3))
  BY EightValues, Lows, Powers, SMT DEF ByteOf, Masked
<1>4. ByteOf(c) % 2^4 = ByteOf(Masked(c, 0, 4))
  BY EightValues, Lows, Powers, SMT DEF ByteOf, Masked
<1>5. ByteOf(c) % 2^5 = ByteOf(Masked(c, 0, 5))
  BY EightValues, Lows, Powers, SMT DEF ByteOf, Masked
<1>6. ByteOf(c) % 2^6 = ByteOf(Masked(c, 0, 6))
  BY EightValues, Lows, Powers, SMT DEF ByteOf, Masked
<1>7. ByteOf(c) % 2^7 = ByteOf(Masked(c, 0, 7))
  BY EightValues, Lows, Powers, SMT DEF ByteOf, Masked
<1>8. ByteOf(c) % 2^8 = ByteOf(Masked(c, 0, 8))
  BY EightValues, Lows, Powers, SMT DEF ByteOf, Masked
<1> QED
  BY <1>0, <1>1, <1>2, <1>3, <1>4, <1>5, <1>6, <1>7, <1>8, NinePlaces, Zenon

LEMMA MaskedBits ==
  ASSUME NEW c \in EightBits, NEW lo \in Int, NEW hi \in Int
  PROVE  Masked(c, lo, hi) \in EightBits
BY SMT DEF Masked, EightBits

(* Sums of bytes with no bit in common join their bits. *)
LEMMA Weights ==
  ASSUME NEW p \in EightBits, NEW q \in EightBits
  PROVE  p[0] + q[0] + 2 * (p[1] + q[1]) + 4 * (p[2] + q[2])
           + 8 * (p[3] + q[3]) + 16 * (p[4] + q[4]) + 32 * (p[5] + q[5])
           + 64 * (p[6] + q[6]) + 128 * (p[7] + q[7])
         = ByteOf(p) + ByteOf(q)
BY SMT DEF ByteOf, EightBits

LEMMA Joined ==
  ASSUME NEW p \in EightBits, NEW q \in EightBits, NEW r \in EightBits,
         \A j \in 0..7 : r[j] = p[j] + q[j]
  PROVE  ByteOf(r) = ByteOf(p) + ByteOf(q)
<1>1. /\ r[0] = p[0] + q[0] /\ r[1] = p[1] + q[1]
      /\ r[2] = p[2] + q[2] /\ r[3] = p[3] + q[3]
      /\ r[4] = p[4] + q[4] /\ r[5] = p[5] + q[5]
      /\ r[6] = p[6] + q[6] /\ r[7] = p[7] + q[7]
  BY SMT
<1>2. ByteOf(r) = p[0] + q[0] + 2 * (p[1] + q[1]) + 4 * (p[2] + q[2])
                  + 8 * (p[3] + q[3]) + 16 * (p[4] + q[4]) + 32 * (p[5] + q[5])
                  + 64 * (p[6] + q[6]) + 128 * (p[7] + q[7])
  BY <1>1 DEF ByteOf
<1>3. QED
  BY <1>2, Weights

LEMMA MixedBits ==
  ASSUME NEW c \in EightBits, NEW d \in EightBits, NEW lo \in Int,
         NEW hi \in Int
  PROVE  Mixed(c, d, lo, hi) \in EightBits
BY SMT DEF Mixed, EightBits

(* The field of a byte between two positions, and a byte with a field of   *)
(* another.                                                                *)
LEMMA Parts ==
  ASSUME NEW a \in Nat, NEW lo \in 0..8
  PROVE  (a \div 2^lo) * 2^lo = a - (a % 2^lo)
<1>0. (a \div 2^0) * 2^0 = a - (a % 2^0)
  BY Powers, SMT
<1>1. (a \div 2^1) * 2^1 = a - (a % 2^1)
  BY Powers, SMT
<1>2. (a \div 2^2) * 2^2 = a - (a % 2^2)
  BY Powers, SMT
<1>3. (a \div 2^3) * 2^3 = a - (a % 2^3)
  BY Powers, SMT
<1>4. (a \div 2^4) * 2^4 = a - (a % 2^4)
  BY Powers, SMT
<1>5. (a \div 2^5) * 2^5 = a - (a % 2^5)
  BY Powers, SMT
<1>6. (a \div 2^6) * 2^6 = a - (a % 2^6)
  BY Powers, SMT
<1>7. (a \div 2^7) * 2^7 = a - (a % 2^7)
  BY Powers, SMT
<1>8. (a \div 2^8) * 2^8 = a - (a % 2^8)
  BY Powers, SMT
<1> QED
  BY <1>0, <1>1, <1>2, <1>3, <1>4, <1>5, <1>6, <1>7, <1>8, NinePlaces, Zenon

LEMMA FieldBits ==
  ASSUME NEW c \in EightBits, NEW lo \in 0..8, NEW hi \in 0..8, lo <= hi
  PROVE  Field(ByteOf(c), lo, hi) = ByteOf(Masked(c, lo, hi))
<1> DEFINE d == Masked(c, 0, hi)
<1>1. ByteOf(c) % 2^hi = ByteOf(d)
  BY ByteLow
<1>2. d \in EightBits
  BY MaskedBits, SMT
<1>3. ByteOf(d) \in Nat
  BY <1>2, ByteHasBits, SMT DEF Byte
<1>4. ByteOf(d) % 2^lo = ByteOf(Masked(d, 0, lo))
  BY <1>2, ByteLow
<1>5. Masked(d, 0, lo) = Masked(c, 0, lo)
  BY SMT DEF Masked
<1>6. Field(ByteOf(c), lo, hi) =
        ByteOf(Masked(c, 0, hi)) - ByteOf(Masked(c, 0, lo))
  BY <1>1, <1>3, <1>4, <1>5, Parts DEF Field
<1>7. ByteOf(Masked(c, 0, hi)) =
        ByteOf(Masked(c, 0, lo)) + ByteOf(Masked(c, lo, hi))
  <2>1. \A j \in 0..7 :
             Masked(c, 0, hi)[j] = Masked(c, 0, lo)[j] + Masked(c, lo, hi)[j]
    BY SMT DEF Masked, EightBits
  <2>2. /\ Masked(c, 0, hi) \in EightBits /\ Masked(c, 0, lo) \in EightBits
        /\ Masked(c, lo, hi) \in EightBits
    BY MaskedBits, SMT
  <2> QED
    BY <2>1, <2>2, Joined
<1>8. ByteOf(Masked(c, 0, lo)) \in Nat /\ ByteOf(Masked(c, lo, hi)) \in Nat
  BY ByteHasBits, MaskedBits, SMT DEF Byte
<1> QED
  BY <1>6, <1>7, <1>8, SMT

LEMMA BlendBits ==
  ASSUME NEW c \in EightBits, NEW d \in EightBits, NEW lo \in 0..8,
         NEW hi \in 0..8, lo <= hi
  PROVE  Blend(ByteOf(c), ByteOf(d), lo, hi) = ByteOf(Mixed(c, d, lo, hi))
<1> DEFINE z == [j \in 0..7 |-> 0]
           o == Mixed(c, z, lo, hi)
           m == Mixed(c, d, lo, hi)
<1>1. z \in EightBits
  BY SMT DEF EightBits
<1>2. /\ o \in EightBits /\ m \in EightBits /\ Masked(c, lo, hi) \in EightBits
      /\ Masked(d, lo, hi) \in EightBits
  BY <1>1, MixedBits, MaskedBits, SMT
<1>3. \A j \in 0..7 : c[j] = o[j] + Masked(c, lo, hi)[j]
  BY SMT DEF Mixed, Masked, EightBits
<1>4. \A j \in 0..7 : m[j] = o[j] + Masked(d, lo, hi)[j]
  BY SMT DEF Mixed, Masked, EightBits
<1> HIDE DEF z, o, m
<1>5. ByteOf(c) = ByteOf(o) + ByteOf(Masked(c, lo, hi))
  BY <1>2, <1>3, Joined
<1>6. ByteOf(m) = ByteOf(o) + ByteOf(Masked(d, lo, hi))
  BY <1>2, <1>4, Joined
<1>7. /\ ByteOf(o) \in Nat /\ ByteOf(Masked(c, lo, hi)) \in Nat
      /\ ByteOf(Masked(d, lo, hi)) \in Nat
  BY <1>2, ByteHasBits, SMT DEF Byte
<1>8. /\ Field(ByteOf(c), lo, hi) = ByteOf(Masked(c, lo, hi))
      /\ Field(ByteOf(d), lo, hi) = ByteOf(Masked(d, lo, hi))
  BY FieldBits
<1>9. ByteOf(c) - ByteOf(Masked(c, lo, hi)) + ByteOf(Masked(d, lo, hi)) =
        ByteOf(m)
  BY <1>5, <1>6, <1>7, SMT
<1> QED
  BY <1>8, <1>9 DEF Blend, m

LEMMA UpBitsFit ==
  ASSUME NEW c \in EightBits, NEW k \in 0..7
  PROVE  UpBits(c, k) \in EightBits /\ DownBits(c, k) \in EightBits
BY SMT DEF UpBits, DownBits, EightBits

(* The same of the bits of a byte. *)
LEMMA BitsUp ==
  ASSUME NEW x \in Byte, NEW k \in 0..7
  PROVE  /\ (x * 2^k) % 256 \in Byte
         /\ \A j \in 0..7 :
                 Bit((x * 2^k) % 256, j) = IF j < k THEN 0 ELSE Bit(x, j - k)
<1> DEFINE c == BitsOf(x)
<1>1. c \in EightBits /\ ByteOf(c) = x
  BY ByteIsSum
<1>2. \A j \in 0..7 : c[j] = Bit(x, j)
  BY DEF BitsOf
<1> HIDE DEF c
<1>3. (x * 2^k) % 256 = ByteOf(UpBits(c, k))
  BY <1>1, ByteUp
<1>4. /\ (x * 2^k) % 256 \in Byte
      /\ \A j \in 0..7 : Bit((x * 2^k) % 256, j) = UpBits(c, k)[j]
  BY <1>1, <1>3, UpBitsFit, ByteHasBits
<1>5. ASSUME NEW j \in 0..7
      PROVE  UpBits(c, k)[j] = IF j < k THEN 0 ELSE Bit(x, j - k)
  <2>1. CASE j < k
    BY <2>1, SMT DEF UpBits
  <2>2. CASE ~(j < k)
    <3>1. j - k \in 0..7
      BY <2>2, SMT
    <3>2. UpBits(c, k)[j] = c[j - k]
      BY <2>2, SMT DEF UpBits
    <3> QED
      BY <2>2, <3>1, <3>2, <1>2
  <2> QED
    BY <2>1, <2>2
<1> QED
  BY <1>4, <1>5

LEMMA BitsDown ==
  ASSUME NEW x \in Byte, NEW k \in 0..7
  PROVE  /\ x \div 2^k \in Byte
         /\ \A j \in 0..7 :
                 Bit(x \div 2^k, j) = IF j + k < 8 THEN Bit(x, j + k) ELSE 0
<1> DEFINE c == BitsOf(x)
<1>1. c \in EightBits /\ ByteOf(c) = x
  BY ByteIsSum
<1>2. \A j \in 0..7 : c[j] = Bit(x, j)
  BY DEF BitsOf
<1> HIDE DEF c
<1>3. x \div 2^k = ByteOf(DownBits(c, k))
  BY <1>1, ByteDown
<1>4. /\ x \div 2^k \in Byte
      /\ \A j \in 0..7 : Bit(x \div 2^k, j) = DownBits(c, k)[j]
  BY <1>1, <1>3, UpBitsFit, ByteHasBits
<1>5. ASSUME NEW j \in 0..7
      PROVE  DownBits(c, k)[j] = IF j + k < 8 THEN Bit(x, j + k) ELSE 0
  <2>1. CASE ~(j + k < 8)
    BY <2>1, SMT DEF DownBits
  <2>2. CASE j + k < 8
    <3>1. j + k \in 0..7
      BY <2>2, SMT
    <3>2. DownBits(c, k)[j] = c[j + k]
      BY <2>2, SMT DEF DownBits
    <3> QED
      BY <2>2, <3>1, <3>2, <1>2
  <2> QED
    BY <2>1, <2>2
<1> QED
  BY <1>4, <1>5

LEMMA BitsLow ==
  ASSUME NEW x \in Byte, NEW k \in 0..8
  PROVE  /\ x % 2^k \in Byte
         /\ \A j \in 0..7 : Bit(x % 2^k, j) = IF j < k THEN Bit(x, j) ELSE 0
<1> DEFINE c == BitsOf(x)
<1>1. c \in EightBits /\ ByteOf(c) = x
  BY ByteIsSum
<1>2. \A j \in 0..7 : c[j] = Bit(x, j)
  BY DEF BitsOf
<1> HIDE DEF c
<1>3. x % 2^k = ByteOf(Masked(c, 0, k))
  BY <1>1, ByteLow
<1>4. /\ x % 2^k \in Byte
      /\ \A j \in 0..7 : Bit(x % 2^k, j) = Masked(c, 0, k)[j]
  <2>1. Masked(c, 0, k) \in EightBits
    BY <1>1, MaskedBits, SMT
  <2> QED
    BY <2>1, <1>3, ByteHasBits
<1>5. \A j \in 0..7 : Masked(c, 0, k)[j] = IF j < k THEN c[j] ELSE 0
  BY SMT DEF Masked
<1> QED
  BY <1>2, <1>4, <1>5

LEMMA BitsBlended ==
  ASSUME NEW x \in Byte, NEW y \in Byte, NEW lo \in 0..8, NEW hi \in 0..8,
         lo <= hi
  PROVE  /\ Blend(x, y, lo, hi) \in Byte
         /\ \A j \in 0..7 :
                 Bit(Blend(x, y, lo, hi), j) =
                   IF lo <= j /\ j < hi THEN Bit(y, j) ELSE Bit(x, j)
<1> DEFINE c == BitsOf(x)
           d == BitsOf(y)
<1>1. c \in EightBits /\ ByteOf(c) = x /\ d \in EightBits /\ ByteOf(d) = y
  BY ByteIsSum
<1>2. \A j \in 0..7 : c[j] = Bit(x, j) /\ d[j] = Bit(y, j)
  BY DEF BitsOf
<1> HIDE DEF c, d
<1>3. Blend(x, y, lo, hi) = ByteOf(Mixed(c, d, lo, hi))
  BY <1>1, BlendBits
<1>4. /\ Blend(x, y, lo, hi) \in Byte
      /\ \A j \in 0..7 : Bit(Blend(x, y, lo, hi), j) = Mixed(c, d, lo, hi)[j]
  <2>1. Mixed(c, d, lo, hi) \in EightBits
    BY <1>1, MixedBits, SMT
  <2> QED
    BY <2>1, <1>3, ByteHasBits
<1>5. \A j \in 0..7 :
           Mixed(c, d, lo, hi)[j] = IF lo <= j /\ j < hi THEN d[j] ELSE c[j]
  BY DEF Mixed
<1> QED
  BY <1>2, <1>4, <1>5

LEMMA BitsJoined ==
  ASSUME NEW x \in Byte, NEW y \in Byte,
         \A j \in 0..7 : Bit(x, j) = 0 \/ Bit(y, j) = 0
  PROVE  /\ x + y \in Byte
         /\ \A j \in 0..7 :
                 Bit(x + y, j) = IF Bit(x, j) = 0 THEN Bit(y, j) ELSE Bit(x, j)
<1> DEFINE c == BitsOf(x)
           d == BitsOf(y)
           r == [j \in 0..7 |-> IF c[j] = 0 THEN d[j] ELSE c[j]]
<1>1. c \in EightBits /\ ByteOf(c) = x /\ d \in EightBits /\ ByteOf(d) = y
  BY ByteIsSum
<1>2. \A j \in 0..7 : c[j] = Bit(x, j) /\ d[j] = Bit(y, j)
  BY DEF BitsOf
<1> HIDE DEF c, d
<1>3. r \in EightBits
  BY <1>1, SMT DEF EightBits
<1>4. \A j \in 0..7 : r[j] = c[j] + d[j]
  <2> TAKE j \in 0..7
  <2>1. c[j] \in {0, 1} /\ d[j] \in {0, 1}
    BY <1>1 DEF EightBits
  <2>2. c[j] = 0 \/ d[j] = 0
    BY <1>2
  <2> QED
    BY <2>1, <2>2, SMT
<1>5. \A j \in 0..7 : r[j] = IF c[j] = 0 THEN d[j] ELSE c[j]
  OBVIOUS
<1> HIDE DEF r
<1>6. ByteOf(r) = x + y
  BY <1>1, <1>3, <1>4, Joined
<1>7. x + y \in Byte /\ \A j \in 0..7 : Bit(x + y, j) = r[j]
  BY <1>3, <1>6, ByteHasBits
<1> QED
  BY <1>2, <1>5, <1>7

(* What is shifted beyond the byte never reaches a field of it. *)
LEMMA FieldOfLowByte ==
  ASSUME NEW x \in Nat, NEW lo \in 0..8, NEW hi \in 0..8
  PROVE  Field(x, lo, hi) = Field(x % 256, lo, hi)
<1>1. x % 2^hi = (x % 256) % 2^hi
  <2>1. /\ x % 1 = (x % 256) % 1 /\ x % 2 = (x % 256) % 2
        /\ x % 4 = (x % 256) % 4 /\ x % 8 = (x % 256) % 8
        /\ x % 16 = (x % 256) % 16 /\ x % 32 = (x % 256) % 32
        /\ x % 64 = (x % 256) % 64 /\ x % 128 = (x % 256) % 128
        /\ x % 256 = (x % 256) % 256
    BY SMT
  <2> DEFINE low == x % 256
  <2>2. /\ x % 2^0 = low % 2^0 /\ x % 2^1 = low % 2^1 /\ x % 2^2 = low % 2^2
        /\ x % 2^3 = low % 2^3 /\ x % 2^4 = low % 2^4 /\ x % 2^5 = low % 2^5
        /\ x % 2^6 = low % 2^6 /\ x % 2^7 = low % 2^7 /\ x % 2^8 = low % 2^8
    BY <2>1, Powers, SMT
  <2> HIDE DEF low
  <2>3. x % 2^hi = low % 2^hi
    BY <2>2, NinePlaces, Zenon
  <2> QED
    BY <2>3 DEF low
<1> QED
  BY <1>1 DEF Field

-------------------------------------------------------------------------------
(* What writeBits leaves.  s holds what it is given, byte by byte.         *)

(* Bit d of what is written. *)
ValueAt(s, d) == Bit(s[d \div 8 + 1], d % 8)

(* The k-th byte of a write of count bits that starts at bit up of byte 0. *)
Placed(byte, old, k, up, count, s) ==
  /\ byte \in Byte
  /\ \A j \in 0..7 :
       Bit(byte, j) = IF up <= 8 * k + j /\ 8 * k + j < up + count
                      THEN ValueAt(s, 8 * k + j - up) ELSE Bit(old, j)

LEMMA Places ==
  ASSUME NEW a \in Int, NEW j \in 0..7
  PROVE  (8 * a + j) \div 8 = a /\ (8 * a + j) % 8 = j
BY SMT

(* Where bit j of the k-th byte comes from. *)
LEMMA ValueShifted ==
  ASSUME NEW s, NEW up \in 0..7, NEW k \in Nat, NEW j \in 0..7
  PROVE  ValueAt(s, 8 * k + j - up) =
           IF up <= j THEN Bit(s[k + 1], j - up) ELSE Bit(s[k], j + (8 - up))
<1>1. CASE up <= j
  <2>1. j - up \in 0..7 /\ 8 * k + j - up = 8 * k + (j - up)
    BY <1>1, SMT
  <2>2. (8 * k + j - up) \div 8 = k /\ (8 * k + j - up) % 8 = j - up
    BY <2>1, Places
  <2> QED
    BY <1>1, <2>2 DEF ValueAt
<1>2. CASE ~(up <= j)
  <2>1. /\ j + (8 - up) \in 0..7
        /\ 8 * k + j - up = 8 * (k - 1) + (j + (8 - up)) /\ k - 1 \in Int
        /\ k - 1 + 1 = k
    BY <1>2, SMT
  <2>2. (8 * k + j - up) \div 8 = k - 1 /\ (8 * k + j - up) % 8 = j + (8 - up)
    BY <2>1, Places
  <2> QED
    BY <1>2, <2>1, <2>2 DEF ValueAt
<1> QED
  BY <1>1, <1>2

LEMMA PowerIsNat ==
  ASSUME NEW k \in 0..8
  PROVE  2^k \in Nat
<1>1. /\ 2^0 \in Nat /\ 2^1 \in Nat /\ 2^2 \in Nat /\ 2^3 \in Nat
      /\ 2^4 \in Nat /\ 2^5 \in Nat /\ 2^6 \in Nat
      /\ 2^7 \in Nat /\ 2^8 \in Nat
  BY Powers, SMT
<1> QED
  BY <1>1, NinePlaces, Zenon

LEMMA ByteIsNat == \A x \in Byte : x \in Nat
BY SMT DEF Byte

LEMMA ProductIsNat == \A a, b \in Nat : a * b \in Nat
BY SMT

LEMMA ValueAligned ==
  ASSUME NEW s, NEW up, up = 0, NEW k \in Nat, NEW j \in 0..7
  PROVE  ValueAt(s, 8 * k + j - up) = Bit(s[k + 1], j)
<1>1. 8 * k + j - up = 8 * k + j
  BY SMT
<1>2. (8 * k + j) \div 8 = k /\ (8 * k + j) % 8 = j
  BY Places
<1> QED
  BY <1>1, <1>2 DEF ValueAt

LEMMA BlendOfLowByte ==
  ASSUME NEW old, NEW x \in Nat, NEW lo \in 0..8, NEW hi \in 0..8
  PROVE  Blend(old, x, lo, hi) = Blend(old, x % 256, lo, hi)
BY FieldOfLowByte DEF Blend

(* A write inside one byte. *)
LEMMA OneBytePlaced ==
  ASSUME NEW s \in Seq(Byte), NEW up \in 0..7, NEW count \in Nat \ {0},
         count <= 8 - up, count <= 8 * Len(s),
         NEW old \in Byte
  PROVE  Placed(Blend(old, s[1] * 2^up, up, up + count), old, 0, up, count, s)
<1> DEFINE y == (s[1] * 2^up) % 256
           byte == Blend(old, y, up, up + count)
<1>1. s[1] \in Byte
  BY SMT
<1>2. s[1] * 2^up \in Nat
  <2>0. up \in 0..8
    BY SMT
  <2>1. 2^up \in Nat
    BY <2>0, PowerIsNat
  <2>2. s[1] \in Nat
    BY <1>1, ByteIsNat
  <2> QED
    BY <2>1, <2>2, ProductIsNat
<1>3. up \in 0..8 /\ up + count \in 0..8 /\ up <= up + count
  BY SMT
<1>4. Blend(old, s[1] * 2^up, up, up + count) = byte
  BY <1>2, <1>3, BlendOfLowByte
<1>5. /\ y \in Byte
      /\ \A j \in 0..7 : Bit(y, j) = IF j < up THEN 0 ELSE Bit(s[1], j - up)
  BY <1>1, BitsUp
<1> HIDE DEF y
<1>6. /\ byte \in Byte
      /\ \A j \in 0..7 :
              Bit(byte, j) =
                IF up <= j /\ j < up + count THEN Bit(y, j) ELSE Bit(old, j)
  BY <1>3, <1>5, BitsBlended
<1> HIDE DEF byte
<1>7. ASSUME NEW j \in 0..7
      PROVE  Bit(byte, j) =
               IF up <= 8 * 0 + j /\ 8 * 0 + j < up + count
               THEN ValueAt(s, 8 * 0 + j - up)
               ELSE Bit(old, j)
  <2>1. 8 * 0 + j = j /\ 0 + 1 = 1 /\ 0 \in Nat
    BY SMT
  <2>2. ValueAt(s, 8 * 0 + j - up) =
          IF up <= j THEN Bit(s[1], j - up) ELSE Bit(s[0], j + (8 - up))
    <3>1. ValueAt(s, 8 * 0 + j - up) =
            IF up <= j THEN Bit(s[0 + 1], j - up) ELSE Bit(s[0], j + (8 - up))
      BY <2>1, ValueShifted, Zenon
    <3> QED
      BY <2>1, <3>1, Zenon
  <2>3. up <= j => ~(j < up)
    BY SMT
  <2> QED
    BY <2>1, <2>2, <2>3, <1>5, <1>6
<1> QED
  BY <1>4, <1>6, <1>7 DEF Placed

(* The last byte: the bits below top are written, the others kept. *)
LEMMA LastBytePlaced ==
  ASSUME NEW s \in Seq(Byte), NEW up \in 0..7, NEW count \in Nat,
         NEW k \in Nat, 8 * k >= up,
         NEW old \in Byte, NEW top \in 0..8, NEW new \in Byte,
         \A j \in 0..7 : 8 * k + j < up + count <=> j < top,
         \A j \in 0..7 : j < top => Bit(new, j) = ValueAt(s, 8 * k + j - up)
  PROVE  Placed(Blend(old, new, 0, top), old, k, up, count, s)
<1> DEFINE byte == Blend(old, new, 0, top)
<1>1. 0 \in 0..8 /\ 0 <= top
  BY SMT
<1>2. /\ byte \in Byte
      /\ \A j \in 0..7 :
              Bit(byte, j) =
                IF 0 <= j /\ j < top THEN Bit(new, j) ELSE Bit(old, j)
  BY <1>1, BitsBlended
<1> HIDE DEF byte
<1>3. \A j \in 0..7 : 0 <= j /\ up <= 8 * k + j
  BY SMT
<1>4. /\ byte \in Byte
      /\ \A j \in 0..7 :
              Bit(byte, j) = IF up <= 8 * k + j /\ 8 * k + j < up + count
                      THEN ValueAt(s, 8 * k + j - up) ELSE Bit(old, j)
  BY <1>2, <1>3
<1> QED
  BY <1>4 DEF Placed, byte

(* What a shifted write carries into its k-th byte from the one before. *)
CarriedByte(old, s, k, up) ==
  IF k = 0 THEN old % 2^up ELSE s[k] \div 2^(8 - up)

LEMMA CarryHasBits ==
  ASSUME NEW s \in Seq(Byte), NEW up \in 1..7, NEW k \in Nat, k <= Len(s),
         NEW old \in Byte
  PROVE  /\ CarriedByte(old, s, k, up) \in Byte
         /\ \A j \in 0..7 :
              Bit(CarriedByte(old, s, k, up), j) =
                IF j < up
                THEN IF k = 0 THEN Bit(old, j) ELSE Bit(s[k], j + (8 - up))
                ELSE 0
<1>1. CASE k = 0
  <2>1. up \in 0..8
    BY SMT
  <2>2. CarriedByte(old, s, k, up) = old % 2^up
    BY <1>1 DEF CarriedByte
  <2> QED
    BY <1>1, <2>1, <2>2, BitsLow
<1>2. CASE k # 0
  <2>1. 8 - up \in 0..7
    BY SMT
  <2>2. CarriedByte(old, s, k, up) = s[k] \div 2^(8 - up)
    BY <1>2 DEF CarriedByte
  <2>3. s[k] \in Byte
    BY <1>2, SMT
  <2>4. \A j \in 0..7 : j + (8 - up) < 8 <=> j < up
    BY SMT
  <2>5. /\ s[k] \div 2^(8 - up) \in Byte
        /\ \A j \in 0..7 :
                Bit(s[k] \div 2^(8 - up), j) =
                  IF j + (8 - up) < 8 THEN Bit(s[k], j + (8 - up)) ELSE 0
    BY <2>1, <2>3, BitsDown
  <2> QED
    BY <1>2, <2>2, <2>4, <2>5, Zenon
<1> QED
  BY <1>1, <1>2

(* A byte of a shifted write: what is carried and what follows. *)
WholeByte(old, s, k, up) ==
  CarriedByte(old, s, k, up) + ((s[k + 1] * 2^up) % 256)

LEMMA WholeHasBits ==
  ASSUME NEW s \in Seq(Byte), NEW up \in 1..7, NEW k \in Nat, k + 1 <= Len(s),
         NEW old \in Byte
  PROVE  /\ WholeByte(old, s, k, up) \in Byte
         /\ \A j \in 0..7 :
              Bit(WholeByte(old, s, k, up), j) =
                IF up <= j THEN Bit(s[k + 1], j - up)
                ELSE IF k = 0 THEN Bit(old, j) ELSE Bit(s[k], j + (8 - up))
<1> DEFINE c == CarriedByte(old, s, k, up)
           y == (s[k + 1] * 2^up) % 256
<1>1. up \in 0..7 /\ k + 1 \in 1..Len(s) /\ k <= Len(s)
  BY SMT
<1>2. s[k + 1] \in Byte
  BY <1>1, SMT
<1>3. /\ y \in Byte
      /\ \A j \in 0..7 :
              Bit(y, j) = IF j < up THEN 0 ELSE Bit(s[k + 1], j - up)
  BY <1>1, <1>2, BitsUp
<1>4. /\ c \in Byte
      /\ \A j \in 0..7 :
              Bit(c, j) =
                IF j < up
                THEN IF k = 0 THEN Bit(old, j) ELSE Bit(s[k], j + (8 - up))
                ELSE 0
  BY <1>1, CarryHasBits
<1> HIDE DEF c, y
<1>5. \A j \in 0..7 : Bit(c, j) = 0 \/ Bit(y, j) = 0
  BY <1>3, <1>4
<1>6. /\ c + y \in Byte
      /\ \A j \in 0..7 :
              Bit(c + y, j) = IF Bit(c, j) = 0 THEN Bit(y, j) ELSE Bit(c, j)
  BY <1>3, <1>4, <1>5, BitsJoined
<1>7. ASSUME NEW j \in 0..7
      PROVE  Bit(c + y, j) = IF up <= j THEN Bit(s[k + 1], j - up)
                ELSE IF k = 0 THEN Bit(old, j) ELSE Bit(s[k], j + (8 - up))
  <2>1. CASE up <= j
    <3>1. ~(j < up)
      BY <2>1, SMT
    <3> QED
      BY <2>1, <3>1, <1>3, <1>4, <1>6
  <2>2. CASE ~(up <= j)
    <3>1. j < up
      BY <2>2, SMT
    <3> QED
      BY <2>2, <3>1, <1>3, <1>4, <1>6
  <2> QED
    BY <2>1, <2>2
<1>8. WholeByte(old, s, k, up) = c + y
  BY DEF WholeByte, c, y
<1> QED
  BY <1>6, <1>7, <1>8

(* A byte with all its bits inside the write, and the first one. *)
LEMMA WholePlaced ==
  ASSUME NEW s \in Seq(Byte), NEW up \in 1..7, NEW count \in Nat,
         NEW k \in Nat, k + 1 <= Len(s), NEW old \in Byte,
         8 * k + 8 <= up + count
  PROVE  Placed(WholeByte(old, s, k, up), old, k, up, count, s)
<1>1. up \in 0..7
  BY SMT
<1> DEFINE w == WholeByte(old, s, k, up)
<1>2. /\ w \in Byte
      /\ \A j \in 0..7 :
           Bit(w, j) = IF up <= j THEN Bit(s[k + 1], j - up)
                       ELSE IF k = 0 THEN Bit(old, j)
                       ELSE Bit(s[k], j + (8 - up))
  BY WholeHasBits
<1> HIDE DEF w
<1>3. ASSUME NEW j \in 0..7
      PROVE  Bit(w, j) = IF up <= 8 * k + j /\ 8 * k + j < up + count
                      THEN ValueAt(s, 8 * k + j - up) ELSE Bit(old, j)
  <2>1. 8 * k + j < up + count
    BY SMT
  <2>2. up <= 8 * k + j <=> (up <= j \/ k # 0)
    BY SMT
  <2>3. ValueAt(s, 8 * k + j - up) =
          IF up <= j THEN Bit(s[k + 1], j - up) ELSE Bit(s[k], j + (8 - up))
    BY <1>1, ValueShifted
  <2> QED
    BY <1>2, <2>1, <2>2, <2>3
<1> QED
  BY <1>2, <1>3 DEF Placed, w

(* Every byte of a shifted write: k counts from the first one.             *)
ShiftedByte(first, old, s, k, up, count) ==
  IF k < count \div 8 \/ (k = count \div 8 /\ count % 8 > 8 - up)
  THEN WholeByte(first, s, k, up)
  ELSE IF k = count \div 8 /\ count % 8 > 0
  THEN Blend(old, WholeByte(first, s, k, up), 0, ((up + count - 1) % 8) + 1)
  ELSE Blend(old, CarriedByte(first, s, k, up), 0, ((up + count - 1) % 8) + 1)

LEMMA ShiftedPlaced ==
  ASSUME NEW s \in Seq(Byte), NEW up \in 1..7, NEW count \in Nat,
         count > 8 - up, count <= 8 * Len(s),
         NEW first \in Byte, NEW old \in Byte,
         NEW k \in 0..((up + count - 1) \div 8), k = 0 => old = first
  PROVE  Placed(ShiftedByte(first, old, s, k, up, count), old, k, up, count, s)
<1> DEFINE n == count \div 8
           rest == count % 8
           top == ((up + count - 1) % 8) + 1
<1>1. n \in Nat /\ rest \in 0..7 /\ count = 8 * n + rest
  BY SMT
<1>2. k \in Nat /\ up \in 0..7 /\ up \in Nat /\ Len(s) \in Nat
  BY SMT
<1>3. (up + count - 1) \div 8 = IF up + rest > 8 THEN n + 1 ELSE n
  <2>1. up + count - 1 = 8 * n + (up + rest - 1)
    BY <1>1, SMT
  <2>2. CASE up + rest > 8
    <3>1. /\ up + rest - 9 \in 0..7
          /\ up + count - 1 = 8 * (n + 1) + (up + rest - 9) /\ n + 1 \in Int
      BY <1>1, <2>2, SMT
    <3> QED
      BY <2>2, <3>1, Places
  <2>3. CASE ~(up + rest > 8)
    <3>1. up + rest - 1 \in 0..7 /\ n \in Int
      BY <1>1, <2>3, SMT
    <3> QED
      BY <2>1, <2>3, <3>1, Places
  <2> QED
    BY <2>2, <2>3
<1>4. top = IF up + rest > 8 THEN up + rest - 8 ELSE up + rest
  <2>1. up + count - 1 = 8 * n + (up + rest - 1)
    BY <1>1, SMT
  <2>2. CASE up + rest > 8
    <3>1. /\ up + rest - 9 \in 0..7
          /\ up + count - 1 = 8 * (n + 1) + (up + rest - 9) /\ n + 1 \in Int
      BY <1>1, <2>2, SMT
    <3>2. (up + count - 1) % 8 = up + rest - 9
      BY <3>1, Places
    <3>3. up + rest - 9 + 1 = up + rest - 8
      BY <1>1, SMT
    <3> QED
      BY <2>2, <3>2, <3>3
  <2>3. CASE ~(up + rest > 8)
    <3>1. up + rest - 1 \in 0..7 /\ n \in Int
      BY <1>1, <2>3, SMT
    <3>2. (up + count - 1) % 8 = up + rest - 1
      BY <2>1, <3>1, Places
    <3>3. up + rest - 1 + 1 = up + rest
      BY <1>1, SMT
    <3> QED
      BY <2>3, <3>2, <3>3
  <2> QED
    BY <2>2, <2>3
<1>5. k \in 0..(IF up + rest > 8 THEN n + 1 ELSE n)
  BY <1>3
<1>6. ShiftedByte(first, old, s, k, up, count) =
        IF k < n \/ (k = n /\ rest > 8 - up)
        THEN WholeByte(first, s, k, up)
        ELSE IF k = n /\ rest > 0
        THEN Blend(old, WholeByte(first, s, k, up), 0, top)
        ELSE Blend(old, CarriedByte(first, s, k, up), 0, top)
  BY DEF ShiftedByte
<1> HIDE DEF n, rest, top
<1>7. CASE k < n \/ (k = n /\ rest > 8 - up)
  <2>1. k + 1 <= Len(s) /\ 8 * k + 8 <= up + count
    BY <1>1, <1>2, <1>7, SMT
  <2>2. Placed(WholeByte(first, s, k, up), first, k, up, count, s)
    BY <1>2, <2>1, WholePlaced
  <2>3. Placed(WholeByte(first, s, k, up), old, k, up, count, s)
    <3>1. CASE k = 0
      BY <2>2, <3>1
    <3>2. CASE k # 0
      <4>1. \A j \in 0..7 : up <= 8 * k + j /\ 8 * k + j < up + count
        BY <1>2, <2>1, <3>2, SMT
      <4> QED
        BY <2>2, <4>1 DEF Placed
    <3> QED
      BY <3>1, <3>2
  <2> QED
    BY <1>6, <1>7, <2>3
<1>8. CASE ~(k < n \/ (k = n /\ rest > 8 - up)) /\ k = n /\ rest > 0
  <2> DEFINE w == WholeByte(first, s, k, up)
  <2>1. /\ k # 0 /\ 8 * k >= up /\ k + 1 <= Len(s) /\ top = up + rest
        /\ top \in 0..8
    BY <1>1, <1>2, <1>4, <1>8, SMT
  <2>2. \A j \in 0..7 : 8 * k + j < up + count <=> j < top
    BY <1>1, <1>2, <1>8, <2>1, SMT
  <2>3. /\ w \in Byte
        /\ \A j \in 0..7 :
             Bit(w, j) = IF up <= j THEN Bit(s[k + 1], j - up)
                         ELSE IF k = 0 THEN Bit(first, j)
                         ELSE Bit(s[k], j + (8 - up))
    BY <1>2, <2>1, WholeHasBits
  <2> HIDE DEF w
  <2>4. \A j \in 0..7 : j < top => Bit(w, j) = ValueAt(s, 8 * k + j - up)
    BY <1>2, <2>1, <2>3, ValueShifted
  <2>5. Placed(Blend(old, w, 0, top), old, k, up, count, s)
    BY <1>2, <2>1, <2>2, <2>3, <2>4, LastBytePlaced
  <2>6. ShiftedByte(first, old, s, k, up, count) = Blend(old, w, 0, top)
    BY <1>6, <1>8 DEF w
  <2> QED
    BY <2>5, <2>6
<1>9. CASE ~(k < n \/ (k = n /\ rest > 8 - up)) /\ ~(k = n /\ rest > 0)
  <2> DEFINE c == CarriedByte(first, s, k, up)
  <2>1. /\ k # 0 /\ 8 * k >= up /\ k <= Len(s) /\ top <= up /\ top \in 0..8
        /\ 8 * k + top = up + count
    BY <1>1, <1>2, <1>4, <1>5, <1>9, SMT
  <2>2. \A j \in 0..7 : 8 * k + j < up + count <=> j < top
    BY <1>1, <1>2, <1>9, <2>1, SMT
  <2>3. /\ c \in Byte
        /\ \A j \in 0..7 :
                Bit(c, j) =
                  IF j < up
                  THEN IF k = 0 THEN Bit(first, j) ELSE Bit(s[k], j + (8 - up))
                  ELSE 0
    BY <1>2, <2>1, CarryHasBits
  <2> HIDE DEF c
  <2>4. ASSUME NEW j \in 0..7, j < top
        PROVE  Bit(c, j) = ValueAt(s, 8 * k + j - up)
    <3>1. j < up /\ ~(up <= j)
      BY <2>1, <2>4, <1>2, SMT
    <3>2. ValueAt(s, 8 * k + j - up) =
            IF up <= j THEN Bit(s[k + 1], j - up) ELSE Bit(s[k], j + (8 - up))
      BY <1>2, ValueShifted
    <3>3. Bit(c, j) = Bit(s[k], j + (8 - up))
      BY <2>1, <2>3, <3>1, Zenon
    <3> QED
      BY <3>1, <3>2, <3>3, Zenon
  <2>5. Placed(Blend(old, c, 0, top), old, k, up, count, s)
    BY <1>2, <2>1, <2>2, <2>3, <2>4, LastBytePlaced
  <2>6. ShiftedByte(first, old, s, k, up, count) = Blend(old, c, 0, top)
    BY <1>6, <1>9 DEF c
  <2> QED
    BY <2>5, <2>6
<1> QED
  BY <1>7, <1>8, <1>9

(* Every byte of a write that starts at a byte. *)
AlignedByte(old, s, k, count) ==
  IF k < count \div 8
  THEN s[k + 1]
  ELSE Blend(old, s[count \div 8 + 1], 0, count % 8)

LEMMA AlignedPlaced ==
  ASSUME NEW s \in Seq(Byte), NEW count \in Nat, count <= 8 * Len(s),
         NEW old \in Byte,
         NEW k \in Nat, 8 * k <= count - 1
  PROVE  Placed(AlignedByte(old, s, k, count), old, k, 0, count, s)
<1> DEFINE n == count \div 8
           rest == count % 8
<1>1. /\ n \in Nat /\ rest \in 0..7 /\ count = 8 * n + rest /\ Len(s) \in Nat
      /\ 0 \in 0..7
  BY SMT
<1>2. AlignedByte(old, s, k, count) =
        IF k < n THEN s[k + 1] ELSE Blend(old, s[n + 1], 0, rest)
  BY DEF AlignedByte
<1> HIDE DEF n, rest
<1>3. \A j \in 0..7 : ValueAt(s, 8 * k + j - 0) = Bit(s[k + 1], j)
  BY ValueAligned
<1>4. CASE k < n
  <2>1. s[k + 1] \in Byte
    BY <1>1, <1>4, SMT
  <2>2. \A j \in 0..7 : 0 <= 8 * k + j /\ 8 * k + j < 0 + count
    BY <1>1, <1>4, SMT
  <2> QED
    BY <1>2, <1>3, <1>4, <2>1, <2>2 DEF Placed
<1>5. CASE ~(k < n)
  <2>1. k = n /\ rest \in 0..8 /\ 8 * k >= 0
    BY <1>1, <1>5, SMT
  <2>2. s[k + 1] \in Byte
    BY <1>1, <2>1, SMT
  <2>3. \A j \in 0..7 : 8 * k + j < 0 + count <=> j < rest
    BY <1>1, <2>1, SMT
  <2>4. Placed(Blend(old, s[k + 1], 0, rest), old, k, 0, count, s)
    BY <1>1, <1>3, <2>1, <2>2, <2>3, LastBytePlaced
  <2> QED
    BY <1>2, <1>5, <2>1, <2>4
<1> QED
  BY <1>4, <1>5

(* What a write leaves in memory: v[p] at every bit p from p to q, and the *)
(* old bit elsewhere.                                                      *)
Deposits(mem, size, out, p, q, v) ==
  /\ out \in [0..(size - 1) -> Byte]
  /\ \A i \in 0..(size - 1), j \in 0..7 :
       Bit(out[i], j) =
         IF 8 * i + j \in p..(q - 1) THEN v[8 * i + j] ELSE Bit(mem[i], j)

(* Bytes that are placed one by one make a deposit. *)
LEMMA PlacedDeposits ==
  ASSUME NEW size \in Nat, NEW mem \in [0..(size - 1) -> Byte],
         NEW pos \in Nat, NEW count \in Nat \ {0},
         pos + count <= 8 * size, NEW s, NEW new,
         DOMAIN new = (pos \div 8)..((pos + count - 1) \div 8),
         \A i \in DOMAIN new :
              Placed(new[i], mem[i], i - pos \div 8, pos % 8, count, s),
         NEW v, \A p \in pos..(pos + count - 1) : v[p] = ValueAt(s, p - pos)
  PROVE  Deposits(mem, size, Overwrite(mem, new), pos, pos + count, v)
<1> DEFINE first == pos \div 8
           up == pos % 8
           out == Overwrite(mem, new)
           last == (pos + count - 1) \div 8
<1>1. pos = 8 * first + up /\ first \in Nat /\ up \in 0..7
  BY SMT
<1>2. /\ last \in Int /\ 8 * last <= pos + count - 1
      /\ pos + count - 1 < 8 * last + 8
  BY SMT
<1>3. out =
        [i \in 0..(size - 1) |-> IF i \in first..last THEN new[i] ELSE mem[i]]
  BY DEF Overwrite
<1> HIDE DEF first, up, out, last
<1>4. DOMAIN new = first..last
  BY DEF first, last
<1>5. \A i \in first..last : Placed(new[i], mem[i], i - first, up, count, s)
  BY <1>4 DEF first, up
<1>6. \A i \in first..last : new[i] \in Byte
  BY <1>5 DEF Placed
<1>7. out \in [0..(size - 1) -> Byte]
  BY <1>3, <1>6
<1>8. ASSUME NEW i \in 0..(size - 1), NEW j \in 0..7
      PROVE  Bit(out[i], j) =
               IF 8 * i + j \in pos..(pos + count - 1)
               THEN v[8 * i + j]
               ELSE Bit(mem[i], j)
  <2>1. CASE i \in first..last
    <3> DEFINE k == i - first
    <3>1. /\ 8 * k + j - up = 8 * i + j - pos
          /\ 8 * i + j \in pos..(pos + count - 1)
               <=> up <= 8 * k + j /\ 8 * k + j < up + count
      BY <1>1, <2>1, SMT
    <3>2. Placed(out[i], mem[i], k, up, count, s)
      BY <1>3, <1>5, <2>1
    <3> HIDE DEF k
    <3>3. Bit(out[i], j) = IF up <= 8 * k + j /\ 8 * k + j < up + count
                           THEN ValueAt(s, 8 * k + j - up) ELSE Bit(mem[i], j)
      BY <3>2 DEF Placed
    <3> QED
      BY <3>1, <3>3
  <2>2. CASE i \notin first..last
    <3>1. out[i] = mem[i]
      BY <1>3, <2>2
    <3>2. 8 * i + j \notin pos..(pos + count - 1)
      BY <1>1, <1>2, <2>2, SMT
    <3> QED
      BY <3>1, <3>2
  <2> QED
    BY <2>1, <2>2
<1> QED
  BY <1>7, <1>8 DEF Deposits, out

(* writeBits in its three forms. *)
LEMMA CopiedDeposits ==
  ASSUME NEW size \in Nat, NEW mem \in [0..(size - 1) -> Byte],
         NEW pos \in Nat, NEW count \in Nat \ {0},
         pos + count <= 8 * size, NEW s \in Seq(Byte), count <= 8 * Len(s),
         NEW v, \A p \in pos..(pos + count - 1) : v[p] = ValueAt(s, p - pos)
  PROVE  Deposits(mem, size, Overwrite(mem, Copied(mem, pos, count, s)),
                  pos, pos + count, v)
<1> DEFINE first == pos \div 8
           up == pos % 8
           last == (pos + count - 1) \div 8
           new == Copied(mem, pos, count, s)
           n == count \div 8
<1>1. pos = 8 * first + up /\ first \in Nat /\ up \in 0..7 /\ Len(s) \in Nat
  BY SMT
<1>2. /\ last \in Int /\ 8 * last <= pos + count - 1
      /\ pos + count - 1 < 8 * last + 8
  BY SMT
<1>a. first \in 0..(size - 1) /\ \A i \in first..last : i \in 0..(size - 1)
  BY <1>1, <1>2, SMT
<1>3. /\ DOMAIN new = first..last
      /\ \A i \in first..last : Placed(new[i], mem[i], i - first, up, count, s)
  <2>1. CASE count <= 8 - up
    <3>1. new = [i \in {first} |-> Blend(mem[i], s[1] * 2^up, up, up + count)]
      BY <2>1 DEF Copied, InOneByte
    <3>2. last = first
      BY <1>1, <1>2, <2>1, SMT
    <3>3. mem[first] \in Byte
      BY <1>a
    <3>4. first - first = 0 /\ first..first = {first}
      BY <1>1, SMT
    <3> HIDE DEF first, last, up, new
    <3>5. Placed(new[first], mem[first], 0, up, count, s)
      BY <1>1, <2>1, <3>1, <3>3, OneBytePlaced
    <3> QED
      BY <3>1, <3>2, <3>4, <3>5
  <2>2. CASE ~(count <= 8 - up) /\ up = 0
    <3> DEFINE rest == count % 8
    <3>1. new = [i \in first..last |->
                   IF i < first + n THEN s[i - first + 1]
                   ELSE Blend(mem[i], s[n + 1], 0, rest)]
      BY <2>2 DEF Copied, Aligned
    <3>2. n \in Nat /\ rest \in 0..7 /\ count = 8 * n + rest
      BY SMT
    <3> HIDE DEF first, last, up, n, rest, new
    <3>3. ASSUME NEW i \in first..last
          PROVE  Placed(new[i], mem[i], i - first, up, count, s)
      <4> DEFINE k == i - first
      <4>1. /\ k \in Nat /\ i - first + 1 = k + 1 /\ (i < first + n <=> k < n)
            /\ 8 * k <= count - 1
        BY <1>1, <1>2, <2>2, <3>2, SMT
      <4> HIDE DEF k
      <4>2. mem[i] \in Byte
        BY <1>a
      <4>3. new[i] = AlignedByte(mem[i], s, k, count)
        BY <3>1, <4>1 DEF AlignedByte, n, rest
      <4>4. Placed(new[i], mem[i], k, 0, count, s)
        BY <4>1, <4>2, <4>3, AlignedPlaced
      <4> QED
        BY <2>2, <4>4 DEF k
    <3> QED
      BY <3>1, <3>3
  <2>3. CASE ~(count <= 8 - up) /\ up # 0
    <3>1. new = [i \in first..last |->
                   ShiftedByte(mem[first], mem[i], s, i - first, up, count)]
      <4>1. new = Shifted(mem, pos, count, s)
        BY <2>3 DEF Copied
      <4> QED
        BY <4>1 DEF Shifted, ShiftedByte, WholeByte, CarriedByte
    <3> HIDE DEF first, last, up, new
    <3>2. ASSUME NEW i \in first..last
          PROVE  Placed(new[i], mem[i], i - first, up, count, s)
      <4> DEFINE k == i - first
      <4>1. /\ k \in Nat /\ up \in 1..7 /\ count > 8 - up
            /\ (k = 0 => i = first) /\ 8 * k <= up + count - 1
        BY <1>1, <1>2, <2>3, SMT
      <4>2. k \in 0..((up + count - 1) \div 8)
        <5> HIDE DEF k
        <5> QED
          BY <1>1, <4>1, SMT
      <4>3. mem[i] \in Byte /\ mem[first] \in Byte
        BY <1>a
      <4>4. new[i] = ShiftedByte(mem[first], mem[i], s, k, up, count)
        BY <3>1
      <4> HIDE DEF k
      <4>5. k = 0 => mem[i] = mem[first]
        BY <4>1
      <4>6. count \in Nat
        OBVIOUS
      <4>7. Placed(ShiftedByte(mem[first], mem[i], s, k, up, count),
                   mem[i], k, up, count, s)
        BY <4>1, <4>2, <4>3, <4>5, <4>6, ShiftedPlaced
      <4> QED
        BY <4>4, <4>7 DEF k
    <3> QED
      BY <3>1, <3>2
  <2> QED
    BY <2>1, <2>2, <2>3
<1> QED
  BY <1>3, PlacedDeposits

(* One bit: what setBit and writeFlag do. *)
LEMMA FlagDeposits ==
  ASSUME NEW size \in Nat, NEW mem \in [0..(size - 1) -> Byte], NEW p \in Nat,
         p + 1 <= 8 * size,
         NEW bit \in {0, 1}, NEW v, v[p] = bit
  PROVE  Deposits(mem, size, Overwrite(mem, WithBit(mem, p, bit)), p, p + 1, v)
<1> DEFINE s == <<bit>>
           new == WithBit(mem, p, bit)
           first == p \div 8
           up == p % 8
<1>1. s \in Seq(Byte) /\ Len(s) = 1 /\ s[1] = bit
  <2>1. bit \in Byte
    BY SMT DEF Byte
  <2> QED
    BY <2>1
<1>2. /\ p = 8 * first + up /\ first \in 0..(size - 1) /\ up \in 0..7
      /\ (p + 1 - 1) \div 8 = first
  BY SMT
<1>3. mem[first] \in Byte
  BY <1>2
<1>4. ValueAt(s, p - p) = bit
  <2>1. p - p = 0 /\ 0 \div 8 = 0 /\ 0 % 8 = 0 /\ 0 + 1 = 1
    BY SMT
  <2>0. bit \in Nat
    BY SMT
  <2>2. Bit(bit, 0) = bit % 2
    BY <2>0, BitsAre
  <2>3. bit % 2 = bit
    BY SMT
  <2> HIDE DEF s
  <2> QED
    BY <1>1, <2>1, <2>2, <2>3 DEF ValueAt
<1> HIDE DEF s
<1>5. 1 \in Nat \ {0} /\ 1 <= 8 - up /\ 1 <= 8 * Len(s)
  BY <1>1, <1>2, SMT
<1>6. Placed(Blend(mem[first], s[1] * 2^up, up, up + 1),
             mem[first], 0, up, 1, s)
  BY <1>1, <1>2, <1>3, <1>5, OneBytePlaced
<1>7. new = [i \in {first} |-> Blend(mem[i], bit * 2^up, up, up + 1)]
  BY DEF WithBit
<1>8. DOMAIN new = first..((p + 1 - 1) \div 8) /\ first..first = {first}
  BY <1>2, <1>7, SMT
<1>9. \A i \in DOMAIN new :
           /\ i = first /\ i - first = 0
           /\ new[i] = Blend(mem[first], s[1] * 2^up, up, up + 1)
  BY <1>1, <1>2, <1>7, SMT
<1>10. \A i \in DOMAIN new : Placed(new[i], mem[i], i - first, up, 1, s)
  BY <1>6, <1>9, Zenon
<1>11. \A i \in p..(p + 1 - 1) : v[i] = ValueAt(s, i - p)
  <2>1. \A i \in p..(p + 1 - 1) : i = p
    BY SMT
  <2> QED
    BY <1>4, <2>1, Zenon
<1> HIDE DEF new
<1> QED
  BY <1>5, <1>8, <1>10, <1>11, PlacedDeposits DEF first, up, new

(* Whole bytes: what writeTyped and writeString do. *)
BytesFrom(first, bytes) ==
  [i \in first..(first + Len(bytes) - 1) |-> bytes[i - first + 1]]

LEMMA BytesDeposit ==
  ASSUME NEW size \in Nat, NEW mem \in [0..(size - 1) -> Byte],
         NEW first \in Nat, NEW bytes \in Seq(Byte),
         8 * first + 8 * Len(bytes) <= 8 * size,
         NEW v, \A p \in (8 * first)..(8 * first + 8 * Len(bytes) - 1) :
                   v[p] = Bit(bytes[(p - 8 * first) \div 8 + 1], p % 8)
  PROVE  Deposits(mem, size, Overwrite(mem, BytesFrom(first, bytes)),
                  8 * first, 8 * first + 8 * Len(bytes), v)
<1> DEFINE new == BytesFrom(first, bytes)
           out == Overwrite(mem, new)
           q == 8 * first + 8 * Len(bytes)
<1>1. Len(bytes) \in Nat /\ q \in Nat
  OBVIOUS
<1>2. \A i \in first..(first + Len(bytes) - 1) :
           i - first + 1 \in 1..Len(bytes) /\ i \in 0..(size - 1)
  BY <1>1, SMT
<1>3. \A i \in first..(first + Len(bytes) - 1) : bytes[i - first + 1] \in Byte
  BY <1>2, SMT
<1>4. out = [i \in 0..(size - 1) |->
               IF i \in first..(first + Len(bytes) - 1)
               THEN bytes[i - first + 1] ELSE mem[i]]
  BY DEF Overwrite, BytesFrom
<1> HIDE DEF out
<1>5. out \in [0..(size - 1) -> Byte]
  BY <1>3, <1>4
<1>6. ASSUME NEW i \in 0..(size - 1), NEW j \in 0..7
      PROVE  Bit(out[i], j) =
               IF 8 * i + j \in (8 * first)..(q - 1)
               THEN v[8 * i + j]
               ELSE Bit(mem[i], j)
  <2>1. 8 * i + j \in (8 * first)..(q - 1) <=>
          i \in first..(first + Len(bytes) - 1)
    BY <1>1, SMT
  <2>2. CASE i \in first..(first + Len(bytes) - 1)
    <3>1. /\ 8 * i + j - 8 * first = 8 * (i - first) + j /\ i - first \in Int
          /\ i \in Int
      BY SMT
    <3>2. (8 * i + j - 8 * first) \div 8 = i - first /\ (8 * i + j) % 8 = j
      BY <3>1, Places
    <3>3. v[8 * i + j] = Bit(bytes[i - first + 1], j)
      BY <2>1, <2>2, <3>2
    <3> QED
      BY <1>4, <2>1, <2>2, <3>3
  <2>3. CASE i \notin first..(first + Len(bytes) - 1)
    BY <1>4, <2>1, <2>3
  <2> QED
    BY <2>2, <2>3
<1> QED
  BY <1>5, <1>6 DEF Deposits, out

-------------------------------------------------------------------------------
(* The history.                                                            *)

(* What a stream holds: no bit that counts lies beyond the bytes in use,   *)
(* so that no growth, whatever it installs, loses one.                     *)
Contents ==
  /\ TypeOK
  /\ \A p \in counted : p < 8 * m_used
  /\ WrittenIsKept
  /\ ReadIsWritten

(* The inductive invariant. *)
KeepsBits == StaysInside /\ Contents

(* What a call may install holds what was in use. *)
LEMMA SpacesHold ==
  ASSUME KeepsBits, NEW newBits \in Nat, NEW space \in Spaces(newBits)
  PROVE  /\ Fits(space, newBits)
         /\ space.mem \in [0..(space.cap - 1) -> Byte]
         /\ \A i \in 0..(m_used - 1) : space.mem[i] = m_ptr[i]
<1>1. Fits(space, newBits)
  BY SpacesFit DEF KeepsBits, StaysInside
<1>2. /\ m_ptr \in [0..(m_capacity - 1) -> Byte] /\ m_used \in Nat
      /\ m_capacity \in Nat /\ m_used <= m_capacity
  BY DEF KeepsBits, Contents, TypeOK, StaysInside, SizesOK, LimitsInside
<1>3. CASE newBits = 0
  <2>1. space = Space
    BY <1>3 DEF Spaces
  <2> QED
    BY <1>1, <1>2, <2>1 DEF Space
<1>4. CASE newBits # 0
  <2> DEFINE size == NewSize(newBits)
             cap  == IF size > m_capacity THEN size ELSE m_capacity
  <2>1. space \in ResizeBits(newBits)
    BY <1>4 DEF Spaces
  <2>2. PICK fill \in Fills :
          space.cap = cap /\ space.mem = Resized(size, fill)
    BY <2>1 DEF ResizeBits
  <2>3. fill \in Byte
    BY DataAssumption
  <2>4. size \in Nat
    BY NewSizeFits DEF KeepsBits, StaysInside
  <2> HIDE DEF size
  <2>5. CASE size > m_capacity
    <3>1. /\ space.cap = size
          /\ space.mem =
               [i \in 0..(size - 1) |-> IF i < m_used THEN m_ptr[i] ELSE fill]
      BY <2>2, <2>5 DEF Resized
    <3>2. \A i \in 0..(size - 1) : i < m_used => i \in 0..(m_capacity - 1)
      BY <1>2, <2>4
    <3>3. \A i \in 0..(m_used - 1) : i \in 0..(size - 1) /\ i < m_used
      BY <1>2, <2>4, <2>5
    <3> QED
      BY <1>1, <1>2, <2>3, <3>1, <3>2, <3>3
  <2>6. CASE ~(size > m_capacity)
    <3>1. space.cap = m_capacity /\ space.mem = m_ptr
      BY <2>2, <2>6 DEF Resized
    <3> QED
      BY <1>1, <1>2, <3>1
  <2> QED
    BY <2>5, <2>6
<1> QED
  BY <1>3, <1>4

(* What the history says of a write. *)
Recorded(used, p, q, v) ==
  /\ written' = [i \in DOMAIN written \cup (p..(q - 1)) |->
                   IF i \in p..(q - 1) THEN v[i] ELSE written[i]]
  /\ counted' = {i \in counted \cup (p..(q - 1)) : i < 8 * used}

(* A call that deposits what it records keeps what the history says. *)
LEMMA DepositKeeps ==
  ASSUME KeepsBits, StaysInside', NEW newBits \in Nat,
         NEW space \in Spaces(newBits),
         NEW p \in Nat, NEW q \in Nat,
         NEW v, \A i \in p..(q - 1) : v[i] \in {0, 1},
         Install(space), Deposits(space.mem, space.cap, m_ptr', p, q, v),
         Recorded(space.used, p, q, v)
  PROVE  Contents'
<1>1. /\ Fits(space, newBits) /\ space.mem \in [0..(space.cap - 1) -> Byte]
      /\ \A i \in 0..(m_used - 1) : space.mem[i] = m_ptr[i]
  BY SpacesHold
<1>2. m_capacity' = space.cap /\ m_used' = space.used /\ got' = NothingRead
  BY DEF Install
<1>3. /\ DOMAIN written \subseteq Nat
      /\ \A i \in DOMAIN written : written[i] \in {0, 1}
      /\ counted \subseteq DOMAIN written /\ \A i \in counted : i < 8 * m_used
      /\ WrittenIsKept
  BY DEF KeepsBits, Contents, TypeOK
<1>4. m_ptr' \in [0..(m_capacity' - 1) -> Byte]
  BY <1>2 DEF Deposits
<1>5. p..(q - 1) \subseteq Nat
  BY SMT
<1>6. /\ DOMAIN written' \subseteq Nat
      /\ \A i \in DOMAIN written' : written'[i] \in {0, 1}
      /\ counted' \subseteq DOMAIN written'
  BY <1>3, <1>5 DEF Recorded
<1>7. \A i \in counted' : i < 8 * m_used'
  BY <1>2 DEF Recorded
<1>8. NothingRead \in [at : Nat, n : Nat, bytes : Seq(Byte)]
  <2>1. <<>> \in Seq(Byte)
    OBVIOUS
  <2> QED
    BY <2>1 DEF NothingRead
<1>9. TypeOK'
  BY <1>2, <1>4, <1>6, <1>8 DEF TypeOK, StaysInside
<1>10. ASSUME NEW x \in counted' PROVE BitAt(x)' = written'[x]
  <2> DEFINE i == x \div 8
             j == x % 8
  <2>1. /\ x \in Nat /\ x < 8 * space.used /\ space.used \in Nat
        /\ space.cap \in Nat /\ space.used <= space.cap
    BY <1>1, <1>2, <1>6, <1>7 DEF Fits
  <2>2. i \in 0..(space.cap - 1) /\ j \in 0..7 /\ 8 * i + j = x
    BY <2>1, SMT
  <2>3. BitAt(x)' = Bit(m_ptr'[i], j)
    BY DEF BitAt
  <2> HIDE DEF i, j
  <2>4. Bit(m_ptr'[i], j) =
          IF 8 * i + j \in p..(q - 1)
          THEN v[8 * i + j]
          ELSE Bit(space.mem[i], j)
    BY <2>2 DEF Deposits
  <2>5. CASE x \in p..(q - 1)
    <3>1. written'[x] = v[x]
      BY <2>5 DEF Recorded
    <3> QED
      BY <2>2, <2>3, <2>4, <2>5, <3>1
  <2>6. CASE x \notin p..(q - 1)
    <3>1. x \in counted
      BY <2>6 DEF Recorded
    <3>2. written'[x] = written[x]
      BY <1>3, <2>6, <3>1 DEF Recorded
    <3>3. i \in 0..(m_used - 1)
      <4>1. x < 8 * m_used /\ m_used \in Nat
        BY <1>3, <3>1 DEF KeepsBits, StaysInside, SizesOK
      <4>2. i \in Nat
        BY <2>2, SMT
      <4> QED
        BY <2>2, <4>1, <4>2, SMT
    <3>4. Bit(m_ptr'[i], j) = Bit(m_ptr[i], j)
      BY <1>1, <2>2, <2>4, <2>6, <3>3
    <3>5. BitAt(x) = written[x]
      BY <1>3, <3>1 DEF WrittenIsKept
    <3>6. BitAt(x) = Bit(m_ptr[i], j)
      BY DEF BitAt, i, j
    <3> QED
      BY <2>3, <3>2, <3>4, <3>5, <3>6
  <2> QED
    BY <2>5, <2>6
<1>11. WrittenIsKept'
  BY <1>10 DEF WrittenIsKept
<1>12. ReadIsWritten'
  <2>1. got'.n - 1 = 0 - 1
    BY <1>2 DEF NothingRead
  <2>2. 0..(0 - 1) = {}
    BY SMT
  <2> QED
    BY <2>1, <2>2 DEF ReadIsWritten
<1> QED
  BY <1>7, <1>9, <1>11, <1>12 DEF Contents

(* A call that leaves memory and history alone keeps what they say. *)
LEMMA QuietKeeps ==
  ASSUME KeepsBits, StaysInside',
         UNCHANGED <<m_ptr, m_capacity, written, counted, m_used>>,
         got' = got \/ got' = NothingRead
  PROVE  Contents'
<1>1. /\ m_ptr \in [0..(m_capacity - 1) -> Byte]
      /\ got \in [at : Nat, n : Nat, bytes : Seq(Byte)]
      /\ DOMAIN written \subseteq Nat
      /\ \A p \in DOMAIN written : written[p] \in {0, 1}
      /\ counted \subseteq DOMAIN written /\ \A p \in counted : p < 8 * m_used
      /\ WrittenIsKept /\ ReadIsWritten
  BY DEF KeepsBits, Contents, TypeOK
<1>2. NothingRead \in [at : Nat, n : Nat, bytes : Seq(Byte)]
  <2>1. <<>> \in Seq(Byte)
    OBVIOUS
  <2> QED
    BY <2>1 DEF NothingRead
<1>3. TypeOK'
  BY <1>1, <1>2 DEF TypeOK, StaysInside
<1>4. WrittenIsKept'
  BY <1>1 DEF WrittenIsKept, BitAt
<1>5. ReadIsWritten'
  <2>1. CASE got' = got
    BY <1>1, <2>1 DEF ReadIsWritten
  <2>2. CASE got' = NothingRead
    <3>1. got'.n - 1 = 0 - 1
      BY <2>2 DEF NothingRead
    <3>2. 0..(0 - 1) = {}
      BY SMT
    <3> QED
      BY <3>1, <3>2 DEF ReadIsWritten
  <2> QED
    BY <2>1, <2>2
<1> QED
  BY <1>1, <1>3, <1>4, <1>5 DEF Contents

-------------------------------------------------------------------------------
(* The calls that write. *)

LEMMA WriteBitsKeeps ==
  ASSUME KeepsBits, StaysInside', NEW count \in Counts, NEW s \in Sources,
         WriteBits(count, s)
  PROVE  Contents'
<1> DEFINE newBits == IF count + bitNum > maxWriteBitNum
                      THEN count + bitNum - maxWriteBitNum ELSE 0
           q       == bitNum + count
           v       == [p \in bitNum..(q - 1) |-> ValueAt(s, p - bitNum)]
<1>1. /\ count \in Nat \ {0} /\ bitNum \in Nat /\ maxWriteBitNum \in Nat
      /\ s \in Seq(Byte)
  BY SizesAssumption, DataAssumption DEF KeepsBits, StaysInside, SizesOK
<1>2. newBits \in Nat /\ q \in Nat /\ count <= 8 * Len(s)
  BY <1>1 DEF WriteBits
<1>3. CASE Throws \/ Outside("writeBits")
  BY <1>3, QuietKeeps DEF Throws, Outside, bufferVars, historyVars
<1>4. ASSUME NEW space \in Spaces(newBits), ~(q > 8 * space.cap),
             Install(space),
             m_ptr' =
               Overwrite(space.mem, Copied(space.mem, bitNum, count, s)),
             Recorded(space.used, bitNum, q, v)
      PROVE  Contents'
  <2>1. Fits(space, newBits) /\ space.mem \in [0..(space.cap - 1) -> Byte]
    BY <1>2, SpacesHold
  <2>2. space.cap \in Nat /\ bitNum + count <= 8 * space.cap
    BY <1>1, <1>4, <2>1 DEF Fits
  <2>3. \A p \in bitNum..(q - 1) : v[p] = ValueAt(s, p - bitNum)
    OBVIOUS
  <2>4. \A p \in bitNum..(q - 1) : v[p] \in {0, 1}
    <3> TAKE p \in bitNum..(q - 1)
    <3>1. p - bitNum \in Nat /\ p - bitNum < 8 * Len(s) /\ Len(s) \in Nat
      BY <1>1, <1>2, SMT
    <3>2. (p - bitNum) \div 8 + 1 \in 1..Len(s) /\ (p - bitNum) % 8 \in 0..7
      BY <3>1, SMT
    <3>3. s[(p - bitNum) \div 8 + 1] \in Nat
      BY <1>1, <3>2, ByteIsNat
    <3>4. ValueAt(s, p - bitNum) \in {0, 1}
      BY <3>2, <3>3, BitIsBit DEF ValueAt
    <3> QED
      BY <2>3, <3>4
  <2> HIDE DEF v, newBits
  <2>5. Deposits(space.mem, space.cap, m_ptr', bitNum, q, v)
    <3>1. \A p \in bitNum..(bitNum + count - 1) : v[p] = ValueAt(s, p - bitNum)
      <4>1. bitNum + count - 1 = q - 1
        BY <1>1
      <4> QED
        BY <2>3, <4>1
    <3>2. Deposits(space.mem, space.cap,
                   Overwrite(space.mem, Copied(space.mem, bitNum, count, s)),
                   bitNum, bitNum + count, v)
      BY <1>1, <1>2, <2>1, <2>2, <3>1, CopiedDeposits
    <3> QED
      BY <1>4, <3>2
  <2> HIDE DEF q
  <2> QED
    BY <1>1, <1>2, <1>4, <2>4, <2>5, DepositKeeps
<1>5. \/ Throws
      \/ \E space \in Spaces(newBits) :
           IF q > 8 * space.cap THEN Outside("writeBits")
           ELSE /\ Install(space)
                /\ m_ptr' =
                     Overwrite(space.mem, Copied(space.mem, bitNum, count, s))
                /\ Recorded(space.used, bitNum, q, v)
  BY DEF WriteBits, Write, Record, Recorded, ValueAt
<1> QED
  BY <1>3, <1>4, <1>5

(* One bit: setBit and writeFlag. *)
LEMMA FlagKeeps ==
  ASSUME KeepsBits, StaysInside', NEW newBits \in Nat, NEW p \in Nat,
         NEW bit \in {0, 1}, NEW space \in Spaces(newBits),
         ~(p + 1 > 8 * space.cap), Install(space),
         m_ptr' = Overwrite(space.mem, WithBit(space.mem, p, bit)),
         written' = [i \in DOMAIN written \cup (p..((p + 1) - 1)) |->
                       IF i \in p..((p + 1) - 1) THEN bit ELSE written[i]],
         counted' = {i \in counted \cup (p..((p + 1) - 1)) :
                       i < 8 * space.used}
  PROVE  Contents'
<1> DEFINE v == [i \in p..((p + 1) - 1) |-> bit]
           q == p + 1
<1>1. Fits(space, newBits) /\ space.mem \in [0..(space.cap - 1) -> Byte]
  BY SpacesHold
<1>2. space.cap \in Nat /\ p + 1 <= 8 * space.cap
  BY <1>1 DEF Fits
<1>3. \A i \in p..((p + 1) - 1) : v[i] = bit
  OBVIOUS
<1>4. p \in p..((p + 1) - 1) /\ p + 1 \in Nat
  BY SMT
<1>5. v[p] = bit
  BY <1>3, <1>4
<1> HIDE DEF v
<1>6. Recorded(space.used, p, q, v)
  BY <1>3 DEF Recorded
<1>7. Deposits(space.mem, space.cap, m_ptr', p, p + 1, v)
  BY <1>1, <1>2, <1>5, FlagDeposits
<1>8. /\ Deposits(space.mem, space.cap, m_ptr', p, q, v) /\ q \in Nat
      /\ \A i \in p..(q - 1) : v[i] \in {0, 1}
  BY <1>3, <1>4, <1>7
<1> HIDE DEF q
<1> QED
  BY <1>6, <1>8, DepositKeeps

LEMMA SetBitKeeps ==
  ASSUME KeepsBits, StaysInside', NEW p \in Positions, NEW bit \in {0, 1},
         SetBit(p, bit)
  PROVE  Contents'
<1> DEFINE newBits == IF p >= maxWriteBitNum THEN p - maxWriteBitNum + 1 ELSE 0
<1>1. p \in Nat /\ maxWriteBitNum \in Nat
  BY SizesAssumption DEF KeepsBits, StaysInside, SizesOK
<1>2. newBits \in Nat
  BY <1>1
<1>3. CASE Throws \/ Outside("writeBits")
  BY <1>3, QuietKeeps DEF Throws, Outside, bufferVars, historyVars
<1>4. \/ Throws
      \/ \E space \in Spaces(newBits) :
           IF p + 1 > 8 * space.cap THEN Outside("writeBits")
           ELSE /\ Install(space)
                /\ m_ptr' = Overwrite(space.mem, WithBit(space.mem, p, bit))
                /\ written' = [i \in DOMAIN written \cup (p..((p + 1) - 1)) |->
                                 IF i \in p..((p + 1) - 1)
                                 THEN bit ELSE written[i]]
                /\ counted' = {i \in counted \cup (p..((p + 1) - 1)) :
                                 i < 8 * space.used}
  BY DEF SetBit, Write, Record
<1> HIDE DEF newBits
<1> QED
  BY <1>1, <1>2, <1>3, <1>4, FlagKeeps

LEMMA WriteFlagKeeps ==
  ASSUME KeepsBits, StaysInside', NEW bit \in {0, 1}, WriteFlag(bit)
  PROVE  Contents'
<1> DEFINE newBits == IF bitNum + 1 > maxWriteBitNum THEN 1 ELSE 0
<1>1. bitNum \in Nat
  BY DEF KeepsBits, StaysInside, SizesOK
<1>2. newBits \in Nat
  OBVIOUS
<1>3. CASE Throws \/ Outside("writeFlag")
  BY <1>3, QuietKeeps DEF Throws, Outside, bufferVars, historyVars
<1>4. \/ Throws
      \/ \E space \in Spaces(newBits) :
           IF bitNum + 1 > 8 * space.cap THEN Outside("writeFlag")
           ELSE /\ Install(space)
                /\ m_ptr' =
                     Overwrite(space.mem, WithBit(space.mem, bitNum, bit))
                /\ written' =
                    [i \in DOMAIN written \cup (bitNum..((bitNum + 1) - 1)) |->
                       IF i \in bitNum..((bitNum + 1) - 1)
                       THEN bit ELSE written[i]]
                /\ counted' =
                     {i \in counted \cup (bitNum..((bitNum + 1) - 1)) :
                        i < 8 * space.used}
  BY DEF WriteFlag, Write, Record
<1> HIDE DEF newBits
<1> QED
  BY <1>1, <1>2, <1>3, <1>4, FlagKeeps

(* Whole bytes: values of a type and strings. *)
LEMMA StoreKeeps ==
  ASSUME KeepsBits, StaysInside', NEW operation, NEW bytes \in Seq(Byte),
         NEW length, Store(operation, bytes, length)
  PROVE  Contents'
<1> DEFINE p == 8 * NextByte
           q == p + 8 * Len(bytes)
           v == [i \in p..(q - 1) |-> Bit(bytes[(i - p) \div 8 + 1], i % 8)]
<1>1. NextByte \in Nat /\ Len(bytes) \in Nat
  BY DEF KeepsBits, StaysInside, SizesOK, NextByte
<1>2. CASE Throws \/ Outside(operation)
  BY <1>2, QuietKeeps DEF Throws, Outside, bufferVars, historyVars
<1>3. ASSUME NEW space \in Spaces(0), ~(q > 8 * space.cap), Install(space),
             m_ptr' = Overwrite(space.mem, BytesFrom(NextByte, bytes)),
             Recorded(space.used, p, q, v)
      PROVE  Contents'
  <2>1. Fits(space, 0) /\ space.mem \in [0..(space.cap - 1) -> Byte]
    BY SpacesHold
  <2>2. space.cap \in Nat /\ 8 * NextByte + 8 * Len(bytes) <= 8 * space.cap
    BY <1>1, <1>3, <2>1 DEF Fits
  <2>3. \A i \in p..(q - 1) : v[i] = Bit(bytes[(i - p) \div 8 + 1], i % 8)
    OBVIOUS
  <2>4. \A i \in p..(q - 1) : v[i] \in {0, 1}
    <3> TAKE i \in p..(q - 1)
    <3>1. (i - p) \div 8 + 1 \in 1..Len(bytes) /\ i % 8 \in 0..7
      BY <1>1, SMT
    <3>2. bytes[(i - p) \div 8 + 1] \in Nat
      BY <3>1, ByteIsNat
    <3>3. Bit(bytes[(i - p) \div 8 + 1], i % 8) \in {0, 1}
      BY <3>1, <3>2, BitIsBit
    <3> QED
      BY <2>3, <3>3
  <2>5. Recorded(space.used, p, q, v)
    BY <1>3
  <2> HIDE DEF v
  <2>6. Deposits(space.mem, space.cap,
                 Overwrite(space.mem, BytesFrom(NextByte, bytes)), p, q, v)
    <3>1. \A i \in (8 * NextByte)..(8 * NextByte + 8 * Len(bytes) - 1) :
            v[i] = Bit(bytes[(i - 8 * NextByte) \div 8 + 1], i % 8)
      <4>1. p = 8 * NextByte /\ 8 * NextByte + 8 * Len(bytes) - 1 = q - 1
        BY <1>1
      <4> QED
        BY <2>3, <4>1
    <3> QED
      BY <1>1, <2>1, <2>2, <3>1, BytesDeposit DEF p, q
  <2>7. p \in Nat /\ q \in Nat
    BY <1>1
  <2> HIDE DEF p, q
  <2>8. Deposits(space.mem, space.cap, m_ptr', p, q, v)
    BY <1>3, <2>6
  <2>9. 0 \in Nat
    OBVIOUS
  <2> QED
    BY <1>3, <2>4, <2>5, <2>7, <2>8, <2>9, DepositKeeps
<1>4. \/ Throws
      \/ \E space \in Spaces(0) :
           IF q > 8 * space.cap THEN Outside(operation)
           ELSE /\ Install(space)
                /\ m_ptr' = Overwrite(space.mem, BytesFrom(NextByte, bytes))
                /\ Recorded(space.used, p, q, v)
  BY DEF Store, Write, Record, Recorded, BytesFrom
<1> QED
  BY <1>2, <1>3, <1>4

LEMMA WriteStringKeeps ==
  ASSUME KeepsBits, StaysInside', NEW s \in Strings, NEW width \in {1, 2},
         NEW length, WriteString(s, width, length)
  PROVE  Contents'
<1> DEFINE bytes == Encoded(s, width)
           n     == width * (Len(s) + 1)
<1>1. Len(s) \in Nat /\ s \in Seq(1..255)
  BY DataAssumption
<1>2. n \in Nat
  BY <1>1
<1>3. \A k \in 1..n : bytes[k] \in Byte
  <2> TAKE k \in 1..n
  <2>1. bytes[k] =
          IF k <= width * Len(s) /\ (k % width = 1 % width)
          THEN s[(k - 1) \div width + 1]
          ELSE 0
    BY DEF Encoded
  <2>2. CASE k <= width * Len(s)
    <3>1. (k - 1) \div width + 1 \in 1..Len(s)
      <4>1. CASE width = 1
        BY <1>1, <2>2, <4>1, SMT
      <4>2. CASE width = 2
        BY <1>1, <2>2, <4>2, SMT
      <4> QED
        BY <4>1, <4>2
    <3>2. s[(k - 1) \div width + 1] \in 1..255
      <4> DEFINE S == 1..255
                 i == (k - 1) \div width + 1
      <4>1. s \in Seq(S) /\ i \in 1..Len(s)
        BY <1>1, <3>1
      <4> HIDE DEF S, i
      <4>2. s[i] \in S
        BY <4>1
      <4> QED
        BY <4>2 DEF S, i
    <3>3. \A x \in 1..255 : x \in Byte
      BY SMT DEF Byte
    <3>4. 0 \in Byte
      BY SMT DEF Byte
    <3> QED
      BY <2>1, <3>2, <3>3, <3>4, Zenon
  <2>3. CASE ~(k <= width * Len(s))
    <3>1. 0 \in Byte
      BY SMT DEF Byte
    <3> QED
      BY <2>1, <2>3, <3>1, Zenon
  <2> QED
    BY <2>2, <2>3
<1>4. bytes = [k \in 1..n |-> bytes[k]]
  BY DEF Encoded
<1> HIDE DEF bytes, n
<1>5. bytes \in Seq(Byte)
  BY <1>2, <1>3, <1>4
<1>6. Store("string", bytes,
            width * (IF length > Len(s) + 1 THEN length ELSE Len(s) + 1))
  BY DEF WriteString, bytes
<1> QED
  BY <1>5, <1>6, StoreKeeps

-------------------------------------------------------------------------------
(* The calls that read. *)

(* Two bytes of the stream around a position make one byte of a read. *)
PairByte(a, b, down) == (a \div 2^down + b * 2^(8 - down)) % 256

LEMMA PairHasBits ==
  ASSUME NEW a \in Byte, NEW b \in Byte, NEW down \in 1..7
  PROVE  /\ PairByte(a, b, down) \in Byte
         /\ \A j \in 0..7 : Bit(PairByte(a, b, down), j) =
                IF j + down < 8 THEN Bit(a, j + down) ELSE Bit(b, j + down - 8)
<1> DEFINE u == 8 - down
           x == a \div 2^down
           z == b * 2^u
           y == z % 256
<1>1. u \in 0..7 /\ u \in 0..8 /\ down \in 0..7
  BY SMT
<1>2. /\ x \in Byte
      /\ \A j \in 0..7 :
              Bit(x, j) = IF j + down < 8 THEN Bit(a, j + down) ELSE 0
  BY <1>1, BitsDown
<1>3. z \in Nat
  <2>1. 2^u \in Nat /\ b \in Nat
    BY <1>1, PowerIsNat, ByteIsNat
  <2> QED
    BY <2>1, ProductIsNat
<1>4. /\ y \in Byte
      /\ \A j \in 0..7 : Bit(y, j) = IF j < u THEN 0 ELSE Bit(b, j - u)
  BY <1>1, BitsUp
<1>5. \A j \in 0..7 : (j < u <=> j + down < 8) /\ j - u = j + down - 8
  BY SMT
<1>a. PairByte(a, b, down) = (x + z) % 256
  BY DEF PairByte
<1> HIDE DEF u, x, z
<1>6. (x + z) % 256 = (x + y) % 256
  BY <1>2, <1>3, ByteIsNat, SMT
<1> HIDE DEF y
<1>7. \A j \in 0..7 : Bit(x, j) = 0 \/ Bit(y, j) = 0
  BY <1>2, <1>4, <1>5
<1>8. /\ x + y \in Byte
      /\ \A j \in 0..7 :
              Bit(x + y, j) = IF Bit(x, j) = 0 THEN Bit(y, j) ELSE Bit(x, j)
  BY <1>2, <1>4, <1>7, BitsJoined
<1>9. (x + y) % 256 = x + y
  <2>1. \A w \in Byte : w % 256 = w
    BY SMT DEF Byte
  <2> QED
    BY <1>8, <2>1
<1>10. ASSUME NEW j \in 0..7
       PROVE  Bit(x + y, j) =
                IF j + down < 8 THEN Bit(a, j + down) ELSE Bit(b, j + down - 8)
  <2>1. CASE j + down < 8
    <3>1. Bit(x, j) = Bit(a, j + down) /\ Bit(y, j) = 0
      BY <1>2, <1>4, <1>5, <2>1
    <3> QED
      BY <1>8, <2>1, <3>1
  <2>2. CASE ~(j + down < 8)
    <3>1. Bit(x, j) = 0 /\ Bit(y, j) = Bit(b, j + down - 8)
      BY <1>2, <1>4, <1>5, <2>2
    <3> QED
      BY <1>8, <2>2, <3>1
  <2> QED
    BY <2>1, <2>2
<1> QED
  BY <1>a, <1>6, <1>8, <1>9, <1>10

(* The bits of the k-th byte readBits delivers are the bits of the stream. *)
LEMMA FetchedByte ==
  ASSUME NEW size \in Nat, m_ptr \in [0..(size - 1) -> Byte], NEW pos \in Nat,
         NEW count \in Nat, pos + count <= 8 * size,
         NEW k \in 1..((count + 7) \div 8)
  PROVE  /\ Fetched(pos, count)[k] \in Byte
         /\ \A j \in 0..7 :
                 8 * (k - 1) + j < count =>
                   Bit(Fetched(pos, count)[k], j) =
                     BitAt(pos + (8 * (k - 1) + j))
<1> DEFINE first == pos \div 8
           down == pos % 8
           alone == IF count % 8 \in 1..(8 - down)
                    THEN (count + 7) \div 8 ELSE 0
           i == first + k - 1
           byte == Fetched(pos, count)[k]
<1>1. pos = 8 * first + down /\ first \in Nat /\ down \in 0..7
  BY SMT
<1>2. /\ 8 * (k - 1) < count /\ k \in Nat /\ i \in 0..(size - 1)
      /\ first + k = i + 1
  BY SMT
<1>3. byte = IF down = 0 THEN m_ptr[i]
             ELSE IF k = alone THEN m_ptr[i] \div 2^down
             ELSE (m_ptr[i] \div 2^down + m_ptr[i + 1] * 2^(8 - down)) % 256
  BY <1>2 DEF Fetched
<1>4. k = alone => \A j \in 0..7 : 8 * (k - 1) + j < count => j + down < 8
  <2> SUFFICES ASSUME k = alone, NEW j \in 0..7, 8 * (k - 1) + j < count
               PROVE  j + down < 8
    OBVIOUS
  <2>1. count % 8 \in 1..(8 - down) /\ k = (count + 7) \div 8
    BY <1>2, SMT
  <2> DEFINE r == count % 8
             d == count \div 8
  <2>a. /\ count = 8 * d + r /\ d \in Nat /\ r \in 1..(8 - down)
        /\ k = (count + 7) \div 8
    BY <2>1, SMT
  <2> HIDE DEF r, d, down, first, i, byte
  <2>b. k = d + 1
    BY <1>1, <2>a, SMT
  <2>2. count = 8 * (k - 1) + r
    BY <2>a, <2>b, SMT
  <2> QED
    BY <1>1, <2>a, <2>2, SMT
<1>5. down # 0 /\ k # alone => i + 1 \in 0..(size - 1)
  <2> SUFFICES ASSUME down # 0, k # alone PROVE i + 1 \in 0..(size - 1)
    OBVIOUS
  <2>1. 8 * (k - 1) + (8 - down) <= count - 1
    <3>1. CASE k < (count + 7) \div 8
      BY <1>1, <3>1, SMT
    <3>2. CASE k = (count + 7) \div 8
      <4>1. ~(count % 8 \in 1..(8 - down))
        BY <3>2
      <4> QED
        BY <1>1, <1>2, <3>2, <4>1, SMT
    <3> QED
      BY <3>1, <3>2, SMT
  <2>2. pos + count - 1 < 8 * size
    BY SMT
  <2> HIDE DEF first, down, alone
  <2> QED
    BY <1>1, <1>2, <2>1, <2>2, SMT
<1>6. ASSUME NEW j \in 0..7
      PROVE  BitAt(pos + (8 * (k - 1) + j)) =
               IF j + down < 8
               THEN Bit(m_ptr[i], j + down)
               ELSE Bit(m_ptr[i + 1], j + down - 8)
  <2>1. CASE j + down < 8
    <3>1. /\ j + down \in 0..7 /\ pos + (8 * (k - 1) + j) = 8 * i + (j + down)
          /\ i \in Int
      BY <1>1, <1>2, <2>1, SMT
    <3>2. /\ (pos + (8 * (k - 1) + j)) \div 8 = i
          /\ (pos + (8 * (k - 1) + j)) % 8 = j + down
      BY <3>1, Places
    <3> QED
      BY <2>1, <3>2 DEF BitAt
  <2>2. CASE ~(j + down < 8)
    <3>1. /\ j + down - 8 \in 0..7
          /\ pos + (8 * (k - 1) + j) = 8 * (i + 1) + (j + down - 8)
          /\ i + 1 \in Int
      BY <1>1, <1>2, <2>2, SMT
    <3>2. /\ (pos + (8 * (k - 1) + j)) \div 8 = i + 1
          /\ (pos + (8 * (k - 1) + j)) % 8 = j + down - 8
      BY <3>1, Places
    <3> QED
      BY <2>2, <3>2 DEF BitAt
  <2> QED
    BY <2>1, <2>2
<1> HIDE DEF first, down, alone, i, byte
<1>7. m_ptr[i] \in Byte
  BY <1>2
<1>8. CASE down = 0
  <2>1. byte = m_ptr[i]
    BY <1>3, <1>8
  <2>2. \A j \in 0..7 : j + down < 8 /\ j + down = j
    BY <1>8, SMT
  <2> QED
    BY <1>6, <1>7, <2>1, <2>2 DEF byte
<1>9. CASE down # 0 /\ k = alone
  <2>1. byte = m_ptr[i] \div 2^down
    BY <1>3, <1>9
  <2>2. /\ byte \in Byte
        /\ \A j \in 0..7 :
                Bit(byte, j) =
                  IF j + down < 8 THEN Bit(m_ptr[i], j + down) ELSE 0
    BY <1>1, <1>7, <2>1, BitsDown
  <2>3. \A j \in 0..7 : 8 * (k - 1) + j < count => j + down < 8
    BY <1>4, <1>9
  <2> QED
    BY <1>6, <2>2, <2>3 DEF byte
<1>10. CASE down # 0 /\ k # alone
  <2>1. byte = (m_ptr[i] \div 2^down + m_ptr[i + 1] * 2^(8 - down)) % 256
    BY <1>3, <1>10
  <2>2. down \in 1..7 /\ m_ptr[i + 1] \in Byte
    BY <1>1, <1>5, <1>10
  <2>3. /\ byte \in Byte
        /\ \A j \in 0..7 :
                Bit(byte, j) =
                  IF j + down < 8
                  THEN Bit(m_ptr[i], j + down)
                  ELSE Bit(m_ptr[i + 1], j + down - 8)
    <3>1. byte = PairByte(m_ptr[i], m_ptr[i + 1], down)
      BY <2>1 DEF PairByte
    <3> QED
      BY <1>7, <2>2, <3>1, PairHasBits
  <2> QED
    BY <1>6, <2>3 DEF byte
<1> QED
  BY <1>8, <1>9, <1>10

(* A read that delivers the bits of the stream delivers what was written. *)
LEMMA ReadsKeeps ==
  ASSUME KeepsBits, StaysInside', NEW p \in Nat, NEW n \in Nat,
         NEW bytes \in Seq(Byte), NEW end, Reads(p, n, bytes, end),
         \A k \in 0..(n - 1) : Bit(bytes[k \div 8 + 1], k % 8) = BitAt(p + k)
  PROVE  Contents'
<1>1. /\ m_ptr \in [0..(m_capacity - 1) -> Byte]
      /\ DOMAIN written \subseteq Nat
      /\ \A i \in DOMAIN written : written[i] \in {0, 1}
      /\ counted \subseteq DOMAIN written /\ \A i \in counted : i < 8 * m_used
      /\ WrittenIsKept
  BY DEF KeepsBits, Contents, TypeOK
<1>2. UNCHANGED <<m_ptr, m_capacity, m_used, written, counted>>
  BY DEF Reads, bufferVars, historyVars
<1>3. got' \in [at : Nat, n : Nat, bytes : Seq(Byte)]
  BY DEF Reads
<1>4. TypeOK'
  BY <1>1, <1>2, <1>3 DEF TypeOK, StaysInside
<1>5. WrittenIsKept'
  BY <1>1, <1>2 DEF WrittenIsKept, BitAt
<1>6. ReadIsWritten'
  <2>1. got'.at = p /\ got'.n = n /\ got'.bytes = bytes
    BY DEF Reads
  <2>2. \A k \in 0..(n - 1) :
             p + k \in counted =>
               Bit(bytes[k \div 8 + 1], k % 8) = written[p + k]
    BY <1>1 DEF WrittenIsKept
  <2> QED
    BY <1>2, <2>1, <2>2 DEF ReadIsWritten
<1> QED
  BY <1>1, <1>2, <1>4, <1>5, <1>6 DEF Contents

LEMMA RestKeeps ==
  ASSUME KeepsBits, StaysInside', NEW operation, Outside(operation) \/ Refused
  PROVE  Contents'
BY QuietKeeps DEF Outside, Refused, bufferVars, historyVars

LEMMA ReadBitsKeeps ==
  ASSUME KeepsBits, StaysInside', NEW count \in Counts, ReadBits(count)
  PROVE  Contents'
<1> DEFINE bytes == Fetched(bitNum, count)
           n == (count + 7) \div 8
<1>1. /\ count \in Nat \ {0} /\ bitNum \in Nat /\ m_capacity \in Nat
      /\ m_ptr \in [0..(m_capacity - 1) -> Byte]
  BY SizesAssumption DEF KeepsBits, StaysInside, SizesOK, Contents, TypeOK
<1>2. CASE Refused \/ Outside("readBits")
  BY <1>2, RestKeeps
<1>3. CASE /\ ~(bitNum + count > 8 * m_capacity)
           /\ Reads(bitNum, count, bytes, bitNum + count)
  <2>1. bitNum + count <= 8 * m_capacity /\ n \in Nat
    BY <1>1, <1>3
  <2>2. \A k \in 1..n : /\ bytes[k] \in Byte
                        /\ \A j \in 0..7 :
                                8 * (k - 1) + j < count =>
                                  Bit(bytes[k], j) =
                                    BitAt(bitNum + (8 * (k - 1) + j))
    BY <1>1, <2>1, FetchedByte
  <2>3. bytes = [k \in 1..n |-> bytes[k]]
    BY DEF Fetched
  <2> HIDE DEF bytes, n
  <2>4. bytes \in Seq(Byte)
    BY <2>1, <2>2, <2>3
  <2>5. ASSUME NEW k \in 0..(count - 1)
        PROVE  Bit(bytes[k \div 8 + 1], k % 8) = BitAt(bitNum + k)
    <3> DEFINE b == k \div 8 + 1
               j == k % 8
    <3>1. b \in 1..n /\ j \in 0..7 /\ 8 * (b - 1) + j = k /\ k < count
      BY <1>1, SMT DEF n
    <3> HIDE DEF b, j
    <3>2. Bit(bytes[b], j) = BitAt(bitNum + k)
      BY <2>2, <3>1
    <3> QED
      BY <3>2 DEF b, j
  <2>6. count \in Nat
    BY <1>1
  <2> QED
    BY <1>1, <1>3, <2>4, <2>5, <2>6, ReadsKeeps
<1> QED
  BY <1>2, <1>3 DEF ReadBits

(* One bit: readFlag and testBit. *)
LEMMA ReadBitKeeps ==
  ASSUME KeepsBits, StaysInside', NEW p \in Nat, ~(p >= 8 * m_capacity),
         NEW end, Reads(p, 1, <<BitAt(p)>>, end)
  PROVE  Contents'
<1>1. m_capacity \in Nat /\ m_ptr \in [0..(m_capacity - 1) -> Byte]
  BY DEF KeepsBits, StaysInside, SizesOK, Contents, TypeOK
<1>2. p \div 8 \in 0..(m_capacity - 1) /\ p % 8 \in 0..7
  BY <1>1, SMT
<1>3. BitAt(p) \in {0, 1}
  BY <1>1, <1>2, ByteIsNat, BitIsBit DEF BitAt
<1>4. BitAt(p) \in Nat /\ BitAt(p) % 2 = BitAt(p) /\ BitAt(p) \in Byte
  BY <1>3, SMT DEF Byte
<1>5. Bit(BitAt(p), 0) = BitAt(p)
  BY <1>4, BitsAre
<1>6. \A k \in 0..(1 - 1) : k = 0 /\ k \div 8 + 1 = 1 /\ k % 8 = 0 /\ p + k = p
  BY SMT
<1> DEFINE bytes == <<BitAt(p)>>
<1>7. bytes \in Seq(Byte) /\ bytes[1] = BitAt(p)
  BY <1>4
<1> HIDE DEF bytes
<1>8. \A k \in 0..(1 - 1) : Bit(bytes[k \div 8 + 1], k % 8) = BitAt(p + k)
  BY <1>5, <1>6, <1>7, Zenon
<1>9. 1 \in Nat /\ Reads(p, 1, bytes, end)
  BY DEF bytes
<1> QED
  BY <1>7, <1>8, <1>9, ReadsKeeps

LEMMA ReadFlagKeeps ==
  ASSUME KeepsBits, StaysInside', ReadFlag \/ \E p \in Positions : TestBit(p)
  PROVE  Contents'
<1>1. bitNum \in Nat
  BY DEF KeepsBits, StaysInside, SizesOK
<1>2. CASE ReadFlag
  BY <1>1, <1>2, RestKeeps, ReadBitKeeps DEF ReadFlag
<1>3. ASSUME NEW p \in Positions, TestBit(p) PROVE Contents'
  <2>1. p \in Nat
    BY SizesAssumption
  <2> QED
    BY <1>3, <2>1, RestKeeps, ReadBitKeeps DEF TestBit
<1> QED
  BY <1>2, <1>3

LEMMA ReadTypedKeeps ==
  ASSUME KeepsBits, StaysInside', NEW n \in Nat, ReadTyped(n)
  PROVE  Contents'
<1> DEFINE bytes == [k \in 1..n |-> m_ptr[NextByte + k - 1]]
           p == 8 * NextByte
<1>1. /\ NextByte \in Nat /\ m_capacity \in Nat
      /\ m_ptr \in [0..(m_capacity - 1) -> Byte]
  BY DEF KeepsBits, StaysInside, SizesOK, NextByte, Contents, TypeOK
<1>2. CASE Outside("typed")
  BY <1>2, RestKeeps
<1>3. CASE /\ ~(NextByte + n > m_capacity)
           /\ Reads(p, 8 * n, bytes, 8 * (NextByte + n))
  <2>1. \A k \in 1..n : NextByte + k - 1 \in 0..(m_capacity - 1)
    BY <1>1, <1>3, SMT
  <2>2. bytes \in Seq(Byte)
    BY <1>1, <2>1
  <2>3. ASSUME NEW k \in 0..(8 * n - 1)
        PROVE  Bit(bytes[k \div 8 + 1], k % 8) = BitAt(p + k)
    <3>1. /\ k \div 8 + 1 \in 1..n
          /\ NextByte + (k \div 8 + 1) - 1 = NextByte + k \div 8
      BY <1>1, SMT
    <3>2. (p + k) \div 8 = NextByte + k \div 8 /\ (p + k) % 8 = k % 8
      BY <1>1, SMT
    <3>3. bytes[k \div 8 + 1] = m_ptr[NextByte + k \div 8]
      BY <3>1
    <3> QED
      BY <3>2, <3>3 DEF BitAt
  <2>4. p \in Nat /\ 8 * n \in Nat
    BY <1>1
  <2> HIDE DEF p, bytes
  <2> QED
    BY <1>3, <2>2, <2>3, <2>4, ReadsKeeps
<1> QED
  BY <1>2, <1>3 DEF ReadTyped

LEMMA ReadStringKeeps ==
  ASSUME KeepsBits, StaysInside', NEW width, NEW length,
         ReadString(width, length)
  PROVE  Contents'
<1> DEFINE end == 8 * (NextByte + width * (IF length > 0 THEN length
                                           ELSE First(Zeros(width)) + 1))
<1>1. Outside("string") \/ Reads(bitNum, 0, <<>>, end)
  BY DEF ReadString
<1>2. bitNum \in Nat
  BY DEF KeepsBits, StaysInside, SizesOK
<1> HIDE DEF end
<1>3. <<>> \in Seq(Byte) /\ 0 \in Nat
  OBVIOUS
<1>4. 0..(0 - 1) = {}
  BY SMT
<1> QED
  BY <1>1, <1>2, <1>3, <1>4, RestKeeps, ReadsKeeps

-------------------------------------------------------------------------------
(* Init, and every call. *)

LEMMA ResetKeeps ==
  ASSUME KeepsBits, StaysInside', Reset
  PROVE  Contents'
<1>1. /\ m_ptr \in [0..(m_capacity - 1) -> Byte]
      /\ DOMAIN written \subseteq Nat
      /\ \A i \in DOMAIN written : written[i] \in {0, 1}
  BY DEF KeepsBits, Contents, TypeOK
<1>2. 0 \in Byte
  BY SMT DEF Byte
<1>3. m_ptr' \in [0..(m_capacity - 1) -> Byte]
  BY <1>1, <1>2 DEF Reset, Cleared
<1>4. NothingRead \in [at : Nat, n : Nat, bytes : Seq(Byte)]
  <2>1. <<>> \in Seq(Byte)
    OBVIOUS
  <2> QED
    BY <2>1 DEF NothingRead
<1>5. /\ DOMAIN written' \subseteq Nat
      /\ \A i \in DOMAIN written' : written'[i] \in {0, 1}
  BY <1>1 DEF Reset
<1>6. counted' = {} /\ got' = NothingRead /\ m_capacity' = m_capacity
  BY DEF Reset
<1>7. TypeOK'
  BY <1>3, <1>4, <1>5, <1>6 DEF TypeOK, StaysInside
<1>8. ReadIsWritten'
  BY <1>6 DEF ReadIsWritten
<1>9. WrittenIsKept'
  BY <1>6 DEF WrittenIsKept
<1> QED
  BY <1>6, <1>7, <1>8, <1>9 DEF Contents

LEMMA StartsKept == Init => KeepsBits
<1> SUFFICES ASSUME Init PROVE KeepsBits
  OBVIOUS
<1>1. StaysInside
  BY StartsInside
<1>2. counted = {} /\ written = <<>> /\ got = NothingRead
  BY DEF Init
<1>3. m_ptr \in [0..(m_capacity - 1) -> Byte]
  <2>1. PICK fill \in Fills :
          m_ptr = Cleared([i \in 0..(m_capacity - 1) |-> fill], m_used)
    BY DEF Init
  <2>2. fill \in Byte
    BY DataAssumption
  <2>3. 0 \in Byte
    BY SMT DEF Byte
  <2> QED
    BY <2>1, <2>2, <2>3 DEF Cleared
<1>4. NothingRead \in [at : Nat, n : Nat, bytes : Seq(Byte)]
  <2>1. <<>> \in Seq(Byte)
    OBVIOUS
  <2> QED
    BY <2>1 DEF NothingRead
<1>5. DOMAIN written = {}
  BY <1>2
<1>6. TypeOK
  BY <1>1, <1>2, <1>3, <1>4, <1>5 DEF TypeOK, StaysInside
<1> QED
  BY <1>1, <1>2, <1>6 DEF KeepsBits, Contents, WrittenIsKept, ReadIsWritten

LEMMA CallsKeep == KeepsBits /\ [Next]_vars => KeepsBits'
<1> SUFFICES ASSUME KeepsBits, [Next]_vars PROVE KeepsBits'
  OBVIOUS
<1>1. StaysInside'
  BY CallsStayInside DEF KeepsBits
<1> SUFFICES Contents'
  BY <1>1 DEF KeepsBits
<1>2. CASE UNCHANGED vars
  BY <1>1, <1>2, QuietKeeps DEF vars, bufferVars, historyVars
<1>3. CASE \E n \in Counts :
                ReadBits(n) \/ (\E s \in Sources : WriteBits(n, s))
  BY <1>1, <1>3, ReadBitsKeeps, WriteBitsKeeps
<1>4. CASE \/ ReadFlag
           \/ \E p \in Positions : TestBit(p) \/ \E v \in {0, 1} : SetBit(p, v)
  BY <1>1, <1>4, ReadFlagKeeps, SetBitKeeps
<1>5. CASE \E v \in {0, 1} : WriteFlag(v)
  BY <1>1, <1>5, WriteFlagKeeps
<1>6. ASSUME NEW v \in TypedValues, WriteTyped(v) \/ ReadTyped(Len(v))
      PROVE  Contents'
  <2>1. Len(v) \in Nat /\ v \in Seq(Byte)
    BY DataAssumption
  <2> QED
    BY <1>1, <1>6, <2>1, StoreKeeps, ReadTypedKeeps DEF WriteTyped
<1>7. CASE \E width \in {1, 2}, length \in Lengths :
             ReadString(width, length) \/
               \E s \in Strings : WriteString(s, width, length)
  BY <1>1, <1>7, ReadStringKeeps, WriteStringKeeps
<1>8. CASE \/ \E p \in Positions : Seek(p)
           \/ \E read, write \in Positions : SetMaxSizes(read, write)
           \/ ClearError
  BY <1>1, <1>8, QuietKeeps
    DEF Seek, SetMaxSizes, ClearError, bufferVars, historyVars
<1>9. CASE Reset
  BY <1>1, <1>9, ResetKeeps
<1> QED
  BY <1>2, <1>3, <1>4, <1>5, <1>6, <1>7, <1>8, <1>9 DEF Next

(* The stream stays inside its memory, the history says what the memory    *)
(* holds, and no bit that counts lies beyond the bytes in use.             *)
THEOREM StreamKeepsBits == Spec => []KeepsBits
BY StartsKept, CallsKeep, PTL DEF Spec

(* A bit that was written and is inside the bytes in use is what the       *)
(* stream's memory holds, whatever was written, grown, moved or read since *)
(* (BitStream.cpp: writeBits, setBit, writeFlag, resizeBits).              *)
THEOREM BitsAreKept == Spec => []WrittenIsKept
<1>1. KeepsBits => WrittenIsKept
  BY DEF KeepsBits, Contents
<1>2. QED
  BY <1>1, StreamKeepsBits, PTL

(* A read delivers, at every bit that counts, what was written there       *)
(* (BitStream.cpp: readBits, readFlag, testBit; BitStream.h: the typed     *)
(* reads).                                                                 *)
THEOREM ReadsAreWritten == Spec => []ReadIsWritten
<1>1. KeepsBits => ReadIsWritten
  BY DEF KeepsBits, Contents
<1>2. QED
  BY <1>1, StreamKeepsBits, PTL

(* The memory holds bytes, the history bits, and no bit counts that was    *)
(* never written.                                                          *)
THEOREM TypesAreRight == Spec => []TypeOK
<1>1. KeepsBits => TypeOK
  BY DEF KeepsBits, Contents
<1>2. QED
  BY <1>1, StreamKeepsBits, PTL
===============================================================================
