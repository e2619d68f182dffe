------------------------------- MODULE BitStream -------------------------------
(***************************************************************************)
(* The bit stream of Classes/Foundation/BitStream, with the part of Buffer *)
(* it is built on: one block of memory, owned or foreign, a position and   *)
(* two limits, all in bits.                                                *)
(*                                                                         *)
(* A program may make any of the calls in any order, and set the limits    *)
(* anywhere: the code never compares them with the memory.  Bytes are      *)
(* numbers below 256 and are shifted and masked as the code does.  What    *)
(* new memory holds is one of Fills.  An access outside the memory sets    *)
(* fault to the operation that made it, and the program has no meaning     *)
(* from there.                                                             *)
(*                                                                         *)
(* Sizes stay far below 2^32 bits: the wrap-around of the sums is left out.*)
(***************************************************************************)
EXTENDS Integers, Sequences

CONSTANTS
  ResizePad,    \* bytes a growing stream takes beyond its need
  Capacities,   \* arguments of the constructor that allocates
  Foreign,      \* sizes of foreign memory given to the other constructors
  WriteSizes,   \* arguments maxWriteSize of the last one
  Fills,        \* bytes that uninitialised memory may hold
  Sources,      \* memory the program writes bits from
  Counts,       \* numbers of bits it writes and reads
  TypedValues,  \* the bytes of the values it writes whole
  Strings,      \* strings it writes, as sequences of characters
  Lengths,      \* the lengths it forces strings to, 0 for none
  Positions,    \* where it moves to, tests and sets bits, and puts limits
  MaxBytes,     \* bound: memory a stream can get
  MaxCalls      \* bound: calls

Byte == 0..255

ASSUME SizesAssumption ==
  /\ ResizePad \in Nat /\ MaxBytes \in Nat /\ MaxCalls \in Nat
  /\ Capacities \subseteq Nat /\ Foreign \subseteq Nat /\ WriteSizes \subseteq Nat
  /\ Counts \subseteq Nat \ {0} /\ Positions \subseteq Nat /\ Lengths \subseteq Nat
ASSUME DataAssumption ==
  /\ Fills \subseteq Byte /\ Sources \subseteq Seq(Byte)
  /\ TypedValues \subseteq Seq(Byte) /\ Strings \subseteq Seq(1..255)

VARIABLES
  m_ownMem, m_capacity, m_used,
  m_ptr,            \* the memory: a function of the byte's index
  bitNum, error, maxReadBitNum, maxWriteBitNum,
  got,              \* what the last call has read, if it has read
  overstated,       \* history: limits the program itself put beyond the memory
  written,          \* history: the last value written of each bit
  counted,          \* history: bits written inside size(), and inside since
  fault,            \* the operation that left the memory, or "none"
  calls

bufferVars  == <<m_ownMem, m_capacity, m_used, m_ptr>>
limitVars   == <<maxReadBitNum, maxWriteBitNum, overstated>>
historyVars == <<written, counted>>
vars == <<bufferVars, bitNum, error, limitVars, got, historyVars, fault, calls>>

Faults == {"none", "writeBits", "readBits", "writeFlag", "readFlag", "testBit",
           "typed", "string"}
NothingRead == [at |-> 0, n |-> 0, bytes |-> <<>>]

SizesOK ==
  /\ m_ownMem \in BOOLEAN /\ m_capacity \in Nat /\ m_used \in Nat
  /\ bitNum \in Nat /\ maxReadBitNum \in Nat /\ maxWriteBitNum \in Nat
  /\ error \in BOOLEAN /\ fault \in Faults /\ calls \in 0..MaxCalls
  /\ overstated \subseteq {"read", "write"}

TypeOK ==
  /\ SizesOK
  /\ m_ptr \in [0..(m_capacity - 1) -> Byte]
  /\ got \in [at : Nat, n : Nat, bytes : Seq(Byte)]
  /\ DOMAIN written \subseteq Nat /\ \A p \in DOMAIN written : written[p] \in {0, 1}
  /\ counted \subseteq DOMAIN written

-------------------------------------------------------------------------------
(* Bits and bytes. *)

Bit(x, i) == (x \div 2^i) % 2
BitAt(p) == Bit(m_ptr[p \div 8], p % 8)
Field(x, lo, hi) == ((x % 2^hi) \div 2^lo) * 2^lo

(* (old & ~mask) | (new & mask), the mask being the bits from lo below hi. *)
Blend(old, new, lo, hi) == old - Field(old, lo, hi) + Field(new, lo, hi)

(* The bytes that writeBits changes, in its three cases: all bits in one   *)
(* byte, a position on a byte boundary, and bytes shifted over two.        *)
InOneByte(mem, pos, count, s) ==
  LET up == pos % 8 IN
    [i \in {pos \div 8} |-> Blend(mem[i], s[1] * 2^up, up, up + count)]

Aligned(mem, pos, count, s) ==
  LET first == pos \div 8
      n     == count \div 8
  IN [i \in first..((pos + count - 1) \div 8) |->
        IF i < first + n THEN s[i - first + 1]
        ELSE Blend(mem[i], s[n + 1], 0, count % 8)]

Shifted(mem, pos, count, s) ==
  LET up       == pos % 8
      down     == 8 - up
      first    == pos \div 8
      n        == count \div 8
      rest     == count % 8
      last     == ((pos + count - 1) % 8) + 1
      carry(k) == IF k = 0 THEN mem[first] % 2^up ELSE s[k] \div 2^down
      whole(k) == carry(k) + ((s[k + 1] * 2^up) % 256)
      byte(k)  ==
        IF k < n \/ (k = n /\ rest > down) THEN whole(k)
        ELSE IF k = n /\ rest > 0 THEN Blend(mem[first + k], whole(k), 0, last)
        ELSE Blend(mem[first + k], carry(k), 0, last)
  IN [i \in first..((pos + count - 1) \div 8) |-> byte(i - first)]

Copied(mem, pos, count, s) ==
  IF count <= 8 - (pos % 8) THEN InOneByte(mem, pos, count, s)
  ELSE IF pos % 8 = 0 THEN Aligned(mem, pos, count, s)
  ELSE Shifted(mem, pos, count, s)

(* Mutant: the last byte is taken to need only one byte of the stream. *)
FetchedAlone(pos, count) ==
  [k \in 1..((count + 7) \div 8) |->
     IF k = (count + 7) \div 8 THEN m_ptr[(pos \div 8) + k - 1] \div 2^(pos % 8)
     ELSE (m_ptr[(pos \div 8) + k - 1] \div 2^(pos % 8)
           + m_ptr[(pos \div 8) + k] * 2^(8 - (pos % 8))) % 256]

(* The bytes that readBits delivers; the bits of the last one beyond count *)
(* are whatever follows in the stream.                                     *)
Fetched(pos, count) ==
  LET down  == pos % 8
      first == pos \div 8
      alone == IF count % 8 \in 1..(8 - down) THEN (count + 7) \div 8 ELSE 0
  IN [k \in 1..((count + 7) \div 8) |->
        IF down = 0 THEN m_ptr[first + k - 1]
        ELSE IF k = alone THEN m_ptr[first + k - 1] \div 2^down
        ELSE (m_ptr[first + k - 1] \div 2^down + m_ptr[first + k] * 2^(8 - down)) % 256]

-------------------------------------------------------------------------------
(* Memory. *)

Space == [cap |-> m_capacity, used |-> m_used, mem |-> m_ptr,
          read |-> maxReadBitNum, write |-> maxWriteBitNum, over |-> overstated]

(* Mutant: the old memory is not copied. *)
ResizedEmpty(size, fill) ==
  IF size > m_capacity THEN [i \in 0..(size - 1) |-> fill] ELSE m_ptr

(* Buffer::resize: content is kept as far as it is in use.                 *)
Resized(size, fill) ==
  IF size > m_capacity
  THEN [i \in 0..(size - 1) |-> IF i < m_used THEN m_ptr[i] ELSE fill]
  ELSE m_ptr

NewSize(newBits) == (maxWriteBitNum + newBits + 7) \div 8 + ResizePad

(* BitStream::resizeBits: both limits are set to the new size. *)
ResizeBits(newBits) ==
  LET size == NewSize(newBits) IN
    {[cap |-> IF size > m_capacity THEN size ELSE m_capacity, used |-> size,
      mem |-> Resized(size, fill), read |-> 8 * size, write |-> 8 * size,
      over |-> {}] : fill \in Fills}

Overwrite(mem, new) ==
  [i \in DOMAIN mem |-> IF i \in DOMAIN new THEN new[i] ELSE mem[i]]

(* Bits from p below q are written, with the values value(i). *)
Record(used, p, q, value(_)) ==
  /\ written' = [i \in DOMAIN written \cup (p..(q - 1)) |->
                   IF i \in p..(q - 1) THEN value(i) ELSE written[i]]
  /\ counted' = {i \in counted \cup (p..(q - 1)) : i < 8 * used}

Call == fault = "none" /\ calls < MaxCalls /\ calls' = calls + 1

Outside(operation) ==
  /\ fault' = operation
  /\ UNCHANGED <<bufferVars, bitNum, error, limitVars, got, historyVars>>

(* Foreign memory cannot be resized: an exception leaves the stream as is. *)
Throws == UNCHANGED <<bufferVars, bitNum, error, limitVars, got, historyVars, fault>>

Install(space) ==
  /\ m_capacity' = space.cap /\ m_used' = space.used
  /\ maxReadBitNum' = space.read /\ maxWriteBitNum' = space.write
  /\ overstated' = space.over
  /\ got' = NothingRead
  /\ UNCHANGED <<m_ownMem, error, fault>>

(* The memory a call can have when it asks for more bits than the limit.   *)
Spaces(newBits) ==
  IF newBits = 0 THEN {Space}
  ELSE IF m_ownMem /\ NewSize(newBits) <= MaxBytes THEN ResizeBits(newBits)
  ELSE {}

(* Bits from p below q are written, after growing by newBits if that is    *)
(* not 0; new(mem) are the bytes that change and end the new position.     *)
Write(operation, newBits, p, q, new(_), value(_), end) ==
  \/ newBits > 0 /\ ~m_ownMem /\ Throws
  \/ \E space \in Spaces(newBits) :
       IF q > 8 * space.cap THEN Outside(operation)
       ELSE /\ Install(space)
            /\ m_ptr' = Overwrite(space.mem, new(space.mem))
            /\ bitNum' = end
            /\ Record(space.used, p, q, value)

(* One bit of a byte is set or cleared. *)
WithBit(mem, p, v) ==
  [i \in {p \div 8} |-> Blend(mem[i], v * 2^(p % 8), p % 8, (p % 8) + 1)]

-------------------------------------------------------------------------------
(* Operations. *)

WriteBits(count, s) ==
  LET newBits  == IF count + bitNum > maxWriteBitNum
                  THEN count + bitNum - maxWriteBitNum ELSE 0
      new(mem) == Copied(mem, bitNum, count, s)
      value(p) == Bit(s[(p - bitNum) \div 8 + 1], (p - bitNum) % 8)
  IN Call /\ count <= 8 * Len(s)
     /\ Write("writeBits", newBits, bitNum, bitNum + count, new, value, bitNum + count)

SetBit(p, v) ==
  LET newBits  == IF p >= maxWriteBitNum THEN p - maxWriteBitNum + 1 ELSE 0
      new(mem) == WithBit(mem, p, v)
      value(i) == v
  IN Call /\ Write("writeBits", newBits, p, p + 1, new, value, bitNum)

(* Asks for one bit however far the position is beyond the limit. *)
WriteFlag(v) ==
  LET newBits  == IF bitNum + 1 > maxWriteBitNum THEN 1 ELSE 0
      new(mem) == WithBit(mem, bitNum, v)
      value(i) == v
  IN Call /\ Write("writeFlag", newBits, bitNum, bitNum + 1, new, value, bitNum + 1)

(* write_T and the functions that call it: whole bytes from the next byte  *)
(* on, wherever that is; bytes is what is stored and length how far the    *)
(* position moves.                                                         *)
NextByte == (bitNum + 7) \div 8
Store(operation, bytes, length) ==
  LET p        == 8 * NextByte
      new(mem) == [i \in NextByte..(NextByte + Len(bytes) - 1) |-> bytes[i - NextByte + 1]]
      value(i) == Bit(bytes[(i - p) \div 8 + 1], i % 8)
  IN Call /\ Write(operation, 0, p, p + 8 * Len(bytes), new, value, p + 8 * length)

WriteTyped(v) == Store("typed", v, Len(v))

(* writeString and writeWString: the characters, with as many bytes each   *)
(* as width says, a zero, and the position moved on to the forced length.  *)
Encoded(string, width) ==
  [k \in 1..(width * (Len(string) + 1)) |->
     IF k <= width * Len(string) /\ (k % width = 1 % width)
     THEN string[(k - 1) \div width + 1] ELSE 0]
WriteString(string, width, length) ==
  Store("string", Encoded(string, width),
        width * (IF length > Len(string) + 1 THEN length ELSE Len(string) + 1))

-------------------------------------------------------------------------------
(* Reading and moving. *)

Reads(p, n, bytes, end) ==
  /\ got' = [at |-> p, n |-> n, bytes |-> bytes]
  /\ bitNum' = end
  /\ UNCHANGED <<bufferVars, error, limitVars, historyVars, fault>>

Refused ==
  /\ error' = TRUE
  /\ got' = NothingRead
  /\ UNCHANGED <<bufferVars, bitNum, limitVars, historyVars, fault>>

(* Mutant: the limit is not tested. *)
ReadBitsUnchecked(count) ==
  /\ Call
  /\ IF bitNum + count > 8 * m_capacity THEN Outside("readBits")
     ELSE Reads(bitNum, count, Fetched(bitNum, count), bitNum + count)

ReadBits(count) ==
  /\ Call
  /\ IF count + bitNum > maxReadBitNum THEN Refused
     ELSE IF bitNum + count > 8 * m_capacity THEN Outside("readBits")
     ELSE Reads(bitNum, count, Fetched(bitNum, count), bitNum + count)

(* Tests with > where the bit at the limit is already outside.             *)
ReadFlag ==
  /\ Call
  /\ IF bitNum > maxReadBitNum THEN Refused
     ELSE IF bitNum >= 8 * m_capacity THEN Outside("readFlag")
     ELSE Reads(bitNum, 1, <<BitAt(bitNum)>>, bitNum + 1)

TestBit(p) ==
  /\ Call
  /\ IF p >= 8 * m_capacity THEN Outside("testBit")
     ELSE Reads(p, 1, <<BitAt(p)>>, bitNum)

ReadTyped(n) ==
  /\ Call
  /\ IF NextByte + n > m_capacity THEN Outside("typed")
     ELSE Reads(8 * NextByte, 8 * n, [k \in 1..n |-> m_ptr[NextByte + k - 1]],
                8 * (NextByte + n))

(* readString and readWString: without a length, up to the first zero.     *)
Zeros(width) ==
  {k \in 0..(m_capacity \div width) :
     /\ NextByte + width * (k + 1) <= m_capacity
     /\ \A j \in 0..(width - 1) : m_ptr[NextByte + width * k + j] = 0}
First(S) == CHOOSE k \in S : \A j \in S : k <= j
ReadString(width, length) ==
  LET n == IF length > 0 THEN length ELSE First(Zeros(width)) + 1 IN
    /\ Call
    /\ IF \/ length = 0 /\ Zeros(width) = {}
          \/ length > 0 /\ width > 1 /\ NextByte + width * length > m_capacity
       THEN Outside("string")
       ELSE Reads(bitNum, 0, <<>>, 8 * (NextByte + width * n))

(* setBitPosition, setBytePosition, advanceBitPosition *)
Seek(p) ==
  /\ Call /\ bitNum' = p /\ got' = NothingRead
  /\ UNCHANGED <<bufferVars, error, limitVars, historyVars, fault>>

(* The limits that are more than n bytes hold. *)
Beyond(read, write, n) ==
  {limit \in {"read", "write"} : 8 * n < IF limit = "read" THEN read ELSE write}

(* setMaxBitSizes and setMaxSizes, which check nothing. *)
SetMaxSizes(read, write) ==
  /\ Call
  /\ maxReadBitNum' = read /\ maxWriteBitNum' = write /\ got' = NothingRead
  /\ overstated' = Beyond(read, write, m_capacity)
  /\ UNCHANGED <<bufferVars, bitNum, error, historyVars, fault>>

(* Clears the content as well. *)
Cleared(mem, used) == [i \in DOMAIN mem |-> IF i < used THEN 0 ELSE mem[i]]
Reset ==
  /\ Call
  /\ bitNum' = 0 /\ error' = FALSE /\ got' = NothingRead
  /\ m_ptr' = Cleared(m_ptr, m_used)
  /\ written' = [p \in {q \in DOMAIN written : q >= 8 * m_used} |-> written[p]]
  /\ counted' = {}
  /\ UNCHANGED <<m_ownMem, m_capacity, m_used, limitVars, fault>>

ClearError ==
  /\ Call /\ error' = FALSE /\ got' = NothingRead
  /\ UNCHANGED <<bufferVars, bitNum, limitVars, historyVars, fault>>

-------------------------------------------------------------------------------
(* The constructors; each ends with reset().  Those for foreign memory take*)
(* its size as the writing limit, or any size they are given.              *)
InitOwned(n) ==
  /\ m_ownMem = TRUE /\ m_capacity = n /\ m_used = 0
  /\ maxReadBitNum = 0 /\ maxWriteBitNum = 0 /\ overstated = {}
InitForeign(n) ==
  /\ m_ownMem = FALSE /\ m_capacity = n /\ m_used = n
  /\ maxReadBitNum = 8 * n
  /\ \E most \in {n} \cup WriteSizes : maxWriteBitNum = 8 * most
  /\ overstated = Beyond(maxReadBitNum, maxWriteBitNum, n)

Init ==
  /\ (\E n \in Capacities : InitOwned(n)) \/ (\E n \in Foreign : InitForeign(n))
  /\ \E fill \in Fills :
       m_ptr = Cleared([i \in 0..(m_capacity - 1) |-> fill], m_used)
  /\ bitNum = 0 /\ error = FALSE /\ got = NothingRead
  /\ written = <<>> /\ counted = {} /\ fault = "none" /\ calls = 0

Next ==
  \/ \E n \in Counts : ReadBits(n) \/ (\E s \in Sources : WriteBits(n, s))
  \/ \E p \in Positions : Seek(p) \/ TestBit(p) \/ \E v \in {0, 1} : SetBit(p, v)
  \/ \E v \in {0, 1} : WriteFlag(v)
  \/ \E v \in TypedValues : WriteTyped(v) \/ ReadTyped(Len(v))
  \/ \E width \in {1, 2}, length \in Lengths :
       ReadString(width, length) \/ \E s \in Strings : WriteString(s, width, length)
  \/ \E read, write \in Positions : SetMaxSizes(read, write)
  \/ ReadFlag \/ Reset \/ ClearError

Spec == Init /\ [][Next]_vars

-------------------------------------------------------------------------------
(* Properties. *)

(* A limit lies beyond the memory only where the program itself has put it *)
(* there, in the constructor or in setMaxSizes (BitStream.h:93,            *)
(* BitStream.cpp:21-31), and the stream has not grown since: whatever      *)
(* resizeBits computes from either limit (BitStream.cpp:46-53) is inside.  *)
LimitsInside ==
  /\ maxReadBitNum <= 8 * m_capacity \/ "read" \in overstated
  /\ maxWriteBitNum <= 8 * m_capacity \/ "write" \in overstated
  /\ m_used <= m_capacity

(* readBits, writeBits and setBit leave the memory only under a limit that *)
(* the program itself put beyond it: at any position and after any sequence*)
(* of calls, the stream's own growth and tests keep them inside            *)
(* (BitStream.cpp:46-182).                                                 *)
BitsStayInside ==
  /\ fault = "readBits" => "read" \in overstated
  /\ fault = "writeBits" => "write" \in overstated

(* A bit written inside size() keeps its value until it is written again   *)
(* or size() leaves it outside: neither the masks and shifts of writes     *)
(* beside it nor growth change it (BitStream.cpp:46-123, 172-200).  A value*)
(* written whole (BitStream.h:145-153) does not extend size(), and what it *)
(* leaves outside is lost when the stream grows (Buffer.h:118).            *)
WrittenIsKept == \A p \in counted : BitAt(p) = written[p]

(* What a read delivers are the bits last written where it reads, at any   *)
(* alignment (BitStream.cpp:125-170).                                      *)
ReadIsWritten ==
  \A k \in 0..(got.n - 1) :
    got.at + k \in counted =>
      Bit(got.bytes[k \div 8 + 1], k % 8) = written[got.at + k]
===============================================================================
