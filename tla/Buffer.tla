--------------------------------- MODULE Buffer ---------------------------------
(***************************************************************************)
(* The buffers of Classes/Foundation/Buffer.h and the memory they allocate,*)
(* wrap, exchange and delete.                                              *)
(*                                                                         *)
(* A program may make any of the calls in any order, on any of its buffers.*)
(* A block that has been deleted is never allocated again, so that using   *)
(* one shows.  What delete[] and memcpy must not be asked to do sets fault *)
(* to the operation that asks it; the program has no meaning from there.   *)
(***************************************************************************)
EXTENDS Integers, Sequences

CONSTANTS
  Buffers,      \* the variables of the program that can hold a buffer
  Blocks,       \* bound: the blocks that new[] can return
  ForeignBlock, \* memory of the program that buffers wrap
  Elements, Zero,
  Junk,         \* an element nothing was written to
  Sizes,        \* capacities and sizes the program asks for
  Sources,      \* what it assigns and appends
  MaxCalls      \* bound: calls

ASSUME MemoryAssumption ==
  /\ ForeignBlock \notin Blocks
  /\ Zero \in Elements /\ Junk \notin Elements
  /\ Sizes \subseteq Nat /\ Sources \subseteq Seq(Elements) /\ MaxCalls \in Nat

VARIABLES
  buffer,   \* of each variable, its buffer: m_capacity, m_used, m_ptr, m_ownMem
  heap,     \* of each block, whether it is unused, live or deleted
  memory,   \* of each block, its elements
  value,    \* history: of each variable, the elements it should have of its own
  mixed,    \* history: a buffer that owns and one that wraps were swapped
  fault,    \* the operation without a meaning, or "none"
  calls

historyVars == <<value, mixed>>
vars == <<buffer, heap, memory, historyVars, fault, calls>>

Nothing == [own |-> FALSE, capacity |-> 0, used |-> 0, ptr |-> "none"]
Memory  == Blocks \cup {ForeignBlock}
Objects == [own : BOOLEAN, capacity : Nat, used : Nat, ptr : Memory]
Contents == Seq(Elements \cup {Junk})
Live == {b \in Buffers : buffer[b] # Nothing}

OwnersOK ==
  /\ buffer \in [Buffers -> Objects \cup {Nothing}]
  /\ heap \in [Blocks -> {"unused", "live", "deleted"}]
  /\ mixed \in BOOLEAN
  /\ fault \in {"none", "delete", "append", "assign"}

TypeOK ==
  /\ OwnersOK
  /\ memory \in [Memory -> Contents] /\ value \in [Buffers -> Contents]
  /\ calls \in 0..MaxCalls

-------------------------------------------------------------------------------
Call == fault = "none" /\ calls < MaxCalls /\ calls' = calls + 1

Junks(n) == [i \in 1..n |-> Junk]
Prefix(s, n) == SubSeq(s, 1, n)
Least(m, n) == IF m < n THEN m ELSE n

(* A block of n elements that begins with those of s. *)
Holding(s, n) == [i \in 1..n |-> IF i <= Len(s) THEN s[i] ELSE Junk]
Owning(p, capacity, used) ==
  [own |-> TRUE, capacity |-> capacity, used |-> used, ptr |-> p]
Content(b) == Prefix(memory[buffer[b].ptr], buffer[b].used)

(* What a copy of b should have; wrapped memory changes under the wrapper. *)
Known(b) == IF buffer[b].ptr = ForeignBlock THEN Content(b) ELSE value[b]

Unused == {p \in Blocks : heap[p] = "unused"}

(* What delete[] is given must be live and come from new[]. *)
MayDelete(p) == p \in Blocks /\ heap[p] = "live"
Fails(operation) ==
  fault' = operation /\ UNCHANGED <<buffer, heap, memory, historyVars>>

-------------------------------------------------------------------------------
(* Constructors and the destructor. *)

Create(b, n) ==
  /\ Call /\ b \notin Live
  /\ \E p \in Unused :
       /\ heap' = [heap EXCEPT ![p] = "live"]
       /\ memory' = [memory EXCEPT ![p] = Junks(n)]
       /\ buffer' = [buffer EXCEPT ![b] = Owning(p, n, 0)]
  /\ value' = [value EXCEPT ![b] = <<>>]
  /\ UNCHANGED <<mixed, fault>>

Wrap(b) ==
  LET n == Len(memory[ForeignBlock]) IN
    /\ Call /\ b \notin Live
    /\ buffer' = [buffer EXCEPT ![b] =
                    [own |-> FALSE, capacity |-> n, used |-> n, ptr |-> ForeignBlock]]
    /\ value' = [value EXCEPT ![b] = Junks(n)]
    /\ UNCHANGED <<heap, memory, mixed, fault>>

(* The constructors that copy: from memory, and from another buffer. *)
CreateWith(b, s, v) ==
  /\ Call /\ b \notin Live
  /\ \E p \in Unused :
       /\ heap' = [heap EXCEPT ![p] = "live"]
       /\ memory' = [memory EXCEPT ![p] = s]
       /\ buffer' = [buffer EXCEPT ![b] = Owning(p, Len(s), Len(s))]
  /\ value' = [value EXCEPT ![b] = v]
  /\ UNCHANGED <<mixed, fault>>
CreateFrom(b, s) == CreateWith(b, s, s)
CreateCopy(b, other) == other \in Live /\ CreateWith(b, Content(other), Known(other))

(* Mutant: the owner flag is not looked at. *)
DestroyAlways(b) ==
  /\ Call /\ b \in Live
  /\ IF ~MayDelete(buffer[b].ptr) THEN Fails("delete")
     ELSE /\ heap' = [heap EXCEPT ![buffer[b].ptr] = "deleted"]
          /\ buffer' = [buffer EXCEPT ![b] = Nothing]
          /\ value' = [value EXCEPT ![b] = <<>>]
          /\ UNCHANGED <<memory, mixed, fault>>

Destroy(b) ==
  /\ Call /\ b \in Live
  /\ IF buffer[b].own /\ ~MayDelete(buffer[b].ptr) THEN Fails("delete")
     ELSE /\ heap' = [p \in Blocks |-> IF buffer[b].own /\ p = buffer[b].ptr
                                       THEN "deleted" ELSE heap[p]]
          /\ buffer' = [buffer EXCEPT ![b] = Nothing]
          /\ value' = [value EXCEPT ![b] = <<>>]
          /\ UNCHANGED <<memory, mixed, fault>>

-------------------------------------------------------------------------------
(* Changes of what a buffer has in use; v is what it should have then.     *)

Wraps(b) == ~buffer[b].own

(* Buffers that wrap throw, and nothing changes. *)
Throws == UNCHANGED <<buffer, heap, memory, historyVars, fault>>

(* Mutant: the old memory is kept. *)
MoveKeepingOld(b, s, capacity, used, v) ==
  \E p \in Unused :
    /\ heap' = [heap EXCEPT ![p] = "live"]
    /\ memory' = [memory EXCEPT ![p] = Holding(s, capacity)]
    /\ buffer' = [buffer EXCEPT ![b] = Owning(p, capacity, used)]
    /\ value' = [value EXCEPT ![b] = v]
    /\ UNCHANGED <<mixed, fault>>

(* Into new memory, after which the old is deleted. *)
Move(b, s, capacity, used, v) ==
  IF ~MayDelete(buffer[b].ptr) THEN Fails("delete")
  ELSE \E p \in Unused :
         /\ heap' = [heap EXCEPT ![p] = "live", ![buffer[b].ptr] = "deleted"]
         /\ memory' = [memory EXCEPT ![p] = Holding(s, capacity)]
         /\ buffer' = [buffer EXCEPT ![b] = Owning(p, capacity, used)]
         /\ value' = [value EXCEPT ![b] = v]
         /\ UNCHANGED <<mixed, fault>>

(* In place: the first elements, and how many are in use. *)
Put(b, s, used, v) ==
  /\ memory' = [memory EXCEPT ![buffer[b].ptr] =
                  [i \in DOMAIN @ |-> IF i <= Len(s) THEN s[i] ELSE @[i]]]
  /\ buffer' = [buffer EXCEPT ![b].used = used]
  /\ value' = [value EXCEPT ![b] = v]
  /\ UNCHANGED <<heap, mixed, fault>>

(* resize() to n elements, the first of which are s. *)
ResizeTo(b, n, s, v) ==
  IF n > buffer[b].capacity THEN Move(b, s, n, n, v) ELSE Put(b, s, n, v)

Resize(b, n, keep) ==
  LET kept == IF keep THEN Prefix(Content(b), Least(buffer[b].used, n)) ELSE <<>>
      v    == IF keep THEN Prefix(value[b], Least(buffer[b].used, n)) ELSE <<>>
  IN /\ Call /\ b \in Live
     /\ IF Wraps(b) THEN Throws ELSE ResizeTo(b, n, kept, Holding(v, n))

SetCapacity(b, n, keep) ==
  LET used == Least(buffer[b].used, n)
      v    == IF keep THEN Prefix(value[b], used) ELSE Junks(used)
  IN /\ Call /\ b \in Live
     /\ IF Wraps(b) \/ n = buffer[b].capacity THEN Throws
        ELSE Move(b, IF keep THEN Prefix(Content(b), used) ELSE <<>>, n, used, v)

(* assign() returns at once when there is nothing to assign. *)
Assign(b, s) ==
  /\ Call /\ b \in Live
  /\ IF s = <<>> \/ (Wraps(b) /\ Len(s) > buffer[b].capacity) THEN Throws
     ELSE ResizeTo(b, Len(s), s, s)

(* Mutant: the elements already there are not kept. *)
AppendOver(b, s, v) ==
  IF s = <<>> \/ Wraps(b) THEN Throws
  ELSE ResizeTo(b, buffer[b].used + Len(s), s, value[b] \o v)

Appended(b, s, v) ==
  IF s = <<>> \/ Wraps(b) THEN Throws
  ELSE ResizeTo(b, buffer[b].used + Len(s), Content(b) \o s, value[b] \o v)

AppendFrom(b, s) == Call /\ b \in Live /\ Appended(b, s, s)

(* A buffer appended to itself is read where it was before it grew.        *)
ReadsDeleted(b, other) ==
  /\ b = other /\ ~Wraps(b) /\ buffer[b].used > 0
  /\ 2 * buffer[b].used > buffer[b].capacity
AppendBuffer(b, other) ==
  /\ Call /\ b \in Live /\ other \in Live
  /\ IF ReadsDeleted(b, other) THEN Fails("append")
     ELSE Appended(b, Content(other), Known(other))

Clear(b) ==
  LET zeros == [i \in 1..buffer[b].used |-> Zero] IN
    Call /\ b \in Live /\ Put(b, zeros, buffer[b].used, zeros)

-------------------------------------------------------------------------------
(* Exchanges.  swap() leaves the owner flags where they are. *)

WithMemoryOf(x, y) == [y EXCEPT !.own = x.own]

Swap(b, other) ==
  /\ Call /\ b \in Live /\ other \in Live
  /\ buffer' = [buffer EXCEPT ![b] = WithMemoryOf(buffer[b], buffer[other]),
                              ![other] = WithMemoryOf(buffer[other], buffer[b])]
  /\ value' = [value EXCEPT ![b] = value[other], ![other] = value[b]]
  /\ mixed' = (mixed \/ buffer[b].own # buffer[other].own)
  /\ UNCHANGED <<heap, memory, fault>>

(* operator=: a copy is swapped in, and destroyed with what was there; the *)
(* copy owns, and so deletes also what was only wrapped.                   *)
CopyAssign(b, other) ==
  /\ Call /\ b \in Live /\ other \in Live /\ b # other
  /\ IF Wraps(b) /\ ~MayDelete(buffer[b].ptr) THEN Fails("assign")
     ELSE Move(b, Content(other), buffer[other].used, buffer[other].used, Known(other))

-------------------------------------------------------------------------------
Init ==
  /\ buffer = [b \in Buffers |-> Nothing]
  /\ heap = [p \in Blocks |-> "unused"]
  /\ \E s \in Sources : memory = [p \in Memory |-> IF p = ForeignBlock THEN s ELSE <<>>]
  /\ value = [b \in Buffers |-> <<>>] /\ mixed = FALSE
  /\ fault = "none" /\ calls = 0

Next ==
  \E b \in Buffers :
    \/ Wrap(b) \/ Destroy(b) \/ Clear(b)
    \/ \E n \in Sizes : Create(b, n) \/ \E keep \in BOOLEAN : Resize(b, n, keep) \/ SetCapacity(b, n, keep)
    \/ \E s \in Sources : CreateFrom(b, s) \/ Assign(b, s) \/ AppendFrom(b, s)
    \/ \E other \in Buffers :
         \/ CreateCopy(b, other) \/ AppendBuffer(b, other)
         \/ Swap(b, other) \/ CopyAssign(b, other)

Spec == Init /\ [][Next]_vars

-------------------------------------------------------------------------------
(* Properties. *)

(* Every block of the heap that is live is owned by exactly one buffer,    *)
(* which will delete it: nothing leaks and nothing is deleted twice, under *)
(* copying, growing, shrinking, swapping and assigning, as long as no      *)
(* buffer that wraps is swapped with one that owns (Buffer.h:30-96,        *)
(* 109-160, 208-215).                                                      *)
Owners(p) == {b \in Live : buffer[b].own /\ buffer[b].ptr = p}
LiveBlocksHaveOneOwner ==
  ~mixed =>
    /\ \A p \in Blocks : heap[p] = "live" <=> Owners(p) # {}
    /\ \A p \in Blocks : \A b, c \in Owners(p) : b = c
    /\ Owners(ForeignBlock) = {}

(* So no delete[] is given a block that is deleted or was never allocated, *)
(* other than by operator= into a buffer that wraps (Buffer.h:81-91).      *)
DeletesAreValid == fault = "delete" => mixed

(* Capacities are those of the memory and hold what is in use. *)
SizesInside ==
  \A b \in Live :
    /\ buffer[b].capacity = Len(memory[buffer[b].ptr])
    /\ buffer[b].used <= buffer[b].capacity

(* A buffer with memory of its own holds what was assigned, appended and   *)
(* kept, through every growth, shrinking, copy and swap (Buffer.h:98-194). *)
ContentIsKept ==
  \A b \in Live : buffer[b].ptr \in Blocks =>
    /\ Len(value[b]) = buffer[b].used
    /\ \A i \in DOMAIN value[b] :
         value[b][i] # Junk => Content(b)[i] = value[b][i]
===============================================================================
