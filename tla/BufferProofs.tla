------------------------------ MODULE BufferProofs ------------------------------
(* Proofs about who owns the memory of buffers, and what it holds. *)
EXTENDS Buffer, SequenceTheorems, TLAPS

(* LiveBlocksHaveOneOwner, turned to the buffers: those that own have a    *)
(* live block, each its own, and those that wrap have the program's memory.*)
OwnersAreSound ==
  ~mixed =>
    /\ \A b \in Buffers : buffer[b].own =>
         buffer[b].ptr \in Blocks /\ heap[buffer[b].ptr] = "live"
    /\ \A b, c \in Buffers :
         buffer[b].own /\ buffer[c].own /\ buffer[b].ptr = buffer[c].ptr => b = c
    /\ \A p \in Blocks : heap[p] = "live" =>
         \E b \in Buffers : buffer[b].own /\ buffer[b].ptr = p
    /\ \A b \in Live : ~buffer[b].own => buffer[b].ptr = ForeignBlock

OwnersInv == OwnersOK /\ OwnersAreSound /\ DeletesAreValid

(* What owns is not nothing. *)
LEMMA OwnersAreLive ==
  ASSUME NEW b \in Buffers, buffer[b].own
  PROVE  b \in Live
BY DEF Live, Nothing

LEMMA OwnersAgree == OwnersOK => (OwnersAreSound => LiveBlocksHaveOneOwner)
<1> SUFFICES ASSUME OwnersOK, OwnersAreSound, ~mixed
             PROVE  /\ \A p \in Blocks : heap[p] = "live" <=> Owners(p) # {}
                    /\ \A p \in Blocks : \A b, c \in Owners(p) : b = c
                    /\ Owners(ForeignBlock) = {}
  BY DEF LiveBlocksHaveOneOwner
<1>1. \A p \in Blocks : heap[p] = "live" <=> Owners(p) # {}
  BY OwnersAreLive DEF OwnersAreSound, Owners, Live
<1>2. \A p \in Blocks : \A b, c \in Owners(p) : b = c
  BY DEF OwnersAreSound, Owners, Live
<1>3. Owners(ForeignBlock) = {}
  BY MemoryAssumption DEF OwnersAreSound, Owners, Live
<1>4. QED BY <1>1, <1>2, <1>3

-------------------------------------------------------------------------------
(* What the operations are made of. *)

(* The pointers, the owner flags and the heap stay as they are. *)
SamePointers ==
  /\ buffer' \in [Buffers -> Objects \cup {Nothing}]
  /\ \A b \in Buffers :
       /\ buffer'[b].own = buffer[b].own /\ buffer'[b].ptr = buffer[b].ptr
       /\ buffer'[b] # Nothing => buffer[b] # Nothing
  /\ UNCHANGED <<heap, mixed, fault>>

LEMMA SamePointersKeep == OwnersInv /\ SamePointers => OwnersInv'
BY DEF OwnersInv, SamePointers, OwnersOK, OwnersAreSound, DeletesAreValid, Live

LEMMA FailsKeeps ==
  ASSUME OwnersInv, NEW operation \in {"delete", "append", "assign"}, Fails(operation),
         operation = "delete" => mixed
  PROVE  OwnersInv'
BY DEF OwnersInv, Fails, historyVars, OwnersOK, OwnersAreSound, DeletesAreValid, Live

LEMMA NothingIsNoObject == Nothing.own = FALSE
BY DEF Nothing

(* A new block for a buffer that has no other. *)
LEMMA NewBlockKeeps ==
  ASSUME OwnersInv, NEW b \in Buffers, ~buffer[b].own, NEW p \in Unused,
         NEW capacity \in Nat, NEW used \in Nat,
         heap' = [heap EXCEPT ![p] = "live"],
         buffer' = [buffer EXCEPT ![b] = Owning(p, capacity, used)],
         UNCHANGED <<mixed, fault>>
  PROVE  OwnersInv'
<1>1. OwnersOK'
  BY DEF OwnersInv, OwnersOK, Unused, Owning, Objects, Memory
<1>2. /\ \A c \in Buffers \ {b} : buffer'[c] = buffer[c]
      /\ buffer'[b].own /\ buffer'[b].ptr = p
      /\ \A q \in Blocks \ {p} : heap'[q] = heap[q]
      /\ heap'[p] = "live" /\ heap[p] = "unused" /\ p \in Blocks
  BY DEF OwnersInv, OwnersOK, Unused, Owning
<1>3. OwnersAreSound'
  BY <1>2 DEF OwnersInv, OwnersAreSound, Live
<1>4. QED BY <1>1, <1>3 DEF OwnersInv, DeletesAreValid

(* Old memory for new. *)
LEMMA MoveKeeps ==
  ASSUME OwnersInv, NEW b \in Live, buffer[b].own \/ MayDelete(buffer[b].ptr),
         NEW s, NEW capacity \in Nat, NEW used \in Nat, NEW v,
         fault = "none", Move(b, s, capacity, used, v)
  PROVE  OwnersInv'
<1>1. CASE ~MayDelete(buffer[b].ptr)
  <2>1. mixed
    BY <1>1 DEF OwnersInv, OwnersAreSound, MayDelete, Live
  <2>2. QED BY <1>1, <2>1, FailsKeeps DEF Move
<1>2. CASE MayDelete(buffer[b].ptr)
  <2> DEFINE old == buffer[b].ptr
  <2>1. PICK p \in Unused :
          /\ heap' = [heap EXCEPT ![p] = "live", ![old] = "deleted"]
          /\ buffer' = [buffer EXCEPT ![b] = Owning(p, capacity, used)]
          /\ UNCHANGED <<mixed, fault>>
    BY <1>2 DEF Move
  <2>2. b \in Buffers /\ p \in Blocks /\ old \in Blocks /\ p # old
    BY <1>2 DEF MayDelete, Unused, Live
  <2>3. OwnersOK'
    BY <2>1, <2>2 DEF OwnersInv, OwnersOK, Owning, Objects, Memory
  <2>4. /\ \A c \in Buffers \ {b} : buffer'[c] = buffer[c]
        /\ buffer'[b].own /\ buffer'[b].ptr = p
        /\ \A q \in Blocks \ {p, old} : heap'[q] = heap[q]
        /\ heap'[p] = "live" /\ heap[p] = "unused" /\ heap'[old] = "deleted"
    BY <2>1, <2>2 DEF OwnersInv, OwnersOK, Unused, Owning
  <2>5. ~mixed => buffer[b].own
    BY <1>2, MemoryAssumption DEF OwnersInv, OwnersAreSound, MayDelete
  <2>6. OwnersAreSound'
    <3> SUFFICES ASSUME ~mixed
                 PROVE  /\ \A c \in Buffers : buffer'[c].own =>
                             buffer'[c].ptr \in Blocks /\ heap'[buffer'[c].ptr] = "live"
                        /\ \A c, d \in Buffers :
                             buffer'[c].own /\ buffer'[d].own
                               /\ buffer'[c].ptr = buffer'[d].ptr => c = d
                        /\ \A q \in Blocks : heap'[q] = "live" =>
                             \E c \in Buffers : buffer'[c].own /\ buffer'[c].ptr = q
                        /\ \A c \in Buffers : buffer'[c] # Nothing /\ ~buffer'[c].own =>
                             buffer'[c].ptr = ForeignBlock
      BY <2>1 DEF OwnersAreSound, Live
    <3>1. \A c \in Buffers \ {b} : buffer[c].own =>
            /\ buffer[c].ptr \in Blocks \ {p, old} /\ heap[buffer[c].ptr] = "live"
      BY <2>2, <2>4, <2>5 DEF OwnersInv, OwnersAreSound
    <3>2. \A q \in Blocks \ {p, old} : heap[q] = "live" =>
            \E c \in Buffers \ {b} : buffer[c].own /\ buffer[c].ptr = q
      BY DEF OwnersInv, OwnersAreSound
    <3>3. \A c \in Buffers : buffer'[c].own =>
            buffer'[c].ptr \in Blocks /\ heap'[buffer'[c].ptr] = "live"
      BY <2>2, <2>4, <3>1
    <3>4. \A c, d \in Buffers :
            buffer'[c].own /\ buffer'[d].own /\ buffer'[c].ptr = buffer'[d].ptr => c = d
      BY <2>2, <2>4, <3>1 DEF OwnersInv, OwnersAreSound
    <3>5. \A q \in Blocks : heap'[q] = "live" =>
            \E c \in Buffers : buffer'[c].own /\ buffer'[c].ptr = q
      BY <2>2, <2>4, <3>2
    <3>6. \A c \in Buffers : buffer'[c] # Nothing /\ ~buffer'[c].own =>
            buffer'[c].ptr = ForeignBlock
      BY <2>2, <2>4 DEF OwnersInv, OwnersAreSound, Live
    <3>7. QED BY <3>3, <3>4, <3>5, <3>6
  <2>7. QED BY <2>1, <2>3, <2>6 DEF OwnersInv, DeletesAreValid
<1>3. QED BY <1>1, <1>2

LEMMA PutKeeps ==
  ASSUME OwnersInv, NEW b \in Live, NEW s, NEW used \in Nat, NEW v, Put(b, s, used, v)
  PROVE  OwnersInv'
<1>1. buffer[b] \in Objects /\ b \in Buffers
  BY DEF OwnersInv, OwnersOK, Live
<1>2. SamePointers
  BY <1>1 DEF OwnersInv, OwnersOK, Put, SamePointers, Objects, Live
<1>3. QED BY <1>2, SamePointersKeep

LEMMA ThrowsKeeps == OwnersInv /\ Throws => OwnersInv'
<1>1. OwnersInv /\ Throws => SamePointers
  BY DEF Throws, historyVars, OwnersInv, OwnersOK, SamePointers
<1>2. QED BY <1>1, SamePointersKeep

-------------------------------------------------------------------------------
(* Sizes and contents. *)

ContentsOK == memory \in [Memory -> Contents] /\ value \in [Buffers -> Contents]

(* A block in use is not one that new[] may still return. *)
InUseIsAllocated ==
  \A b \in Live : buffer[b].ptr \in Blocks => heap[buffer[b].ptr] # "unused"

ValuesFit == \A b \in Live : Len(value[b]) = buffer[b].used

SizesInv == OwnersOK /\ ContentsOK /\ SizesInside /\ InUseIsAllocated /\ ValuesFit

LEMMA HoldingFits ==
  ASSUME NEW s \in Contents, NEW n \in Nat
  PROVE  Holding(s, n) \in Contents /\ Len(Holding(s, n)) = n
<1>1. \A i \in 1..n : (IF i <= Len(s) THEN s[i] ELSE Junk) \in Elements \cup {Junk}
  BY DEF Contents
<1>2. QED BY <1>1 DEF Contents, Holding

LEMMA PrefixFits ==
  ASSUME NEW s \in Contents, NEW n \in 0..Len(s)
  PROVE  Prefix(s, n) \in Contents /\ Len(Prefix(s, n)) = n
<1>1. Len(s) \in Nat
  BY DEF Contents
<1>2. CASE n = 0
  BY <1>1, <1>2, SubSeqProperties DEF Contents, Prefix
<1>3. CASE n > 0
  BY <1>1, <1>3, SubSeqProperties DEF Contents, Prefix
<1>4. QED BY <1>1, <1>2, <1>3

LEMMA JunksFit ==
  ASSUME NEW n \in Nat
  PROVE  Junks(n) \in Contents /\ Len(Junks(n)) = n
BY DEF Junks, Contents

LEMMA EmptyFits == <<>> \in Contents /\ Len(<<>>) = 0
BY DEF Contents

LEMMA LiveBuffers ==
  ASSUME SizesInv, NEW b \in Live
  PROVE  /\ buffer[b] \in Objects /\ b \in Buffers
         /\ buffer[b].used \in Nat /\ buffer[b].capacity \in Nat
         /\ memory[buffer[b].ptr] \in Contents
         /\ value[b] \in Contents /\ Len(value[b]) = buffer[b].used
         /\ Content(b) \in Contents /\ Len(Content(b)) = buffer[b].used
         /\ Known(b) \in Contents /\ Len(Known(b)) = buffer[b].used
<1>1. buffer[b] \in Objects /\ b \in Buffers
  BY DEF SizesInv, OwnersOK, Live
<1>2. buffer[b].used \in Nat /\ buffer[b].capacity \in Nat /\ buffer[b].ptr \in Memory
  BY <1>1 DEF Objects
<1>3. memory[buffer[b].ptr] \in Contents /\ value[b] \in Contents
  BY <1>1, <1>2 DEF SizesInv, ContentsOK
<1>4. buffer[b].used \in 0..Len(memory[buffer[b].ptr])
  BY <1>2 DEF SizesInv, SizesInside
<1>5. Content(b) \in Contents /\ Len(Content(b)) = buffer[b].used
  BY <1>3, <1>4, PrefixFits DEF Content
<1>6. Len(value[b]) = buffer[b].used
  BY DEF SizesInv, ValuesFit
<1>7. QED BY <1>1, <1>2, <1>3, <1>5, <1>6 DEF Known

(* The sizes are right where nothing but the number in use changes, or a   *)
(* buffer takes over what another had.                                     *)
SameSizes ==
  /\ \A p \in Memory : Len(memory'[p]) = Len(memory[p])
  /\ \A p \in Blocks : heap'[p] = "unused" => heap[p] = "unused"
  /\ \A b \in Buffers : buffer'[b] # Nothing =>
       \E c \in Live :
         /\ buffer'[b].ptr = buffer[c].ptr /\ buffer'[b].capacity = buffer[c].capacity
         /\ buffer'[b].used <= buffer[c].capacity

LEMMA SameSizesKeep ==
  ASSUME SizesInv, OwnersOK', ContentsOK', SameSizes, ValuesFit'
  PROVE  SizesInv'
<1>1. \A c \in Live : buffer[c].ptr \in Memory
  BY LiveBuffers DEF Objects
<1>2. SizesInside'
  BY <1>1 DEF SizesInv, SizesInside, SameSizes, Live
<1>3. InUseIsAllocated'
  BY <1>1 DEF SizesInv, InUseIsAllocated, SameSizes, Live
<1>4. QED BY <1>2, <1>3 DEF SizesInv

(* A buffer gets a block that was never allocated. *)
LEMMA NewSizesKeep ==
  ASSUME SizesInv, OwnersOK', NEW b \in Buffers, NEW p \in Unused,
         NEW capacity \in Nat, NEW used \in Nat, used <= capacity,
         NEW s \in Contents, Len(s) = capacity,
         NEW v \in Contents, Len(v) = used,
         memory' = [memory EXCEPT ![p] = s],
         value' = [value EXCEPT ![b] = v],
         buffer' = [buffer EXCEPT ![b] = Owning(p, capacity, used)],
         heap'[p] = "live",
         \A q \in Blocks : heap'[q] = "unused" => heap[q] = "unused"
  PROVE  SizesInv'
<1>1. p \in Memory /\ p \in Blocks /\ heap[p] = "unused"
  BY DEF Unused, Memory
<1>2. ContentsOK'
  BY <1>1 DEF SizesInv, ContentsOK
<1>3. /\ \A c \in Buffers \ {b} : buffer'[c] = buffer[c]
      /\ buffer'[b] = Owning(p, capacity, used)
      /\ \A q \in Memory \ {p} : memory'[q] = memory[q]
      /\ memory'[p] = s
  BY <1>1 DEF SizesInv, OwnersOK, ContentsOK
<1>4. \A c \in Live : buffer[c].ptr \in Memory \ {p}
  BY <1>1, LiveBuffers DEF SizesInv, InUseIsAllocated, Objects
<1>5. SizesInside'
  BY <1>3, <1>4 DEF SizesInv, SizesInside, Live, Owning
<1>6. InUseIsAllocated'
  BY <1>3, <1>4 DEF SizesInv, InUseIsAllocated, Live, Owning
<1>7. ValuesFit'
  BY <1>3 DEF SizesInv, ContentsOK, ValuesFit, Live, Owning
<1>8. QED BY <1>2, <1>5, <1>6, <1>7 DEF SizesInv

-------------------------------------------------------------------------------
(* Both together, for what the operations are made of. *)

Inv == OwnersInv /\ SizesInv

LEMMA FailsInv ==
  ASSUME Inv, NEW operation \in {"delete", "append", "assign"}, Fails(operation),
         operation = "delete" => mixed
  PROVE  Inv'
<1>1. OwnersInv'
  BY FailsKeeps DEF Inv
<1>2. SizesInv'
  BY <1>1 DEF Inv, OwnersInv, SizesInv, ContentsOK, SizesInside, InUseIsAllocated, ValuesFit, Fails,
              historyVars, Live
<1>3. QED BY <1>1, <1>2 DEF Inv

LEMMA ThrowsInv == Inv /\ Throws => Inv'
BY DEF Throws, historyVars, Inv, OwnersInv, SizesInv, OwnersOK, OwnersAreSound,
       DeletesAreValid, ContentsOK, SizesInside, InUseIsAllocated, ValuesFit, Live

LEMMA MoveInv ==
  ASSUME Inv, NEW b \in Live, buffer[b].own \/ MayDelete(buffer[b].ptr),
         NEW s \in Contents, NEW capacity \in Nat, NEW used \in Nat, used <= capacity,
         NEW v \in Contents, Len(v) = used, fault = "none", Move(b, s, capacity, used, v)
  PROVE  Inv'
<1>1. OwnersInv'
  BY MoveKeeps DEF Inv
<1>2. CASE ~MayDelete(buffer[b].ptr)
  <2>1. Fails("delete")
    BY <1>2 DEF Move
  <2>2. QED
    BY <1>1, <2>1 DEF Inv, OwnersInv, SizesInv, ContentsOK, SizesInside, InUseIsAllocated,
                      ValuesFit, Fails, historyVars, Live
<1>3. CASE MayDelete(buffer[b].ptr)
  <2>1. PICK p \in Unused :
          /\ heap' = [heap EXCEPT ![p] = "live", ![buffer[b].ptr] = "deleted"]
          /\ memory' = [memory EXCEPT ![p] = Holding(s, capacity)]
          /\ buffer' = [buffer EXCEPT ![b] = Owning(p, capacity, used)]
          /\ value' = [value EXCEPT ![b] = v]
    BY <1>3 DEF Move
  <2>2. heap'[p] = "live" /\ \A q \in Blocks : heap'[q] = "unused" => heap[q] = "unused"
    BY <1>3, <2>1 DEF Inv, OwnersInv, OwnersOK, MayDelete, Unused
  <2>3. Holding(s, capacity) \in Contents /\ Len(Holding(s, capacity)) = capacity
    BY HoldingFits
  <2>4. b \in Buffers /\ OwnersOK'
    BY <1>1 DEF OwnersInv, Live
  <2>5. SizesInv'
    BY <2>1, <2>2, <2>3, <2>4, NewSizesKeep DEF Inv
  <2>6. QED BY <1>1, <2>5 DEF Inv
<1>4. QED BY <1>2, <1>3

LEMMA PutInv ==
  ASSUME Inv, NEW b \in Live, NEW s \in Contents, NEW used \in Nat,
         used <= buffer[b].capacity, NEW v \in Contents, Len(v) = used, Put(b, s, used, v)
  PROVE  Inv'
<1>1. OwnersInv'
  BY PutKeeps DEF Inv
<1> DEFINE old == memory[buffer[b].ptr]
           new == [i \in DOMAIN old |-> IF i <= Len(s) THEN s[i] ELSE old[i]]
<1>2. /\ buffer[b] \in Objects /\ b \in Buffers /\ buffer[b].ptr \in Memory
      /\ buffer[b].capacity \in Nat /\ old \in Contents
  BY LiveBuffers DEF Inv, Objects
<1>3. new \in Contents /\ Len(new) = Len(old)
  <2>1. \A i \in 1..Len(old) : (IF i <= Len(s) THEN s[i] ELSE old[i]) \in Elements \cup {Junk}
    BY <1>2 DEF Contents
  <2>2. DOMAIN old = 1..Len(old) /\ Len(old) \in Nat
    BY <1>2 DEF Contents
  <2>3. new = [i \in 1..Len(old) |-> IF i <= Len(s) THEN s[i] ELSE old[i]]
    BY <2>2
  <2> HIDE DEF new
  <2>4. QED BY <2>1, <2>2, <2>3 DEF Contents
<1>4. memory' = [memory EXCEPT ![buffer[b].ptr] = new] /\ value' = [value EXCEPT ![b] = v]
      /\ buffer' = [buffer EXCEPT ![b].used = used] /\ UNCHANGED heap
  BY DEF Put
<1> HIDE DEF new, old
<1>5. ContentsOK'
  BY <1>2, <1>3, <1>4 DEF Inv, SizesInv, ContentsOK
<1>6. \A p \in Memory : Len(memory'[p]) = Len(memory[p])
  BY <1>2, <1>3, <1>4 DEF old, Inv, SizesInv, ContentsOK
<1>7. \A c \in Buffers : buffer'[c] # Nothing =>
        /\ c \in Live
        /\ buffer'[c].ptr = buffer[c].ptr /\ buffer'[c].capacity = buffer[c].capacity
        /\ buffer'[c].used <= buffer[c].capacity
  BY <1>2, <1>4 DEF Inv, SizesInv, SizesInside, OwnersOK, Live, Objects
<1>8. SameSizes
  BY <1>4, <1>6, <1>7 DEF SameSizes
<1>9. ValuesFit'
  BY <1>2, <1>4, <1>7 DEF Inv, SizesInv, ContentsOK, OwnersOK, Objects, ValuesFit, Live
<1>10. QED BY <1>1, <1>5, <1>8, <1>9, SameSizesKeep DEF Inv, OwnersInv

LEMMA ResizeToInv ==
  ASSUME Inv, NEW b \in Live, NEW n \in Nat, buffer[b].own \/ n <= buffer[b].capacity,
         NEW s \in Contents, NEW v \in Contents, Len(v) = n,
         fault = "none", ResizeTo(b, n, s, v)
  PROVE  Inv'
<1>1. buffer[b].capacity \in Nat
  BY LiveBuffers DEF Inv
<1>2. CASE n > buffer[b].capacity
  <2>1. buffer[b].own /\ Move(b, s, n, n, v) /\ n <= n
    BY <1>1, <1>2 DEF ResizeTo
  <2>2. QED BY <2>1, MoveInv
<1>3. CASE ~(n > buffer[b].capacity)
  BY <1>1, <1>3, PutInv DEF ResizeTo
<1>4. QED BY <1>2, <1>3

LEMMA AppendedInv ==
  ASSUME Inv, NEW b \in Live, NEW s \in Contents, NEW v \in Contents, Len(v) = Len(s),
         fault = "none", Appended(b, s, v)
  PROVE  Inv'
<1>1. /\ buffer[b].used + Len(s) \in Nat
      /\ Content(b) \o s \in Contents /\ value[b] \o v \in Contents
      /\ Len(value[b] \o v) = buffer[b].used + Len(s)
  BY LiveBuffers DEF Inv, Contents
<1>2. CASE s = <<>> \/ Wraps(b)
  BY <1>2, ThrowsInv DEF Appended
<1>3. CASE ~(s = <<>> \/ Wraps(b))
  BY <1>1, <1>3, ResizeToInv DEF Appended, Wraps
<1>4. QED BY <1>2, <1>3

-------------------------------------------------------------------------------
(* The operations. *)

LEMMA NewBlockInv ==
  ASSUME Inv, NEW b \in Buffers \ Live, NEW p \in Unused,
         NEW capacity \in Nat, NEW used \in Nat, used <= capacity,
         NEW s \in Contents, Len(s) = capacity,
         NEW v \in Contents, Len(v) = used,
         heap' = [heap EXCEPT ![p] = "live"],
         memory' = [memory EXCEPT ![p] = s],
         value' = [value EXCEPT ![b] = v],
         buffer' = [buffer EXCEPT ![b] = Owning(p, capacity, used)],
         UNCHANGED <<mixed, fault>>
  PROVE  Inv'
<1>1. ~buffer[b].own
  BY DEF Live, Nothing
<1>2. OwnersInv'
  BY <1>1, NewBlockKeeps DEF Inv
<1>3. heap'[p] = "live" /\ \A q \in Blocks : heap'[q] = "unused" => heap[q] = "unused"
  BY DEF Inv, OwnersInv, OwnersOK, Unused
<1>4. OwnersOK'
  BY <1>2 DEF OwnersInv
<1>5. SizesInv'
  BY <1>3, <1>4, NewSizesKeep DEF Inv
<1>6. QED BY <1>2, <1>5 DEF Inv

LEMMA CreateInv ==
  ASSUME Inv, NEW b \in Buffers, NEW n \in Nat, Create(b, n)
  PROVE  Inv'
<1>1. PICK p \in Unused :
        /\ heap' = [heap EXCEPT ![p] = "live"]
        /\ memory' = [memory EXCEPT ![p] = Junks(n)]
        /\ buffer' = [buffer EXCEPT ![b] = Owning(p, n, 0)]
  BY DEF Create
<1>2. b \notin Live /\ value' = [value EXCEPT ![b] = <<>>] /\ UNCHANGED <<mixed, fault>>
  BY DEF Create
<1>3. /\ 0 \in Nat /\ 0 <= n /\ Junks(n) \in Contents /\ Len(Junks(n)) = n
      /\ <<>> \in Contents /\ Len(<<>>) = 0
  BY JunksFit, EmptyFits
<1>4. QED BY <1>1, <1>2, <1>3, NewBlockInv

LEMMA CreateWithInv ==
  ASSUME Inv, NEW b \in Buffers, NEW s \in Contents, NEW v \in Contents, Len(v) = Len(s),
         CreateWith(b, s, v)
  PROVE  Inv'
<1>1. Len(s) \in Nat /\ Len(s) <= Len(s)
  BY DEF Contents
<1>2. PICK p \in Unused :
        /\ heap' = [heap EXCEPT ![p] = "live"]
        /\ memory' = [memory EXCEPT ![p] = s]
        /\ buffer' = [buffer EXCEPT ![b] = Owning(p, Len(s), Len(s))]
  BY DEF CreateWith
<1>3. b \notin Live /\ value' = [value EXCEPT ![b] = v] /\ UNCHANGED <<mixed, fault>>
  BY DEF CreateWith
<1>4. QED BY <1>1, <1>2, <1>3, NewBlockInv

LEMMA CreateCopyInv ==
  ASSUME Inv, NEW b \in Buffers, NEW other \in Buffers, CreateCopy(b, other)
  PROVE  Inv'
BY LiveBuffers, CreateWithInv DEF CreateCopy, Inv

LEMMA WrapInv ==
  ASSUME Inv, NEW b \in Buffers, Wrap(b)
  PROVE  Inv'
<1> DEFINE n == Len(memory[ForeignBlock])
           wrapper == [own |-> FALSE, capacity |-> n, used |-> n, ptr |-> ForeignBlock]
<1>1. n \in Nat /\ ForeignBlock \in Memory
  BY DEF Inv, SizesInv, ContentsOK, Contents, Memory
<1>2. /\ ~buffer[b].own /\ buffer' = [buffer EXCEPT ![b] = wrapper]
      /\ value' = [value EXCEPT ![b] = Junks(n)] /\ UNCHANGED <<heap, memory, mixed, fault>>
  BY DEF Wrap, Live, Nothing
<1>3. Junks(n) \in Contents /\ Len(Junks(n)) = n
  BY <1>1, JunksFit
<1>4. /\ buffer' \in [Buffers -> Objects \cup {Nothing}]
      /\ buffer'[b] = wrapper /\ \A c \in Buffers \ {b} : buffer'[c] = buffer[c]
  BY <1>1, <1>2 DEF Inv, OwnersInv, OwnersOK, Objects
<1>5. OwnersOK' /\ ContentsOK'
  BY <1>2, <1>3, <1>4 DEF Inv, OwnersInv, OwnersOK, SizesInv, ContentsOK
<1>6. OwnersAreSound'
  BY <1>2, <1>4 DEF Inv, OwnersInv, OwnersAreSound, Live
<1>7. SizesInside'
  BY <1>1, <1>2, <1>4 DEF Inv, SizesInv, SizesInside, Live
<1>8. InUseIsAllocated'
  BY <1>2, <1>4, MemoryAssumption DEF Inv, SizesInv, InUseIsAllocated, Live
<1>9. ValuesFit'
  BY <1>2, <1>3, <1>4 DEF Inv, SizesInv, ContentsOK, ValuesFit, Live
<1>10. QED
  BY <1>2, <1>5, <1>6, <1>7, <1>8, <1>9 DEF Inv, OwnersInv, SizesInv, DeletesAreValid

LEMMA DestroyInv ==
  ASSUME Inv, NEW b \in Buffers, Destroy(b)
  PROVE  Inv'
<1>1. CASE buffer[b].own /\ ~MayDelete(buffer[b].ptr)
  <2>1. mixed /\ Fails("delete")
    BY <1>1 DEF Destroy, Inv, OwnersInv, OwnersAreSound, MayDelete
  <2>2. QED BY <2>1, FailsInv
<1>2. CASE ~(buffer[b].own /\ ~MayDelete(buffer[b].ptr))
  <2>1. /\ heap' = [p \in Blocks |-> IF buffer[b].own /\ p = buffer[b].ptr
                                     THEN "deleted" ELSE heap[p]]
        /\ buffer' = [buffer EXCEPT ![b] = Nothing]
        /\ value' = [value EXCEPT ![b] = <<>>]
        /\ UNCHANGED <<memory, mixed, fault>>
    BY <1>2 DEF Destroy
  <2>2. OwnersOK' /\ ContentsOK'
    BY <2>1, EmptyFits DEF Inv, OwnersInv, OwnersOK, SizesInv, ContentsOK
  <2>3. buffer'[b] = Nothing /\ \A c \in Buffers \ {b} : buffer'[c] = buffer[c]
    BY <2>1 DEF Inv, OwnersInv, OwnersOK
  <2>4. OwnersAreSound'
    BY <2>1, <2>3 DEF Inv, OwnersInv, OwnersAreSound, Live, Nothing
  <2>5. SameSizes
    BY <2>1, <2>3 DEF SameSizes, Inv, SizesInv, SizesInside, Live
  <2>6. ValuesFit'
    BY <2>1, <2>3 DEF Inv, SizesInv, ContentsOK, ValuesFit, Live
  <2>7. QED
    BY <2>1, <2>2, <2>4, <2>5, <2>6, SameSizesKeep DEF Inv, OwnersInv, DeletesAreValid
<1>3. QED BY <1>1, <1>2

LEMMA KeptFits ==
  ASSUME Inv, NEW b \in Live, NEW n \in Nat
  PROVE  /\ Least(buffer[b].used, n) \in Nat /\ Least(buffer[b].used, n) <= n
         /\ Prefix(Content(b), Least(buffer[b].used, n)) \in Contents
         /\ Prefix(value[b], Least(buffer[b].used, n)) \in Contents
         /\ Len(Prefix(value[b], Least(buffer[b].used, n))) = Least(buffer[b].used, n)
<1>1. Least(buffer[b].used, n) \in 0..buffer[b].used /\ Least(buffer[b].used, n) <= n
  BY LiveBuffers DEF Inv, Least
<1>2. /\ Content(b) \in Contents /\ Len(Content(b)) = buffer[b].used
      /\ value[b] \in Contents /\ Len(value[b]) = buffer[b].used
  BY LiveBuffers DEF Inv
<1>3. QED BY <1>1, <1>2, PrefixFits

LEMMA ResizeInv ==
  ASSUME Inv, NEW b \in Buffers, NEW n \in Nat, NEW keep \in BOOLEAN, Resize(b, n, keep)
  PROVE  Inv'
<1> DEFINE least == Least(buffer[b].used, n)
           kept  == IF keep THEN Prefix(Content(b), least) ELSE <<>>
           v     == IF keep THEN Prefix(value[b], least) ELSE <<>>
<1>1. b \in Live /\ fault = "none"
  BY DEF Resize, Call
<1>2. kept \in Contents /\ Holding(v, n) \in Contents /\ Len(Holding(v, n)) = n
  BY <1>1, KeptFits, EmptyFits, HoldingFits
<1>3. CASE Wraps(b)
  BY <1>3, ThrowsInv DEF Resize
<1>4. CASE ~Wraps(b)
  <2>1. ResizeTo(b, n, kept, Holding(v, n))
    BY <1>4 DEF Resize
  <2>2. QED BY <1>1, <1>2, <1>4, <2>1, ResizeToInv DEF Wraps
<1>5. QED BY <1>3, <1>4

LEMMA SetCapacityInv ==
  ASSUME Inv, NEW b \in Buffers, NEW n \in Nat, NEW keep \in BOOLEAN,
         SetCapacity(b, n, keep)
  PROVE  Inv'
<1> DEFINE used == Least(buffer[b].used, n)
           v    == IF keep THEN Prefix(value[b], used) ELSE Junks(used)
           kept == IF keep THEN Prefix(Content(b), used) ELSE <<>>
<1>1. b \in Live /\ fault = "none"
  BY DEF SetCapacity, Call
<1>2. used \in Nat /\ used <= n
  BY <1>1, KeptFits
<1>3. kept \in Contents /\ v \in Contents /\ Len(v) = used
  BY <1>1, <1>2, KeptFits, EmptyFits, JunksFit
<1>4. CASE Wraps(b) \/ n = buffer[b].capacity
  BY <1>4, ThrowsInv DEF SetCapacity
<1>5. CASE ~(Wraps(b) \/ n = buffer[b].capacity)
  <2>1. Move(b, kept, n, used, v)
    BY <1>5 DEF SetCapacity
  <2>2. QED BY <1>1, <1>2, <1>3, <1>5, <2>1, MoveInv DEF Wraps
<1>6. QED BY <1>4, <1>5

LEMMA AssignInv ==
  ASSUME Inv, NEW b \in Buffers, NEW s \in Contents, Assign(b, s)
  PROVE  Inv'
<1>1. b \in Live /\ fault = "none" /\ Len(s) \in Nat
  BY DEF Assign, Call, Contents
<1>2. CASE s = <<>> \/ (Wraps(b) /\ Len(s) > buffer[b].capacity)
  BY <1>2, ThrowsInv DEF Assign
<1>3. CASE ~(s = <<>> \/ (Wraps(b) /\ Len(s) > buffer[b].capacity))
  <2>1. ResizeTo(b, Len(s), s, s)
    BY <1>3 DEF Assign
  <2>2. buffer[b].own \/ Len(s) <= buffer[b].capacity
    BY <1>1, <1>3, LiveBuffers DEF Inv, Wraps
  <2>3. QED BY <1>1, <2>1, <2>2, ResizeToInv
<1>4. QED BY <1>2, <1>3

LEMMA AppendFromInv ==
  ASSUME Inv, NEW b \in Buffers, NEW s \in Contents, AppendFrom(b, s)
  PROVE  Inv'
BY AppendedInv DEF AppendFrom, Call

LEMMA AppendBufferInv ==
  ASSUME Inv, NEW b \in Buffers, NEW other \in Buffers, AppendBuffer(b, other)
  PROVE  Inv'
<1>1. CASE ReadsDeleted(b, other)
  BY <1>1, FailsInv DEF AppendBuffer
<1>2. CASE ~ReadsDeleted(b, other)
  BY <1>2, LiveBuffers, AppendedInv DEF AppendBuffer, Call, Inv
<1>3. QED BY <1>1, <1>2

LEMMA SwapInv ==
  ASSUME Inv, NEW b \in Buffers, NEW other \in Buffers, Swap(b, other)
  PROVE  Inv'
<1>1. /\ b \in Live /\ other \in Live
      /\ buffer[b] \in Objects /\ buffer[other] \in Objects
  BY LiveBuffers DEF Swap, Inv
<1>2. /\ \A c \in Buffers \ {b, other} : buffer'[c] = buffer[c] /\ value'[c] = value[c]
      /\ buffer'[other] = WithMemoryOf(buffer[other], buffer[b])
      /\ b # other => buffer'[b] = WithMemoryOf(buffer[b], buffer[other])
      /\ value'[b] = value[other] /\ value'[other] = value[b]
      /\ UNCHANGED <<heap, memory, fault>>
  BY DEF Swap, Inv, OwnersInv, OwnersOK, SizesInv, ContentsOK
<1>3. /\ buffer' \in [Buffers -> Objects \cup {Nothing}]
      /\ value' \in [Buffers -> Contents] /\ mixed' \in BOOLEAN
  BY <1>1 DEF Swap, Inv, OwnersInv, OwnersOK, SizesInv, ContentsOK, WithMemoryOf, Objects
<1>4. OwnersOK' /\ ContentsOK'
  BY <1>2, <1>3 DEF Inv, OwnersInv, OwnersOK, SizesInv, ContentsOK
<1>5. ~mixed' => ~mixed /\ buffer[b].own = buffer[other].own
  BY DEF Swap
<1>6. OwnersAreSound'
  BY <1>1, <1>2, <1>5 DEF Inv, OwnersInv, OwnersAreSound, WithMemoryOf, Objects, Live
<1>7. \A c \in Buffers : buffer'[c] # Nothing =>
        \E d \in Live :
          /\ buffer'[c].ptr = buffer[d].ptr /\ buffer'[c].capacity = buffer[d].capacity
          /\ buffer'[c].used = buffer[d].used /\ value'[c] = value[d]
  BY <1>1, <1>2 DEF WithMemoryOf, Objects, Live
<1>8. SameSizes /\ ValuesFit'
  BY <1>2, <1>7 DEF SameSizes, ValuesFit, Inv, SizesInv, SizesInside, Live
<1>9. SizesInv'
  BY <1>4, <1>8, SameSizesKeep DEF Inv
<1>10. DeletesAreValid'
  BY <1>2, <1>5 DEF Inv, OwnersInv, DeletesAreValid
<1>11. QED BY <1>4, <1>6, <1>9, <1>10 DEF Inv, OwnersInv

LEMMA CopyAssignInv ==
  ASSUME Inv, NEW b \in Buffers, NEW other \in Buffers, CopyAssign(b, other)
  PROVE  Inv'
<1>1. b \in Live /\ other \in Live /\ fault = "none"
  BY DEF CopyAssign, Call
<1>2. CASE Wraps(b) /\ ~MayDelete(buffer[b].ptr)
  BY <1>2, FailsInv DEF CopyAssign
<1>3. CASE ~(Wraps(b) /\ ~MayDelete(buffer[b].ptr))
  <2> DEFINE used == buffer[other].used
  <2>1. Move(b, Content(other), used, used, Known(other))
    BY <1>3 DEF CopyAssign
  <2>2. /\ used \in Nat /\ used <= used /\ Content(other) \in Contents
        /\ Known(other) \in Contents /\ Len(Known(other)) = used
    BY <1>1, LiveBuffers DEF Inv
  <2>3. QED BY <1>1, <1>3, <2>1, <2>2, MoveInv DEF Wraps
<1>4. QED BY <1>2, <1>3

LEMMA ClearInv ==
  ASSUME Inv, NEW b \in Buffers, Clear(b)
  PROVE  Inv'
<1> DEFINE zeros == [i \in 1..buffer[b].used |-> Zero]
<1>1. b \in Live /\ Put(b, zeros, buffer[b].used, zeros)
  BY DEF Clear
<1>2. buffer[b].used \in Nat /\ buffer[b].used <= buffer[b].capacity
  BY <1>1, LiveBuffers DEF Inv, SizesInv, SizesInside
<1>3. zeros \in Contents /\ Len(zeros) = buffer[b].used
  BY <1>2, MemoryAssumption DEF Contents
<1>4. QED BY <1>1, <1>2, <1>3, PutInv

-------------------------------------------------------------------------------
(* Theorems. *)

IInv == Inv /\ calls \in 0..MaxCalls

LEMMA SourcesAreContents == Sources \subseteq Contents
BY MemoryAssumption DEF Contents

LEMMA InitIInv == Init => IInv
<1> SUFFICES ASSUME Init PROVE IInv
  OBVIOUS
<1>1. \A b \in Buffers : buffer[b] = Nothing /\ value[b] = <<>>
  BY DEF Init
<1>2. OwnersOK
  BY DEF Init, OwnersOK
<1>3. ContentsOK
  BY SourcesAreContents, EmptyFits DEF Init, ContentsOK
<1>4. OwnersAreSound
  BY <1>1 DEF Init, OwnersAreSound, Nothing, Live
<1>5. SizesInside /\ InUseIsAllocated /\ ValuesFit
  BY <1>1 DEF SizesInside, InUseIsAllocated, ValuesFit, Live
<1>6. DeletesAreValid /\ calls \in 0..MaxCalls
  BY MemoryAssumption DEF Init, DeletesAreValid
<1>7. QED BY <1>2, <1>3, <1>4, <1>5, <1>6 DEF IInv, Inv, OwnersInv, SizesInv

(* Every call counts itself. *)
LEMMA NextCalls == Next => calls < MaxCalls /\ calls' = calls + 1
BY DEF Next, Call, Wrap, Destroy, Clear, Create, Resize, SetCapacity, CreateFrom,
       CreateWith, CreateCopy, Assign, AppendFrom, AppendBuffer, Swap, CopyAssign

LEMMA NextInv == Inv /\ Next => Inv'
<1> SUFFICES ASSUME Inv, Next PROVE Inv'
  OBVIOUS
<1>1. PICK b \in Buffers :
        \/ Wrap(b) \/ Destroy(b) \/ Clear(b)
        \/ \E n \in Sizes :
             Create(b, n) \/ \E keep \in BOOLEAN : Resize(b, n, keep) \/ SetCapacity(b, n, keep)
        \/ \E s \in Sources : CreateFrom(b, s) \/ Assign(b, s) \/ AppendFrom(b, s)
        \/ \E other \in Buffers :
             \/ CreateCopy(b, other) \/ AppendBuffer(b, other)
             \/ Swap(b, other) \/ CopyAssign(b, other)
  BY DEF Next
<1>2. CASE Wrap(b) \/ Destroy(b) \/ Clear(b)
  BY <1>2, WrapInv, DestroyInv, ClearInv
<1>3. CASE \E n \in Sizes :
             Create(b, n) \/ \E keep \in BOOLEAN : Resize(b, n, keep) \/ SetCapacity(b, n, keep)
  BY <1>3, MemoryAssumption, CreateInv, ResizeInv, SetCapacityInv
<1>4. CASE \E s \in Sources : CreateFrom(b, s) \/ Assign(b, s) \/ AppendFrom(b, s)
  BY <1>4, SourcesAreContents, CreateWithInv, AssignInv, AppendFromInv DEF CreateFrom
<1>5. CASE \E other \in Buffers :
             \/ CreateCopy(b, other) \/ AppendBuffer(b, other)
             \/ Swap(b, other) \/ CopyAssign(b, other)
  BY <1>5, CreateCopyInv, AppendBufferInv, SwapInv, CopyAssignInv
<1>6. QED BY <1>1, <1>2, <1>3, <1>4, <1>5

LEMMA StutterInv == Inv /\ UNCHANGED vars => Inv'
BY DEF vars, historyVars, Inv, OwnersInv, SizesInv, OwnersOK, OwnersAreSound,
       DeletesAreValid, ContentsOK, SizesInside, InUseIsAllocated, ValuesFit, Live

(* The invariant is inductive: every operation of Buffer.h keeps it. *)
THEOREM Invariance == Spec => []IInv
<1>1. IInv /\ [Next]_vars => IInv'
  <2> SUFFICES ASSUME IInv, [Next]_vars PROVE IInv'
    OBVIOUS
  <2>1. CASE Next
    BY <2>1, NextCalls, NextInv, MemoryAssumption DEF IInv
  <2>2. CASE UNCHANGED vars
    BY <2>2, StutterInv DEF IInv, vars
  <2>3. QED BY <2>1, <2>2
<1>2. QED BY InitIInv, <1>1, PTL DEF Spec

(* The types of all variables. *)
THEOREM TypesAreRight == Spec => []TypeOK
<1>1. IInv => TypeOK
  BY DEF IInv, Inv, OwnersInv, SizesInv, ContentsOK, TypeOK
<1>2. QED BY Invariance, <1>1, PTL

(* Without an exchange between a buffer that owns and one that wraps every *)
(* live block has exactly one owner (Buffer.h:30-160, 208-215).            *)
THEOREM BlocksHaveOneOwner == Spec => []LiveBlocksHaveOneOwner
<1>1. IInv => LiveBlocksHaveOneOwner
  BY OwnersAgree DEF IInv, Inv, OwnersInv
<1>2. QED BY Invariance, <1>1, PTL

(* Nor is a block then deleted that is not live (Buffer.h:93-96, 120, 154).*)
THEOREM DeletesAreOfLiveBlocks == Spec => []DeletesAreValid
<1>1. IInv => DeletesAreValid
  BY DEF IInv, Inv, OwnersInv
<1>2. QED BY Invariance, <1>1, PTL

(* Capacities are those of the memory and hold what is in use, whatever    *)
(* was exchanged (Buffer.h:98-171).                                        *)
THEOREM SizesStayInside == Spec => []SizesInside
<1>1. IInv => SizesInside
  BY DEF IInv, Inv, SizesInv
<1>2. QED BY Invariance, <1>1, PTL
-------------------------------------------------------------------------------
(* What buffers hold.  A block is pointed to by one buffer, so that writing*)
(* through another leaves its elements, and begins with what was written.  *)

Covers(s, v) == \A i \in 1..Len(v) : v[i] # Junk => i <= Len(s) /\ s[i] = v[i]

PointersAreApart ==
  \A b, c \in Live : buffer[b].ptr \in Blocks /\ buffer[b].ptr = buffer[c].ptr => b = c

ValuesAreHeld ==
  \A b \in Live : buffer[b].ptr \in Blocks => Covers(memory[buffer[b].ptr], value[b])

HeldInv == PointersAreApart /\ ValuesAreHeld

LEMMA ContentCovers ==
  ASSUME Inv, HeldInv, NEW b \in Live
  PROVE  /\ buffer[b].ptr \in Blocks => Covers(Content(b), value[b])
         /\ Covers(Content(b), Known(b))
<1> DEFINE m == memory[buffer[b].ptr]
<1>1. /\ m \in Contents /\ Content(b) \in Contents /\ buffer[b].ptr \in Memory
      /\ value[b] \in Contents /\ Len(value[b]) = buffer[b].used
      /\ buffer[b].used \in Nat /\ Len(Content(b)) = buffer[b].used
      /\ buffer[b].used <= Len(m)
  BY LiveBuffers DEF Inv, SizesInv, SizesInside, Objects
<1>2. \A i \in 1..buffer[b].used : Content(b)[i] = m[i]
  BY <1>1, SubSeqProperties DEF Content, Prefix, Contents
<1>3. buffer[b].ptr \in Blocks => Covers(Content(b), value[b])
  BY <1>1, <1>2 DEF HeldInv, ValuesAreHeld, Covers
<1>4. Covers(Content(b), Content(b))
  BY <1>1 DEF Covers
<1>5. QED BY <1>1, <1>3, <1>4 DEF Known, Memory

LEMMA PrefixCovers ==
  ASSUME NEW s \in Contents, NEW v \in Contents, Len(s) = Len(v), Covers(s, v),
         NEW n \in 0..Len(v)
  PROVE  Covers(Prefix(s, n), Prefix(v, n))
<1>1. Len(v) \in Nat /\ Len(Prefix(s, n)) = n /\ Len(Prefix(v, n)) = n
  BY PrefixFits DEF Contents
<1>2. \A i \in 1..n : Prefix(s, n)[i] = s[i] /\ Prefix(v, n)[i] = v[i]
  BY <1>1, SubSeqProperties DEF Contents, Prefix
<1>3. QED BY <1>1, <1>2 DEF Covers

LEMMA HoldingCovers ==
  ASSUME NEW s \in Contents, NEW v \in Contents, Covers(s, v), NEW n \in Nat
  PROVE  /\ Len(v) <= n => Covers(Holding(s, n), v)
         /\ Covers(s, Holding(v, n))
<1>1. Len(s) \in Nat /\ Len(v) \in Nat /\ Len(Holding(s, n)) = n /\ Len(Holding(v, n)) = n
  <2>1. Len(s) \in Nat /\ Len(v) \in Nat
    BY DEF Contents
  <2>2. QED BY <2>1, HoldingFits
<1>2. /\ \A i \in 1..n : Holding(s, n)[i] = IF i <= Len(s) THEN s[i] ELSE Junk
      /\ \A i \in 1..n : Holding(v, n)[i] = IF i <= Len(v) THEN v[i] ELSE Junk
  BY DEF Holding
<1>3. Len(v) <= n => Covers(Holding(s, n), v)
  BY <1>1, <1>2 DEF Covers
<1>4. Covers(s, Holding(v, n))
  BY <1>1, <1>2 DEF Covers
<1>5. QED BY <1>3, <1>4

LEMMA AppendedCovers ==
  ASSUME NEW s \in Contents, NEW v \in Contents, Len(s) = Len(v), Covers(s, v),
         NEW t \in Contents, NEW w \in Contents, Len(t) = Len(w), Covers(t, w)
  PROVE  Covers(s \o t, v \o w)
<1>1. /\ Len(s \o t) = Len(v) + Len(w) /\ Len(v \o w) = Len(v) + Len(w)
      /\ Len(v) \in Nat /\ Len(w) \in Nat
  BY DEF Contents
<1>2. \A i \in 1..Len(v) + Len(w) :
        /\ (s \o t)[i] = IF i <= Len(v) THEN s[i] ELSE t[i - Len(v)]
        /\ (v \o w)[i] = IF i <= Len(v) THEN v[i] ELSE w[i - Len(v)]
  BY ConcatProperties DEF Contents
<1>3. \A i \in 1..Len(v) + Len(w) : ~(i <= Len(v)) => i - Len(v) \in 1..Len(w)
  BY <1>1
<1>4. QED BY <1>1, <1>2, <1>3 DEF Covers

LEMMA JunksCover ==
  ASSUME NEW s, NEW n \in Nat
  PROVE  Covers(s, Junks(n)) /\ Covers(s, <<>>)
BY DEF Covers, Junks

LEMMA ItselfCovers ==
  ASSUME NEW s \in Contents
  PROVE  Covers(s, s)
BY DEF Covers, Contents

-------------------------------------------------------------------------------

LEMMA SameHeld ==
  Inv /\ HeldInv /\ UNCHANGED <<buffer, memory, value>> => HeldInv'
BY DEF HeldInv, PointersAreApart, ValuesAreHeld, Live

LEMMA NewHeld ==
  ASSUME Inv, HeldInv, NEW b \in Buffers, NEW p \in Unused,
         NEW capacity \in Nat, NEW used \in Nat,
         NEW s \in Contents, NEW v \in Contents, Covers(s, v),
         memory' = [memory EXCEPT ![p] = s],
         value' = [value EXCEPT ![b] = v],
         buffer' = [buffer EXCEPT ![b] = Owning(p, capacity, used)]
  PROVE  HeldInv'
<1>1. p \in Memory /\ p \in Blocks /\ heap[p] = "unused"
  BY DEF Unused, Memory
<1>2. /\ \A c \in Buffers \ {b} : buffer'[c] = buffer[c] /\ value'[c] = value[c]
      /\ buffer'[b].ptr = p /\ value'[b] = v
      /\ \A q \in Memory \ {p} : memory'[q] = memory[q]
      /\ memory'[p] = s
  BY <1>1 DEF Inv, SizesInv, OwnersOK, ContentsOK, Owning
<1>3. \A c \in Live : buffer[c].ptr \in Memory \ {p}
  BY <1>1, LiveBuffers DEF Inv, SizesInv, InUseIsAllocated, Objects
<1>4. PointersAreApart'
  BY <1>2, <1>3 DEF HeldInv, PointersAreApart, Live
<1>5. ValuesAreHeld'
  BY <1>2, <1>3 DEF HeldInv, ValuesAreHeld, Live
<1>6. QED BY <1>4, <1>5 DEF HeldInv

LEMMA MoveHeld ==
  ASSUME Inv, HeldInv, NEW b \in Live, NEW s \in Contents,
         NEW capacity \in Nat, NEW used \in Nat, used <= capacity,
         NEW v \in Contents, Len(v) = used,
         buffer[b].ptr \in Blocks => Covers(s, v),
         Move(b, s, capacity, used, v)
  PROVE  HeldInv'
<1>1. CASE ~MayDelete(buffer[b].ptr)
  BY <1>1, SameHeld DEF Move, Fails, historyVars
<1>2. CASE MayDelete(buffer[b].ptr)
  <2>1. PICK p \in Unused :
          /\ memory' = [memory EXCEPT ![p] = Holding(s, capacity)]
          /\ buffer' = [buffer EXCEPT ![b] = Owning(p, capacity, used)]
          /\ value' = [value EXCEPT ![b] = v]
    BY <1>2 DEF Move
  <2>2. Holding(s, capacity) \in Contents /\ Covers(Holding(s, capacity), v)
    BY <1>2, HoldingFits, HoldingCovers DEF MayDelete
  <2>3. b \in Buffers
    BY DEF Live
  <2>4. QED BY <2>1, <2>2, <2>3, NewHeld
<1>3. QED BY <1>1, <1>2

LEMMA PutHeld ==
  ASSUME Inv, HeldInv, NEW b \in Live, NEW s \in Contents, NEW used \in Nat,
         used <= buffer[b].capacity, NEW v \in Contents, Len(v) = used,
         buffer[b].ptr \in Blocks => Covers(s, v),
         Put(b, s, used, v)
  PROVE  HeldInv'
<1> DEFINE old == memory[buffer[b].ptr]
           new == [i \in DOMAIN old |-> IF i <= Len(s) THEN s[i] ELSE old[i]]
<1>1. /\ buffer[b] \in Objects /\ b \in Buffers /\ buffer[b].ptr \in Memory
      /\ buffer[b].capacity \in Nat /\ old \in Contents /\ buffer[b].capacity = Len(old)
  BY LiveBuffers DEF Inv, SizesInv, SizesInside, Objects
<1>2. /\ \A c \in Buffers \ {b} : buffer'[c] = buffer[c] /\ value'[c] = value[c]
      /\ buffer'[b].ptr = buffer[b].ptr /\ value'[b] = v
      /\ \A q \in Memory \ {buffer[b].ptr} : memory'[q] = memory[q]
      /\ memory'[buffer[b].ptr] = new
  BY <1>1 DEF Put, Inv, SizesInv, OwnersOK, ContentsOK, Objects
<1>3. buffer[b].ptr \in Blocks => Covers(new, v)
  <2>1. DOMAIN old = 1..Len(old) /\ Len(old) \in Nat /\ Len(s) \in Nat
    BY <1>1 DEF Contents
  <2>2. new \in Seq(Elements \cup {Junk}) /\ Len(new) = Len(old)
    <3>1. \A i \in 1..Len(old) : (IF i <= Len(s) THEN s[i] ELSE old[i]) \in Elements \cup {Junk}
      BY <1>1, <2>1 DEF Contents
    <3>2. new = [i \in 1..Len(old) |-> IF i <= Len(s) THEN s[i] ELSE old[i]]
      BY <2>1
    <3> HIDE DEF new
    <3>3. QED BY <2>1, <3>1, <3>2
  <2>3. \A i \in 1..Len(old) : i <= Len(s) => new[i] = s[i]
    BY <2>1
  <2> HIDE DEF new, old
  <2>4. QED BY <1>1, <2>1, <2>2, <2>3 DEF Covers
<1> HIDE DEF new, old
<1>4. \A c \in Buffers : buffer'[c].ptr = buffer[c].ptr
  BY <1>2
<1>5. \A c \in Buffers \ {b} : buffer'[c] # Nothing =>
        c \in Live /\ (buffer[c].ptr \in Blocks => buffer[c].ptr # buffer[b].ptr)
  BY <1>2 DEF HeldInv, PointersAreApart, Live
<1>6. \A c \in Live : buffer[c].ptr \in Memory
  BY LiveBuffers DEF Inv, Objects
<1>7. PointersAreApart'
  BY <1>4, <1>5 DEF HeldInv, PointersAreApart, Live
<1>8. ValuesAreHeld'
  BY <1>2, <1>3, <1>5, <1>6 DEF HeldInv, ValuesAreHeld, Live
<1>9. QED BY <1>7, <1>8 DEF HeldInv

LEMMA ResizeToHeld ==
  ASSUME Inv, HeldInv, NEW b \in Live, NEW n \in Nat,
         NEW s \in Contents, NEW v \in Contents, Len(v) = n,
         buffer[b].ptr \in Blocks => Covers(s, v), ResizeTo(b, n, s, v)
  PROVE  HeldInv'
<1>1. buffer[b].capacity \in Nat /\ n <= n
  BY LiveBuffers DEF Inv
<1>2. CASE n > buffer[b].capacity
  BY <1>1, <1>2, MoveHeld DEF ResizeTo
<1>3. CASE ~(n > buffer[b].capacity)
  BY <1>1, <1>3, PutHeld DEF ResizeTo
<1>4. QED BY <1>2, <1>3

LEMMA ThrowsHeld == Inv /\ HeldInv /\ Throws => HeldInv'
BY SameHeld DEF Throws, historyVars

LEMMA AppendedHeld ==
  ASSUME Inv, HeldInv, NEW b \in Live, NEW s \in Contents, NEW v \in Contents,
         Len(v) = Len(s), Covers(s, v), Appended(b, s, v)
  PROVE  HeldInv'
<1>1. /\ buffer[b].used + Len(s) \in Nat
      /\ Content(b) \in Contents /\ value[b] \in Contents
      /\ Len(Content(b)) = buffer[b].used /\ Len(value[b]) = buffer[b].used
      /\ Content(b) \o s \in Contents /\ value[b] \o v \in Contents
      /\ Len(value[b] \o v) = buffer[b].used + Len(s)
  BY LiveBuffers DEF Inv, Contents
<1>2. buffer[b].ptr \in Blocks => Covers(Content(b) \o s, value[b] \o v)
  BY <1>1, ContentCovers, AppendedCovers
<1>3. CASE s = <<>> \/ Wraps(b)
  BY <1>3, ThrowsHeld DEF Appended
<1>4. CASE ~(s = <<>> \/ Wraps(b))
  BY <1>1, <1>2, <1>4, ResizeToHeld DEF Appended
<1>5. QED BY <1>3, <1>4

-------------------------------------------------------------------------------

LEMMA CreateHeld ==
  ASSUME Inv, HeldInv, NEW b \in Buffers, NEW n \in Nat, Create(b, n)
  PROVE  HeldInv'
<1>1. PICK p \in Unused :
        /\ memory' = [memory EXCEPT ![p] = Junks(n)]
        /\ buffer' = [buffer EXCEPT ![b] = Owning(p, n, 0)]
  BY DEF Create
<1>2. value' = [value EXCEPT ![b] = <<>>] /\ Covers(Junks(n), <<>>)
  BY JunksCover DEF Create
<1>3. 0 \in Nat /\ Junks(n) \in Contents /\ <<>> \in Contents
  BY JunksFit, EmptyFits
<1>4. QED BY <1>1, <1>2, <1>3, NewHeld

LEMMA CreateWithHeld ==
  ASSUME Inv, HeldInv, NEW b \in Buffers, NEW s \in Contents, NEW v \in Contents,
         Covers(s, v), CreateWith(b, s, v)
  PROVE  HeldInv'
<1>1. PICK p \in Unused :
        /\ memory' = [memory EXCEPT ![p] = s]
        /\ buffer' = [buffer EXCEPT ![b] = Owning(p, Len(s), Len(s))]
  BY DEF CreateWith
<1>2. value' = [value EXCEPT ![b] = v] /\ Len(s) \in Nat
  BY DEF CreateWith, Contents
<1>3. QED BY <1>1, <1>2, NewHeld

LEMMA CreateCopyHeld ==
  ASSUME Inv, HeldInv, NEW b \in Buffers, NEW other \in Buffers, CreateCopy(b, other)
  PROVE  HeldInv'
BY LiveBuffers, ContentCovers, CreateWithHeld DEF CreateCopy, Inv

LEMMA WrapHeld ==
  ASSUME Inv, HeldInv, NEW b \in Buffers, Wrap(b)
  PROVE  HeldInv'
<1>1. /\ buffer'[b].ptr = ForeignBlock
      /\ \A c \in Buffers \ {b} : buffer'[c] = buffer[c] /\ value'[c] = value[c]
      /\ UNCHANGED memory
  BY DEF Wrap, Inv, SizesInv, OwnersOK, ContentsOK
<1>2. QED
  BY <1>1, MemoryAssumption DEF HeldInv, PointersAreApart, ValuesAreHeld, Live

LEMMA DestroyHeld ==
  ASSUME Inv, HeldInv, NEW b \in Buffers, Destroy(b)
  PROVE  HeldInv'
<1>1. CASE buffer[b].own /\ ~MayDelete(buffer[b].ptr)
  BY <1>1, SameHeld DEF Destroy, Fails, historyVars
<1>2. CASE ~(buffer[b].own /\ ~MayDelete(buffer[b].ptr))
  <2>1. /\ buffer'[b] = Nothing
        /\ \A c \in Buffers \ {b} : buffer'[c] = buffer[c] /\ value'[c] = value[c]
        /\ UNCHANGED memory
    BY <1>2 DEF Destroy, Inv, SizesInv, OwnersOK, ContentsOK
  <2>2. QED
    BY <2>1 DEF HeldInv, PointersAreApart, ValuesAreHeld, Live
<1>3. QED BY <1>1, <1>2

LEMMA KeptCovers ==
  ASSUME Inv, HeldInv, NEW b \in Live, NEW n \in Nat, buffer[b].ptr \in Blocks
  PROVE  Covers(Prefix(Content(b), Least(buffer[b].used, n)),
                Prefix(value[b], Least(buffer[b].used, n)))
<1>1. Least(buffer[b].used, n) \in 0..Len(value[b])
  BY LiveBuffers DEF Inv, Least
<1>2. QED BY <1>1, LiveBuffers, ContentCovers, PrefixCovers DEF Inv

LEMMA ResizeHeld ==
  ASSUME Inv, HeldInv, NEW b \in Buffers, NEW n \in Nat, NEW keep \in BOOLEAN,
         Resize(b, n, keep)
  PROVE  HeldInv'
<1> DEFINE least == Least(buffer[b].used, n)
           kept  == IF keep THEN Prefix(Content(b), least) ELSE <<>>
           v     == IF keep THEN Prefix(value[b], least) ELSE <<>>
<1>1. b \in Live
  BY DEF Resize
<1>2. /\ kept \in Contents /\ v \in Contents
      /\ Holding(v, n) \in Contents /\ Len(Holding(v, n)) = n
  BY <1>1, KeptFits, EmptyFits, HoldingFits
<1>3. buffer[b].ptr \in Blocks => Covers(kept, v)
  BY <1>1, KeptCovers, JunksCover
<1>4. buffer[b].ptr \in Blocks => Covers(kept, Holding(v, n))
  BY <1>2, <1>3, HoldingCovers
<1>5. CASE Wraps(b)
  BY <1>5, ThrowsHeld DEF Resize
<1>6. CASE ~Wraps(b)
  <2>1. ResizeTo(b, n, kept, Holding(v, n))
    BY <1>6 DEF Resize
  <2>2. QED BY <1>1, <1>2, <1>4, <2>1, ResizeToHeld
<1>7. QED BY <1>5, <1>6

LEMMA SetCapacityHeld ==
  ASSUME Inv, HeldInv, NEW b \in Buffers, NEW n \in Nat, NEW keep \in BOOLEAN,
         SetCapacity(b, n, keep)
  PROVE  HeldInv'
<1> DEFINE used == Least(buffer[b].used, n)
           v    == IF keep THEN Prefix(value[b], used) ELSE Junks(used)
           kept == IF keep THEN Prefix(Content(b), used) ELSE <<>>
<1>1. b \in Live
  BY DEF SetCapacity
<1>2. used \in Nat /\ used <= n
  BY <1>1, KeptFits
<1>3. kept \in Contents /\ v \in Contents /\ Len(v) = used
  BY <1>1, <1>2, KeptFits, EmptyFits, JunksFit
<1>4. buffer[b].ptr \in Blocks => Covers(kept, v)
  BY <1>1, <1>2, KeptCovers, JunksCover
<1>5. CASE Wraps(b) \/ n = buffer[b].capacity
  BY <1>5, ThrowsHeld DEF SetCapacity
<1>6. CASE ~(Wraps(b) \/ n = buffer[b].capacity)
  <2>1. Move(b, kept, n, used, v)
    BY <1>6 DEF SetCapacity
  <2>2. QED BY <1>1, <1>2, <1>3, <1>4, <2>1, MoveHeld
<1>7. QED BY <1>5, <1>6

LEMMA AssignHeld ==
  ASSUME Inv, HeldInv, NEW b \in Buffers, NEW s \in Contents, Assign(b, s)
  PROVE  HeldInv'
<1>1. b \in Live /\ Len(s) \in Nat /\ Covers(s, s)
  BY ItselfCovers DEF Assign, Contents
<1>2. CASE s = <<>> \/ (Wraps(b) /\ Len(s) > buffer[b].capacity)
  BY <1>2, ThrowsHeld DEF Assign
<1>3. CASE ~(s = <<>> \/ (Wraps(b) /\ Len(s) > buffer[b].capacity))
  BY <1>1, <1>3, ResizeToHeld DEF Assign
<1>4. QED BY <1>2, <1>3

LEMMA AppendFromHeld ==
  ASSUME Inv, HeldInv, NEW b \in Buffers, NEW s \in Contents, AppendFrom(b, s)
  PROVE  HeldInv'
BY AppendedHeld, ItselfCovers DEF AppendFrom

LEMMA AppendBufferHeld ==
  ASSUME Inv, HeldInv, NEW b \in Buffers, NEW other \in Buffers, AppendBuffer(b, other)
  PROVE  HeldInv'
<1>1. CASE ReadsDeleted(b, other)
  BY <1>1, SameHeld DEF AppendBuffer, Fails, historyVars
<1>2. CASE ~ReadsDeleted(b, other)
  BY <1>2, LiveBuffers, ContentCovers, AppendedHeld DEF AppendBuffer, Inv
<1>3. QED BY <1>1, <1>2

LEMMA SwapHeld ==
  ASSUME Inv, HeldInv, NEW b \in Buffers, NEW other \in Buffers, Swap(b, other)
  PROVE  HeldInv'
<1>1. /\ b \in Live /\ other \in Live
      /\ buffer[b] \in Objects /\ buffer[other] \in Objects
  BY LiveBuffers DEF Swap, Inv
<1>2. /\ \A c \in Buffers \ {b, other} : buffer'[c] = buffer[c] /\ value'[c] = value[c]
      /\ buffer'[other].ptr = buffer[b].ptr /\ buffer'[b].ptr = buffer[other].ptr
      /\ value'[b] = value[other] /\ value'[other] = value[b]
      /\ UNCHANGED memory
  BY <1>1 DEF Swap, WithMemoryOf, Objects, Inv, OwnersInv, OwnersOK, SizesInv, ContentsOK
<1>3. QED
  BY <1>1, <1>2 DEF HeldInv, PointersAreApart, ValuesAreHeld, Live

LEMMA CopyAssignHeld ==
  ASSUME Inv, HeldInv, NEW b \in Buffers, NEW other \in Buffers, CopyAssign(b, other)
  PROVE  HeldInv'
<1>1. b \in Live /\ other \in Live
  BY DEF CopyAssign
<1>2. CASE Wraps(b) /\ ~MayDelete(buffer[b].ptr)
  BY <1>2, SameHeld DEF CopyAssign, Fails, historyVars
<1>3. CASE ~(Wraps(b) /\ ~MayDelete(buffer[b].ptr))
  <2> DEFINE used == buffer[other].used
  <2>1. Move(b, Content(other), used, used, Known(other))
    BY <1>3 DEF CopyAssign
  <2>2. /\ used \in Nat /\ used <= used /\ Content(other) \in Contents
        /\ Known(other) \in Contents /\ Len(Known(other)) = used
        /\ Covers(Content(other), Known(other))
    BY <1>1, LiveBuffers, ContentCovers DEF Inv
  <2>3. QED BY <1>1, <2>1, <2>2, MoveHeld
<1>4. QED BY <1>2, <1>3

LEMMA ClearHeld ==
  ASSUME Inv, HeldInv, NEW b \in Buffers, Clear(b)
  PROVE  HeldInv'
<1> DEFINE zeros == [i \in 1..buffer[b].used |-> Zero]
<1>1. b \in Live /\ Put(b, zeros, buffer[b].used, zeros)
  BY DEF Clear
<1>2. buffer[b].used \in Nat /\ buffer[b].used <= buffer[b].capacity
  BY <1>1, LiveBuffers DEF Inv, SizesInv, SizesInside
<1>3. zeros \in Contents /\ Len(zeros) = buffer[b].used /\ Covers(zeros, zeros)
  BY <1>2, MemoryAssumption, ItselfCovers DEF Contents
<1>4. QED BY <1>1, <1>2, <1>3, PutHeld

LEMMA NextHeld == Inv /\ HeldInv /\ Next => HeldInv'
<1> SUFFICES ASSUME Inv, HeldInv, Next PROVE HeldInv'
  OBVIOUS
<1>1. PICK b \in Buffers :
        \/ Wrap(b) \/ Destroy(b) \/ Clear(b)
        \/ \E n \in Sizes :
             Create(b, n) \/ \E keep \in BOOLEAN : Resize(b, n, keep) \/ SetCapacity(b, n, keep)
        \/ \E s \in Sources : CreateFrom(b, s) \/ Assign(b, s) \/ AppendFrom(b, s)
        \/ \E other \in Buffers :
             \/ CreateCopy(b, other) \/ AppendBuffer(b, other)
             \/ Swap(b, other) \/ CopyAssign(b, other)
  BY DEF Next
<1>2. CASE Wrap(b) \/ Destroy(b) \/ Clear(b)
  BY <1>2, WrapHeld, DestroyHeld, ClearHeld
<1>3. CASE \E n \in Sizes :
             Create(b, n) \/ \E keep \in BOOLEAN : Resize(b, n, keep) \/ SetCapacity(b, n, keep)
  BY <1>3, MemoryAssumption, CreateHeld, ResizeHeld, SetCapacityHeld
<1>4. CASE \E s \in Sources : CreateFrom(b, s) \/ Assign(b, s) \/ AppendFrom(b, s)
  BY <1>4, SourcesAreContents, CreateWithHeld, ItselfCovers, AssignHeld, AppendFromHeld
     DEF CreateFrom
<1>5. CASE \E other \in Buffers :
             \/ CreateCopy(b, other) \/ AppendBuffer(b, other)
             \/ Swap(b, other) \/ CopyAssign(b, other)
  BY <1>5, CreateCopyHeld, AppendBufferHeld, SwapHeld, CopyAssignHeld
<1>6. QED BY <1>1, <1>2, <1>3, <1>4, <1>5

(* A buffer with memory of its own holds what was assigned, appended and   *)
(* kept, whatever is done to the others (Buffer.h:98-194).                 *)
THEOREM ContentsAreKept == Spec => []ContentIsKept
<1>1. Init => HeldInv
  BY DEF Init, HeldInv, PointersAreApart, ValuesAreHeld, Live
<1>2. IInv /\ HeldInv /\ [Next]_vars => HeldInv'
  BY NextHeld, SameHeld DEF IInv, vars, historyVars
<1>3. IInv /\ HeldInv => ContentIsKept
  <2> SUFFICES ASSUME IInv, HeldInv, NEW b \in Live, buffer[b].ptr \in Blocks
               PROVE  /\ Len(value[b]) = buffer[b].used
                      /\ \A i \in DOMAIN value[b] :
                           value[b][i] # Junk => Content(b)[i] = value[b][i]
    BY DEF ContentIsKept
  <2>1. /\ value[b] \in Contents /\ Len(value[b]) = buffer[b].used
        /\ Covers(Content(b), value[b])
    BY LiveBuffers, ContentCovers DEF IInv, Inv
  <2>2. QED BY <2>1 DEF Covers, Contents
<1>4. QED BY Invariance, <1>1, <1>2, <1>3, PTL DEF Spec
===============================================================================
