---------------------------- MODULE ClassLibProofs ----------------------------
(***************************************************************************)
(* What ClassLib promises, for any number of classes, of bases, of calls   *)
(* and of values.                                                          *)
(*                                                                         *)
(* An object is a path of classes, and every base is older than its heir:  *)
(* what is shown for an object whenever it holds for its base objects      *)
(* holds for all (AllObjects).  So the fields, the sources and the objects *)
(* themselves, which the model takes from recursive functions, unfold.     *)
(*                                                                         *)
(* Construction: the calls of __init on the stack are for classes that     *)
(* descend, no object is there twice, and what is initialized has base     *)
(* objects that are (ConstructionOK).                                      *)
(*                                                                         *)
(* Attributes: unless an assignment came too late, what a class inherited  *)
(* its bases still offer, from where it says, and what it did not inherit  *)
(* they lack or disagree about (HeirsOK).  NewClass establishes this,      *)
(* since a base it finds redefined is cancelled before an origin in it can *)
(* be compared; an assignment in time changes neither origin nor kind.     *)
(***************************************************************************)
EXTENDS ClassLib, SequenceTheorems, WellFoundedInduction, TLAPS

(* Induction, for a set of numbers. *)
LEMMA AllNumbers ==
  ASSUME NEW N, N \subseteq Nat, 0 \in N, \A n \in N : n + 1 \in N
  PROVE  N = Nat
<1> DEFINE R == OpToRel(<, Nat)
           T == Nat \ N
<1>1. \A x, y \in Nat : <<x, y>> \in R <=> x < y
  BY DEF OpToRel
<1>2. IsWellFoundedOn(R, Nat)
  BY NatLessThanWellFounded
<1> HIDE DEF R
<1>3. SUFFICES ASSUME T # {} PROVE FALSE
  OBVIOUS
<1>4. PICK k \in T : \A j \in T : ~(<<j, k>> \in R)
  BY <1>2, <1>3, WFMin
<1>5. k \in Nat /\ k \notin N /\ k # 0 /\ k - 1 \in Nat /\ k - 1 < k /\ (k - 1) + 1 = k
  BY <1>4
<1>6. <<k - 1, k>> \in R
  BY <1>1, <1>5
<1>7. k - 1 \in N
  BY <1>4, <1>5, <1>6
<1>8. QED BY <1>5, <1>7

-------------------------------------------------------------------------------
(* Objects and their base objects. *)

(* Every base of a class was created before it. *)
Derived ==
  /\ bases \in Seq(Seq(Nat))
  /\ \A c \in Classes : \A i \in DOMAIN bases[c] : bases[c][i] \in 1..(c - 1)

IsObject(o) == o \in Seq(Classes) /\ o # <<>>

LEMMA BasesAreOlder ==
  ASSUME Derived, NEW c \in Classes
  PROVE  c \in Nat /\ Len(bases) \in Nat /\ c <= Len(bases) /\ c # 0
         /\ \A b \in Bases(c) : b \in Classes /\ b \in Nat /\ b < c
<1>1. Len(bases) \in Nat /\ Classes = 1..Len(bases)
  BY DEF Derived, Classes
<1>2. ASSUME NEW b \in Bases(c) PROVE b \in 1..(c - 1)
  <2>1. PICK i \in DOMAIN bases[c] : b = bases[c][i]
    BY <1>2 DEF Bases, Range
  <2>2. QED BY <2>1 DEF Derived
<1>3. QED BY <1>1, <1>2

LEMMA ObjectHasClass ==
  ASSUME Derived, NEW o, IsObject(o)
  PROVE  ClassOf(o) \in Classes /\ ClassOf(o) \in Nat /\ ClassOf(o) <= Len(bases)
         /\ ClassOf(o) # 0 /\ Len(bases) \in Nat
<1>1. Len(o) \in Nat /\ Len(o) # 0 /\ Len(o) \in 1..Len(o) /\ \A i \in 1..Len(o) : o[i] \in Classes
  BY EmptySeq, LenProperties, ElementOfSeq DEF IsObject
<1>2. ClassOf(o) \in Classes
  BY <1>1 DEF ClassOf, Last
<1>3. QED BY <1>2, BasesAreOlder

LEMMA OneClassObject ==
  ASSUME Derived, NEW c \in Classes
  PROVE  IsObject(<<c>>) /\ ClassOf(<<c>>) = c
BY DEF IsObject, ClassOf, Last

LEMMA ChildFits ==
  ASSUME Derived, NEW o, IsObject(o), NEW b \in Bases(ClassOf(o))
  PROVE  /\ IsObject(Child(o, b)) /\ ClassOf(Child(o, b)) = b
         /\ b \in Classes /\ b \in Nat /\ b < ClassOf(o)
         /\ Child(o, b) \in Children(o)
         /\ b \in sharing[ClassOf(o)] <=> Child(o, b) = <<b>>
<1>1. b \in Classes /\ b \in Nat /\ b < ClassOf(o)
  BY ObjectHasClass, BasesAreOlder
<1>2. /\ Append(o, b) \in Seq(Classes) /\ Len(Append(o, b)) = Len(o) + 1
      /\ Append(o, b)[Len(o) + 1] = b /\ Len(o) \in Nat /\ Len(o) # 0
  BY <1>1, AppendProperties, EmptySeq, LenProperties DEF IsObject
<1>3. Append(o, b) # <<>> /\ Append(o, b) # <<b>>
  <2>1. Len(<<>>) = 0 /\ Len(<<b>>) = 1 /\ Len(o) + 1 # 0 /\ Len(o) + 1 # 1
    BY <1>2
  <2>2. QED BY <1>2, <2>1
<1>4. IsObject(Append(o, b)) /\ ClassOf(Append(o, b)) = b
  BY <1>2, <1>3 DEF IsObject, ClassOf, Last
<1>5. IsObject(<<b>>) /\ ClassOf(<<b>>) = b
  BY <1>1, OneClassObject
<1>6. Child(o, b) \in Children(o)
  BY DEF Children
<1>7. QED BY <1>1, <1>3, <1>4, <1>5, <1>6 DEF Child

LEMMA ChildIsOfBase ==
  ASSUME Derived, NEW o, IsObject(o), NEW q \in Children(o)
  PROVE  /\ ClassOf(q) \in Bases(ClassOf(o)) /\ q = Child(o, ClassOf(q))
         /\ IsObject(q) /\ ClassOf(q) < ClassOf(o)
<1>1. PICK b \in Bases(ClassOf(o)) : q = Child(o, b)
  BY DEF Children
<1>2. QED BY <1>1, ChildFits

-------------------------------------------------------------------------------
(* Objects(o) is the least set with o and the base objects of its members. *)

\* S is closed: it holds the base objects of its objects.
Closed(S) == \A p \in S : IsObject(p) /\ Children(p) \subseteq S

\* What is n steps below o, when f gives what is fewer steps below.
Level(o, f, n) == IF n = 0 THEN {o} ELSE UNION {Children(p) : p \in f[n - 1]}
AreLevelsTo(o, f, k) == f = [n \in 0..k |-> Level(o, f, n)]
AreLevels(o, f) == AreLevelsTo(o, f, Len(bases))

LEMMA LevelsExist ==
  ASSUME NEW o, Derived
  PROVE  \E f : AreLevels(o, f)
<1> DEFINE N == {k \in Nat : \E f : AreLevelsTo(o, f, k)}
<1>1. 0 \in N
  <2> DEFINE f == [n \in 0..0 |-> {o}]
  <2>1. \A n \in 0..0 : Level(o, f, n) = {o}
    BY DEF Level
  <2>2. f = [n \in 0..0 |-> Level(o, f, n)]
    BY <2>1
  <2>3. QED BY <2>2 DEF AreLevelsTo
<1>2. ASSUME NEW k \in N PROVE k + 1 \in N
  <2>1. PICK f : AreLevelsTo(o, f, k)
    OBVIOUS
  <2> DEFINE g == [n \in 0..(k + 1) |-> Level(o, f, n)]
  <2>2. \A n \in 0..k : g[n] = f[n]
    <3>1. \A n \in 0..k : f[n] = Level(o, f, n)
      BY <2>1 DEF AreLevelsTo
    <3>2. \A n \in 0..k : n \in 0..(k + 1)
      OBVIOUS
    <3>3. QED BY <3>1, <3>2
  <2>3. \A n \in 0..(k + 1) : n # 0 => n - 1 \in 0..k
    OBVIOUS
  <2>4. \A n \in 0..(k + 1) : Level(o, f, n) = Level(o, g, n)
    <3> HIDE DEF g
    <3>1. QED BY <2>2, <2>3 DEF Level
  <2>5. \A n \in 0..(k + 1) : g[n] = Level(o, g, n)
    BY <2>4
  <2>6. AreLevelsTo(o, g, k + 1)
    BY <2>5 DEF AreLevelsTo
  <2> HIDE DEF g
  <2>7. k + 1 \in Nat /\ \E h : AreLevelsTo(o, h, k + 1)
    BY <2>6
  <2>8. QED BY <2>7
<1>3. N = Nat
  <2>1. N \subseteq Nat
    OBVIOUS
  <2> HIDE DEF N
  <2>2. QED BY <1>1, <1>2, <2>1, AllNumbers
<1>4. Len(bases) \in Nat
  BY DEF Derived
<1>5. QED BY <1>3, <1>4 DEF AreLevels

LEMMA LevelsAre ==
  ASSUME NEW o, NEW f, AreLevels(o, f)
  PROVE  /\ 0 \in 0..Len(bases) => f[0] = {o}
         /\ \A n \in 0..Len(bases) : n # 0 => f[n] = UNION {Children(p) : p \in f[n - 1]}
BY DEF AreLevels, AreLevelsTo, Level

LEMMA ObjectsAre ==
  ASSUME NEW o, Derived
  PROVE  \E f : AreLevels(o, f) /\ Objects(o) = UNION {f[n] : n \in 0..Len(bases)}
<1> DEFINE level[n \in 0..Len(bases)] ==
        IF n = 0 THEN {o} ELSE UNION {Children(p) : p \in level[n - 1]}
<1>1. level = CHOOSE f : AreLevels(o, f)
  BY DEF AreLevels, AreLevelsTo, Level
<1>2. Objects(o) = UNION {level[n] : n \in 0..Len(bases)}
  BY DEF Objects
<1> HIDE DEF level
<1>3. AreLevels(o, level)
  BY <1>1, LevelsExist
<1>4. QED BY <1>2, <1>3

LEMMA LevelsSink ==
  ASSUME NEW o, IsObject(o), Derived, NEW f, AreLevels(o, f)
  PROVE  \A n \in 0..Len(bases) : \A p \in f[n] : IsObject(p) /\ ClassOf(p) + n <= ClassOf(o)
<1> DEFINE N == {n \in Nat : n <= Len(bases) =>
                   \A p \in f[n] : IsObject(p) /\ ClassOf(p) + n <= ClassOf(o)}
<1>1. 0 \in N
  BY ObjectHasClass, LevelsAre
<1>2. ASSUME NEW n \in N PROVE n + 1 \in N
  <2>1. SUFFICES ASSUME n + 1 <= Len(bases), NEW p \in f[n + 1]
                 PROVE  IsObject(p) /\ ClassOf(p) + (n + 1) <= ClassOf(o)
    OBVIOUS
  <2>2. n \in Nat /\ n + 1 \in 0..Len(bases) /\ n + 1 # 0 /\ (n + 1) - 1 = n /\ n <= Len(bases)
    BY <2>1, ObjectHasClass
  <2>3. f[n + 1] = UNION {Children(q) : q \in f[n]}
    BY <2>2, LevelsAre
  <2>4. PICK q \in f[n] : p \in Children(q)
    BY <2>1, <2>3
  <2>5. IsObject(q) /\ ClassOf(q) + n <= ClassOf(o)
    BY <2>2, <2>4
  <2>6. IsObject(p) /\ ClassOf(p) < ClassOf(q)
    BY <2>4, <2>5, ChildIsOfBase
  <2>7. ClassOf(p) \in Nat /\ ClassOf(q) \in Nat /\ ClassOf(o) \in Nat
    BY <2>5, <2>6, ObjectHasClass
  <2>8. QED BY <2>2, <2>5, <2>6, <2>7
<1>3. N = Nat
  <2>1. N \subseteq Nat
    OBVIOUS
  <2> HIDE DEF N
  <2>2. QED BY <1>1, <1>2, <2>1, AllNumbers
<1>4. \A n \in 0..Len(bases) : n \in Nat /\ n <= Len(bases)
  BY ObjectHasClass
<1>5. QED BY <1>3, <1>4

LEMMA ObjectsAreClosed ==
  ASSUME NEW o, IsObject(o), Derived
  PROVE  o \in Objects(o) /\ Closed(Objects(o))
         /\ \A p \in Objects(o) : p = o \/ ClassOf(p) < ClassOf(o)
<1>1. PICK f : AreLevels(o, f) /\ Objects(o) = UNION {f[n] : n \in 0..Len(bases)}
  BY ObjectsAre
<1>2. Len(bases) \in Nat /\ 0 \in 0..Len(bases)
  BY ObjectHasClass
<1>3. f[0] = {o}
  BY <1>1, <1>2, LevelsAre
<1>4. o \in Objects(o)
  BY <1>1, <1>2, <1>3
<1>5. ASSUME NEW p \in Objects(o)
      PROVE  /\ IsObject(p) /\ Children(p) \subseteq Objects(o)
             /\ p = o \/ ClassOf(p) < ClassOf(o)
  <2>1. PICK n \in 0..Len(bases) : p \in f[n]
    BY <1>1
  <2>2. IsObject(p) /\ ClassOf(p) + n <= ClassOf(o)
    BY <1>1, <2>1, LevelsSink
  <2>3. n \in Nat /\ ClassOf(p) \in Nat /\ ClassOf(p) # 0 /\ ClassOf(o) \in Nat /\ ClassOf(o) <= Len(bases)
    BY <1>2, <2>2, ObjectHasClass
  <2>4. n + 1 \in 0..Len(bases) /\ n + 1 # 0 /\ (n + 1) - 1 = n
    BY <1>2, <2>2, <2>3
  <2>5. f[n + 1] = UNION {Children(q) : q \in f[n]}
    BY <1>1, <2>4, LevelsAre
  <2>6. Children(p) \subseteq Objects(o)
    BY <1>1, <2>1, <2>4, <2>5
  <2>7. p = o \/ ClassOf(p) < ClassOf(o)
    <3>1. CASE n = 0
      BY <1>3, <2>1, <3>1
    <3>2. CASE n # 0
      BY <2>2, <2>3, <3>2
    <3>3. QED BY <3>1, <3>2
  <2>8. QED BY <2>2, <2>6, <2>7
<1>6. QED BY <1>4, <1>5 DEF Closed

LEMMA ObjectsAreLeast ==
  ASSUME NEW o, Derived, NEW S, o \in S, Closed(S)
  PROVE  Objects(o) \subseteq S
<1>1. PICK f : AreLevels(o, f) /\ Objects(o) = UNION {f[n] : n \in 0..Len(bases)}
  BY ObjectsAre
<1> DEFINE N == {n \in Nat : n <= Len(bases) => f[n] \subseteq S}
<1>2. Len(bases) \in Nat
  BY DEF Derived
<1>3. 0 \in N
  BY <1>1, <1>2, LevelsAre
<1>4. ASSUME NEW n \in N PROVE n + 1 \in N
  <2>1. SUFFICES ASSUME n + 1 <= Len(bases) PROVE f[n + 1] \subseteq S
    OBVIOUS
  <2>2. n \in Nat /\ n + 1 \in 0..Len(bases) /\ n + 1 # 0 /\ (n + 1) - 1 = n /\ n <= Len(bases)
    BY <1>2, <2>1
  <2>3. f[n + 1] = UNION {Children(q) : q \in f[n]}
    BY <1>1, <2>2, LevelsAre
  <2>4. f[n] \subseteq S
    BY <2>2
  <2>5. QED BY <2>3, <2>4 DEF Closed
<1>5. N = Nat
  <2>1. N \subseteq Nat
    OBVIOUS
  <2> HIDE DEF N
  <2>2. QED BY <1>3, <1>4, <2>1, AllNumbers
<1>6. \A n \in 0..Len(bases) : f[n] \subseteq S
  BY <1>2, <1>5
<1>7. QED BY <1>1, <1>6

LEMMA ObjectsNest ==
  ASSUME NEW o, IsObject(o), Derived, NEW p \in Objects(o)
  PROVE  IsObject(p) /\ Objects(p) \subseteq Objects(o)
<1>1. Closed(Objects(o))
  BY ObjectsAreClosed
<1>2. QED BY <1>1, ObjectsAreLeast DEF Closed

-------------------------------------------------------------------------------
(* Induction over the objects an object is made of. *)

LEMMA AllObjects ==
  ASSUME Derived, NEW S, Closed(S), NEW T,
         \A p \in S : Children(p) \subseteq T => p \in T
  PROVE  S \subseteq T
<1> DEFINE N == {n \in Nat : \A p \in S : ClassOf(p) <= n => p \in T}
<1>1. \A p \in S : ClassOf(p) \in Nat /\ ClassOf(p) # 0
  BY ObjectHasClass DEF Closed
<1>2. 0 \in N
  BY <1>1
<1>3. ASSUME NEW n \in N PROVE n + 1 \in N
  <2>1. SUFFICES ASSUME NEW p \in S, ClassOf(p) <= n + 1 PROVE p \in T
    OBVIOUS
  <2>2. ASSUME NEW q \in Children(p) PROVE q \in T
    <3>1. q \in S /\ ClassOf(q) < ClassOf(p)
      BY ChildIsOfBase DEF Closed
    <3>2. ClassOf(q) <= n /\ n \in Nat
      BY <1>1, <2>1, <3>1
    <3>3. QED BY <3>1, <3>2
  <2>3. QED BY <2>1, <2>2
<1>4. N = Nat
  <2>1. N \subseteq Nat
    OBVIOUS
  <2> HIDE DEF N
  <2>2. QED BY <1>2, <1>3, <2>1, AllNumbers
<1>5. QED BY <1>1, <1>4

LEMMA ClassesOfObjects ==
  ASSUME Derived, NEW o, IsObject(o), NEW p \in Objects(o)
  PROVE  /\ IsObject(p) /\ ClassOf(p) \in Nat /\ ClassOf(p) # 0 /\ ClassOf(p) <= Len(bases)
         /\ Len(bases) \in Nat
         /\ \A q \in Children(p) : q \in Objects(o) /\ ClassOf(q) \in Nat /\ ClassOf(q) < ClassOf(p)
<1>1. IsObject(p) /\ Children(p) \subseteq Objects(o)
  BY ObjectsAreClosed DEF Closed
<1>2. QED BY <1>1, ChildIsOfBase, ObjectHasClass

\* The objects below o of the first k classes.
UpTo(o, k) == {p \in Objects(o) : ClassOf(p) <= k}

LEMMA SameFunctions ==
  ASSUME NEW S, NEW f, NEW g, f = [x \in S |-> f[x]], g = [x \in S |-> g[x]],
         \A x \in S : f[x] = g[x]
  PROVE  f = g
OBVIOUS

-------------------------------------------------------------------------------
(* The fields of an object, from those of its base objects.                 *)

FieldsBelow(f, p) == [b \in Bases(ClassOf(p)) |-> f[Child(p, b)]]
FieldsAt(f, p) == FieldsOver(p, FieldsBelow(f, p))
AreFieldsTo(o, f, k) == f = [p \in UpTo(o, k) |-> FieldsAt(f, p)]
AreFields(o, f) == f = [p \in Objects(o) |-> FieldsAt(f, p)]

LEMMA FieldsAtSame ==
  ASSUME NEW p, NEW f, NEW g, \A q \in Children(p) : f[q] = g[q]
  PROVE  FieldsAt(f, p) = FieldsAt(g, p)
<1> DEFINE x == FieldsBelow(f, p)
           y == FieldsBelow(g, p)
<1>1. \A b \in Bases(ClassOf(p)) : x[b] = y[b]
  BY DEF FieldsBelow, Children
<1>2. x = [b \in Bases(ClassOf(p)) |-> x[b]] /\ y = [b \in Bases(ClassOf(p)) |-> y[b]]
  BY DEF FieldsBelow
<1> HIDE DEF x, y
<1>3. x = y
  BY <1>1, <1>2, SameFunctions
<1>4. QED BY <1>3 DEF x, y, FieldsAt

LEMMA FieldsExist ==
  ASSUME Derived, NEW o, IsObject(o)
  PROVE  \E f : AreFields(o, f)
<1> DEFINE N == {k \in Nat : \E f : AreFieldsTo(o, f, k)}
<1>1. 0 \in N
  <2> DEFINE f == [p \in {} |-> {}]
  <2>1. UpTo(o, 0) = {}
    BY ClassesOfObjects DEF UpTo
  <2>2. AreFieldsTo(o, f, 0)
    BY <2>1 DEF AreFieldsTo
  <2> HIDE DEF f
  <2>3. QED BY <2>2
<1>2. ASSUME NEW k \in N PROVE k + 1 \in N
  <2>1. PICK f : AreFieldsTo(o, f, k)
    OBVIOUS
  <2> DEFINE g == [p \in UpTo(o, k + 1) |-> FieldsAt(f, p)]
  <2>2. ASSUME NEW p \in UpTo(o, k + 1), NEW q \in Children(p) PROVE g[q] = f[q]
    <3>1. p \in Objects(o) /\ ClassOf(p) <= k + 1 /\ k \in Nat
      BY DEF UpTo
    <3>2. q \in Objects(o) /\ ClassOf(q) <= k /\ ClassOf(q) <= k + 1
      BY <3>1, ClassesOfObjects
    <3>3. q \in UpTo(o, k) /\ q \in UpTo(o, k + 1)
      BY <3>2 DEF UpTo
    <3>4. f[q] = FieldsAt(f, q)
      BY <2>1, <3>3 DEF AreFieldsTo
    <3>5. QED BY <3>3, <3>4
  <2>3. \A p \in UpTo(o, k + 1) : FieldsAt(f, p) = FieldsAt(g, p)
    <3> HIDE DEF g
    <3>1. QED BY <2>2, FieldsAtSame
  <2>4. \A p \in UpTo(o, k + 1) : g[p] = FieldsAt(g, p)
    BY <2>3
  <2>5. AreFieldsTo(o, g, k + 1)
    BY <2>4 DEF AreFieldsTo
  <2> HIDE DEF g
  <2>6. k + 1 \in Nat /\ \E h : AreFieldsTo(o, h, k + 1)
    BY <2>5
  <2>7. QED BY <2>6
<1>3. N = Nat
  <2>1. N \subseteq Nat
    OBVIOUS
  <2> HIDE DEF N
  <2>2. QED BY <1>1, <1>2, <2>1, AllNumbers
<1>4. Len(bases) \in Nat /\ UpTo(o, Len(bases)) = Objects(o)
  BY ObjectHasClass, ClassesOfObjects DEF UpTo
<1>5. PICK f : AreFieldsTo(o, f, Len(bases))
  BY <1>3, <1>4
<1>6. QED BY <1>4, <1>5 DEF AreFields, AreFieldsTo

LEMMA FieldsAreChosen ==
  ASSUME Derived, NEW o, IsObject(o)
  PROVE  \E f : AreFields(o, f) /\ Fields(o) = f[o]
<1> DEFINE fields[p \in Objects(o)] ==
             FieldsOver(p, [b \in Bases(ClassOf(p)) |-> fields[Child(p, b)]])
<1>1. fields = CHOOSE f : AreFields(o, f)
  BY DEF AreFields, FieldsAt, FieldsBelow
<1>2. Fields(o) = fields[o]
  BY DEF Fields
<1> HIDE DEF fields
<1>3. AreFields(o, fields)
  BY <1>1, FieldsExist
<1>4. QED BY <1>2, <1>3

LEMMA FieldsAgree ==
  ASSUME Derived, NEW o, IsObject(o), NEW q \in Objects(o), NEW f, NEW g,
         AreFields(o, f), AreFields(q, g)
  PROVE  f[q] = g[q]
<1> DEFINE T == {p \in Objects(q) : f[p] = g[p]}
<1>1. IsObject(q) /\ Objects(q) \subseteq Objects(o) /\ q \in Objects(q) /\ Closed(Objects(q))
  BY ObjectsNest, ObjectsAreClosed
<1>2. ASSUME NEW p \in Objects(q), Children(p) \subseteq T PROVE p \in T
  <2>1. f[p] = FieldsAt(f, p) /\ g[p] = FieldsAt(g, p)
    BY <1>1 DEF AreFields
  <2>2. \A r \in Children(p) : f[r] = g[r]
    BY <1>2
  <2>3. FieldsAt(f, p) = FieldsAt(g, p)
    BY <2>2, FieldsAtSame
  <2>4. QED BY <2>1, <2>3
<1>3. Objects(q) \subseteq T
  <2> HIDE DEF T
  <2>1. QED BY <1>1, <1>2, AllObjects
<1>4. QED BY <1>1, <1>3

LEMMA FieldsUnfold ==
  ASSUME Derived, NEW o, IsObject(o), NEW below,
         below = [b \in Bases(ClassOf(o)) |-> Fields(Child(o, b))]
  PROVE  Fields(o) = FieldsOver(o, below)
<1>1. PICK f : AreFields(o, f) /\ Fields(o) = f[o]
  BY FieldsAreChosen
<1>2. o \in Objects(o) /\ Closed(Objects(o))
  BY ObjectsAreClosed
<1>3. f[o] = FieldsOver(o, FieldsBelow(f, o))
  BY <1>1, <1>2 DEF AreFields, FieldsAt
<1>4. ASSUME NEW b \in Bases(ClassOf(o)) PROVE FieldsBelow(f, o)[b] = below[b]
  <2> DEFINE q == Child(o, b)
  <2>1. q \in Objects(o) /\ IsObject(q)
    BY <1>2, ChildFits DEF Closed
  <2> HIDE DEF q
  <2>2. PICK g : AreFields(q, g) /\ Fields(q) = g[q]
    BY <2>1, FieldsAreChosen
  <2>3. f[q] = g[q]
    BY <1>1, <2>1, <2>2, FieldsAgree
  <2>4. QED BY <2>2, <2>3 DEF q, FieldsBelow
<1>5. FieldsBelow(f, o) = [b \in Bases(ClassOf(o)) |-> FieldsBelow(f, o)[b]]
      /\ below = [b \in Bases(ClassOf(o)) |-> below[b]]
  BY DEF FieldsBelow
<1>6. FieldsBelow(f, o) = below
  BY <1>4, <1>5, SameFunctions
<1>7. QED BY <1>1, <1>3, <1>6

-------------------------------------------------------------------------------
(* Where an object has the attribute from, by way of its base objects.       *)

SourcesAt(f, p) ==
  IF attribute[ClassOf(p)] = Nil THEN {}
  ELSE IF Defines(ClassOf(p)) THEN {p}
  ELSE UNION {f[q] : q \in Children(p)}
AreSourcesTo(o, f, k) == f = [p \in UpTo(o, k) |-> SourcesAt(f, p)]
AreSources(o, f) == f = [p \in Objects(o) |-> SourcesAt(f, p)]

LEMMA SourcesAtSame ==
  ASSUME NEW p, NEW f, NEW g, \A q \in Children(p) : f[q] = g[q]
  PROVE  SourcesAt(f, p) = SourcesAt(g, p)
BY DEF SourcesAt

LEMMA SourcesExist ==
  ASSUME Derived, NEW o, IsObject(o)
  PROVE  \E f : AreSources(o, f)
<1> DEFINE N == {k \in Nat : \E f : AreSourcesTo(o, f, k)}
<1>1. 0 \in N
  <2> DEFINE f == [p \in {} |-> {}]
  <2>1. UpTo(o, 0) = {}
    BY ClassesOfObjects DEF UpTo
  <2>2. AreSourcesTo(o, f, 0)
    BY <2>1 DEF AreSourcesTo
  <2> HIDE DEF f
  <2>3. QED BY <2>2
<1>2. ASSUME NEW k \in N PROVE k + 1 \in N
  <2>1. PICK f : AreSourcesTo(o, f, k)
    OBVIOUS
  <2> DEFINE g == [p \in UpTo(o, k + 1) |-> SourcesAt(f, p)]
  <2>2. ASSUME NEW p \in UpTo(o, k + 1), NEW q \in Children(p) PROVE g[q] = f[q]
    <3>1. p \in Objects(o) /\ ClassOf(p) <= k + 1 /\ k \in Nat
      BY DEF UpTo
    <3>2. q \in Objects(o) /\ ClassOf(q) <= k /\ ClassOf(q) <= k + 1
      BY <3>1, ClassesOfObjects
    <3>3. q \in UpTo(o, k) /\ q \in UpTo(o, k + 1)
      BY <3>2 DEF UpTo
    <3>4. f[q] = SourcesAt(f, q)
      BY <2>1, <3>3 DEF AreSourcesTo
    <3>5. QED BY <3>3, <3>4
  <2>3. \A p \in UpTo(o, k + 1) : SourcesAt(f, p) = SourcesAt(g, p)
    <3> HIDE DEF g
    <3>1. QED BY <2>2, SourcesAtSame
  <2>4. \A p \in UpTo(o, k + 1) : g[p] = SourcesAt(g, p)
    BY <2>3
  <2>5. AreSourcesTo(o, g, k + 1)
    BY <2>4 DEF AreSourcesTo
  <2> HIDE DEF g
  <2>6. k + 1 \in Nat /\ \E h : AreSourcesTo(o, h, k + 1)
    BY <2>5
  <2>7. QED BY <2>6
<1>3. N = Nat
  <2>1. N \subseteq Nat
    OBVIOUS
  <2> HIDE DEF N
  <2>2. QED BY <1>1, <1>2, <2>1, AllNumbers
<1>4. Len(bases) \in Nat /\ UpTo(o, Len(bases)) = Objects(o)
  BY ObjectHasClass, ClassesOfObjects DEF UpTo
<1>5. PICK f : AreSourcesTo(o, f, Len(bases))
  BY <1>3, <1>4
<1>6. QED BY <1>4, <1>5 DEF AreSources, AreSourcesTo

LEMMA SourcesAreChosen ==
  ASSUME Derived, NEW o, IsObject(o)
  PROVE  \E f : AreSources(o, f) /\ Sources(o) = f[o]
<1> DEFINE sources[p \in Objects(o)] ==
             IF attribute[ClassOf(p)] = Nil THEN {}
             ELSE IF Defines(ClassOf(p)) THEN {p}
             ELSE UNION {sources[q] : q \in Children(p)}
<1>1. sources = CHOOSE f : AreSources(o, f)
  BY DEF AreSources, SourcesAt
<1>2. Sources(o) = sources[o]
  BY DEF Sources
<1> HIDE DEF sources
<1>3. AreSources(o, sources)
  BY <1>1, SourcesExist
<1>4. QED BY <1>2, <1>3

LEMMA SourcesAgree ==
  ASSUME Derived, NEW o, IsObject(o), NEW q \in Objects(o), NEW f, NEW g,
         AreSources(o, f), AreSources(q, g)
  PROVE  f[q] = g[q]
<1> DEFINE T == {p \in Objects(q) : f[p] = g[p]}
<1>1. IsObject(q) /\ Objects(q) \subseteq Objects(o) /\ q \in Objects(q) /\ Closed(Objects(q))
  BY ObjectsNest, ObjectsAreClosed
<1>2. ASSUME NEW p \in Objects(q), Children(p) \subseteq T PROVE p \in T
  <2>1. f[p] = SourcesAt(f, p) /\ g[p] = SourcesAt(g, p)
    BY <1>1 DEF AreSources
  <2>2. \A r \in Children(p) : f[r] = g[r]
    BY <1>2
  <2>3. SourcesAt(f, p) = SourcesAt(g, p)
    BY <2>2, SourcesAtSame
  <2>4. QED BY <2>1, <2>3
<1>3. Objects(q) \subseteq T
  <2> HIDE DEF T
  <2>1. QED BY <1>1, <1>2, AllObjects
<1>4. QED BY <1>1, <1>3

LEMMA SourcesUnfold ==
  ASSUME Derived, NEW o, IsObject(o)
  PROVE  Sources(o) = IF attribute[ClassOf(o)] = Nil THEN {}
                      ELSE IF Defines(ClassOf(o)) THEN {o} ELSE Offered(o)
<1>1. PICK f : AreSources(o, f) /\ Sources(o) = f[o]
  BY SourcesAreChosen
<1>2. o \in Objects(o) /\ Closed(Objects(o))
  BY ObjectsAreClosed
<1>3. f[o] = SourcesAt(f, o)
  BY <1>1, <1>2 DEF AreSources
<1>4. ASSUME NEW q \in Children(o) PROVE f[q] = Sources(q)
  <2>1. q \in Objects(o) /\ IsObject(q)
    BY <1>2, ChildIsOfBase DEF Closed
  <2>2. PICK g : AreSources(q, g) /\ Sources(q) = g[q]
    BY <2>1, SourcesAreChosen
  <2>3. QED BY <1>1, <2>1, <2>2, SourcesAgree
<1>5. UNION {f[q] : q \in Children(o)} = Offered(o)
  BY <1>4 DEF Offered
<1>6. QED BY <1>1, <1>3, <1>5 DEF SourcesAt

-------------------------------------------------------------------------------
(* What the fields of an object hold. *)

LEMMA FieldsOverIs ==
  ASSUME NEW o, NEW below, NEW fields, fields = FieldsOver(o, below)
  PROVE  /\ \A b \in Bases(ClassOf(o)) : b \in DOMAIN fields /\ fields[b] = Child(o, b)
         /\ \A c \in DOMAIN fields : c \notin Bases(ClassOf(o)) =>
              /\ \E b \in Bases(ClassOf(o)) : c \in DOMAIN below[b]
              /\ \A b \in Bases(ClassOf(o)) : c \in DOMAIN below[b] => fields[c] = below[b][c]
<1> DEFINE direct == Bases(ClassOf(o))
           offered(c) == {below[b][c] : b \in {d \in direct : c \in DOMAIN below[d]}}
           grand == UNION {DOMAIN below[b] : b \in direct}
           clear == {c \in grand \ direct : \A p, q \in offered(c) : p = q}
<1>1. fields = [c \in direct \cup clear |->
                  IF c \in direct THEN Child(o, c) ELSE CHOOSE p \in offered(c) : TRUE]
  BY DEF FieldsOver
<1>2. ASSUME NEW c \in clear
      PROVE  /\ c \notin direct /\ \E b \in direct : c \in DOMAIN below[b]
             /\ \A p, q \in offered(c) : p = q
  OBVIOUS
<1>3. ASSUME NEW c, NEW b \in direct, c \in DOMAIN below[b]
      PROVE  below[b][c] \in offered(c)
  BY <1>3
<1> HIDE DEF clear, offered, grand
<1>4. ASSUME NEW c \in DOMAIN fields, c \notin direct
      PROVE  /\ \E b \in direct : c \in DOMAIN below[b]
             /\ \A b \in direct : c \in DOMAIN below[b] => fields[c] = below[b][c]
  <2>1. c \in clear /\ fields[c] = CHOOSE p \in offered(c) : TRUE
    BY <1>1, <1>4
  <2>2. ASSUME NEW b \in direct, c \in DOMAIN below[b] PROVE fields[c] = below[b][c]
    <3>1. below[b][c] \in offered(c)
      BY <1>3, <2>2
    <3>2. fields[c] \in offered(c)
      BY <2>1, <3>1
    <3>3. QED BY <1>2, <2>1, <3>1, <3>2
  <2>3. QED BY <1>2, <2>1, <2>2
<1>5. QED BY <1>1, <1>4

\* The fields of p hold objects of S, and of classes older than its own.
FieldsFit(p, S) ==
  /\ \A b \in Bases(ClassOf(p)) : b \in DOMAIN Fields(p) /\ Fields(p)[b] = Child(p, b)
  /\ \A c \in DOMAIN Fields(p) :
       Fields(p)[c] \in S /\ ClassOf(Fields(p)[c]) \in Nat /\ ClassOf(Fields(p)[c]) < ClassOf(p)

LEMMA FieldsInside ==
  ASSUME Derived, NEW o, IsObject(o)
  PROVE  FieldsFit(o, Objects(o))
<1> DEFINE S == Objects(o)
           T == {p \in S : FieldsFit(p, S)}
<1>1. Closed(S) /\ o \in S
  BY ObjectsAreClosed
<1>2. ASSUME NEW p \in S, Children(p) \subseteq T PROVE p \in T
  <2> DEFINE below == [b \in Bases(ClassOf(p)) |-> Fields(Child(p, b))]
             fields == Fields(p)
  <2>1. IsObject(p) /\ ClassOf(p) \in Nat
    BY ClassesOfObjects
  <2>2. fields = FieldsOver(p, below)
    BY <2>1, FieldsUnfold
  <2>3. \A b \in Bases(ClassOf(p)) : below[b] = Fields(Child(p, b))
    OBVIOUS
  <2> HIDE DEF below, fields
  <2>4. /\ \A b \in Bases(ClassOf(p)) : b \in DOMAIN fields /\ fields[b] = Child(p, b)
        /\ \A c \in DOMAIN fields : c \notin Bases(ClassOf(p)) =>
              /\ \E b \in Bases(ClassOf(p)) : c \in DOMAIN below[b]
              /\ \A b \in Bases(ClassOf(p)) : c \in DOMAIN below[b] => fields[c] = below[b][c]
    BY <2>2, FieldsOverIs
  <2>5. ASSUME NEW b \in Bases(ClassOf(p))
        PROVE  /\ Child(p, b) \in S /\ ClassOf(Child(p, b)) \in Nat
               /\ ClassOf(Child(p, b)) < ClassOf(p) /\ FieldsFit(Child(p, b), S)
    <3>1. Child(p, b) \in Children(p)
      BY <2>1, ChildFits
    <3>2. QED BY <1>2, <3>1, ClassesOfObjects
  <2>6. ASSUME NEW c \in DOMAIN fields
        PROVE  fields[c] \in S /\ ClassOf(fields[c]) \in Nat /\ ClassOf(fields[c]) < ClassOf(p)
    <3>1. CASE c \in Bases(ClassOf(p))
      BY <2>4, <2>5, <3>1
    <3>2. CASE c \notin Bases(ClassOf(p))
      <4>1. PICK b \in Bases(ClassOf(p)) : c \in DOMAIN below[b] /\ fields[c] = below[b][c]
        BY <2>4, <3>2
      <4>2. below[b] = Fields(Child(p, b))
        BY <2>3
      <4>3. /\ fields[c] \in S /\ ClassOf(fields[c]) \in Nat
            /\ ClassOf(fields[c]) < ClassOf(Child(p, b))
        BY <2>5, <4>1, <4>2 DEF FieldsFit
      <4>4. QED BY <2>1, <2>5, <4>3
    <3>3. QED BY <3>1, <3>2
  <2>7. FieldsFit(p, S)
    BY <2>4, <2>6 DEF FieldsFit, fields
  <2>8. QED BY <2>7
<1>3. S \subseteq T
  <2> HIDE DEF T, S
  <2>1. QED BY <1>1, <1>2, AllObjects
<1>4. QED BY <1>1, <1>3

LEMMA FieldsStayIn ==
  ASSUME Derived, NEW S, Closed(S), NEW o \in S
  PROVE  FieldsFit(o, S)
<1>1. IsObject(o)
  BY DEF Closed
<1>2. Objects(o) \subseteq S
  BY ObjectsAreLeast
<1>3. FieldsFit(o, Objects(o))
  BY <1>1, FieldsInside
<1>4. QED BY <1>2, <1>3 DEF FieldsFit

-------------------------------------------------------------------------------
(* Construction.  The classes of the objects on the stack descend, so none *)
(* is there twice; what has run is initialized or on the stack, and what is *)
(* initialized has base objects that are.                                  *)

Calls == [object : Seq(Classes), at : Nat]

RunsOK ==
  /\ Closed(DOMAIN runs)
  /\ runs = [o \in DOMAIN runs |-> runs[o]]
  /\ \A o \in DOMAIN runs : runs[o] = 0 \/ runs[o] = 1

InitializedOK ==
  /\ initialized \subseteq DOMAIN runs
  /\ \A o \in initialized : runs[o] = 1 /\ Children(o) \subseteq initialized

StackFits(s, ini, r) ==
  /\ s \in Seq(Calls)
  /\ \A i \in 1..Len(s) :
       /\ s[i].object \in DOMAIN r
       /\ s[i].at >= 1 => r[s[i].object] = 1 /\ s[i].object \notin ini
  /\ \A i, j \in 1..Len(s) : i < j => ClassOf(s[j].object) < ClassOf(s[i].object)

MarksFit(s, ini, r) ==
  \A o \in DOMAIN r : r[o] = 1 =>
    o \in ini \/ \E i \in 1..Len(s) : s[i].object = o /\ s[i].at >= 1

\* Of a call that is at its bases, the ones before are initialized; the last
\* of them may be so only when the call above returns.
Base(o, m) == Child(o, bases[ClassOf(o)][m])
UnderWay(s, i, m) == m = s[i].at - 2 /\ i < Len(s) /\ s[i + 1].object = Base(s[i].object, m)
BasesFitAt(s, ini, i) ==
  s[i].at >= 2 =>
    /\ s[i].at <= Len(bases[ClassOf(s[i].object)]) + 2
    /\ \A m \in 1..(s[i].at - 2) : Base(s[i].object, m) \in ini \/ UnderWay(s, i, m)
BasesFit(s, ini) == \A i \in 1..Len(s) : BasesFitAt(s, ini, i)

BuiltOK == built # NoObject => stack = <<>> /\ built \in initialized

ConstructionOK ==
  /\ RunsOK /\ InitializedOK /\ BuiltOK
  /\ StackFits(stack, initialized, runs) /\ MarksFit(stack, initialized, runs)
  /\ BasesFit(stack, initialized)

LEMMA OnceFromConstruction ==
  ASSUME Derived, ConstructionOK
  PROVE  InitializedOnce
<1>1. \A o \in DOMAIN runs : runs[o] <= 1
  BY DEF ConstructionOK, RunsOK
<1>2. ASSUME built # NoObject, NEW o \in Objects(built) PROVE runs[o] = 1 /\ o \in initialized
  <2>1. built \in initialized /\ Closed(initialized)
    BY <1>2 DEF ConstructionOK, BuiltOK, InitializedOK, Closed, RunsOK
  <2>2. Objects(built) \subseteq initialized
    BY <2>1, ObjectsAreLeast
  <2>3. QED BY <2>2 DEF ConstructionOK, InitializedOK
<1>3. QED BY <1>1, <1>2 DEF InitializedOnce

LEMMA NothingConstructed ==
  ASSUME stack' = <<>>, initialized' = {}, runs' = <<>>, built' = NoObject
  PROVE  ConstructionOK'
<1>1. DOMAIN runs' = {} /\ Len(stack') = 0 /\ 1..Len(stack') = {} /\ stack' \in Seq(Calls')
  OBVIOUS
<1>2. RunsOK' /\ InitializedOK' /\ BuiltOK'
  <2>1. runs' = [o \in DOMAIN runs' |-> runs'[o]]
    OBVIOUS
  <2>2. QED BY <1>1, <2>1 DEF RunsOK, InitializedOK, BuiltOK, Closed
<1>3. /\ StackFits(stack, initialized, runs)' /\ MarksFit(stack, initialized, runs)'
      /\ BasesFit(stack, initialized)'
  BY <1>1 DEF StackFits, MarksFit, BasesFit
<1>4. QED BY <1>2, <1>3 DEF ConstructionOK

-------------------------------------------------------------------------------
(* The stack. *)

LEMMA FrontFits ==
  ASSUME NEW S, NEW s \in Seq(S), NEW k \in 0..Len(s)
  PROVE  /\ SubSeq(s, 1, k) \in Seq(S) /\ Len(SubSeq(s, 1, k)) = k
         /\ \A i \in 1..k : SubSeq(s, 1, k)[i] = s[i]
<1>1. Len(s) \in Nat /\ \A i \in 1..Len(s) : s[i] \in S
  OBVIOUS
<1>2. QED BY <1>1, SubSeqProperties

LEMMA StackTop ==
  ASSUME stack \in Seq(Calls), stack # <<>>
  PROVE  /\ Len(stack) \in Nat /\ Len(stack) >= 1 /\ Top = stack[Len(stack)] /\ Top \in Calls
         /\ Below \in Seq(Calls) /\ Len(Below) = Len(stack) - 1
         /\ \A i \in 1..(Len(stack) - 1) : Below[i] = stack[i]
<1>1. Len(stack) \in Nat /\ Len(stack) # 0 /\ Len(stack) \in 1..Len(stack)
  BY EmptySeq, LenProperties
<1>2. Top \in Calls
  BY <1>1, ElementOfSeq DEF Top
<1>3. 1 \in 1..(Len(stack) + 1) /\ Len(stack) - 1 \in 0..Len(stack) /\ Len(stack) - 1 \in Nat
  BY <1>1
<1>4. /\ Below \in Seq(Calls) /\ Len(Below) = Len(stack) - 1
      /\ \A i \in 1..(Len(stack) - 1) : Below[i] = stack[i]
  BY <1>3, FrontFits DEF Below
<1>5. QED BY <1>1, <1>2, <1>4 DEF Top

\* What At(k) makes of the stack.
Advanced(s, t, k) ==
  /\ t \in Seq(Calls) /\ Len(t) = Len(s)
  /\ \A i \in 1..(Len(s) - 1) : t[i] = s[i]
  /\ t[Len(s)].object = s[Len(s)].object /\ t[Len(s)].at = k

LEMMA AtAdvances ==
  ASSUME stack \in Seq(Calls), stack # <<>>, NEW k \in Nat
  PROVE  Advanced(stack, At(k), k)
<1> DEFINE top == [Top EXCEPT !.at = k]
<1>1. /\ Len(stack) \in Nat /\ Len(stack) >= 1 /\ Top = stack[Len(stack)] /\ Top \in Calls
      /\ Below \in Seq(Calls) /\ Len(Below) = Len(stack) - 1
      /\ \A i \in 1..(Len(stack) - 1) : Below[i] = stack[i]
  BY StackTop
<1>2. top \in Calls /\ top.object = Top.object /\ top.at = k
  BY <1>1 DEF Calls
<1>3. At(k) = Append(Below, top)
  BY DEF At
<1> HIDE DEF top
<1>4. /\ At(k) \in Seq(Calls) /\ Len(At(k)) = Len(Below) + 1 /\ At(k)[Len(Below) + 1] = top
      /\ \A i \in 1..Len(Below) : At(k)[i] = Below[i]
  BY <1>1, <1>2, <1>3, AppendProperties
<1>5. Len(Below) + 1 = Len(stack)
  BY <1>1
<1>6. QED BY <1>1, <1>2, <1>4, <1>5 DEF Advanced

\* What calling __init of o makes of the stack.
Called(s, t, o) ==
  /\ t \in Seq(Calls) /\ Len(t) = Len(s) + 1
  /\ \A i \in 1..Len(s) : t[i] = s[i]
  /\ t[Len(s) + 1].object = o /\ t[Len(s) + 1].at = 0

LEMMA CallIsPushed ==
  ASSUME NEW s \in Seq(Calls), NEW o \in Seq(Classes)
  PROVE  Called(s, Append(s, Call(o)), o)
<1>1. Call(o) \in Calls /\ Call(o).object = o /\ Call(o).at = 0
  BY DEF Call, Calls
<1>2. QED BY <1>1, AppendProperties DEF Called

LEMMA SameClasses ==
  ASSUME UNCHANGED classVars
  PROVE  /\ Classes' = Classes /\ Calls' = Calls /\ bases' = bases
         /\ \A o, b : Child(o, b)' = Child(o, b)
         /\ \A c : Bases(c)' = Bases(c)
         /\ \A o : Children(o)' = Children(o)
         /\ \A o : IsObject(o)' <=> IsObject(o)
<1>1. bases' = bases /\ sharing' = sharing
  BY DEF classVars
<1>2. Classes' = Classes
  BY <1>1 DEF Classes
<1>3. Calls' = Calls
  BY <1>2 DEF Calls
<1>4. \A o, b : Child(o, b)' = Child(o, b)
  BY <1>1 DEF Child
<1>5. \A c : Bases(c)' = Bases(c)
  BY <1>1 DEF Bases
<1>6. \A o : Children(o)' = Children(o)
  BY <1>4, <1>5 DEF Children
<1>7. \A o : IsObject(o)' <=> IsObject(o)
  BY <1>2 DEF IsObject
<1>8. QED BY <1>1, <1>2, <1>3, <1>4, <1>5, <1>6, <1>7


-------------------------------------------------------------------------------
(* How the stack may change. *)

Fits(s, ini, r) == StackFits(s, ini, r) /\ MarksFit(s, ini, r) /\ BasesFit(s, ini)

LEMMA SeqCalls ==
  ASSUME NEW s \in Seq(Calls)
  PROVE  Len(s) \in Nat /\ \A i \in 1..Len(s) : s[i] \in Calls /\ s[i].at \in Nat
<1>1. Len(s) \in Nat /\ \A i \in 1..Len(s) : s[i] \in Calls
  BY ElementOfSeq
<1>2. QED BY <1>1 DEF Calls

\* A call that has begun advances.
LEMMA AdvanceFits ==
  ASSUME NEW s, NEW t, NEW ini, NEW r, NEW k \in Nat, Advanced(s, t, k), k >= 1,
         StackFits(s, ini, r), MarksFit(s, ini, r), Len(s) >= 1, s[Len(s)].at >= 1
  PROVE  StackFits(t, ini, r) /\ MarksFit(t, ini, r)
<1> DEFINE n == Len(s)
<1>1. /\ t \in Seq(Calls) /\ Len(t) = n /\ n \in Nat /\ n \in 1..n
      /\ \A i \in 1..n : t[i].object = s[i].object /\ (t[i].at >= 1 <=> s[i].at >= 1)
  <2>1. n \in Nat /\ \A i \in 1..n : i \in 1..(n - 1) \/ i = n
    BY SeqCalls DEF StackFits
  <2>2. QED BY <2>1 DEF Advanced
<1> HIDE DEF n
<1>2. QED BY <1>1 DEF StackFits, MarksFit, n

\* A call begins on top of one of a younger class.
LEMMA PushFits ==
  ASSUME NEW s, NEW t, NEW ini, NEW r, NEW o \in DOMAIN r, Called(s, t, o), Closed(DOMAIN r), Derived,
         StackFits(s, ini, r), MarksFit(s, ini, r), Len(s) >= 1,
         ClassOf(o) < ClassOf(s[Len(s)].object)
  PROVE  StackFits(t, ini, r) /\ MarksFit(t, ini, r)
<1> DEFINE n == Len(s)
<1>1. /\ t \in Seq(Calls) /\ Len(t) = n + 1 /\ n \in Nat /\ n >= 1
      /\ \A i \in 1..n : t[i] = s[i]
      /\ t[n + 1].object = o /\ t[n + 1].at = 0
      /\ \A i \in 1..(n + 1) : i \in 1..n \/ i = n + 1
  BY SeqCalls DEF StackFits, Called
<1>2. \A i \in 1..n : s[i].object \in DOMAIN r /\ ClassOf(s[i].object) \in Nat
  BY ObjectHasClass DEF StackFits, Closed, n
<1>3. ClassOf(o) \in Nat
  BY ObjectHasClass DEF Closed
<1>4. \A i \in 1..n : ClassOf(o) < ClassOf(s[i].object)
  <2>1. ASSUME NEW i \in 1..n PROVE ClassOf(o) < ClassOf(s[i].object)
    <3>1. i = n \/ (i < n /\ ClassOf(s[n].object) < ClassOf(s[i].object))
      BY <1>1 DEF StackFits
    <3>2. n \in 1..n
      BY <1>1
    <3>3. QED BY <1>2, <1>3, <3>1, <3>2
  <2>2. QED BY <2>1
<1>5. StackFits(t, ini, r)
  <2>1. ASSUME NEW i \in 1..(n + 1)
        PROVE  /\ t[i].object \in DOMAIN r
               /\ t[i].at >= 1 => r[t[i].object] = 1 /\ t[i].object \notin ini
    <3>1. CASE i \in 1..n
      BY <1>1, <3>1 DEF StackFits
    <3>2. CASE i = n + 1
      BY <1>1, <3>2
    <3>3. QED BY <1>1, <3>1, <3>2
  <2>2. ASSUME NEW i \in 1..(n + 1), NEW j \in 1..(n + 1), i < j
        PROVE  ClassOf(t[j].object) < ClassOf(t[i].object)
    <3>1. i \in 1..n
      BY <1>1, <2>2
    <3>2. CASE j \in 1..n
      BY <1>1, <2>2, <3>1, <3>2 DEF StackFits
    <3>3. CASE j = n + 1
      BY <1>1, <1>4, <3>1, <3>3
    <3>4. QED BY <1>1, <3>2, <3>3
  <2>3. QED BY <1>1, <2>1, <2>2 DEF StackFits
<1>6. MarksFit(t, ini, r)
  <2>1. 1..n \subseteq 1..(n + 1)
    BY <1>1
  <2>2. QED BY <1>1, <2>1 DEF MarksFit
<1>7. QED BY <1>5, <1>6

\* What returning from the top call makes of the stack.
Popped(s, t) ==
  t \in Seq(Calls) /\ Len(t) = Len(s) - 1 /\ \A i \in 1..(Len(s) - 1) : t[i] = s[i]

\* A call returns when its object is initialized, before or by now.
LEMMA PopFits ==
  ASSUME NEW s, NEW t, NEW ini, NEW r, Popped(s, t), Len(s) >= 1, Fits(s, ini, r),
         Closed(DOMAIN r), Derived, NEW top, top = s[Len(s)].object
  PROVE  Fits(t, ini \cup {top}, r)
<1> DEFINE n == Len(s)
           new == ini \cup {top}
<1>1. /\ n \in Nat /\ n >= 1 /\ Len(t) = n - 1 /\ t \in Seq(Calls) /\ n \in 1..n
      /\ \A i \in 1..(n - 1) : t[i] = s[i] /\ i \in 1..n /\ i < n
      /\ \A i \in 1..n : i = n \/ i \in 1..(n - 1)
  BY SeqCalls DEF Fits, StackFits, Popped
<1>2. \A i \in 1..n : s[i].object \in DOMAIN r /\ ClassOf(s[i].object) \in Nat
  BY ObjectHasClass DEF Fits, StackFits, Closed, n
<1>3. \A i \in 1..(n - 1) : s[i].object # top
  <2>1. ASSUME NEW i \in 1..(n - 1) PROVE s[i].object # top
    <3>1. ClassOf(top) < ClassOf(s[i].object)
      BY <1>1 DEF Fits, StackFits
    <3>2. ClassOf(top) \in Nat
      BY <1>1, <1>2
    <3>3. QED BY <3>1, <3>2
  <2>2. QED BY <2>1
<1>4. StackFits(t, new, r)
  <2>1. ASSUME NEW i \in 1..(n - 1)
        PROVE  /\ t[i].object \in DOMAIN r
               /\ t[i].at >= 1 => r[t[i].object] = 1 /\ t[i].object \notin new
    BY <1>1, <1>3 DEF Fits, StackFits
  <2>2. ASSUME NEW i \in 1..(n - 1), NEW j \in 1..(n - 1), i < j
        PROVE  ClassOf(t[j].object) < ClassOf(t[i].object)
    BY <1>1, <2>2 DEF Fits, StackFits
  <2>3. QED BY <1>1, <2>1, <2>2 DEF StackFits
<1>5. MarksFit(t, new, r)
  <2>1. ASSUME NEW o \in DOMAIN r, r[o] = 1, o \notin new
        PROVE  \E i \in 1..Len(t) : t[i].object = o /\ t[i].at >= 1
    <3>1. PICK i \in 1..n : s[i].object = o /\ s[i].at >= 1
      BY <2>1 DEF Fits, MarksFit
    <3>2. i # n
      BY <2>1, <3>1
    <3>3. QED BY <1>1, <3>1, <3>2
  <2>2. QED BY <2>1 DEF MarksFit
<1>6. ASSUME NEW i \in 1..(n - 1) PROVE BasesFitAt(t, new, i)
  <2>1. BasesFitAt(s, ini, i) /\ t[i] = s[i]
    BY <1>1 DEF Fits, BasesFit
  <2>2. SUFFICES ASSUME s[i].at >= 2
                 PROVE  /\ s[i].at <= Len(bases[ClassOf(s[i].object)]) + 2
                        /\ \A m \in 1..(s[i].at - 2) :
                             Base(s[i].object, m) \in new \/ UnderWay(t, i, m)
    BY <2>1 DEF BasesFitAt
  <2>3. ASSUME NEW m \in 1..(s[i].at - 2), UnderWay(s, i, m)
        PROVE  Base(s[i].object, m) \in new \/ UnderWay(t, i, m)
    <3>1. CASE i + 1 = n
      BY <2>3, <3>1 DEF UnderWay
    <3>2. CASE i + 1 # n
      <4>1. i + 1 \in 1..(n - 1) /\ i < n - 1
        BY <1>1, <3>2
      <4>2. t[i + 1] = s[i + 1]
        BY <1>1, <4>1
      <4>3. QED BY <1>1, <2>1, <2>3, <4>1, <4>2 DEF UnderWay
    <3>3. QED BY <3>1, <3>2
  <2>4. QED BY <2>1, <2>2, <2>3 DEF BasesFitAt
<1>7. QED BY <1>1, <1>4, <1>5, <1>6 DEF Fits, BasesFit

-------------------------------------------------------------------------------
(* The steps of a construction. *)

LEMMA FitsAfter ==
  ASSUME UNCHANGED classVars, Fits(stack', initialized', runs')
  PROVE  /\ StackFits(stack, initialized, runs)' /\ MarksFit(stack, initialized, runs)'
         /\ BasesFit(stack, initialized)'
<1>1. /\ Calls' = Calls /\ bases' = bases /\ \A o, b : Child(o, b)' = Child(o, b)
  BY SameClasses
<1>2. \A o, m : Base(o, m)' = Base(o, m)
  BY <1>1 DEF Base
<1>3. StackFits(stack, initialized, runs)' /\ MarksFit(stack, initialized, runs)'
  BY <1>1 DEF Fits, StackFits, MarksFit
<1>4. ASSUME NEW i \in 1..Len(stack') PROVE BasesFitAt(stack, initialized, i)'
  <2>1. BasesFitAt(stack', initialized', i)
    BY <1>4 DEF Fits, BasesFit
  <2>2. QED BY <1>1, <1>2, <2>1 DEF BasesFitAt, UnderWay
<1>5. BasesFit(stack, initialized)'
  BY <1>4 DEF BasesFit
<1>6. QED BY <1>3, <1>5

LEMMA RunsAfter ==
  ASSUME UNCHANGED classVars, UNCHANGED <<runs, initialized>>, RunsOK, InitializedOK
  PROVE  RunsOK' /\ InitializedOK'
BY SameClasses DEF RunsOK, InitializedOK, Closed

LEMMA NewConstructs ==
  ASSUME Derived, ConstructionOK, NEW c \in Classes, New(c)
  PROVE  ConstructionOK'
<1> DEFINE S == Objects(<<c>>)
<1>1. /\ stack' = <<Call(<<c>>)>> /\ initialized' = {} /\ built' = NoObject
      /\ runs' = [o \in S |-> 0] /\ UNCHANGED classVars
  BY DEF New
<1>2. IsObject(<<c>>) /\ Closed(S) /\ <<c>> \in S
  BY OneClassObject, ObjectsAreClosed
<1> HIDE DEF S
<1>3. DOMAIN runs' = S /\ \A o \in S : runs'[o] = 0
  BY <1>1
<1>4. Closed(DOMAIN runs)'
  BY <1>1, <1>2, <1>3, SameClasses DEF Closed
<1>5. RunsOK' /\ InitializedOK' /\ BuiltOK'
  <2>1. runs' = [o \in DOMAIN runs' |-> runs'[o]]
    BY <1>1
  <2>2. QED BY <1>1, <1>3, <1>4, <2>1 DEF RunsOK, InitializedOK, BuiltOK
<1>6. /\ stack' \in Seq(Calls) /\ Len(stack') = 1 /\ 1..Len(stack') = {1}
      /\ stack'[1].object = <<c>> /\ stack'[1].at = 0
  <2>1. Call(<<c>>) \in Calls /\ Call(<<c>>).object = <<c>> /\ Call(<<c>>).at = 0
    BY <1>2 DEF Call, Calls, IsObject
  <2>2. QED BY <1>1, <2>1
<1>7. Fits(stack', initialized', runs')
  <2>1. StackFits(stack', initialized', runs')
    BY <1>2, <1>3, <1>6 DEF StackFits
  <2>2. MarksFit(stack', initialized', runs')
    BY <1>3 DEF MarksFit
  <2>3. BasesFit(stack', initialized')
    BY <1>6 DEF BasesFit, BasesFitAt
  <2>4. QED BY <2>1, <2>2, <2>3 DEF Fits
<1>8. QED BY <1>1, <1>5, <1>7, FitsAfter DEF ConstructionOK

LEMMA InitFailsConstructs ==
  ASSUME Derived, ConstructionOK, UserInitFails
  PROVE  ConstructionOK'
<1>1. /\ stack # <<>> /\ stack' = <<>> /\ initialized' = {} /\ runs' = <<>> /\ built' = built
  BY DEF UserInitFails
<1>2. built = NoObject
  BY <1>1 DEF ConstructionOK, BuiltOK
<1>3. QED BY <1>1, <1>2, NothingConstructed

\* What the steps of a running construction start from.
LEMMA Running ==
  ASSUME Derived, ConstructionOK, stack # <<>>
  PROVE  /\ stack \in Seq(Calls) /\ Closed(DOMAIN runs) /\ built = NoObject
         /\ Fits(stack, initialized, runs) /\ RunsOK /\ InitializedOK
         /\ Len(stack) \in Nat /\ Len(stack) >= 1 /\ Len(stack) \in 1..Len(stack)
         /\ Top = stack[Len(stack)] /\ Top.object \in DOMAIN runs /\ IsObject(Top.object)
         /\ Top.at \in Nat /\ BasesFitAt(stack, initialized, Len(stack))
<1>1. /\ stack \in Seq(Calls) /\ Closed(DOMAIN runs) /\ built = NoObject
      /\ Fits(stack, initialized, runs) /\ RunsOK /\ InitializedOK
  BY DEF ConstructionOK, StackFits, RunsOK, BuiltOK, Fits
<1>2. Len(stack) \in Nat /\ Len(stack) >= 1 /\ Top = stack[Len(stack)] /\ Top \in Calls
  BY <1>1, StackTop
<1>3. Len(stack) \in 1..Len(stack)
  BY <1>2
<1>4. Top.object \in DOMAIN runs /\ IsObject(Top.object)
  BY <1>1, <1>2, <1>3 DEF Fits, StackFits, Closed
<1>5. Top.at \in Nat /\ BasesFitAt(stack, initialized, Len(stack))
  BY <1>1, <1>2, <1>3 DEF Fits, BasesFit, Calls
<1>6. QED BY <1>1, <1>2, <1>3, <1>4, <1>5

LEMMA CallInitConstructs ==
  ASSUME Derived, ConstructionOK, CallInit
  PROVE  ConstructionOK'
<1> DEFINE n == Len(stack)
<1>1. /\ stack # <<>> /\ Top.at = 1
      /\ UNCHANGED classVars /\ UNCHANGED <<initialized, runs, built>>
  BY DEF CallInit
<1>2. PICK o \in Range(Fields(Top.object)) : stack' = Append(stack, Call(o))
  BY DEF CallInit
<1>3. /\ stack \in Seq(Calls) /\ Closed(DOMAIN runs) /\ built = NoObject
      /\ Fits(stack, initialized, runs) /\ RunsOK /\ InitializedOK
      /\ n \in Nat /\ n >= 1 /\ Top = stack[n] /\ Top.object \in DOMAIN runs
  BY <1>1, Running
<1>4. o \in DOMAIN runs /\ ClassOf(o) < ClassOf(stack[n].object)
  <2>1. PICK c \in DOMAIN Fields(Top.object) : o = Fields(Top.object)[c]
    BY DEF Range
  <2>2. QED BY <1>3, <2>1, FieldsStayIn DEF FieldsFit
<1>5. Called(stack, stack', o)
  BY <1>2, <1>3, <1>4, CallIsPushed DEF Closed, IsObject
<1>6. StackFits(stack', initialized, runs) /\ MarksFit(stack', initialized, runs)
  BY <1>3, <1>4, <1>5, PushFits DEF Fits
<1>7. ASSUME NEW i \in 1..Len(stack') PROVE BasesFitAt(stack', initialized, i)
  <2>1. CASE i \in 1..n
    <3>1. stack'[i] = stack[i] /\ BasesFitAt(stack, initialized, i) /\ Len(stack') = n + 1
      BY <1>3, <1>5, <2>1 DEF Fits, BasesFit, Called
    <3>2. ASSUME NEW m, UnderWay(stack, i, m) PROVE UnderWay(stack', i, m)
      <4>1. i + 1 \in 1..n /\ i < n + 1
        BY <1>3, <2>1, <3>2 DEF UnderWay
      <4>2. stack'[i + 1] = stack[i + 1]
        BY <1>5, <4>1 DEF Called
      <4>3. QED BY <3>1, <3>2, <4>1, <4>2 DEF UnderWay
    <3>3. QED BY <3>1, <3>2 DEF BasesFitAt
  <2>2. CASE i = n + 1
    BY <1>5, <2>2 DEF BasesFitAt, Called
  <2>3. QED BY <1>3, <1>5, <2>1, <2>2 DEF Called
<1>8. Fits(stack', initialized', runs')
  BY <1>1, <1>6, <1>7 DEF Fits, BasesFit
<1>9. RunsOK' /\ InitializedOK'
  BY <1>1, <1>3, RunsAfter
<1>10. BuiltOK'
  BY <1>1, <1>3 DEF BuiltOK
<1>11. QED BY <1>1, <1>8, <1>9, <1>10, FitsAfter DEF ConstructionOK

LEMMA InitReturnsConstructs ==
  ASSUME Derived, ConstructionOK, UserInitReturns
  PROVE  ConstructionOK'
<1> DEFINE n == Len(stack)
<1>1. /\ stack # <<>> /\ Top.at = 1 /\ stack' = At(2)
      /\ UNCHANGED classVars /\ UNCHANGED <<initialized, runs, built>>
  BY DEF UserInitReturns
<1>2. /\ stack \in Seq(Calls) /\ built = NoObject /\ Fits(stack, initialized, runs)
      /\ RunsOK /\ InitializedOK /\ n \in Nat /\ n >= 1 /\ Top = stack[n]
      /\ IsObject(Top.object)
  BY <1>1, Running
<1>3. Advanced(stack, stack', 2)
  BY <1>1, <1>2, AtAdvances
<1>4. StackFits(stack', initialized, runs) /\ MarksFit(stack', initialized, runs)
  BY <1>1, <1>2, <1>3, AdvanceFits DEF Fits
<1>5. ASSUME NEW i \in 1..Len(stack') PROVE BasesFitAt(stack', initialized, i)
  <2>1. CASE i \in 1..(n - 1)
    <3>1. stack'[i] = stack[i] /\ BasesFitAt(stack, initialized, i) /\ Len(stack') = n
      BY <1>2, <1>3, <2>1 DEF Fits, BasesFit, Advanced
    <3>2. stack'[i + 1].object = stack[i + 1].object
      BY <1>2, <1>3, <2>1 DEF Advanced
    <3>3. QED BY <3>1, <3>2 DEF BasesFitAt, UnderWay
  <2>2. CASE i = n
    <3>1. stack'[n].object = Top.object /\ stack'[n].at = 2
      BY <1>2, <1>3 DEF Advanced
    <3>2. Len(bases[ClassOf(Top.object)]) \in Nat
      BY <1>2, ObjectHasClass, ElementOfSeq DEF Derived, Classes
    <3>3. QED BY <2>2, <3>1, <3>2 DEF BasesFitAt
  <2>3. QED BY <1>2, <1>3, <2>1, <2>2 DEF Advanced
<1>6. Fits(stack', initialized', runs')
  BY <1>1, <1>4, <1>5 DEF Fits, BasesFit
<1>7. RunsOK' /\ InitializedOK'
  BY <1>1, <1>2, RunsAfter
<1>8. BuiltOK'
  BY <1>1, <1>2 DEF BuiltOK
<1>9. QED BY <1>1, <1>6, <1>7, <1>8, FitsAfter DEF ConstructionOK

LEMMA BelowIsPopped ==
  ASSUME stack \in Seq(Calls), stack # <<>>
  PROVE  Popped(stack, Below)
BY StackTop DEF Popped

LEMMA EnterConstructs ==
  ASSUME Derived, ConstructionOK, Enter
  PROVE  ConstructionOK'
<1> DEFINE n == Len(stack)
           o == Top.object
<1>1. stack # <<>> /\ Top.at = 0 /\ UNCHANGED classVars /\ initialized' = initialized
  BY DEF Enter
<1>2. /\ stack \in Seq(Calls) /\ Closed(DOMAIN runs) /\ built = NoObject
      /\ Fits(stack, initialized, runs) /\ RunsOK /\ InitializedOK
      /\ n \in Nat /\ n >= 1 /\ n \in 1..n /\ Top = stack[n] /\ o \in DOMAIN runs /\ IsObject(o)
  BY <1>1, Running
<1> HIDE DEF n, o
<1>3. CASE o \in initialized
  <2>1. stack' = Below /\ built' = (IF Below = <<>> THEN o ELSE NoObject) /\ runs' = runs
    BY <1>3 DEF Enter, Return, o
  <2>2. Popped(stack, stack')
    BY <1>1, <1>2, <2>1, BelowIsPopped
  <2>3. o = stack[Len(stack)].object /\ initialized \cup {o} = initialized
    BY <1>2, <1>3 DEF o, n
  <2>4. Fits(stack', initialized, runs)
    <3>1. Fits(stack', initialized \cup {o}, runs)
      BY <1>2, <2>2, <2>3, PopFits DEF n
    <3>2. QED BY <2>3, <3>1
  <2>5. RunsOK' /\ InitializedOK'
    BY <1>1, <1>2, <2>1, RunsAfter
  <2>6. BuiltOK'
    BY <1>1, <1>3, <2>1 DEF BuiltOK
  <2>7. QED BY <1>1, <2>1, <2>4, <2>5, <2>6, FitsAfter DEF ConstructionOK
<1>4. CASE o \notin initialized
  <2>1. runs' = [runs EXCEPT ![o] = @ + 1] /\ stack' = At(1) /\ built' = built
    BY <1>4 DEF Enter, o
  <2>2. Advanced(stack, stack', 1)
    BY <1>1, <1>2, <2>1, AtAdvances
  <2>3. /\ stack' \in Seq(Calls) /\ Len(stack') = n /\ stack'[n].object = o /\ stack'[n].at = 1
        /\ \A i \in 1..(n - 1) : stack'[i] = stack[i]
        /\ \A i \in 1..n : i = n \/ (i \in 1..(n - 1) /\ i < n)
    BY <1>2, <2>2 DEF Advanced, n, o
  <2>4. \A i \in 1..(n - 1) : stack[i].object # o
    <3>1. ASSUME NEW i \in 1..(n - 1) PROVE stack[i].object # o
      <4>1. i \in 1..n /\ i < n
        BY <1>2
      <4>2. ClassOf(stack[n].object) < ClassOf(stack[i].object) /\ stack[n].object = o
        BY <1>2, <4>1 DEF Fits, StackFits, n, o
      <4>3. ClassOf(o) \in Nat
        BY <1>2, ObjectHasClass
      <4>4. QED BY <4>2, <4>3
    <3>2. QED BY <3>1
  <2>5. runs[o] = 0
    <3>1. SUFFICES ASSUME runs[o] = 1 PROVE FALSE
      BY <1>2 DEF RunsOK
    <3>2. PICK i \in 1..n : stack[i].object = o /\ stack[i].at >= 1
      BY <1>2, <1>4, <3>1 DEF Fits, MarksFit, n
    <3>3. i # n
      BY <1>1, <1>2, <3>2
    <3>4. QED BY <2>3, <2>4, <3>2, <3>3
  <2>6. /\ DOMAIN runs' = DOMAIN runs /\ runs'[o] = 1 /\ \A p \in DOMAIN runs : p # o => runs'[p] = runs[p]
        /\ runs' = [p \in DOMAIN runs' |-> runs'[p]]
    <3>1. /\ runs' = [p \in DOMAIN runs |-> IF p = o THEN runs[o] + 1 ELSE runs[p]]
      BY <1>2, <2>1
    <3>2. DOMAIN runs' = DOMAIN runs
      BY <3>1
    <3>3. runs'[o] = 1 /\ \A p \in DOMAIN runs : p # o => runs'[p] = runs[p]
      BY <1>2, <2>5, <3>1
    <3>4. runs' = [p \in DOMAIN runs' |-> runs'[p]]
      BY <3>1
    <3>5. QED BY <3>2, <3>3, <3>4
  <2>7. RunsOK' /\ InitializedOK' /\ BuiltOK'
    <3>1. Closed(DOMAIN runs)'
      BY <1>1, <1>2, <2>6, SameClasses DEF Closed
    <3>2. \A p \in DOMAIN runs' : runs'[p] = 0 \/ runs'[p] = 1
      BY <1>2, <2>6 DEF RunsOK
    <3>3. InitializedOK'
      BY <1>1, <1>2, <1>4, <2>6, SameClasses DEF InitializedOK
    <3>4. QED BY <1>2, <2>1, <2>6, <3>1, <3>2, <3>3 DEF RunsOK, BuiltOK
  <2>8. StackFits(stack', initialized, runs')
    <3>1. ASSUME NEW i \in 1..n
          PROVE  /\ stack'[i].object = stack[i].object /\ stack'[i].object \in DOMAIN runs'
                 /\ stack'[i].at >= 1 => runs'[stack'[i].object] = 1 /\ stack'[i].object \notin initialized
      <4>1. CASE i = n
        BY <1>2, <1>4, <2>3, <2>6, <4>1 DEF o
      <4>2. CASE i \in 1..(n - 1)
        <5>1. stack'[i] = stack[i] /\ stack[i].object # o /\ stack[i].object \in DOMAIN runs
          BY <1>2, <2>3, <2>4, <4>2 DEF Fits, StackFits, n
        <5>2. QED BY <1>2, <2>6, <5>1 DEF Fits, StackFits, n
      <4>3. QED BY <2>3, <4>1, <4>2
    <3>2. QED BY <1>2, <2>3, <3>1 DEF Fits, StackFits, n
  <2>9. MarksFit(stack', initialized, runs')
    <3>1. ASSUME NEW p \in DOMAIN runs', runs'[p] = 1, p \notin initialized
          PROVE  \E i \in 1..n : stack'[i].object = p /\ stack'[i].at >= 1
      <4>1. CASE p = o
        BY <1>2, <2>3, <4>1
      <4>2. CASE p # o
        <5>1. PICK i \in 1..n : stack[i].object = p /\ stack[i].at >= 1
          BY <1>2, <2>6, <3>1, <4>2 DEF Fits, MarksFit, n
        <5>2. i \in 1..(n - 1)
          BY <1>2, <2>3, <4>2, <5>1 DEF o
        <5>3. QED BY <2>3, <5>1, <5>2
      <4>3. QED BY <4>1, <4>2
    <3>2. QED BY <2>3, <3>1 DEF MarksFit
  <2>10. ASSUME NEW i \in 1..n PROVE BasesFitAt(stack', initialized, i)
    <3>1. CASE i = n
      BY <2>3, <3>1 DEF BasesFitAt
    <3>2. CASE i \in 1..(n - 1)
      <4>1. stack'[i] = stack[i] /\ BasesFitAt(stack, initialized, i) /\ Len(stack') = Len(stack)
        BY <1>2, <2>3, <3>2 DEF Fits, BasesFit, n
      <4>2. stack'[i + 1].object = stack[i + 1].object
        BY <1>2, <2>2, <3>2 DEF Advanced, n
      <4>3. QED BY <4>1, <4>2 DEF BasesFitAt, UnderWay
    <3>3. QED BY <2>3, <3>1, <3>2
  <2>11. Fits(stack', initialized', runs')
    BY <1>1, <2>3, <2>8, <2>9, <2>10 DEF Fits, BasesFit
  <2>12. QED BY <1>1, <2>7, <2>11, FitsAfter DEF ConstructionOK
<1>5. QED BY <1>3, <1>4

\* The base that is called next.
LEMMA NextBase ==
  ASSUME Derived, NEW o, IsObject(o), NEW k \in Nat, k >= 1, k <= Len(bases[ClassOf(o)])
  PROVE  bases[ClassOf(o)][k] \in Bases(ClassOf(o))
<1>1. ClassOf(o) \in Classes /\ bases \in Seq(Seq(Nat)) /\ Classes = 1..Len(bases)
  BY ObjectHasClass DEF Derived, Classes
<1>2. bases[ClassOf(o)] \in Seq(Nat)
  BY <1>1, ElementOfSeq
<1>3. k \in DOMAIN bases[ClassOf(o)]
  BY <1>2
<1>4. QED BY <1>3 DEF Bases, Range

LEMMA BasesAreCalled ==
  ASSUME Derived, NEW o, IsObject(o), \A m \in 1..Len(bases[ClassOf(o)]) : Base(o, m) \in initialized
  PROVE  Children(o) \subseteq initialized
<1>1. ClassOf(o) \in Classes /\ bases \in Seq(Seq(Nat)) /\ Classes = 1..Len(bases)
  BY ObjectHasClass DEF Derived, Classes
<1>2. bases[ClassOf(o)] \in Seq(Nat)
  BY <1>1, ElementOfSeq
<1>3. ASSUME NEW b \in Bases(ClassOf(o)) PROVE Child(o, b) \in initialized
  <2>1. PICK m \in 1..Len(bases[ClassOf(o)]) : b = bases[ClassOf(o)][m]
    BY <1>2 DEF Bases, Range
  <2>2. QED BY <2>1 DEF Base
<1>4. QED BY <1>3 DEF Children

LEMMA InitBasesConstructs ==
  ASSUME Derived, ConstructionOK, InitBases
  PROVE  ConstructionOK'
<1> DEFINE n == Len(stack)
           o == Top.object
           k == Top.at
           list == bases[ClassOf(o)]
<1>1. stack # <<>> /\ k >= 2 /\ UNCHANGED classVars /\ runs' = runs
  BY DEF InitBases
<1>2. /\ stack \in Seq(Calls) /\ Closed(DOMAIN runs) /\ built = NoObject
      /\ Fits(stack, initialized, runs) /\ RunsOK /\ InitializedOK
      /\ n \in Nat /\ n >= 1 /\ n \in 1..n /\ Top = stack[n] /\ o \in DOMAIN runs /\ IsObject(o)
      /\ k \in Nat /\ BasesFitAt(stack, initialized, n)
  BY <1>1, Running
<1>3. Len(list) \in Nat
  BY <1>2, ObjectHasClass, ElementOfSeq DEF Derived, Classes
<1>4. /\ k <= Len(list) + 2 /\ \A m \in 1..(k - 2) : Base(o, m) \in initialized
      /\ runs[o] = 1
  <2>1. ~(n < n)
    BY <1>2
  <2>2. stack[n].object = o /\ stack[n].at = k
    BY <1>2
  <2>3. runs[o] = 1
    BY <1>1, <1>2, <2>2 DEF Fits, StackFits
  <2> HIDE DEF o, k
  <2>4. QED BY <1>1, <1>2, <2>1, <2>2, <2>3 DEF BasesFitAt, UnderWay
<1>5. CASE k - 1 <= Len(list)
  <2> DEFINE b == list[k - 1]
             c == Fields(o)[b]
  <2>1. stack' = Append(At(k + 1), Call(c)) /\ initialized' = initialized /\ built' = built
    BY <1>5 DEF InitBases
  <2> HIDE DEF n, o, k
  <2>2. b \in Bases(ClassOf(o)) /\ c = Base(o, k - 1)
    <3>1. k - 1 \in Nat /\ k - 1 >= 1
      BY <1>1, <1>2
    <3>2. b \in Bases(ClassOf(o))
      BY <1>2, <1>5, <3>1, NextBase
    <3>3. QED BY <1>2, <3>2, FieldsStayIn DEF FieldsFit, Base
  <2>3. c \in DOMAIN runs /\ ClassOf(c) < ClassOf(o) /\ c \in Seq(Classes)
    <3>1. c = Child(o, b)
      BY <2>2 DEF Base
    <3>2. QED BY <1>2, <2>2, <3>1, ChildFits DEF Closed, IsObject
  <2> HIDE DEF b, c
  <2> DEFINE u == At(k + 1)
  <2>4. Advanced(stack, u, k + 1) /\ u \in Seq(Calls)
    <3>1. k + 1 \in Nat
      BY <1>2
    <3>2. Advanced(stack, At(k + 1), k + 1)
      BY <1>1, <1>2, <3>1, AtAdvances
    <3>3. QED BY <3>2 DEF Advanced
  <2> HIDE DEF u
  <2>5. Called(u, stack', c)
    BY <2>1, <2>3, <2>4, CallIsPushed DEF u
  <2>6. /\ Len(u) = n /\ u[n].object = o /\ stack' \in Seq(Calls) /\ Len(stack') = n + 1
        /\ \A i \in 1..(n - 1) : stack'[i] = stack[i]
        /\ stack'[n].object = o /\ stack'[n].at = k + 1
        /\ stack'[n + 1].object = c /\ stack'[n + 1].at = 0
        /\ \A i \in 1..(n + 1) : i \in 1..(n - 1) \/ i = n \/ i = n + 1
        /\ \A i \in 1..n : stack'[i].object = stack[i].object
    <3>1. /\ Len(u) = n /\ \A i \in 1..(n - 1) : u[i] = stack[i]
          /\ u[n].object = o /\ u[n].at = k + 1
      BY <1>2, <2>4 DEF Advanced, n, o
    <3>2. /\ stack' \in Seq(Calls) /\ Len(stack') = n + 1 /\ \A i \in 1..n : stack'[i] = u[i]
          /\ stack'[n + 1].object = c /\ stack'[n + 1].at = 0
      BY <2>5, <3>1 DEF Called
    <3>3. /\ \A i \in 1..(n - 1) : i \in 1..n
          /\ \A i \in 1..(n + 1) : i \in 1..(n - 1) \/ i = n \/ i = n + 1
          /\ \A i \in 1..n : i \in 1..(n - 1) \/ i = n
      BY <1>2
    <3>4. stack[n].object = o
      BY <1>2 DEF o
    <3>5. QED BY <1>2, <3>1, <3>2, <3>3, <3>4
  <2>7. StackFits(u, initialized, runs) /\ MarksFit(u, initialized, runs)
    <3>1. k + 1 \in Nat /\ k + 1 >= 1 /\ stack[n].at >= 1
      BY <1>1, <1>2 DEF k
    <3>2. QED BY <1>2, <2>4, <3>1, AdvanceFits DEF Fits, n
  <2>8. StackFits(stack', initialized, runs) /\ MarksFit(stack', initialized, runs)
    BY <1>2, <2>3, <2>5, <2>6, <2>7, PushFits
  <2>9. ASSUME NEW i \in 1..(n + 1) PROVE BasesFitAt(stack', initialized, i)
    <3>1. CASE i \in 1..(n - 1)
      <4>1. /\ stack'[i] = stack[i] /\ BasesFitAt(stack, initialized, i) /\ i \in 1..n
            /\ i + 1 \in 1..n /\ i < n + 1 /\ i < n
        BY <1>2, <2>6, <3>1 DEF Fits, BasesFit, n
      <4>2. stack'[i + 1].object = stack[i + 1].object /\ Len(stack) = n
        BY <2>6, <4>1 DEF n
      <4>3. QED BY <2>6, <4>1, <4>2 DEF BasesFitAt, UnderWay
    <3>2. CASE i = n
      <4>1. k + 1 <= Len(list) + 2 /\ (k + 1) - 2 = k - 1 /\ n < n + 1
        BY <1>2, <1>3, <1>5
      <4>2. ASSUME NEW m \in 1..(k - 1)
            PROVE  Base(o, m) \in initialized \/ UnderWay(stack', n, m)
        <5>1. CASE m = k - 1
          BY <2>2, <2>6, <4>1, <5>1 DEF UnderWay
        <5>2. CASE m # k - 1
          <6>1. m \in 1..(k - 2)
            BY <1>2, <4>2, <5>2
          <6>2. QED BY <1>4, <6>1
        <5>3. QED BY <5>1, <5>2
      <4>3. QED BY <2>6, <3>2, <4>1, <4>2 DEF BasesFitAt
    <3>3. CASE i = n + 1
      BY <2>6, <3>3 DEF BasesFitAt
    <3>4. QED BY <2>6, <3>1, <3>2, <3>3
  <2>10. Fits(stack', initialized', runs')
    BY <1>1, <2>1, <2>6, <2>8, <2>9 DEF Fits, BasesFit
  <2>11. RunsOK' /\ InitializedOK' /\ BuiltOK'
    BY <1>1, <1>2, <2>1, RunsAfter DEF BuiltOK
  <2>12. QED BY <1>1, <2>10, <2>11, FitsAfter DEF ConstructionOK
<1>6. CASE ~(k - 1 <= Len(list))
  <2>1. /\ initialized' = initialized \cup {o}
        /\ stack' = Below /\ built' = IF Below = <<>> THEN o ELSE NoObject
    BY <1>6 DEF InitBases, Return
  <2> HIDE DEF n, o, k
  <2>2. Popped(stack, stack')
    BY <1>1, <1>2, <2>1, BelowIsPopped
  <2>3. o = stack[Len(stack)].object
    BY <1>2 DEF o, n
  <2>4. Fits(stack', initialized', runs')
    BY <1>1, <1>2, <2>1, <2>2, <2>3, PopFits DEF n
  <2>5. Children(o) \subseteq initialized
    <3>1. \A m \in 1..Len(list) : m \in 1..(k - 2)
      BY <1>2, <1>3, <1>6
    <3>2. QED BY <1>2, <1>4, <3>1, BasesAreCalled
  <2>6. RunsOK'
    BY <1>1, <1>2, SameClasses DEF RunsOK, Closed
  <2>7. InitializedOK'
    BY <1>1, <1>2, <1>4, <2>1, <2>5, SameClasses DEF InitializedOK
  <2>8. BuiltOK'
    BY <2>1 DEF BuiltOK
  <2>9. QED BY <1>1, <2>4, <2>6, <2>7, <2>8, FitsAfter DEF ConstructionOK
<1>7. QED BY <1>5, <1>6

-------------------------------------------------------------------------------
(* The values of the attribute. *)

LEMMA ValueKinds ==
  ASSUME NEW v \in Values
  PROVE  /\ v = Nil <=> v.kind = "nil"
         /\ v.kind \in {"nil", "function", "property", "false", "wrapper"}
         /\ v # Ambiguous
<1>1. CASE v = Nil
  BY <1>1 DEF Nil, Ambiguous
<1>2. CASE v \in Assignable
  BY <1>2 DEF Assignable, Function, Property, False, Nil, Ambiguous
<1>3. CASE \E c \in Classes : \E o \in Classes : v = Wrapper(c, o)
  BY <1>3 DEF Wrapper, Nil, Ambiguous
<1>4. QED BY <1>1, <1>2, <1>3 DEF Values

LEMMA AssignableKinds ==
  ASSUME NEW v \in {Nil} \cup Assignable
  PROVE  v \in Values /\ v.kind # "wrapper"
BY DEF Values, Assignable, Function, Property, False, Nil

LEMMA WrapperIs ==
  ASSUME NEW c, NEW o
  PROVE  /\ Wrapper(c, o).kind = "wrapper" /\ Wrapper(c, o).origin = o /\ Wrapper(c, o) # Nil
         /\ Wrapper(c, o) # Ambiguous
BY DEF Wrapper, Nil, Ambiguous

-------------------------------------------------------------------------------
(* Types of what is kept of classes. *)

Has(b) == attribute[b] # Nil

ClassesTyped ==
  /\ Derived /\ Len(bases) <= MaxClasses
  /\ sharing \in [Classes -> SUBSET Classes]
  /\ attribute \in [Classes -> Values] /\ inherited \in [Classes -> Values]
  /\ from \in [Classes -> Origins]
  /\ own \subseteq Classes /\ late \in BOOLEAN /\ calls \in 0..MaxCalls

\* What a class inherited has an origin and is no function; a wrapper is inherited.
KindsOK ==
  \A c \in Classes :
    /\ inherited[c] # Nil => from[c] # NoOrigin
    /\ inherited[c].kind # "function"
    /\ attribute[c].kind = "wrapper" => attribute[c] = inherited[c]

LEMMA OriginsAre ==
  ASSUME NEW o \in Origins, o # NoOrigin
  PROVE  o.class \in Classes /\ o.shared \in BOOLEAN /\ o = [class |-> o.class, shared |-> o.shared]
BY DEF Origins

-------------------------------------------------------------------------------
(* What a new class inherits. *)

Redefined(b) == Truthy(inherited[b]) /\ attribute[b] # inherited[b]

\* Where b has the attribute from, for a class that shares the bases shares.
OriginIn(shares, b) ==
  IF Truthy(inherited[b]) /\ attribute[b] = inherited[b] THEN from[b]
  ELSE [class |-> b, shared |-> b \in shares]

Clash(o, p) == o.class # p.class \/ ~o.shared \/ ~p.shared

Taken(c, origin, b) == IF Callable(attribute[b]) THEN Wrapper(c, origin.class) ELSE attribute[b]

\* The first i bases have been looked at: none has the attribute, or all that
\* do have it from one origin, or two of them do not agree.
FoundNone(f, list, i) ==
  f.value = Nil /\ f.from = NoOrigin /\ \A j \in 1..i : ~Has(list[j])
FoundOne(c, shares, f, list, i) ==
  /\ f.from \in Origins /\ f.from # NoOrigin
  /\ \E j \in 1..i : Has(list[j]) /\ f.value = Taken(c, f.from, list[j])
  /\ \A j \in 1..i : Has(list[j]) =>
       OriginIn(shares, list[j]) = f.from /\ (Redefined(list[j]) => list[j] \in f.cancelled)
  /\ \A j, k \in 1..i : j # k /\ Has(list[j]) /\ Has(list[k]) => f.from.shared
FoundTwo(shares, f, list, i) ==
  /\ f.value = Ambiguous /\ f.from = NoOrigin
  /\ \E j, k \in 1..i :
       /\ j # k /\ Has(list[j]) /\ Has(list[k])
       /\ Redefined(list[j]) => list[j] \in f.cancelled
       /\ Redefined(list[k]) => list[k] \in f.cancelled
       /\ Clash(OriginIn(shares, list[j]), OriginIn(shares, list[k]))

IsFound(f) ==
  /\ f = [value |-> f.value, from |-> f.from, cancelled |-> f.cancelled]
  /\ f.cancelled \subseteq Classes /\ \A b \in f.cancelled : Redefined(b) /\ Has(b)
FoundFits(c, shares, f, list, i) ==
  /\ IsFound(f)
  /\ FoundNone(f, list, i) \/ FoundOne(c, shares, f, list, i) \/ FoundTwo(shares, f, list, i)

LEMMA OriginInFits ==
  ASSUME ClassesTyped, KindsOK, NEW shares, NEW b \in Classes
  PROVE  OriginIn(shares, b) \in Origins /\ OriginIn(shares, b) # NoOrigin
<1>1. CASE Truthy(inherited[b]) /\ attribute[b] = inherited[b]
  BY <1>1 DEF ClassesTyped, KindsOK, OriginIn, Truthy
<1>2. CASE ~(Truthy(inherited[b]) /\ attribute[b] = inherited[b])
  <2>1. OriginIn(shares, b) = [class |-> b, shared |-> b \in shares]
    BY <1>2 DEF OriginIn
  <2>2. b # 0
    BY BasesAreOlder DEF ClassesTyped
  <2>3. [class |-> b, shared |-> b \in shares] \in Origins
    BY DEF Origins
  <2>4. QED BY <2>1, <2>2, <2>3 DEF NoOrigin
<1>3. QED BY <1>1, <1>2

LEMMA TakenFits ==
  ASSUME ClassesTyped, NEW c, NEW origin, NEW b \in Classes, Has(b)
  PROVE  /\ Taken(c, origin, b) # Nil /\ Taken(c, origin, b) # Ambiguous
         /\ Taken(c, origin, b) = Wrapper(c, origin.class) \/ (Taken(c, origin, b) = attribute[b] /\ attribute[b].kind \in {"property", "false"})
<1>1. attribute[b] \in Values
  BY DEF ClassesTyped
<1>2. attribute[b] # Nil /\ attribute[b] # Ambiguous
  BY <1>1, ValueKinds DEF Has
<1>3. ~Callable(attribute[b]) => attribute[b].kind \in {"property", "false"}
  BY <1>1, <1>2, ValueKinds DEF Callable
<1>4. QED BY <1>2, <1>3, WrapperIs DEF Taken

\* What Inspect does in each case.
Noticing(f, b) == IF Redefined(b) THEN f.cancelled \cup {b} ELSE f.cancelled

LEMMA FoundChanged ==
  ASSUME NEW a, NEW b, NEW c, NEW f, f = [value |-> a, from |-> b, cancelled |-> c], NEW v, NEW o,
         NEW g, g = [f EXCEPT !.from = o, !.value = v]
  PROVE  g = [value |-> v, from |-> o, cancelled |-> c]
OBVIOUS

LEMMA InspectIs ==
  ASSUME NEW c, NEW shares, NEW f, NEW b, IsFound(f), NEW g, g = Inspect(c, shares, f, b),
         NEW origin, origin = OriginIn(shares, b)
  PROVE  /\ ~Has(b) \/ f.value = Ambiguous => g = f
         /\ Has(b) /\ f.value # Ambiguous /\ f.from = NoOrigin =>
              g = [value |-> Taken(c, origin, b), from |-> origin, cancelled |-> Noticing(f, b)]
         /\ Has(b) /\ f.value # Ambiguous /\ f.from # NoOrigin /\ Clash(f.from, origin) =>
              g = [value |-> Ambiguous, from |-> NoOrigin, cancelled |-> Noticing(f, b)]
         /\ Has(b) /\ f.value # Ambiguous /\ f.from # NoOrigin /\ ~Clash(f.from, origin) =>
              g = [value |-> f.value, from |-> f.from, cancelled |-> Noticing(f, b)]
<1> DEFINE noticed == [f EXCEPT !.cancelled = IF Redefined(b) THEN @ \cup {b} ELSE @]
<1>1. g = IF attribute[b] = Nil \/ f.value = Ambiguous THEN f
          ELSE IF f.from = NoOrigin
          THEN [noticed EXCEPT !.from = origin,
                  !.value = IF Callable(attribute[b]) THEN Wrapper(c, origin.class) ELSE attribute[b]]
          ELSE IF f.from.class # origin.class \/ ~f.from.shared \/ ~origin.shared
          THEN [noticed EXCEPT !.from = NoOrigin, !.value = Ambiguous]
          ELSE noticed
  BY DEF Inspect, OriginIn, Redefined
<1>2. noticed = [value |-> f.value, from |-> f.from, cancelled |-> Noticing(f, b)]
  BY DEF IsFound, Noticing
<1> HIDE DEF noticed
<1>3. ASSUME NEW v, NEW o, NEW h, h = [noticed EXCEPT !.from = o, !.value = v]
      PROVE  h = [value |-> v, from |-> o, cancelled |-> Noticing(f, b)]
  BY <1>2, <1>3, FoundChanged
<1>4. CASE Has(b) /\ f.value # Ambiguous /\ f.from = NoOrigin
  BY <1>1, <1>3, <1>4 DEF Has, Taken
<1>5. CASE Has(b) /\ f.value # Ambiguous /\ f.from # NoOrigin /\ Clash(f.from, origin)
  BY <1>1, <1>3, <1>5 DEF Has, Clash
<1>6. CASE Has(b) /\ f.value # Ambiguous /\ f.from # NoOrigin /\ ~Clash(f.from, origin)
  BY <1>1, <1>2, <1>6 DEF Has, Clash
<1>7. CASE ~Has(b) \/ f.value = Ambiguous
  BY <1>1, <1>7 DEF Has
<1>8. QED BY <1>4, <1>5, <1>6, <1>7

LEMMA NothingElse ==
  ASSUME NEW i \in Nat, NEW j \in 1..(i + 1)
  PROVE  j \in 1..i \/ j = i + 1
OBVIOUS

LEMMA FurtherOn ==
  ASSUME NEW i \in Nat
  PROVE  /\ i + 1 \in 1..(i + 1) /\ i + 1 \notin 1..i
         /\ \A j \in 1..i : j \in 1..(i + 1)
OBVIOUS

LEMMA FoundGoesOn ==
  ASSUME ClassesTyped, KindsOK, NEW c, NEW shares, NEW list, NEW i \in Nat,
         \A j \in 1..(i + 1) : list[j] \in Classes,
         NEW f, FoundFits(c, shares, f, list, i),
         NEW g, g = Inspect(c, shares, f, list[i + 1])
  PROVE  FoundFits(c, shares, g, list, i + 1)
<1> DEFINE b == list[i + 1]
           origin == OriginIn(shares, b)
           n == Noticing(f, b)
<1>1. b \in Classes /\ IsFound(f)
  BY FurtherOn DEF FoundFits
<1>2. origin \in Origins /\ origin # NoOrigin
  BY <1>1, OriginInFits
<1>3. f.cancelled \subseteq n /\ (Redefined(b) => b \in n)
  BY DEF Noticing
<1>4. Has(b) => n \subseteq Classes /\ \A d \in n : Redefined(d) /\ Has(d)
  BY <1>1 DEF IsFound, Noticing
<1>5. ~Has(b) \/ f.value = Ambiguous => g = f
  BY <1>1, InspectIs
<1>6. Has(b) /\ f.value # Ambiguous /\ f.from = NoOrigin =>
        g = [value |-> Taken(c, origin, b), from |-> origin, cancelled |-> n]
  BY <1>1, InspectIs
<1>7. Has(b) /\ f.value # Ambiguous /\ f.from # NoOrigin /\ Clash(f.from, origin) =>
        g = [value |-> Ambiguous, from |-> NoOrigin, cancelled |-> n]
  BY <1>1, InspectIs
<1>8. Has(b) /\ f.value # Ambiguous /\ f.from # NoOrigin /\ ~Clash(f.from, origin) =>
        g = [value |-> f.value, from |-> f.from, cancelled |-> n]
  BY <1>1, InspectIs
<1>9. CASE FoundNone(f, list, i)
  <2>1. CASE ~Has(b)
    <3>1. FoundNone(g, list, i + 1)
      BY <1>5, <1>9, <2>1, NothingElse DEF FoundNone
    <3>2. QED BY <1>1, <1>5, <2>1, <3>1 DEF FoundFits
  <2>2. CASE Has(b)
    <3>1. f.value = Nil /\ f.from = NoOrigin /\ f.value # Ambiguous
      BY <1>9 DEF FoundNone, Nil, Ambiguous
    <3>2. g = [value |-> Taken(c, origin, b), from |-> origin, cancelled |-> n]
      BY <1>6, <2>2, <3>1
    <3>3. g.value = Taken(c, origin, b) /\ g.from = origin /\ g.cancelled = n
      BY <3>2
    <3>4. IsFound(g)
      BY <1>4, <2>2, <3>2, <3>3 DEF IsFound
    <3>5. \A j \in 1..(i + 1) : Has(list[j]) => j = i + 1
      BY <1>9, NothingElse DEF FoundNone
    <3>6. FoundOne(c, shares, g, list, i + 1)
      BY <1>2, <1>3, <2>2, <3>3, <3>5, FurtherOn DEF FoundOne
    <3>7. QED BY <3>4, <3>6 DEF FoundFits
  <2>3. QED BY <2>1, <2>2
<1>10. CASE FoundTwo(shares, f, list, i)
  <2>1. g = f
    BY <1>5, <1>10 DEF FoundTwo
  <2>2. FoundTwo(shares, g, list, i + 1)
    BY <1>10, <2>1, FurtherOn DEF FoundTwo
  <2>3. QED BY <1>1, <2>1, <2>2 DEF FoundFits
<1>11. CASE FoundOne(c, shares, f, list, i)
  <2>1. PICK k \in 1..i : Has(list[k]) /\ f.value = Taken(c, f.from, list[k])
    BY <1>11 DEF FoundOne
  <2>2. k \in 1..(i + 1) /\ list[k] \in Classes /\ k # i + 1
    BY FurtherOn
  <2>3. f.value # Ambiguous /\ f.from # NoOrigin /\ f.from \in Origins
    BY <1>11, <2>1, <2>2, TakenFits DEF FoundOne
  <2>4. \A j \in 1..i : Has(list[j]) =>
          OriginIn(shares, list[j]) = f.from /\ (Redefined(list[j]) => list[j] \in f.cancelled)
    BY <1>11 DEF FoundOne
  <2>5. CASE ~Has(b)
    <3>1. g = f
      BY <1>5, <2>5
    <3>2. FoundOne(c, shares, g, list, i + 1)
      <4>1. \A j \in 1..(i + 1) : Has(list[j]) => j \in 1..i
        BY <2>5, NothingElse
      <4>2. QED BY <1>11, <3>1, <4>1, FurtherOn DEF FoundOne
    <3>3. QED BY <1>1, <3>1, <3>2 DEF FoundFits
  <2>6. CASE Has(b) /\ Clash(f.from, origin)
    <3>1. g = [value |-> Ambiguous, from |-> NoOrigin, cancelled |-> n]
      BY <1>7, <2>3, <2>6
    <3>2. g.value = Ambiguous /\ g.from = NoOrigin /\ g.cancelled = n
      BY <3>1
    <3>3. IsFound(g)
      BY <1>4, <2>6, <3>1, <3>2 DEF IsFound
    <3>4. Redefined(list[k]) => list[k] \in n
      BY <1>3, <2>1, <2>4
    <3>5. FoundTwo(shares, g, list, i + 1)
      BY <1>3, <2>1, <2>2, <2>4, <2>6, <3>2, <3>4, FurtherOn DEF FoundTwo
    <3>6. QED BY <3>3, <3>5 DEF FoundFits
  <2>7. CASE Has(b) /\ ~Clash(f.from, origin)
    <3>1. g = [value |-> f.value, from |-> f.from, cancelled |-> n]
      BY <1>8, <2>3, <2>7
    <3>2. g.value = f.value /\ g.from = f.from /\ g.cancelled = n
      BY <3>1
    <3>3. IsFound(g)
      BY <1>4, <2>7, <3>1, <3>2 DEF IsFound
    <3>4. origin = f.from /\ f.from.shared
      BY <1>2, <2>3, <2>7, OriginsAre DEF Clash
    <3>5. \A j \in 1..(i + 1) : Has(list[j]) =>
            OriginIn(shares, list[j]) = g.from /\ (Redefined(list[j]) => list[j] \in g.cancelled)
      BY <1>3, <2>4, <3>2, <3>4, NothingElse
    <3>6. FoundOne(c, shares, g, list, i + 1)
      BY <2>1, <2>2, <2>3, <3>2, <3>4, <3>5 DEF FoundOne
    <3>7. QED BY <3>3, <3>6 DEF FoundFits
  <2>8. QED BY <2>5, <2>6, <2>7
<1>12. QED BY <1>9, <1>10, <1>11 DEF FoundFits

InspectedAt(c, shares, list, f, i) ==
  IF i = 0 THEN NoBases ELSE Inspect(c, shares, f[i - 1], list[i])
AreInspected(c, shares, list, f, m) == f = [i \in 0..m |-> InspectedAt(c, shares, list, f, i)]

LEMMA InspectedExist ==
  ASSUME NEW c, NEW shares, NEW list, NEW m \in Nat
  PROVE  \E f : AreInspected(c, shares, list, f, m)
<1> DEFINE N == {k \in Nat : \E f : AreInspected(c, shares, list, f, k)}
<1>1. 0 \in N
  <2> DEFINE f == [i \in 0..0 |-> NoBases]
  <2>1. \A i \in 0..0 : InspectedAt(c, shares, list, f, i) = NoBases
    BY DEF InspectedAt
  <2>2. AreInspected(c, shares, list, f, 0)
    BY <2>1 DEF AreInspected
  <2> HIDE DEF f
  <2>3. QED BY <2>2
<1>2. ASSUME NEW k \in N PROVE k + 1 \in N
  <2>1. PICK f : AreInspected(c, shares, list, f, k)
    OBVIOUS
  <2> DEFINE g == [i \in 0..(k + 1) |-> InspectedAt(c, shares, list, f, i)]
  <2>2. k \in Nat
    OBVIOUS
  <2>3. \A i \in 0..k : f[i] = InspectedAt(c, shares, list, f, i)
    BY <2>1 DEF AreInspected
  <2>4. \A i \in 0..k : g[i] = f[i]
    BY <2>2, <2>3
  <2>5. \A i \in 0..(k + 1) : i # 0 => g[i - 1] = f[i - 1]
    <3> HIDE DEF g
    <3>1. \A i \in 0..(k + 1) : i # 0 => i - 1 \in 0..k
      BY <2>2
    <3>2. QED BY <2>4, <3>1
  <2>6. \A i \in 0..(k + 1) : InspectedAt(c, shares, list, f, i) = InspectedAt(c, shares, list, g, i)
    <3> HIDE DEF g
    <3>1. QED BY <2>5 DEF InspectedAt
  <2>7. \A i \in 0..(k + 1) : g[i] = InspectedAt(c, shares, list, g, i)
    BY <2>6
  <2>8. AreInspected(c, shares, list, g, k + 1)
    BY <2>7 DEF AreInspected
  <2> HIDE DEF g
  <2>9. k + 1 \in Nat /\ \E h : AreInspected(c, shares, list, h, k + 1)
    BY <2>2, <2>8
  <2>10. QED BY <2>9
<1>3. N = Nat
  <2>1. N \subseteq Nat
    OBVIOUS
  <2> HIDE DEF N
  <2>2. QED BY <1>1, <1>2, <2>1, AllNumbers
<1>4. QED BY <1>3

LEMMA InspectedFit ==
  ASSUME ClassesTyped, KindsOK, NEW c, NEW shares, NEW list, NEW m \in Nat,
         \A j \in 1..m : list[j] \in Classes,
         NEW f, AreInspected(c, shares, list, f, m)
  PROVE  FoundFits(c, shares, f[m], list, m)
<1> DEFINE N == {k \in Nat : k <= m => FoundFits(c, shares, f[k], list, k)}
<1>0. \A i \in 0..m : f[i] = InspectedAt(c, shares, list, f, i)
  BY DEF AreInspected
<1>1. 0 \in N
  <2>1. f[0] = NoBases
    BY <1>0 DEF InspectedAt
  <2>2. FoundFits(c, shares, NoBases, list, 0)
    BY DEF FoundFits, IsFound, FoundNone, NoBases
  <2>3. QED BY <2>1, <2>2
<1>2. ASSUME NEW k \in N PROVE k + 1 \in N
  <2>1. k \in Nat /\ k + 1 \in Nat /\ k + 1 # 0 /\ (k + 1) - 1 = k
    OBVIOUS
  <2>2. CASE k + 1 <= m
    <3>1. k <= m /\ k + 1 \in 0..m /\ \A j \in 1..(k + 1) : j \in 1..m
      BY <2>1, <2>2
    <3>2. f[k + 1] = Inspect(c, shares, f[k], list[k + 1])
      BY <1>0, <2>1, <3>1 DEF InspectedAt
    <3>3. FoundFits(c, shares, f[k], list, k)
      BY <3>1
    <3>4. FoundFits(c, shares, f[k + 1], list, k + 1)
      BY <2>1, <3>1, <3>2, <3>3, FoundGoesOn
    <3>5. QED BY <2>1, <3>4
  <2>3. QED BY <2>1, <2>2
<1>3. N = Nat
  <2>1. N \subseteq Nat
    OBVIOUS
  <2> HIDE DEF N
  <2>2. QED BY <1>1, <1>2, <2>1, AllNumbers
<1>4. QED BY <1>3

-------------------------------------------------------------------------------
\* What a step of NewClass does, when f is what was found of the bases.
Cancelled(f, s, nothing) == [b \in Classes |-> IF b \in f.cancelled THEN nothing ELSE s[b]]

Adds(list, shares, f) ==
  /\ stack = <<>> /\ Len(bases) + 1 <= MaxClasses
  /\ bases' = Append(bases, list) /\ sharing' = Append(sharing, shares)
  /\ attribute' = Append(attribute, WithoutAmbiguous(f.value))
  /\ inherited' = Append(Cancelled(f, inherited, Nil), WithoutAmbiguous(f.value))
  /\ from' = Append(Cancelled(f, from, NoOrigin), f.from)
  /\ built' = NoObject /\ initialized' = {} /\ runs' = <<>>
  /\ UNCHANGED <<stack, historyVars, calls>>

LEMMA ListIs ==
  ASSUME ClassesAssumption, NEW list \in Lists
  PROVE  /\ list \in Seq(Classes) /\ Len(list) \in Nat /\ DOMAIN list = 1..Len(list)
         /\ \A j \in 1..Len(list) : list[j] \in Classes
         /\ \A j, k \in 1..Len(list) : j # k => list[j] # list[k]
<1>1. PICK m \in 0..MaxBases : list \in [1..m -> Classes]
  BY DEF Lists, BoundedSeq, SeqOf
<1>2. m \in Nat
  BY <1>1 DEF ClassesAssumption
<1>3. list \in Seq(Classes)
  BY <1>1, <1>2, SeqDef
<1>4. Len(list) \in Nat /\ DOMAIN list = 1..Len(list)
  BY <1>3, LenProperties
<1>5. \A j \in 1..Len(list) : list[j] \in Classes
  BY <1>1, <1>4
<1>6. \A j, k \in 1..Len(list) : j # k => list[j] # list[k]
  BY <1>4 DEF Lists, IsInjective
<1>7. QED BY <1>3, <1>4, <1>5, <1>6

LEMMA NewClassAdds ==
  ASSUME ClassesAssumption, ClassesTyped, KindsOK, NEW list \in Lists, NEW shares, NewClass(list, shares)
  PROVE  \E f : FoundFits(Len(bases) + 1, shares, f, list, Len(list)) /\ Adds(list, shares, f)
<1> DEFINE c == Len(bases) + 1
           inspected[i \in 0..Len(list)] ==
             IF i = 0 THEN NoBases ELSE Inspect(c, shares, inspected[i - 1], list[i])
           f == inspected[Len(list)]
<1>1. inspected = CHOOSE g : AreInspected(c, shares, list, g, Len(list))
  BY DEF AreInspected, InspectedAt
<1>2. Adds(list, shares, f)
  BY DEF NewClass, Adds, Cancelled
<1> HIDE DEF inspected
<1>3. Len(list) \in Nat /\ \A j \in 1..Len(list) : list[j] \in Classes
  BY ListIs
<1>4. AreInspected(c, shares, list, inspected, Len(list))
  <2> HIDE DEF c
  <2>1. QED BY <1>1, <1>3, InspectedExist
<1>5. FoundFits(c, shares, f, list, Len(list))
  <2> HIDE DEF c
  <2>1. QED BY <1>3, <1>4, InspectedFit
<1>6. QED BY <1>2, <1>5

-------------------------------------------------------------------------------
(* The classes after one was added. *)

\* t is s, of length n and with elements of S, with e appended.
Extends(t, s, n, S, e) ==
  /\ t \in [1..(n + 1) -> S \cup {e}]
  /\ \A i \in 1..n : t[i] = s[i]
  /\ t[n + 1] = e

LEMMA Appended ==
  ASSUME NEW n \in Nat, NEW S, NEW s \in [1..n -> S], NEW e
  PROVE  Extends(Append(s, e), s, n, S, e)
<1> DEFINE t == Append(s, e)
<1>1. s \in Seq(S) /\ Len(s) = n
  BY SeqDef, LenProperties
<1>2. s \in Seq(S \cup {e})
  BY <1>1, SeqMonotonic
<1>3. Len(t) = n + 1 /\ t \in Seq(S \cup {e}) /\ t[n + 1] = e /\ \A i \in 1..n : t[i] = s[i]
  BY <1>1, <1>2, AppendProperties
<1>4. t \in [1..(n + 1) -> S \cup {e}]
  BY <1>3, LenProperties
<1>5. QED BY <1>3, <1>4 DEF Extends

NewOne == Len(bases) + 1

\* The classes there were, after one was added.
OldKept(f) ==
  \A b \in Classes :
    /\ bases'[b] = bases[b] /\ sharing'[b] = sharing[b] /\ attribute'[b] = attribute[b]
    /\ inherited'[b] = IF b \in f.cancelled THEN Nil ELSE inherited[b]
    /\ from'[b] = IF b \in f.cancelled THEN NoOrigin ELSE from[b]
NewIs(list, shares, f) ==
  /\ bases'[NewOne] = list /\ sharing'[NewOne] = shares
  /\ attribute'[NewOne] = WithoutAmbiguous(f.value)
  /\ inherited'[NewOne] = WithoutAmbiguous(f.value)
  /\ from'[NewOne] = f.from
NewNumber ==
  /\ Len(bases) \in Nat /\ Classes = 1..Len(bases) /\ Classes' = 1..NewOne
  /\ Len(bases)' = NewOne /\ NewOne \in Nat /\ NewOne \notin Classes /\ NewOne \in Classes'
  /\ \A b \in Classes : b \in Classes'
  /\ \A b \in Classes' : b \in Classes \/ b = NewOne

LEMMA FoundIsTyped ==
  ASSUME ClassesAssumption, ClassesTyped, KindsOK, NEW list \in Lists, NEW shares, NEW f, NEW c,
         FoundFits(c, shares, f, list, Len(list))
  PROVE  /\ f.from \in Origins
         /\ WithoutAmbiguous(f.value) # Nil =>
              /\ f.from # NoOrigin
              /\ \/ WithoutAmbiguous(f.value) = Wrapper(c, f.from.class)
                 \/ \E b \in Classes : /\ WithoutAmbiguous(f.value) = attribute[b]
                                       /\ attribute[b].kind \in {"property", "false"}
<1>1. NoOrigin \in Origins
  BY DEF Origins
<1>2. CASE FoundNone(f, list, Len(list))
  BY <1>1, <1>2 DEF FoundNone, WithoutAmbiguous, Nil, Ambiguous
<1>3. CASE FoundTwo(shares, f, list, Len(list))
  BY <1>1, <1>3 DEF FoundTwo, WithoutAmbiguous
<1>4. CASE FoundOne(c, shares, f, list, Len(list))
  <2>1. PICK j \in 1..Len(list) : Has(list[j]) /\ f.value = Taken(c, f.from, list[j])
    BY <1>4 DEF FoundOne
  <2>2. list[j] \in Classes
    BY ListIs
  <2>3. WithoutAmbiguous(f.value) = f.value
    BY <2>1, <2>2, TakenFits DEF WithoutAmbiguous
  <2>4. f.from \in Origins /\ f.from # NoOrigin
    BY <1>4 DEF FoundOne
  <2>5. \/ f.value = Wrapper(c, f.from.class)
        \/ f.value = attribute[list[j]] /\ attribute[list[j]].kind \in {"property", "false"}
    BY <2>1, <2>2, TakenFits
  <2>6. QED BY <2>2, <2>3, <2>4, <2>5
<1>5. QED BY <1>2, <1>3, <1>4 DEF FoundFits

LEMMA CancelledTyped ==
  ASSUME NEW f, NEW S, NEW s \in [Classes -> S], NEW nothing \in S
  PROVE  Cancelled(f, s, nothing) \in [Classes -> S]
BY DEF Cancelled

LEMMA Added ==
  ASSUME ClassesAssumption, ClassesTyped, KindsOK, NEW list \in Lists, NEW shares \in SUBSET Range(list),
         NEW f, FoundFits(NewOne, shares, f, list, Len(list)), Adds(list, shares, f)
  PROVE  /\ NewNumber /\ OldKept(f) /\ NewIs(list, shares, f)
         /\ bases' \in Seq(Seq(Nat)) /\ ClassesTyped'
<1> DEFINE n == Len(bases)
           v == WithoutAmbiguous(f.value)
<1>1. n \in Nat /\ Classes = 1..n /\ bases \in Seq(Seq(Nat))
  BY DEF ClassesTyped, Derived, Classes
<1>2. list \in Seq(Classes) /\ DOMAIN list = 1..Len(list) /\ \A j \in 1..Len(list) : list[j] \in Classes
  BY ListIs
<1>3. list \in Seq(Nat)
  BY <1>1, <1>2, SeqMonotonic
<1>4. Len(bases') = n + 1 /\ bases' \in Seq(Seq(Nat)) /\ bases'[n + 1] = list
      /\ \A i \in 1..n : bases'[i] = bases[i]
  BY <1>1, <1>3, AppendProperties DEF Adds
<1>5. NewNumber
  <2>1. Classes' = 1..(n + 1)
    BY <1>4 DEF Classes
  <2>2. QED BY <1>1, <1>4, <2>1 DEF NewNumber, NewOne
<1>6. Extends(sharing', sharing, n, SUBSET Classes, shares)
  <2>1. sharing \in [1..n -> SUBSET Classes] /\ sharing' = Append(sharing, shares)
    BY <1>1 DEF ClassesTyped, Adds
  <2>2. QED BY <1>1, <2>1, Appended
<1>7. Extends(attribute', attribute, n, Values, v)
  <2>1. attribute \in [1..n -> Values] /\ attribute' = Append(attribute, v)
    BY <1>1 DEF ClassesTyped, Adds
  <2> HIDE DEF v
  <2>2. QED BY <1>1, <2>1, Appended
<1>8. Extends(inherited', Cancelled(f, inherited, Nil), n, Values, v)
  <2>1. inherited' = Append(Cancelled(f, inherited, Nil), v)
    BY DEF Adds
  <2>2. Nil \in Values /\ inherited \in [Classes -> Values]
    BY DEF Values, ClassesTyped
  <2>3. Cancelled(f, inherited, Nil) \in [1..n -> Values]
    BY <1>1, <2>2, CancelledTyped
  <2> HIDE DEF v
  <2>4. QED BY <1>1, <2>1, <2>3, Appended
<1>9. Extends(from', Cancelled(f, from, NoOrigin), n, Origins, f.from)
  <2>1. from' = Append(Cancelled(f, from, NoOrigin), f.from)
    BY DEF Adds
  <2>2. NoOrigin \in Origins /\ from \in [Classes -> Origins]
    BY DEF Origins, ClassesTyped
  <2>3. Cancelled(f, from, NoOrigin) \in [1..n -> Origins]
    BY <1>1, <2>2, CancelledTyped
  <2>4. QED BY <1>1, <2>1, <2>3, Appended
<1>10. OldKept(f)
  BY <1>1, <1>4, <1>6, <1>7, <1>8, <1>9 DEF OldKept, Cancelled, Extends
<1>11. NewIs(list, shares, f)
  BY <1>4, <1>6, <1>7, <1>8, <1>9 DEF NewIs, NewOne, Extends
<1>12. Derived'
  <2>1. ASSUME NEW d \in Classes', NEW i \in DOMAIN bases'[d] PROVE bases'[d][i] \in 1..(d - 1)
    <3>1. CASE d \in Classes
      BY <1>10, <2>1, <3>1 DEF OldKept, ClassesTyped, Derived
    <3>2. CASE d = n + 1
      BY <1>1, <1>2, <1>4, <2>1, <3>2
    <3>3. QED BY <1>5, <3>1, <3>2 DEF NewNumber, NewOne
  <2>2. QED BY <1>4, <2>1 DEF Derived
<1>13. v \in Values' /\ Values \subseteq Values'
  <2>1. Values \subseteq Values'
    BY <1>5 DEF Values, NewNumber
  <2>2. Nil \in Values' /\ \A k \in Classes : Wrapper(NewOne, k) \in Values'
    BY <1>5 DEF Values, NewNumber
  <2>3. f.from # NoOrigin => f.from.class \in Classes
    BY FoundIsTyped, OriginsAre
  <2>4. \A b \in Classes : attribute[b] \in Values
    BY DEF ClassesTyped
  <2>5. v = Nil \/ (v = Wrapper(NewOne, f.from.class) /\ f.from # NoOrigin) \/ \E b \in Classes : v = attribute[b]
    <3>1. v # Nil => /\ f.from # NoOrigin
                     /\ \/ v = Wrapper(NewOne, f.from.class)
                        \/ \E b \in Classes : v = attribute[b] /\ attribute[b].kind \in {"property", "false"}
      BY FoundIsTyped
    <3> HIDE DEF v
    <3>2. QED BY <3>1
  <2> HIDE DEF v
  <2>6. QED BY <2>1, <2>2, <2>3, <2>4, <2>5
<1>14. f.from \in Origins' /\ Origins \subseteq Origins'
  <2>1. Origins \subseteq Origins'
    BY <1>5 DEF Origins, NewNumber
  <2>2. QED BY <2>1, FoundIsTyped
<1>15. ClassesTyped'
  <2>1. Classes' = 1..(n + 1)
    BY <1>5 DEF NewNumber, NewOne
  <2>2. Range(list) \subseteq Classes'
    BY <1>2, <1>5 DEF Range, NewNumber
  <2>3. sharing' \in [Classes' -> SUBSET Classes']
    <3>1. (SUBSET Classes) \cup {shares} \subseteq SUBSET Classes'
      <4>1. \A x \in shares : x \in Classes'
        BY <2>2
      <4>2. \A x \in Classes : x \in Classes'
        BY <1>5 DEF NewNumber
      <4>3. \A s \in SUBSET Classes : \A x \in s : x \in Classes'
        BY <4>2
      <4>4. \A s \in (SUBSET Classes) \cup {shares} : s \subseteq Classes'
        BY <4>1, <4>3
      <4>5. QED BY <4>4
    <3>2. QED BY <1>6, <2>1, <3>1 DEF Extends
  <2>4. attribute' \in [Classes' -> Values'] /\ inherited' \in [Classes' -> Values']
    <3> HIDE DEF v
    <3>1. QED BY <1>7, <1>8, <1>13, <2>1 DEF Extends
  <2>5. from' \in [Classes' -> Origins']
    BY <1>9, <1>14, <2>1 DEF Extends
  <2>6. Len(bases') <= MaxClasses /\ own' = own /\ late' = late /\ calls' = calls
    BY <1>4 DEF Adds, historyVars
  <2>7. own' \subseteq Classes' /\ late' \in BOOLEAN /\ calls' \in 0..MaxCalls
    BY <1>5, <2>6 DEF ClassesTyped, NewNumber
  <2>8. QED BY <1>12, <2>3, <2>4, <2>5, <2>6, <2>7 DEF ClassesTyped
<1>16. QED BY <1>4, <1>5, <1>10, <1>11, <1>15

-------------------------------------------------------------------------------
(* What heirs and their bases agree about. *)

Settled(b) == ~Redefined(b)
Org(c, b) == OriginIn(sharing[c], b)
Anchored(k) == k \in Classes /\ Has(k) /\ ~Truthy(inherited[k]) /\ \E d \in Classes : k \in Bases(d)

\* What c inherited, all its bases that have the attribute still offer.
InheritsOK(c) ==
  inherited[c] # Nil =>
    /\ \A b \in Bases(c) : Has(b) => Settled(b) /\ Org(c, b) = from[c]
    /\ \E b \in Bases(c) : Has(b)
    /\ \A b, d \in Bases(c) : b # d /\ Has(b) /\ Has(d) => from[c].shared
    /\ Anchored(from[c].class)
    /\ inherited[c].kind = "wrapper" =>
         inherited[c] = Wrapper(c, from[c].class) /\ attribute[from[c].class].kind = "function"
UntouchedOK(c) == c \notin own => attribute[c] = inherited[c]
\* What c did not inherit, no base has, or two of them do not agree about.
LacksOK(c) ==
  c \notin own /\ inherited[c] = Nil =>
    \/ \A b \in Bases(c) : ~Has(b)
    \/ \E b, d \in Bases(c) :
         b # d /\ Has(b) /\ Has(d) /\ Settled(b) /\ Settled(d) /\ Clash(Org(c, b), Org(c, d))
HeirsOK == ~late => \A c \in Classes : InheritsOK(c) /\ UntouchedOK(c) /\ LacksOK(c)

LEMMA SettledStays ==
  ASSUME NEW f, IsFound(f), OldKept(f), NEW b \in Classes, Settled(b)
  PROVE  /\ inherited'[b] = inherited[b] /\ from'[b] = from[b] /\ attribute'[b] = attribute[b]
         /\ Settled(b)' /\ Has(b)' = Has(b)
         /\ \A shares : OriginIn(shares, b)' = OriginIn(shares, b)
<1>1. b \notin f.cancelled
  BY DEF IsFound, Settled
<1>2. inherited'[b] = inherited[b] /\ from'[b] = from[b] /\ attribute'[b] = attribute[b]
  BY <1>1 DEF OldKept
<1>3. Settled(b)' /\ Has(b)' = Has(b)
  BY <1>2 DEF Settled, Redefined, Truthy, Has
<1>4. \A shares : OriginIn(shares, b)' = OriginIn(shares, b)
  BY <1>2 DEF OriginIn, Truthy
<1>5. QED BY <1>2, <1>3, <1>4

LEMMA AnchoredStays ==
  ASSUME NEW f, NewNumber, OldKept(f), NEW k, Anchored(k)
  PROVE  Anchored(k)' /\ attribute'[k] = attribute[k]
<1>1. k \in Classes' /\ attribute'[k] = attribute[k] /\ ~Truthy(inherited'[k])
  BY DEF Anchored, NewNumber, OldKept, Truthy
<1>2. PICK d \in Classes : k \in Bases(d)
  BY DEF Anchored
<1>3. d \in Classes' /\ k \in Bases(d)'
  BY <1>2 DEF NewNumber, OldKept, Bases
<1>4. Has(k)'
  BY <1>1 DEF Anchored, Has
<1>5. QED BY <1>1, <1>3, <1>4 DEF Anchored, Truthy

LEMMA OldHeir ==
  ASSUME ClassesTyped, NEW f, IsFound(f), NewNumber, OldKept(f), own' = own, NEW c \in Classes,
         InheritsOK(c), UntouchedOK(c), LacksOK(c)
  PROVE  InheritsOK(c)' /\ UntouchedOK(c)' /\ LacksOK(c)'
<1>1. /\ Bases(c)' = Bases(c) /\ sharing'[c] = sharing[c] /\ attribute'[c] = attribute[c]
      /\ Bases(c) \subseteq Classes
  <2>1. Bases(c) \subseteq Classes
    BY BasesAreOlder DEF ClassesTyped
  <2>2. QED BY <2>1 DEF OldKept, Bases
<1>2. \A b \in Bases(c) : Has(b)' <=> Has(b)
  BY <1>1 DEF OldKept, Has
<1>3. \A b \in Bases(c) : Settled(b) => Settled(b)' /\ Org(c, b)' = Org(c, b)
  <2>1. SUFFICES ASSUME NEW b \in Bases(c), Settled(b) PROVE Settled(b)' /\ Org(c, b)' = Org(c, b)
    OBVIOUS
  <2>2. b \in Classes
    BY <1>1
  <2>3. Settled(b)' /\ OriginIn(sharing[c], b)' = OriginIn(sharing'[c], b)
    BY <2>1, <2>2, SettledStays
  <2>4. QED BY <1>1, <2>3 DEF Org
<1>4. c \in f.cancelled => c \in own
  BY DEF IsFound, Redefined, UntouchedOK
<1>5. inherited'[c] = (IF c \in f.cancelled THEN Nil ELSE inherited[c])
      /\ (c \notin f.cancelled => from'[c] = from[c])
  BY DEF OldKept
<1>6. InheritsOK(c)'
  <2>1. SUFFICES ASSUME inherited'[c] # Nil PROVE InheritsOK(c)'
    BY DEF InheritsOK
  <2>2. inherited[c] # Nil /\ inherited'[c] = inherited[c] /\ from'[c] = from[c]
    BY <1>5, <2>1
  <2>3. PICK k : k = from[c].class
    OBVIOUS
  <2>4. Anchored(k)' /\ attribute'[k] = attribute[k] /\ k = from'[c].class
    <3>1. Anchored(k)
      BY <2>2, <2>3 DEF InheritsOK
    <3>2. QED BY <2>2, <2>3, <3>1, AnchoredStays
  <2>5. \A b \in Bases(c)' : Has(b)' => Settled(b)' /\ Org(c, b)' = from'[c]
    BY <1>1, <1>2, <1>3, <2>2 DEF InheritsOK
  <2>6. /\ \E b \in Bases(c)' : Has(b)'
        /\ \A b, d \in Bases(c)' : b # d /\ Has(b)' /\ Has(d)' => from'[c].shared
    BY <1>1, <1>2, <2>2 DEF InheritsOK
  <2>7. inherited'[c].kind = "wrapper" =>
          inherited'[c] = Wrapper(c, from'[c].class) /\ attribute'[from'[c].class].kind = "function"
    BY <2>2, <2>3, <2>4 DEF InheritsOK
  <2>8. Anchored(from[c].class)'
    BY <2>4 DEF Anchored, Has, Bases
  <2>9. QED BY <2>2, <2>5, <2>6, <2>7, <2>8 DEF InheritsOK, Wrapper
<1>7. UntouchedOK(c)'
  BY <1>1, <1>4, <1>5 DEF UntouchedOK
<1>8. LacksOK(c)'
  <2>1. SUFFICES ASSUME c \notin own, inherited'[c] = Nil PROVE LacksOK(c)'
    BY DEF LacksOK
  <2>2. inherited[c] = Nil
    BY <1>4, <1>5, <2>1
  <2>3. CASE \A b \in Bases(c) : ~Has(b)
    BY <1>1, <1>2, <2>3 DEF LacksOK
  <2>4. CASE \E b, d \in Bases(c) :
               b # d /\ Has(b) /\ Has(d) /\ Settled(b) /\ Settled(d) /\ Clash(Org(c, b), Org(c, d))
    BY <1>1, <1>2, <1>3, <2>4 DEF LacksOK, Clash
  <2>5. QED BY <2>1, <2>2, <2>3, <2>4 DEF LacksOK
<1>9. QED BY <1>6, <1>7, <1>8

LEMMA NoticedSettles ==
  ASSUME NEW f, IsFound(f), OldKept(f), NEW b \in Classes, Redefined(b) => b \in f.cancelled, NEW s
  PROVE  Settled(b)' /\ Has(b)' = Has(b) /\ OriginIn(s, b)' = OriginIn(s, b) /\ attribute'[b] = attribute[b]
         /\ (~(Truthy(inherited[b]) /\ attribute[b] = inherited[b]) => ~Truthy(inherited'[b]))
<1>1. attribute'[b] = attribute[b]
  BY DEF OldKept
<1>2. CASE b \in f.cancelled
  <2>1. inherited'[b] = Nil /\ Redefined(b)
    BY <1>2 DEF OldKept, IsFound
  <2>2. QED BY <1>1, <2>1 DEF Settled, Redefined, Truthy, Has, OriginIn
<1>3. CASE b \notin f.cancelled
  <2>1. inherited'[b] = inherited[b] /\ from'[b] = from[b] /\ ~Redefined(b)
    BY <1>3 DEF OldKept
  <2>2. QED BY <1>1, <2>1 DEF Settled, Redefined, Truthy, Has, OriginIn
<1>4. QED BY <1>2, <1>3

LEMMA NewHeir ==
  ASSUME ClassesAssumption, ClassesTyped, KindsOK, \A c \in Classes : InheritsOK(c),
         NEW list \in Lists, NEW shares \in SUBSET Range(list), NEW f,
         FoundFits(NewOne, shares, f, list, Len(list)), Adds(list, shares, f),
         NEW n, n = NewOne
  PROVE  InheritsOK(n)' /\ UntouchedOK(n)' /\ LacksOK(n)'
<1>1. NewNumber /\ OldKept(f) /\ NewIs(list, shares, f) /\ IsFound(f)
  BY Added DEF FoundFits
<1>2. DOMAIN list = 1..Len(list) /\ (\A j \in 1..Len(list) : list[j] \in Classes)
      /\ \A j, k \in 1..Len(list) : j # k => list[j] # list[k]
  BY ListIs
<1>3. /\ attribute'[n] = WithoutAmbiguous(f.value) /\ inherited'[n] = WithoutAmbiguous(f.value)
      /\ from'[n] = f.from /\ sharing'[n] = shares /\ Bases(n)' = Range(list) /\ n \in Classes'
  BY <1>1 DEF NewIs, Bases, NewNumber
<1>4. \A b \in Range(list) : b \in Classes /\ \E j \in 1..Len(list) : b = list[j]
  BY <1>2 DEF Range
<1>5. \A j \in 1..Len(list) : list[j] \in Range(list)
  BY <1>2 DEF Range
<1>6. \A b \in Range(list) : Has(b)' = Has(b)
  BY <1>1, <1>4 DEF OldKept, Has
<1>7. ASSUME NEW b \in Range(list), Redefined(b) => b \in f.cancelled
      PROVE  Settled(b)' /\ Org(n, b)' = OriginIn(shares, b)
             /\ (~(Truthy(inherited[b]) /\ attribute[b] = inherited[b]) => ~Truthy(inherited'[b]))
  <2>1. b \in Classes
    BY <1>4
  <2>2. Settled(b)' /\ OriginIn(shares, b)' = OriginIn(shares, b)
        /\ (~(Truthy(inherited[b]) /\ attribute[b] = inherited[b]) => ~Truthy(inherited'[b]))
    BY <1>1, <1>7, <2>1, NoticedSettles
  <2>3. Org(n, b)' = OriginIn(shares, b)'
    BY <1>3 DEF Org, OriginIn
  <2>4. QED BY <2>2, <2>3
<1>8. UntouchedOK(n)'
  BY <1>3 DEF UntouchedOK
<1>9. CASE FoundNone(f, list, Len(list))
  <2>1. inherited'[n] = Nil
    BY <1>3, <1>9 DEF FoundNone, WithoutAmbiguous, Nil, Ambiguous
  <2>2. \A b \in Range(list) : ~Has(b)
    BY <1>4, <1>9 DEF FoundNone
  <2>3. \A b \in Bases(n)' : ~Has(b)'
    BY <1>3, <1>6, <2>2
  <2>4. QED BY <1>8, <2>1, <2>3 DEF InheritsOK, LacksOK
<1>10. CASE FoundTwo(shares, f, list, Len(list))
  <2>1. inherited'[n] = Nil
    BY <1>3, <1>10 DEF FoundTwo, WithoutAmbiguous
  <2>2. PICK j, k \in 1..Len(list) :
          /\ j # k /\ Has(list[j]) /\ Has(list[k])
          /\ Redefined(list[j]) => list[j] \in f.cancelled
          /\ Redefined(list[k]) => list[k] \in f.cancelled
          /\ Clash(OriginIn(shares, list[j]), OriginIn(shares, list[k]))
    BY <1>10 DEF FoundTwo
  <2>3. PICK b, d : b = list[j] /\ d = list[k]
    OBVIOUS
  <2>4. b \in Range(list) /\ d \in Range(list) /\ b # d
    BY <1>2, <1>5, <2>2, <2>3
  <2>5. Has(b)' /\ Has(d)' /\ Settled(b)' /\ Settled(d)'
    BY <1>6, <1>7, <2>2, <2>3, <2>4
  <2>6. Org(n, b)' = OriginIn(shares, b) /\ Org(n, d)' = OriginIn(shares, d)
    BY <1>7, <2>2, <2>3, <2>4
  <2>7. Clash(Org(n, b), Org(n, d))'
    BY <2>2, <2>3, <2>6 DEF Clash
  <2>8. LacksOK(n)'
    BY <1>3, <2>4, <2>5, <2>7 DEF LacksOK
  <2>9. QED BY <1>8, <2>1, <2>8 DEF InheritsOK
<1>11. CASE FoundOne(NewOne, shares, f, list, Len(list))
  <2>1. PICK j \in 1..Len(list) : Has(list[j]) /\ f.value = Taken(n, f.from, list[j])
    BY <1>11 DEF FoundOne
  <2>2. PICK b : b = list[j]
    OBVIOUS
  <2>3. b \in Range(list) /\ b \in Classes /\ Has(b)
    BY <1>2, <1>5, <2>1, <2>2
  <2>4. /\ f.value # Nil /\ WithoutAmbiguous(f.value) = f.value
        /\ f.value = Taken(n, f.from, b)
        /\ f.value = Wrapper(n, f.from.class) \/ (f.value = attribute[b] /\ attribute[b].kind \in {"property", "false"})
    BY <2>1, <2>2, <2>3, TakenFits DEF WithoutAmbiguous
  <2>5. \A d \in Range(list) : Has(d) =>
          OriginIn(shares, d) = f.from /\ (Redefined(d) => d \in f.cancelled)
    BY <1>4, <1>11 DEF FoundOne
  <2>6. \A d \in Bases(n)' : Has(d)' => Settled(d)' /\ Org(n, d)' = from'[n]
    BY <1>3, <1>6, <1>7, <2>5
  <2>7. \E d \in Bases(n)' : Has(d)'
    BY <1>3, <1>6, <2>3
  <2>8. \A d, e \in Bases(n)' : d # e /\ Has(d)' /\ Has(e)' => from'[n].shared
    <3>1. ASSUME NEW d \in Range(list), NEW e \in Range(list), d # e, Has(d), Has(e) PROVE f.from.shared
      <4>1. PICK k, l \in 1..Len(list) : d = list[k] /\ e = list[l]
        BY <1>4
      <4>2. k # l
        BY <3>1, <4>1
      <4>3. QED BY <1>11, <3>1, <4>1, <4>2 DEF FoundOne
    <3>2. QED BY <1>3, <1>6, <3>1
  <2>9. PICK k : k = f.from.class
    OBVIOUS
  <2>10. Anchored(k)' /\ (Callable(attribute[b]) => attribute'[k].kind = "function")
    <3>1. attribute[b] \in Values /\ attribute[b] # Nil /\ attribute[b] \notin {Ambiguous}
      BY <2>3, ValueKinds DEF ClassesTyped, Has
    <3>2. OriginIn(shares, b) = f.from /\ (Redefined(b) => b \in f.cancelled)
      BY <2>3, <2>5
    <3>3. CASE Truthy(inherited[b]) /\ attribute[b] = inherited[b]
      <4>1. f.from = from[b]
        BY <3>2, <3>3 DEF OriginIn
      <4>2. Anchored(k) /\ (inherited[b].kind = "wrapper" => attribute[k].kind = "function")
        BY <2>3, <2>9, <3>3, <4>1 DEF InheritsOK, Truthy
      <4>3. Anchored(k)' /\ attribute'[k] = attribute[k]
        BY <1>1, <4>2, AnchoredStays
      <4>4. Callable(attribute[b]) => inherited[b].kind = "wrapper"
        BY <2>3, <3>3 DEF Callable, KindsOK
      <4>5. QED BY <4>2, <4>3, <4>4
    <3>4. CASE ~(Truthy(inherited[b]) /\ attribute[b] = inherited[b])
      <4>1. f.from = [class |-> b, shared |-> b \in shares]
        BY <3>2, <3>4 DEF OriginIn
      <4>2. k = b
        BY <2>9, <4>1
      <4>3. ~Truthy(inherited'[b]) /\ Has(b)' /\ attribute'[b] = attribute[b]
        BY <1>1, <1>6, <1>7, <2>3, <3>2, <3>4 DEF OldKept
      <4>4. b \in Classes' /\ b \in Bases(n)' /\ n \in Classes'
        BY <1>1, <1>3, <2>3 DEF NewNumber
      <4>5. Anchored(b)'
        BY <4>3, <4>4 DEF Anchored, Truthy
      <4>6. attribute[b].kind # "wrapper"
        BY <2>3, <3>1, <3>4 DEF KindsOK, Truthy, Nil, False
      <4>7. QED BY <4>2, <4>3, <4>5, <4>6 DEF Callable
    <3>5. QED BY <3>3, <3>4
  <2>11. Anchored(from[n].class)'
    BY <1>3, <2>9, <2>10 DEF Anchored, Has, Bases
  <2>12. inherited'[n].kind = "wrapper" =>
           inherited'[n] = Wrapper(n, from'[n].class) /\ attribute'[from'[n].class].kind = "function"
    <3>1. inherited'[n] = f.value
      BY <1>3, <2>4
    <3>2. f.value.kind = "wrapper" => Callable(attribute[b]) /\ f.value = Wrapper(n, f.from.class)
      BY <2>4 DEF Taken, Callable
    <3>3. QED BY <1>3, <2>9, <2>10, <3>1, <3>2
  <2>13. InheritsOK(n)'
    BY <2>6, <2>7, <2>8, <2>11, <2>12 DEF InheritsOK, Wrapper
  <2>14. LacksOK(n)'
    BY <1>3, <2>4 DEF LacksOK
  <2>15. QED BY <1>8, <2>13, <2>14
<1>12. QED BY <1>9, <1>10, <1>11 DEF FoundFits

-------------------------------------------------------------------------------
(* Assignments. *)

LEMMA AssignIs ==
  ASSUME ClassesTyped, NEW x \in Classes, NEW v, Assign(x, v)
  PROVE  /\ attribute'[x] = v /\ \A b \in Classes : b # x => attribute'[b] = attribute[b]
         /\ bases' = bases /\ sharing' = sharing /\ inherited' = inherited /\ from' = from
         /\ Classes' = Classes /\ \A c : Bases(c)' = Bases(c)
BY DEF Assign, ClassesTyped, Classes, Bases

LEMMA AssignTypes ==
  ASSUME ClassesAssumption, ClassesTyped, KindsOK, NEW x \in Classes, NEW v \in {Nil} \cup Assignable,
         Assign(x, v)
  PROVE  ClassesTyped' /\ KindsOK'
<1>1. Classes' = Classes /\ Values' = Values /\ Origins' = Origins
  BY AssignIs DEF Values, Origins
<1>2. v \in Values /\ v.kind # "wrapper"
  BY AssignableKinds
<1>3. attribute' \in [Classes -> Values]
  BY <1>2 DEF Assign, ClassesTyped
<1>4. Derived'
  BY AssignIs DEF Derived, ClassesTyped
<1>5. own' \subseteq Classes /\ late' \in BOOLEAN /\ calls' \in 0..MaxCalls
  <2>1. own' \subseteq Classes
    BY DEF Assign, ClassesTyped
  <2>2. late' \in BOOLEAN
    <3>1. late' = TRUE \/ late' = FALSE
      BY DEF Assign, ClassesTyped
    <3>2. QED BY <3>1
  <2>3. calls' \in 0..MaxCalls
    BY DEF Assign, ClassesTyped, ClassesAssumption
  <2>4. QED BY <2>1, <2>2, <2>3
<1>6. ClassesTyped'
  BY <1>1, <1>3, <1>4, <1>5, AssignIs DEF ClassesTyped
<1>7. KindsOK'
  BY <1>1, <1>2, AssignIs DEF KindsOK
<1>8. QED BY <1>6, <1>7

\* What an assignment that is not too late leaves to the heirs.
LEMMA HeirsSeeTheSame ==
  ASSUME ClassesTyped, NEW x \in Classes, NEW v \in {Nil} \cup Assignable, Assign(x, v), ~late',
         NEW b \in Classes, NEW d \in Classes, b \in Bases(d)
  PROVE  /\ Has(b)' = Has(b) /\ attribute'[b].kind = attribute[b].kind
         /\ Settled(b) /\ Has(b) => Settled(b)' /\ \A s : OriginIn(s, b)' = OriginIn(s, b)
<1>1. inherited'[b] = inherited[b] /\ from'[b] = from[b]
  BY AssignIs
<1>2. CASE b # x
  <2>1. attribute'[b] = attribute[b]
    BY <1>2, AssignIs
  <2>2. QED BY <1>1, <2>1 DEF Has, Settled, Redefined, Truthy, OriginIn
<1>3. CASE b = x
  <2>1. Defines(b) /\ attribute[b].kind = v.kind /\ attribute'[b] = v
    BY <1>3, AssignIs DEF Assign
  <2>2. attribute[b] \in Values /\ v \in Values
    BY AssignableKinds DEF ClassesTyped
  <2>3. attribute[b] # Nil /\ v # Nil
    BY <2>1, <2>2, ValueKinds DEF Defines
  <2>4. Settled(b) => ~Truthy(inherited[b])
    BY <2>1 DEF Settled, Redefined, Defines
  <2>5. QED BY <1>1, <2>1, <2>3, <2>4 DEF Has, Settled, Redefined, Truthy, OriginIn
<1>4. QED BY <1>2, <1>3

LEMMA AssignHeir ==
  ASSUME ClassesTyped, NEW x \in Classes, NEW v \in {Nil} \cup Assignable, Assign(x, v), ~late',
         NEW c \in Classes, InheritsOK(c), UntouchedOK(c), LacksOK(c)
  PROVE  InheritsOK(c)' /\ UntouchedOK(c)' /\ LacksOK(c)'
<1>1. /\ Bases(c)' = Bases(c) /\ Classes' = Classes /\ sharing' = sharing
      /\ inherited' = inherited /\ from' = from /\ own' = own \cup {x}
      /\ Bases(c) \subseteq Classes /\ \A b \in Classes : b # x => attribute'[b] = attribute[b]
  <2>1. Bases(c) \subseteq Classes
    BY BasesAreOlder DEF ClassesTyped
  <2>2. QED BY <2>1, AssignIs DEF Assign
<1>2. \A b \in Bases(c) : Has(b)' = Has(b)
  BY <1>1, HeirsSeeTheSame
<1>3. \A b \in Bases(c) : Settled(b) /\ Has(b) => Settled(b)' /\ Org(c, b)' = Org(c, b)
  <2>1. SUFFICES ASSUME NEW b \in Bases(c), Settled(b), Has(b) PROVE Settled(b)' /\ Org(c, b)' = Org(c, b)
    OBVIOUS
  <2>2. PICK s : s = sharing[c]
    OBVIOUS
  <2>3. Settled(b)' /\ OriginIn(s, b)' = OriginIn(s, b)
    BY <1>1, <2>1, HeirsSeeTheSame
  <2>4. Org(c, b)' = OriginIn(s, b)' /\ Org(c, b) = OriginIn(s, b)
    BY <1>1, <2>2 DEF Org, OriginIn
  <2>5. QED BY <2>3, <2>4
<1>4. ASSUME NEW k, Anchored(k) PROVE Anchored(k)' /\ attribute'[k].kind = attribute[k].kind
  <2>1. PICK d \in Classes : k \in Bases(d)
    BY <1>4 DEF Anchored
  <2>2. k \in Classes /\ Has(k) /\ ~Truthy(inherited[k])
    BY <1>4 DEF Anchored
  <2>3. Has(k)' /\ attribute'[k].kind = attribute[k].kind
    BY <2>1, <2>2, HeirsSeeTheSame
  <2>4. k \in Bases(d)' /\ d \in Classes' /\ k \in Classes' /\ ~Truthy(inherited[k])'
    BY <1>1, <2>1, <2>2, AssignIs
  <2>5. QED BY <2>3, <2>4 DEF Anchored, Truthy
<1>5. InheritsOK(c)'
  <2>1. SUFFICES ASSUME inherited'[c] # Nil PROVE InheritsOK(c)'
    BY DEF InheritsOK
  <2>2. inherited[c] # Nil /\ inherited'[c] = inherited[c] /\ from'[c] = from[c]
    BY <1>1, <2>1
  <2>3. PICK k : k = from[c].class
    OBVIOUS
  <2>4. Anchored(k)' /\ attribute'[k].kind = attribute[k].kind /\ k = from'[c].class
    <3>1. Anchored(k)
      BY <2>2, <2>3 DEF InheritsOK
    <3>2. QED BY <1>4, <2>2, <2>3, <3>1
  <2>5. \A b \in Bases(c)' : Has(b)' => Settled(b)' /\ Org(c, b)' = from'[c]
    BY <1>1, <1>2, <1>3, <2>2 DEF InheritsOK
  <2>6. /\ \E b \in Bases(c)' : Has(b)'
        /\ \A b, d \in Bases(c)' : b # d /\ Has(b)' /\ Has(d)' => from'[c].shared
    BY <1>1, <1>2, <2>2 DEF InheritsOK
  <2>7. inherited'[c].kind = "wrapper" =>
          inherited'[c] = Wrapper(c, from'[c].class) /\ attribute'[from'[c].class].kind = "function"
    BY <2>2, <2>3, <2>4 DEF InheritsOK
  <2>8. Anchored(from[c].class)'
    BY <2>4 DEF Anchored, Has, Bases
  <2>9. QED BY <2>2, <2>5, <2>6, <2>7, <2>8 DEF InheritsOK, Wrapper
<1>6. UntouchedOK(c)'
  BY <1>1 DEF UntouchedOK
<1>7. LacksOK(c)'
  <2>1. SUFFICES ASSUME c \notin own, inherited[c] = Nil PROVE LacksOK(c)'
    BY <1>1 DEF LacksOK
  <2>2. CASE \A b \in Bases(c) : ~Has(b)
    BY <1>1, <1>2, <2>2 DEF LacksOK
  <2>3. CASE \E b, d \in Bases(c) :
               b # d /\ Has(b) /\ Has(d) /\ Settled(b) /\ Settled(d) /\ Clash(Org(c, b), Org(c, d))
    BY <1>1, <1>2, <1>3, <2>3 DEF LacksOK, Clash
  <2>4. QED BY <2>1, <2>2, <2>3 DEF LacksOK
<1>8. QED BY <1>5, <1>6, <1>7

LEMMA AssignHeirs ==
  ASSUME ClassesTyped, HeirsOK, NEW x \in Classes, NEW v \in {Nil} \cup Assignable, Assign(x, v)
  PROVE  HeirsOK'
<1>1. SUFFICES ASSUME ~late' PROVE \A c \in Classes' : InheritsOK(c)' /\ UntouchedOK(c)' /\ LacksOK(c)'
  BY DEF HeirsOK
<1>2. ~late /\ Classes' = Classes
  BY <1>1, AssignIs DEF Assign
<1>3. QED BY <1>1, <1>2, AssignHeir DEF HeirsOK

LEMMA NewClassHeirs ==
  ASSUME ClassesAssumption, ClassesTyped, KindsOK, HeirsOK,
         NEW list \in Lists, NEW shares \in SUBSET Range(list), NewClass(list, shares)
  PROVE  ClassesTyped' /\ KindsOK' /\ HeirsOK'
<1>1. PICK f : FoundFits(NewOne, shares, f, list, Len(list)) /\ Adds(list, shares, f)
  BY NewClassAdds DEF NewOne
<1>2. /\ NewNumber /\ OldKept(f) /\ NewIs(list, shares, f) /\ IsFound(f)
      /\ ClassesTyped'
  BY <1>1, Added DEF FoundFits
<1>3. KindsOK'
  <2>1. ASSUME NEW c \in Classes'
        PROVE  /\ inherited'[c] # Nil => from'[c] # NoOrigin
               /\ inherited'[c].kind # "function"
               /\ attribute'[c].kind = "wrapper" => attribute'[c] = inherited'[c]
    <3>1. CASE c \in Classes
      <4>1. /\ attribute'[c] = attribute[c]
            /\ inherited'[c] = IF c \in f.cancelled THEN Nil ELSE inherited[c]
            /\ from'[c] = IF c \in f.cancelled THEN NoOrigin ELSE from[c]
        BY <1>2, <3>1 DEF OldKept
      <4>2. c \in f.cancelled => attribute[c] # inherited[c]
        BY <1>2 DEF IsFound, Redefined
      <4>3. Nil.kind # "function"
        BY DEF Nil
      <4>4. QED BY <3>1, <4>1, <4>2, <4>3 DEF KindsOK
    <3>2. CASE c = NewOne
      <4>1. /\ attribute'[c] = WithoutAmbiguous(f.value) /\ inherited'[c] = WithoutAmbiguous(f.value)
            /\ from'[c] = f.from
        BY <1>2, <3>2 DEF NewIs
      <4>2. WithoutAmbiguous(f.value) # Nil =>
              f.from # NoOrigin /\ WithoutAmbiguous(f.value).kind \in {"wrapper", "property", "false"}
        BY <1>1, FoundIsTyped, WrapperIs
      <4>3. Nil.kind # "function"
        BY DEF Nil
      <4>4. WithoutAmbiguous(f.value).kind # "function"
        BY <4>2, <4>3
      <4>5. QED BY <4>1, <4>2, <4>4
    <3>3. QED BY <1>2, <3>1, <3>2 DEF NewNumber
  <2>2. QED BY <2>1 DEF KindsOK
<1>4. HeirsOK'
  <2>1. own' = own /\ late' = late
    BY <1>1 DEF Adds, historyVars
  <2>2. SUFFICES ASSUME ~late, NEW c \in Classes' PROVE InheritsOK(c)' /\ UntouchedOK(c)' /\ LacksOK(c)'
    BY <2>1 DEF HeirsOK
  <2>3. CASE c \in Classes
    BY <1>2, <2>1, <2>2, <2>3, OldHeir DEF HeirsOK
  <2>4. CASE c = NewOne
    BY <1>1, <2>2, <2>4, NewHeir DEF HeirsOK
  <2>5. QED BY <1>2, <2>3, <2>4 DEF NewNumber
<1>5. QED BY <1>2, <1>3, <1>4

-------------------------------------------------------------------------------
(* Where the derivation leads. *)

\* Following the derivation from o ends at one object, which origin describes.
EndsAt(s, origin) ==
  IsObject(s) /\ ClassOf(s) = origin.class /\ (s = <<origin.class>> <=> origin.shared)
SourceOK(o) ==
  /\ ~Has(ClassOf(o)) => Sources(o) = {}
  /\ Has(ClassOf(o)) /\ Defines(ClassOf(o)) => Sources(o) = {o}
  /\ Has(ClassOf(o)) /\ ~Defines(ClassOf(o)) =>
       \E s : Sources(o) = {s} /\ EndsAt(s, from[ClassOf(o)])

HeirsFit == \A c \in Classes : InheritsOK(c) /\ UntouchedOK(c) /\ LacksOK(c)

LEMMA ChildEnds ==
  ASSUME ClassesTyped, NEW p, IsObject(p), NEW b \in Bases(ClassOf(p)), Has(b), Settled(b),
         SourceOK(Child(p, b))
  PROVE  \E s : Sources(Child(p, b)) = {s} /\ EndsAt(s, Org(ClassOf(p), b))
<1> DEFINE q == Child(p, b)
           c == ClassOf(p)
<1>1. IsObject(q) /\ ClassOf(q) = b /\ (b \in sharing[c] <=> q = <<b>>)
  BY ChildFits DEF ClassesTyped
<1>2. CASE Defines(b)
  <2>1. ~(Truthy(inherited[b]) /\ attribute[b] = inherited[b])
    BY <1>2 DEF Defines
  <2>2. Org(c, b) = [class |-> b, shared |-> b \in sharing[c]]
    BY <2>1 DEF Org, OriginIn
  <2>3. Org(c, b).class = b /\ (Org(c, b).shared <=> b \in sharing[c])
    <3> DEFINE x == b \in sharing[c]
    <3>1. Org(c, b) = [class |-> b, shared |-> x]
      BY <2>2
    <3> HIDE DEF x
    <3>2. Org(c, b).class = b /\ Org(c, b).shared = x
      BY <3>1
    <3>3. QED BY <3>2 DEF x
  <2>4. EndsAt(q, Org(c, b))
    <3> HIDE DEF q, c
    <3>1. QED BY <1>1, <2>3, Zenon DEF EndsAt
  <2>5. Sources(q) = {q}
    BY <1>1, <1>2 DEF SourceOK
  <2>6. QED BY <2>4, <2>5
<1>3. CASE ~Defines(b)
  <2>1. attribute[b] = inherited[b] /\ Truthy(inherited[b])
    BY <1>3 DEF Defines, Has
  <2>2. Org(c, b) = from[b]
    BY <2>1 DEF Org, OriginIn
  <2>3. \E s : Sources(q) = {s} /\ EndsAt(s, from[b])
    BY <1>1, <1>3 DEF SourceOK
  <2>4. QED BY <2>2, <2>3
<1>4. QED BY <1>2, <1>3

LEMMA OneIsOffered ==
  ASSUME ClassesTyped, NEW p, IsObject(p), InheritsOK(ClassOf(p)), inherited[ClassOf(p)] # Nil,
         \A q \in Children(p) : SourceOK(q)
  PROVE  \E s : Offered(p) = {s} /\ EndsAt(s, from[ClassOf(p)])
<1> DEFINE c == ClassOf(p)
<1>1. PICK b0 \in Bases(c) : Has(b0)
  BY DEF InheritsOK
<1>2. ASSUME NEW b \in Bases(c), Has(b)
      PROVE  \E s : Sources(Child(p, b)) = {s} /\ EndsAt(s, from[c])
  <2>1. Settled(b) /\ Org(c, b) = from[c]
    BY <1>2 DEF InheritsOK
  <2>2. SourceOK(Child(p, b))
    BY ChildFits DEF ClassesTyped
  <2>3. \E s : Sources(Child(p, b)) = {s} /\ EndsAt(s, Org(c, b))
    BY <1>2, <2>1, <2>2, ChildEnds
  <2>4. QED BY <2>1, <2>3
<1>3. PICK s : Sources(Child(p, b0)) = {s} /\ EndsAt(s, from[c])
  BY <1>1, <1>2
<1>4. ASSUME NEW b \in Bases(c) PROVE Sources(Child(p, b)) \subseteq {s}
  <2>1. CASE ~Has(b)
    <3>1. ClassOf(Child(p, b)) = b /\ SourceOK(Child(p, b))
      BY ChildFits DEF ClassesTyped
    <3>2. QED BY <2>1, <3>1 DEF SourceOK
  <2>2. CASE b = b0
    BY <1>3, <2>2
  <2>3. CASE Has(b) /\ b # b0
    <3>1. from[c].shared
      BY <1>1, <2>3 DEF InheritsOK
    <3>2. PICK t : Sources(Child(p, b)) = {t} /\ EndsAt(t, from[c])
      BY <1>2, <2>3
    <3>3. t = <<from[c].class>> /\ s = <<from[c].class>>
      BY <1>3, <3>1, <3>2 DEF EndsAt
    <3>4. QED BY <3>2, <3>3
  <2>4. QED BY <2>1, <2>2, <2>3
<1>5. s \in Offered(p)
  <2>1. Child(p, b0) \in Children(p)
    BY DEF Children
  <2>2. QED BY <1>3, <2>1 DEF Offered
<1>6. Offered(p) \subseteq {s}
  <2>1. SUFFICES ASSUME NEW x \in Offered(p) PROVE x = s
    OBVIOUS
  <2>2. PICK q \in Children(p) : x \in Sources(q)
    BY DEF Offered
  <2>3. PICK b \in Bases(c) : q = Child(p, b)
    BY DEF Children
  <2>4. QED BY <1>4, <2>2, <2>3
<1>7. Offered(p) = {s}
  BY <1>5, <1>6
<1>8. QED BY <1>3, <1>7

LEMMA SourcesFit ==
  ASSUME ClassesTyped, HeirsFit, NEW o, IsObject(o)
  PROVE  \A p \in Objects(o) : SourceOK(p)
<1> DEFINE S == Objects(o)
           T == {p \in S : SourceOK(p)}
<1>1. Derived /\ Closed(S)
  BY ObjectsAreClosed DEF ClassesTyped
<1>2. ASSUME NEW p \in S, Children(p) \subseteq T PROVE p \in T
  <2>1. IsObject(p) /\ ClassOf(p) \in Classes
    BY <1>1, ObjectHasClass DEF Closed
  <2>2. Sources(p) = IF attribute[ClassOf(p)] = Nil THEN {}
                     ELSE IF Defines(ClassOf(p)) THEN {p} ELSE Offered(p)
    BY <1>1, <2>1, SourcesUnfold
  <2>3. CASE Has(ClassOf(p)) /\ ~Defines(ClassOf(p))
    <3>1. inherited[ClassOf(p)] # Nil
      BY <2>3 DEF Has, Defines, Truthy
    <3>2. InheritsOK(ClassOf(p)) /\ \A q \in Children(p) : SourceOK(q)
      BY <1>2, <2>1 DEF HeirsFit
    <3>3. \E s : Offered(p) = {s} /\ EndsAt(s, from[ClassOf(p)])
      BY <2>1, <3>1, <3>2, OneIsOffered
    <3>4. Sources(p) = Offered(p)
      BY <2>2, <2>3 DEF Has
    <3>5. SourceOK(p)
      BY <2>3, <3>3, <3>4 DEF SourceOK
    <3>6. QED BY <3>5
  <2>4. CASE ~(Has(ClassOf(p)) /\ ~Defines(ClassOf(p)))
    <3>1. SourceOK(p)
      BY <2>2, <2>4 DEF SourceOK, Has
    <3>2. QED BY <3>1
  <2>5. QED BY <2>3, <2>4
<1>3. S \subseteq T
  <2> HIDE DEF S, T
  <2>1. QED BY <1>1, <1>2, AllObjects
<1>4. QED BY <1>3

LEMMA ObjectOfClass ==
  ASSUME ClassesTyped, NEW c \in Classes
  PROVE  IsObject(<<c>>) /\ ClassOf(<<c>>) = c /\ <<c>> \in Objects(<<c>>)
         /\ Closed(Objects(<<c>>))
<1>1. IsObject(<<c>>) /\ ClassOf(<<c>>) = c
  BY OneClassObject DEF ClassesTyped
<1>2. QED BY <1>1, ObjectsAreClosed DEF ClassesTyped

LEMMA InheritsFromHeirs ==
  ASSUME ClassesTyped, HeirsFit, NEW c \in Classes \ own
  PROVE  attribute[c] # Nil <=>
           \E o \in Offered(<<c>>) :
             /\ Offered(<<c>>) = {o}
             /\ (\A b, d \in Offering(c) : b = d) \/ o = <<ClassOf(o)>>
<1>1. IsObject(<<c>>) /\ ClassOf(<<c>>) = c
  BY ObjectOfClass
<1>2. attribute[c] = inherited[c] /\ InheritsOK(c) /\ LacksOK(c)
  BY DEF HeirsFit, UntouchedOK
<1>3. \A q \in Children(<<c>>) : SourceOK(q)
  <2>1. Children(<<c>>) \subseteq Objects(<<c>>)
    BY ObjectOfClass DEF Closed
  <2>2. QED BY <1>1, <2>1, SourcesFit
<1>4. \A b \in Bases(c) : /\ ClassOf(Child(<<c>>, b)) = b /\ SourceOK(Child(<<c>>, b))
                          /\ Child(<<c>>, b) \in Children(<<c>>)
  BY <1>1, <1>3, ChildFits DEF ClassesTyped
<1>5. CASE attribute[c] # Nil
  <2>1. PICK s : Offered(<<c>>) = {s} /\ EndsAt(s, from[c])
    BY <1>1, <1>2, <1>3, <1>5, OneIsOffered
  <2>2. ASSUME NEW b \in Offering(c), NEW d \in Offering(c), b # d PROVE s = <<ClassOf(s)>>
    <3>1. b \in Bases(c) /\ d \in Bases(c) /\ Has(b) /\ Has(d)
      BY <1>4 DEF Offering, SourceOK
    <3>2. from[c].shared
      BY <1>2, <1>5, <2>2, <3>1 DEF InheritsOK
    <3>3. QED BY <2>1, <3>2 DEF EndsAt
  <2>3. QED BY <1>5, <2>1, <2>2
<1>6. CASE attribute[c] = Nil
  <2>1. SUFFICES ASSUME NEW o \in Offered(<<c>>), Offered(<<c>>) = {o},
                        (\A b, d \in Offering(c) : b = d) \/ o = <<ClassOf(o)>>
                 PROVE  FALSE
    BY <1>6
  <2>2. CASE \A b \in Bases(c) : ~Has(b)
    <3>1. PICK q \in Children(<<c>>) : o \in Sources(q)
      BY DEF Offered
    <3>2. PICK b \in Bases(c) : q = Child(<<c>>, b)
      BY <1>1 DEF Children
    <3>3. Sources(q) = {}
      BY <1>4, <2>2, <3>2 DEF SourceOK
    <3>4. QED BY <3>1, <3>3
  <2>3. CASE \E b, d \in Bases(c) :
               b # d /\ Has(b) /\ Has(d) /\ Settled(b) /\ Settled(d) /\ Clash(Org(c, b), Org(c, d))
    <3>1. PICK b \in Bases(c), d \in Bases(c) :
            b # d /\ Has(b) /\ Has(d) /\ Settled(b) /\ Settled(d) /\ Clash(Org(c, b), Org(c, d))
      BY <2>3
    <3>2. PICK s : Sources(Child(<<c>>, b)) = {s} /\ EndsAt(s, Org(c, b))
      BY <1>1, <1>4, <3>1, ChildEnds
    <3>3. PICK t : Sources(Child(<<c>>, d)) = {t} /\ EndsAt(t, Org(c, d))
      BY <1>1, <1>4, <3>1, ChildEnds
    <3>4. s = o /\ t = o
      <4>1. s \in Offered(<<c>>) /\ t \in Offered(<<c>>)
        BY <1>4, <3>2, <3>3 DEF Offered
      <4>2. QED BY <2>1, <4>1
    <3>5. b \in Offering(c) /\ d \in Offering(c)
      BY <3>2, <3>3 DEF Offering
    <3>6. o = <<ClassOf(o)>>
      BY <2>1, <3>1, <3>5
    <3>7. Org(c, b).class = ClassOf(o) /\ Org(c, d).class = ClassOf(o) /\ Org(c, b).shared /\ Org(c, d).shared
      BY <3>2, <3>3, <3>4, <3>6 DEF EndsAt
    <3>8. QED BY <3>1, <3>7 DEF Clash
  <2>4. QED BY <1>2, <1>6, <2>2, <2>3 DEF LacksOK
<1>7. QED BY <1>5, <1>6

-------------------------------------------------------------------------------
(* What the wrapper of a method finds. *)

LEMMA FieldHoldsSource ==
  ASSUME ClassesTyped, NEW S, Closed(S), NEW k \in Classes, Has(k), Defines(k), NEW s, ClassOf(s) = k,
         \A p \in S : SourceOK(p),
         \A p \in S \ {s} : Sources(p) = {s} => Keeps(p, k)
  PROVE  \A p \in S \ {s} : Sources(p) = {s} => Fields(p)[k] = s
<1> DEFINE T == {p \in S : p # s /\ Sources(p) = {s} => Fields(p)[k] = s}
<1>1. ASSUME NEW p \in S, Children(p) \subseteq T PROVE p \in T
  <2>1. SUFFICES ASSUME p # s, Sources(p) = {s} PROVE Fields(p)[k] = s
    OBVIOUS
  <2>2. IsObject(p) /\ Children(p) \subseteq S /\ Derived
    BY DEF Closed, ClassesTyped
  <2>3. Sources(p) = Offered(p)
    <3>1. Sources(p) = IF attribute[ClassOf(p)] = Nil THEN {}
                       ELSE IF Defines(ClassOf(p)) THEN {p} ELSE Offered(p)
      BY <2>2, SourcesUnfold
    <3>2. Sources(p) # {} /\ Sources(p) # {p}
      BY <2>1
    <3>3. QED BY <3>1, <3>2
  <2>4. \A q \in Children(p) : Sources(q) \subseteq {s}
    BY <2>1, <2>3 DEF Offered
  <2>5. PICK q \in Children(p) : s \in Sources(q)
    BY <2>1, <2>3 DEF Offered
  <2>6. Sources(q) = {s}
    BY <2>4, <2>5
  <2>7. PICK below : below = [b \in Bases(ClassOf(p)) |-> Fields(Child(p, b))]
    OBVIOUS
  <2>8. Fields(p) = FieldsOver(p, below)
    BY <2>2, <2>7, FieldsUnfold
  <2>9. k \in DOMAIN Fields(p)
    BY <2>1 DEF Keeps
  <2>10. CASE k \in Bases(ClassOf(p))
    <3>1. Fields(p)[k] = Child(p, k)
      BY <2>8, <2>10, FieldsOverIs
    <3>2. ClassOf(Child(p, k)) = k /\ Child(p, k) \in Children(p)
      BY <2>2, <2>10, ChildFits
    <3>3. Sources(Child(p, k)) = {Child(p, k)}
      BY <2>2, <3>2 DEF SourceOK
    <3>4. QED BY <2>4, <3>1, <3>2, <3>3
  <2>11. CASE k \notin Bases(ClassOf(p))
    <3>1. ClassOf(q) \in Bases(ClassOf(p)) /\ q = Child(p, ClassOf(q))
      BY <2>2, ChildIsOfBase
    <3>2. PICK b \in Bases(ClassOf(p)) : b = ClassOf(q) /\ q = Child(p, b)
      BY <3>1
    <3>3. q # s /\ q \in S
      BY <2>2, <2>11, <3>1
    <3>4. Fields(q)[k] = s /\ k \in DOMAIN Fields(q)
      BY <1>1, <2>6, <3>3 DEF Keeps
    <3>5. below[b] = Fields(q)
      BY <2>7, <3>2
    <3>6. Fields(p)[k] = below[b][k]
      BY <2>8, <2>9, <2>11, <3>4, <3>5, FieldsOverIs
    <3>7. QED BY <3>4, <3>5, <3>6
  <2>12. QED BY <2>10, <2>11
<1>2. S \subseteq T
  <2>1. Derived
    BY DEF ClassesTyped
  <2> HIDE DEF T
  <2>2. QED BY <1>1, <2>1, AllObjects
<1>3. QED BY <1>2

LEMMA MethodHasBase ==
  ASSUME ClassesTyped, KindsOK, HeirsFit, NEW c \in Classes, attribute[c].kind = "wrapper",
         NEW k, k = attribute[c].origin
  PROVE  /\ attribute[k].kind = "function"
         /\ \E o \in Sources(<<c>>) :
              /\ Sources(<<c>>) = {o} /\ ClassOf(o) = k
              /\ (\A p \in Objects(<<c>>) \ {o} : Sources(p) = {o} => Keeps(p, k))
                    => Fields(<<c>>)[k] = o
<1>1. attribute[c] = inherited[c] /\ InheritsOK(c) /\ attribute[c] # Nil
  <2>1. attribute[c] # Nil
    BY DEF Nil
  <2>2. QED BY <2>1 DEF KindsOK, HeirsFit
<1>2. /\ inherited[c] = Wrapper(c, from[c].class) /\ Anchored(from[c].class)
      /\ attribute[from[c].class].kind = "function"
  BY <1>1 DEF InheritsOK
<1>3. k = from[c].class
  BY <1>1, <1>2, WrapperIs
<1>4. k \in Classes /\ Has(k) /\ ~Truthy(inherited[k]) /\ Defines(k) /\ k # c
  BY <1>1, <1>2, <1>3 DEF Anchored, Defines, Has, Truthy, Wrapper, Nil, False
<1>5. ClassOf(<<c>>) = c /\ <<c>> \in Objects(<<c>>) /\ Closed(Objects(<<c>>)) /\ IsObject(<<c>>)
  BY ObjectOfClass
<1>6. \A p \in Objects(<<c>>) : SourceOK(p)
  BY <1>5, SourcesFit
<1>7. Has(c) /\ ~Defines(c)
  BY <1>1, <1>2 DEF Has, Defines, Truthy, Wrapper, Nil, False
<1>8. PICK o : Sources(<<c>>) = {o} /\ EndsAt(o, from[c])
  BY <1>5, <1>6, <1>7 DEF SourceOK
<1>9. ClassOf(o) = k
  BY <1>3, <1>8 DEF EndsAt
<1>10. ASSUME \A p \in Objects(<<c>>) \ {o} : Sources(p) = {o} => Keeps(p, k)
       PROVE  Fields(<<c>>)[k] = o
  <2>1. <<c>> \in Objects(<<c>>) \ {o}
    BY <1>4, <1>5, <1>9
  <2>2. \A p \in Objects(<<c>>) \ {o} : Sources(p) = {o} => Fields(p)[k] = o
    BY <1>4, <1>5, <1>6, <1>9, <1>10, FieldHoldsSource
  <2>3. QED BY <1>8, <2>1, <2>2
<1>11. QED BY <1>2, <1>3, <1>8, <1>9, <1>10

-------------------------------------------------------------------------------
(* The invariant, and what follows from it. *)

LibraryInv == ClassesTyped /\ KindsOK /\ HeirsOK /\ ConstructionOK

LEMMA ClassesStay ==
  ASSUME ClassesTyped, KindsOK, HeirsOK, UNCHANGED <<classVars, historyVars>>, calls' \in 0..MaxCalls
  PROVE  ClassesTyped' /\ KindsOK' /\ HeirsOK'
<1>1. /\ bases' = bases /\ sharing' = sharing /\ attribute' = attribute
      /\ inherited' = inherited /\ from' = from /\ own' = own /\ late' = late
  BY DEF classVars, historyVars
<1>2. Classes' = Classes /\ Values' = Values /\ Origins' = Origins /\ Derived' /\ KindsOK'
  BY <1>1 DEF Classes, Values, Origins, Derived, KindsOK, ClassesTyped
<1>3. ClassesTyped'
  BY <1>1, <1>2 DEF ClassesTyped
<1>4. \A c : (InheritsOK(c) => InheritsOK(c)') /\ (UntouchedOK(c) => UntouchedOK(c)')
  BY <1>1 DEF InheritsOK, UntouchedOK, Bases, Has, Settled, Redefined, Org, OriginIn, Anchored, Classes
<1>5. \A c : LacksOK(c) => LacksOK(c)'
  BY <1>1 DEF LacksOK, Bases, Has, Settled, Redefined, Org, OriginIn
<1>6. HeirsOK'
  BY <1>1, <1>2, <1>4, <1>5 DEF HeirsOK
<1>7. QED BY <1>2, <1>3, <1>6

LEMMA InitEstablishes ==
  ASSUME ClassesAssumption, Init
  PROVE  LibraryInv
<1>1. Classes = {} /\ Len(bases) = 0
  BY DEF Init, Classes
<1>2. Derived
  BY <1>1 DEF Init, Derived
<1>3. /\ sharing \in [Classes -> SUBSET Classes] /\ attribute \in [Classes -> Values]
      /\ inherited \in [Classes -> Values] /\ from \in [Classes -> Origins]
  <2>1. \A S : <<>> \in [{} -> S]
    OBVIOUS
  <2>2. QED BY <1>1, <2>1 DEF Init
<1>4. ClassesTyped
  <2>1. Len(bases) <= MaxClasses /\ 0 \in 0..MaxCalls
    BY <1>1 DEF ClassesAssumption
  <2>2. own \subseteq Classes /\ late \in BOOLEAN /\ calls \in 0..MaxCalls
    BY <2>1 DEF Init
  <2>3. QED BY <1>2, <1>3, <2>1, <2>2 DEF ClassesTyped
<1>5. KindsOK /\ HeirsOK
  BY <1>1 DEF KindsOK, HeirsOK
<1>6. ConstructionOK
  <2>1. /\ DOMAIN runs = {} /\ runs = [o \in DOMAIN runs |-> runs[o]] /\ stack = <<>> /\ Len(stack) = 0
        /\ 1..Len(stack) = {} /\ stack \in Seq(Calls) /\ initialized = {} /\ built = NoObject
    BY DEF Init
  <2>2. QED BY <2>1 DEF ConstructionOK, RunsOK, InitializedOK, BuiltOK, Closed, StackFits, MarksFit, BasesFit
<1>7. QED BY <1>4, <1>5, <1>6 DEF LibraryInv

LEMMA StepPreserves ==
  ASSUME ClassesAssumption, LibraryInv, [Next]_vars
  PROVE  LibraryInv'
<1>1. ClassesTyped /\ KindsOK /\ HeirsOK /\ ConstructionOK /\ Derived
  BY DEF LibraryInv, ClassesTyped
<1>2. ASSUME NEW list \in Lists, NEW shares \in SUBSET Range(list), NewClass(list, shares)
      PROVE  LibraryInv'
  <2>1. ClassesTyped' /\ KindsOK' /\ HeirsOK'
    BY <1>1, <1>2, NewClassHeirs
  <2>2. ConstructionOK'
    BY <1>2, NothingConstructed DEF NewClass
  <2>3. QED BY <2>1, <2>2 DEF LibraryInv
<1>3. ASSUME NEW c \in Classes, NEW v \in {Nil} \cup Assignable, Assign(c, v) PROVE LibraryInv'
  <2>1. ClassesTyped' /\ KindsOK' /\ HeirsOK'
    BY <1>1, <1>3, AssignTypes, AssignHeirs
  <2>2. ConstructionOK'
    BY <1>3, NothingConstructed DEF Assign
  <2>3. QED BY <2>1, <2>2 DEF LibraryInv
<1>4. ASSUME NEW c \in Classes, New(c) PROVE LibraryInv'
  <2>1. UNCHANGED <<classVars, historyVars>> /\ calls' \in 0..MaxCalls
    BY <1>1, <1>4 DEF New, ClassesTyped, ClassesAssumption
  <2>2. QED BY <1>1, <1>4, <2>1, ClassesStay, NewConstructs DEF LibraryInv
<1>5. ASSUME Enter \/ CallInit \/ UserInitReturns \/ UserInitFails \/ InitBases PROVE LibraryInv'
  <2>1. UNCHANGED <<classVars, historyVars, calls>>
    BY <1>5 DEF Enter, CallInit, UserInitReturns, UserInitFails, InitBases
  <2>2. ClassesTyped' /\ KindsOK' /\ HeirsOK'
    BY <1>1, <2>1, ClassesStay DEF ClassesTyped
  <2>3. ConstructionOK'
    BY <1>1, <1>5, EnterConstructs, CallInitConstructs, InitReturnsConstructs, InitFailsConstructs,
       InitBasesConstructs
  <2>4. QED BY <2>2, <2>3 DEF LibraryInv
<1>6. CASE UNCHANGED vars
  <2>1. UNCHANGED <<classVars, historyVars, calls>> /\ UNCHANGED objectVars
    BY <1>6 DEF vars
  <2>2. ClassesTyped' /\ KindsOK' /\ HeirsOK'
    BY <1>1, <2>1, ClassesStay DEF ClassesTyped
  <2>3. stack' = stack /\ initialized' = initialized /\ runs' = runs /\ built' = built
    BY <2>1 DEF objectVars
  <2>4. /\ UNCHANGED classVars /\ Calls' = Calls /\ Classes' = Classes
        /\ \A o : Children(o)' = Children(o) /\ (IsObject(o)' <=> IsObject(o))
        /\ bases' = bases /\ \A o, b : Child(o, b)' = Child(o, b)
    BY <2>1, SameClasses
  <2>5. RunsOK' /\ InitializedOK' /\ BuiltOK'
    BY <1>1, <2>3, <2>4 DEF ConstructionOK, RunsOK, InitializedOK, BuiltOK, Closed
  <2>6. /\ StackFits(stack, initialized, runs)' /\ MarksFit(stack, initialized, runs)'
        /\ BasesFit(stack, initialized)'
    BY <1>1, <2>3, <2>4 DEF ConstructionOK, StackFits, MarksFit, BasesFit, BasesFitAt, UnderWay, Base
  <2>7. QED BY <2>2, <2>5, <2>6 DEF LibraryInv, ConstructionOK
<1>7. QED BY <1>2, <1>3, <1>4, <1>5, <1>6 DEF Next

LEMMA InvIsInvariant == Spec => []LibraryInv
<1>1. Init => LibraryInv
  BY ClassesAssumption, InitEstablishes
<1>2. LibraryInv /\ [Next]_vars => LibraryInv'
  BY ClassesAssumption, StepPreserves
<1>3. QED BY <1>1, <1>2, PTL DEF Spec

LEMMA InvImplies ==
  ASSUME LibraryInv
  PROVE  TypeOK /\ InheritsUnlessAmbiguous /\ MethodsGetTheirBase /\ InitializedOnce
<1>1. /\ ClassesTyped /\ KindsOK /\ ConstructionOK /\ Derived
      /\ HeirsOK
  BY DEF LibraryInv, ClassesTyped
<1>2. TypeOK
  <2>1. stack \in Seq([object : Seq(Classes), at : Nat]) /\ initialized \subseteq DOMAIN runs
    BY <1>1 DEF ConstructionOK, StackFits, InitializedOK, Calls
  <2>2. QED BY <1>1, <2>1 DEF TypeOK, ClassesTyped, Derived
<1>3. InheritsUnlessAmbiguous
  <2>1. SUFFICES ASSUME ~late, NEW c \in Classes \ own
                 PROVE  attribute[c] # Nil <=>
                          \E o \in Offered(<<c>>) :
                            /\ Offered(<<c>>) = {o}
                            /\ (\A b, d \in Offering(c) : b = d) \/ o = <<ClassOf(o)>>
    BY DEF InheritsUnlessAmbiguous
  <2>2. HeirsFit
    BY <1>1, <2>1 DEF HeirsOK, HeirsFit
  <2>3. QED BY <1>1, <2>2, InheritsFromHeirs
<1>4. MethodsGetTheirBase
  <2>1. SUFFICES ASSUME ~late, NEW c \in Classes, attribute[c].kind = "wrapper",
                        NEW k, k = attribute[c].origin
                 PROVE  /\ attribute[k].kind = "function"
                        /\ \E o \in Sources(<<c>>) :
                             /\ Sources(<<c>>) = {o} /\ ClassOf(o) = k
                             /\ (\A p \in Objects(<<c>>) \ {o} : Sources(p) = {o} => Keeps(p, k))
                                   => Fields(<<c>>)[k] = o
    BY DEF MethodsGetTheirBase
  <2>2. HeirsFit
    BY <1>1, <2>1 DEF HeirsOK, HeirsFit
  <2>3. QED BY <1>1, <2>1, <2>2, MethodHasBase
<1>5. InitializedOnce
  BY <1>1, OnceFromConstruction
<1>6. QED BY <1>2, <1>3, <1>4, <1>5

(* Every variable has its type; every base of a class is older than it.    *)
THEOREM TypesAreRight == Spec => []TypeOK
<1>1. LibraryInv => TypeOK
  BY InvImplies
<1>2. QED BY <1>1, InvIsInvariant, PTL

(* However programs' constructors call those of base objects by hand, when *)
(* the construction of an object returns, the constructor of each object   *)
(* in it has run exactly once, and at no time any has run twice            *)
(* (classlib.lua:263-275).                                                 *)
THEOREM ConstructorsRunOnce == Spec => []InitializedOnce
<1>1. LibraryInv => InitializedOnce
  BY InvImplies
<1>2. QED BY <1>1, InvIsInvariant, PTL

(* In every hierarchy, as long as no assignment came too late for a class  *)
(* already derived, a class has inherited the attribute exactly when the   *)
(* objects below it agree about the one object it comes from               *)
(* (classlib.lua:366-432, 147-193).                                        *)
THEOREM InheritanceIsRight == Spec => []InheritsUnlessAmbiguous
<1>1. LibraryInv => InheritsUnlessAmbiguous
  BY InvImplies
<1>2. QED BY <1>1, InvIsInvariant, PTL

(* In every such hierarchy, the wrapper of an inherited method finds the   *)
(* base object the method comes from in the field it reads, unless a class *)
(* on the way has lost that field, and the origin's attribute is a method  *)
(* (classlib.lua:394-405, 161-184).                                        *)
THEOREM MethodsReachTheirBase == Spec => []MethodsGetTheirBase
<1>1. LibraryInv => MethodsGetTheirBase
  BY InvImplies
<1>2. QED BY <1>1, InvIsInvariant, PTL
===============================================================================
