-------------------------------- MODULE ClassLib --------------------------------
(***************************************************************************)
(* The Lua class library of ScriptLib/classlib.lua: classes with several   *)
(* bases, shared or not; attributes inherited, redefined and ambiguous;    *)
(* objects made of base objects, and their construction.                   *)
(*                                                                         *)
(* A class is the number of its creation and stands for its name too:      *)
(* names are taken to be distinct.  One attribute is followed, as no two   *)
(* interact; what a program assigns to it is a function, a property that   *)
(* Lua takes for true, or false.                                           *)
(* The debugging mode (keep_ambiguous), __get and __set are left out.      *)
(***************************************************************************)
EXTENDS Integers, Sequences, SequencesExt

CONSTANTS
  Functions, Properties,   \* what programs assign to the attribute
  MaxClasses, MaxBases,    \* bounds: classes, and bases of one
  MaxCalls                 \* bound: assignments and constructions

ASSUME ClassesAssumption == MaxClasses \in Nat /\ MaxBases \in Nat /\ MaxCalls \in Nat

VARIABLES
  bases,        \* of each class, the sequence of its bases
  sharing,      \* of each class, the bases it derives in shared mode
  attribute,    \* of each class, its value of the attribute
  inherited,    \* of each class, __inherited[k]: the value it inherited
  from,         \* of each class, __from[k]: where that originates
  stack,        \* the calls of __init that have not returned
  initialized,  \* the objects whose __initialized is set
  runs,         \* history: how often the constructor of each object ran
  built,        \* the object whose construction has just returned
  own,          \* history: the classes whose attribute was assigned to
  late,         \* history: an assignment came too late for a derived class
  calls

classVars   == <<bases, sharing, attribute, inherited, from>>
objectVars  == <<stack, initialized, runs, built>>
historyVars == <<own, late>>
vars == <<classVars, objectVars, historyVars, calls>>

Classes == DOMAIN bases
Bases(c) == Range(bases[c])

Nil       == [kind |-> "nil"]
Ambiguous == [kind |-> "ambiguous"]
Function(f) == [kind |-> "function", is |-> f]
Property(p) == [kind |-> "property", is |-> p]
False       == [kind |-> "false"]
Assignable == {Function(f) : f \in Functions} \cup {Property(p) : p \in Properties} \cup {False}

(* The function class c calls an inherited method by: it calls the origin's*)
(* method with the origin's base object.                                   *)
Wrapper(c, origin) == [kind |-> "wrapper", by |-> c, origin |-> origin]
Values == {Nil} \cup Assignable \cup {Wrapper(c, o) : c \in Classes, o \in Classes}

Callable(v) == v.kind \in {"function", "wrapper"}
Truthy(v)   == v \notin {Nil, False}

NoOrigin == [class |-> 0, shared |-> FALSE]
Origins  == {NoOrigin} \cup [class : Classes, shared : BOOLEAN]

(* An object is the path of classes that leads to it, which for a shared   *)
(* one begins at its own class.                                            *)
NoObject == <<>>

TypeOK ==
  /\ bases \in Seq(Seq(Nat)) /\ Len(bases) <= MaxClasses
  /\ \A c \in Classes : \A i \in DOMAIN bases[c] : bases[c][i] \in 1..(c - 1)
  /\ sharing \in [Classes -> SUBSET Classes]
  /\ attribute \in [Classes -> Values] /\ inherited \in [Classes -> Values]
  /\ from \in [Classes -> Origins]
  /\ stack \in Seq([object : Seq(Classes), at : Nat])
  /\ initialized \subseteq DOMAIN runs
  /\ own \subseteq Classes /\ late \in BOOLEAN /\ calls \in 0..MaxCalls

-------------------------------------------------------------------------------
(* Creating a class. *)

NoBases == [value |-> Nil, from |-> NoOrigin, cancelled |-> {}]

(* Mutant: that the origin is shared is not asked for, and a redefinition  *)
(* in the base is not noticed.                                             *)
InspectUnshared(c, shares, found, b) ==
  LET isInherited == Truthy(inherited[b]) /\ attribute[b] = inherited[b]
      origin == IF isInherited THEN from[b] ELSE [class |-> b, shared |-> b \in shares]
  IN IF attribute[b] = Nil \/ found.value = Ambiguous THEN found
     ELSE IF found.from = NoOrigin
     THEN [found EXCEPT !.from = origin,
             !.value = IF Callable(attribute[b]) THEN Wrapper(c, origin.class) ELSE attribute[b]]
     ELSE IF found.from.class # origin.class
     THEN [found EXCEPT !.from = NoOrigin, !.value = Ambiguous]
     ELSE found

(* What class c, deriving the classes shares in shared mode, makes of what *)
(* it has found so far and its next base b.  Whether b inherited the       *)
(* attribute is asked of the value it inherited, and false says no.        *)
Inspect(c, shares, found, b) ==
  LET isInherited == Truthy(inherited[b]) /\ attribute[b] = inherited[b]
      isRedefined == Truthy(inherited[b]) /\ attribute[b] # inherited[b]
      origin  == IF isInherited THEN from[b] ELSE [class |-> b, shared |-> b \in shares]
      noticed == [found EXCEPT !.cancelled = IF isRedefined THEN @ \cup {b} ELSE @]
  IN IF attribute[b] = Nil \/ found.value = Ambiguous THEN found
     ELSE IF found.from = NoOrigin
     THEN [noticed EXCEPT !.from = origin,
             !.value = IF Callable(attribute[b]) THEN Wrapper(c, origin.class) ELSE attribute[b]]
     ELSE IF found.from.class # origin.class \/ ~found.from.shared \/ ~origin.shared
     THEN [noticed EXCEPT !.from = NoOrigin, !.value = Ambiguous]
     ELSE noticed

WithoutAmbiguous(value) == IF value = Ambiguous THEN Nil ELSE value

NewClass(list, shares) ==
  LET c         == Len(bases) + 1
      inspected[i \in 0..Len(list)] ==
        IF i = 0 THEN NoBases ELSE Inspect(c, shares, inspected[i - 1], list[i])
      found     == inspected[Len(list)]
      value     == WithoutAmbiguous(found.value)
      cancel(s, nothing) == [b \in Classes |-> IF b \in found.cancelled THEN nothing ELSE s[b]]
  IN /\ stack = <<>> /\ c <= MaxClasses
     /\ bases' = Append(bases, list) /\ sharing' = Append(sharing, shares)
     /\ attribute' = Append(attribute, value)
     /\ inherited' = Append(cancel(inherited, Nil), value)
     /\ from' = Append(cancel(from, NoOrigin), found.from)
     /\ built' = NoObject /\ initialized' = {} /\ runs' = <<>>
     /\ UNCHANGED <<stack, historyVars, calls>>

(* The class defines the attribute itself, as far as its heirs can tell:   *)
(* it redefined what it inherited, or what it inherited is not truthy.     *)
Defines(c) == attribute[c] # Nil /\ (Truthy(inherited[c]) => attribute[c] # inherited[c])

(* class_mt.__newindex or, when the class has the attribute, rawset.       *)
(* It comes too late when a class already derived from this one has seen   *)
(* another kind of attribute, or another origin.                           *)
Assign(c, v) ==
  /\ stack = <<>> /\ calls < MaxCalls /\ calls' = calls + 1
  /\ attribute' = [attribute EXCEPT ![c] = v]
  /\ own' = own \cup {c}
  /\ late' = \/ late
             \/ /\ \E d \in Classes : c \in Bases(d)
                /\ ~(Defines(c) /\ attribute[c].kind = v.kind)
  /\ built' = NoObject /\ initialized' = {} /\ runs' = <<>>
  /\ UNCHANGED <<bases, sharing, inherited, from, stack>>

-------------------------------------------------------------------------------
(* The base objects of an object. *)

ClassOf(o) == Last(o)
Child(o, b) == IF b \in sharing[ClassOf(o)] THEN <<b>> ELSE Append(o, b)
Children(o) == {Child(o, b) : b \in Bases(ClassOf(o))}

(* An object and those it is made of: no way down is longer than Classes.  *)
Objects(o) ==
  LET level[n \in 0..Len(bases)] ==
        IF n = 0 THEN {o} ELSE UNION {Children(p) : p \in level[n - 1]}
  IN  UNION {level[n] : n \in 0..Len(bases)}

(* Mutant: one of several grandchildren stays.                             *)
FieldsOverFirst(o, below) ==
  LET direct == Bases(ClassOf(o))
      offered(c) == {below[b][c] : b \in {d \in direct : c \in DOMAIN below[d]}}
      grand  == UNION {DOMAIN below[b] : b \in direct} \ direct
  IN [c \in direct \cup grand |->
        IF c \in direct THEN Child(o, c) ELSE CHOOSE p \in offered(c) : TRUE]

(* The fields of an object that hold base objects, when below are those of *)
(* its base objects: these, and grandchildren that all who offer one agree *)
(* about.                                                                  *)
FieldsOver(o, below) ==
  LET direct == Bases(ClassOf(o))
      offered(c) == {below[b][c] : b \in {d \in direct : c \in DOMAIN below[d]}}
      grand  == UNION {DOMAIN below[b] : b \in direct}
      clear  == {c \in grand \ direct : \A p, q \in offered(c) : p = q}
  IN [c \in direct \cup clear |->
        IF c \in direct THEN Child(o, c) ELSE CHOOSE p \in offered(c) : TRUE]

(* build() *)
Fields(o) ==
  LET fields[p \in Objects(o)] ==
        FieldsOver(p, [b \in Bases(ClassOf(p)) |-> fields[Child(p, b)]])
  IN  fields[o]

-------------------------------------------------------------------------------
(* Constructing an object.  A call of __init is at 0 when it begins, at 1  *)
(* in the constructor the program gave, and at i + 1 when base i is next.  *)

Top == stack[Len(stack)]
Below == SubSeq(stack, 1, Len(stack) - 1)
Call(o) == [object |-> o, at |-> 0]
At(i) == Append(Below, [Top EXCEPT !.at = i])

(* Bound: only before assignments, as construction reads no attribute.     *)
New(c) ==
  /\ stack = <<>> /\ own = {} /\ calls < MaxCalls /\ calls' = calls + 1
  /\ stack' = <<Call(<<c>>)>>
  /\ initialized' = {} /\ built' = NoObject
  /\ runs' = [o \in Objects(<<c>>) |-> 0]
  /\ UNCHANGED <<classVars, historyVars>>

(* __call returns the object when its __init does. *)
Return ==
  /\ stack' = Below
  /\ built' = IF Below = <<>> THEN Top.object ELSE NoObject

(* Mutant: the flag is not looked at. *)
EnterAgain ==
  /\ stack # <<>> /\ Top.at = 0
  /\ runs' = [runs EXCEPT ![Top.object] = @ + 1]
  /\ stack' = At(1)
  /\ UNCHANGED <<classVars, initialized, built, historyVars, calls>>

Enter ==
  /\ stack # <<>> /\ Top.at = 0
  /\ IF Top.object \in initialized
     THEN Return /\ UNCHANGED runs
     ELSE /\ runs' = [runs EXCEPT ![Top.object] = @ + 1]
          /\ stack' = At(1)
          /\ UNCHANGED built
  /\ UNCHANGED <<classVars, initialized, historyVars, calls>>

(* The program's constructor may call the constructors of base objects.    *)
CallInit ==
  /\ stack # <<>> /\ Top.at = 1
  /\ \E o \in Range(Fields(Top.object)) : stack' = Append(stack, Call(o))
  /\ UNCHANGED <<classVars, initialized, runs, built, historyVars, calls>>

UserInitReturns ==
  /\ stack # <<>> /\ Top.at = 1
  /\ stack' = At(2)
  /\ UNCHANGED <<classVars, initialized, runs, built, historyVars, calls>>

(* An error ends the construction.  One that a constructor further out     *)
(* catches, and so goes on with a base object half initialised, is left    *)
(* out.                                                                    *)
UserInitFails ==
  /\ stack # <<>> /\ Top.at = 1
  /\ stack' = <<>> /\ initialized' = {} /\ runs' = <<>>
  /\ UNCHANGED <<classVars, built, historyVars, calls>>

InitBases ==
  LET list == bases[ClassOf(Top.object)] IN
    /\ stack # <<>> /\ Top.at >= 2
    /\ IF Top.at - 1 <= Len(list)
       THEN /\ stack' = Append(At(Top.at + 1), Call(Fields(Top.object)[list[Top.at - 1]]))
            /\ UNCHANGED <<initialized, built>>
       ELSE /\ initialized' = initialized \cup {Top.object}
            /\ Return
    /\ UNCHANGED <<classVars, runs, historyVars, calls>>

-------------------------------------------------------------------------------
Init ==
  /\ bases = <<>> /\ sharing = <<>> /\ attribute = <<>>
  /\ inherited = <<>> /\ from = <<>>
  /\ stack = <<>> /\ initialized = {} /\ runs = <<>> /\ built = NoObject
  /\ own = {} /\ late = FALSE /\ calls = 0

Lists == {s \in BoundedSeq(Classes, MaxBases) : IsInjective(s)}

Next ==
  \/ \E list \in Lists : \E shares \in SUBSET Range(list) : NewClass(list, shares)
  \/ \E c \in Classes : New(c) \/ \E v \in {Nil} \cup Assignable : Assign(c, v)
  \/ Enter \/ CallInit \/ UserInitReturns \/ UserInitFails \/ InitBases

Spec == Init /\ [][Next]_vars

-------------------------------------------------------------------------------
(* Properties. *)

(* What following the derivation yields: the base object whose class       *)
(* defines the attribute, if all bases that have the attribute lead to one.*)
Sources(o) ==
  LET sources[p \in Objects(o)] ==
        IF attribute[ClassOf(p)] = Nil THEN {}
        ELSE IF Defines(ClassOf(p)) THEN {p}
        ELSE UNION {sources[q] : q \in Children(p)}
  IN  sources[o]

(* A class has an attribute it was not given exactly when one base offers  *)
(* it, or all that do lead to one object which is itself derived in shared *)
(* mode: the comparison of origins, which looks at classes and flags only, *)
(* and the redefinitions it must notice, agree with the objects that will  *)
(* be built (classlib.lua:366-432, 147-193).  Heirs take a false attribute *)
(* for defined in every class that has it (classlib.lua:377), so behind a  *)
(* shared diamond it is lost.                                              *)
Offered(o)  == UNION {Sources(p) : p \in Children(o)}
Offering(c) == {b \in Bases(c) : Sources(Child(<<c>>, b)) # {}}
InheritsUnlessAmbiguous ==
  ~late => \A c \in Classes \ own :
    attribute[c] # Nil <=>
      \E o \in Offered(<<c>>) :
        /\ Offered(<<c>>) = {o}
        /\ (\A b, d \in Offering(c) : b = d) \/ o = <<ClassOf(o)>>

(* An inherited method is called with the base object it comes from: the   *)
(* field its wrapper reads holds this object, unless a class on the way    *)
(* has lost the field (classlib.lua:394-405, 161-184); and its origin has  *)
(* such a method.                                                          *)
Keeps(p, origin) == origin \in DOMAIN Fields(p)
MethodsGetTheirBase ==
  ~late => \A c \in Classes : attribute[c].kind = "wrapper" =>
    LET origin == attribute[c].origin IN
      /\ attribute[origin].kind = "function"
      /\ \E o \in Sources(<<c>>) :
           /\ Sources(<<c>>) = {o} /\ ClassOf(o) = origin
           /\ (\A p \in Objects(<<c>>) \ {o} : Sources(p) = {o} => Keeps(p, origin))
                 => Fields(<<c>>)[origin] = o

(* When a construction returns, the constructor of each object in it, the  *)
(* shared ones included, has run exactly once, whatever constructors the   *)
(* program's own ones called by hand (classlib.lua:263-275).               *)
InitializedOnce ==
  /\ \A o \in DOMAIN runs : runs[o] <= 1
  /\ built # NoObject =>
       \A o \in Objects(built) : runs[o] = 1 /\ o \in initialized
===============================================================================
