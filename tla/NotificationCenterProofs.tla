------------------------ MODULE NotificationCenterProofs ------------------------
(* Theorems about NotificationCenter: posts and their observers, whatever   *)
(* other threads and callbacks do, and threads that wait for one another.   *)
EXTENDS NotificationCenter, FiniteSetTheorems, SequenceTheorems, TLAPS

-------------------------------------------------------------------------------
(* What operations do to the stack of calls of a thread. *)

Others(t) == \A u \in Threads \ {t} : stack'[u] = stack[u]
Depth(t) == Len(stack[t])

Pushed(t, f) ==
  /\ stack' \in [Threads -> Seq(Frame)] /\ Others(t)
  /\ Len(stack'[t]) = Depth(t) + 1 /\ stack'[t][Depth(t) + 1] = f
  /\ \A i \in 1..Depth(t) : stack'[t][i] = stack[t][i]
Popped(t) ==
  /\ stack' \in [Threads -> Seq(Frame)] /\ Others(t)
  /\ Len(stack'[t]) = Depth(t) - 1
  /\ \A i \in 1..(Depth(t) - 1) : stack'[t][i] = stack[t][i]
Replaced(t, f) ==
  /\ stack' \in [Threads -> Seq(Frame)] /\ Others(t)
  /\ Len(stack'[t]) = Depth(t) /\ stack'[t][Depth(t)] = f
  /\ \A i \in 1..(Depth(t) - 1) : stack'[t][i] = stack[t][i]

StackOK == stack \in [Threads -> Seq(Frame)]

LEMMA PushedFrame ==
  ASSUME StackOK, NEW t \in Threads, NEW f \in Frame,
         stack' = [stack EXCEPT ![t] = Append(@, f)]
  PROVE  Pushed(t, f)
<1> DEFINE s == stack[t]
<1>1. s \in Seq(Frame) /\ stack'[t] = Append(s, f)
  BY DEF StackOK
<1>2. Others(t)
  BY DEF StackOK, Others
<1> HIDE DEF s
<1>3. /\ Append(s, f) \in Seq(Frame) /\ Len(Append(s, f)) = Len(s) + 1
      /\ Append(s, f)[Len(s) + 1] = f
      /\ \A i \in 1..Len(s) : Append(s, f)[i] = s[i]
  BY <1>1, AppendProperties
<1>4. stack' \in [Threads -> Seq(Frame)]
  BY <1>1, <1>3 DEF StackOK
<1> QED
  BY <1>1, <1>2, <1>3, <1>4 DEF Pushed, Depth, s

LEMMA PoppedFrame ==
  ASSUME StackOK, NEW t \in Threads, stack[t] # <<>>, Pop(t)
  PROVE  Popped(t)
<1> DEFINE s == stack[t]
<1>1. s \in Seq(Frame) /\ s # <<>> /\ stack'[t] = SubSeq(s, 1, Len(s) - 1)
  BY DEF StackOK, Pop, Front
<1>2. Others(t)
  BY DEF StackOK, Others, Pop
<1> HIDE DEF s
<1>3. Len(s) \in Nat /\ Len(s) >= 1
  BY <1>1
<1>4. \A i \in 1..(Len(s) - 1) : s[i] \in Frame
  BY <1>1, <1>3, ElementOfSeq
<1>5. /\ SubSeq(s, 1, Len(s) - 1) \in Seq(Frame)
      /\ Len(SubSeq(s, 1, Len(s) - 1)) = Len(s) - 1
      /\ \A i \in 1..(Len(s) - 1) : SubSeq(s, 1, Len(s) - 1)[i] = s[i]
  <2>1. PICK n \in Nat : n = Len(s) - 1
    BY <1>3
  <2>2. /\ SubSeq(s, 1, n) \in Seq(Frame)
        /\ Len(SubSeq(s, 1, n)) = IF 1 <= n THEN n - 1 + 1 ELSE 0
        /\ \A i \in 1..(n - 1 + 1) : SubSeq(s, 1, n)[i] = s[1 + i - 1]
    BY <1>4, <2>1, SubSeqProperties
  <2>3. \A i \in 1..n : i \in 1..(n - 1 + 1) /\ 1 + i - 1 = i
    OBVIOUS
  <2>4. Len(SubSeq(s, 1, n)) = n
    BY <2>2
  <2> QED
    BY <2>1, <2>2, <2>3, <2>4
<1>6. stack' \in [Threads -> Seq(Frame)]
  BY <1>1, <1>5 DEF StackOK, Pop
<1> QED
  BY <1>1, <1>2, <1>5, <1>6 DEF Popped, Depth, s

LEMMA ReplacedFrame ==
  ASSUME StackOK, NEW t \in Threads, stack[t] # <<>>, NEW f \in Frame,
         stack' = [stack EXCEPT ![t] = [@ EXCEPT ![Len(stack[t])] = f]]
  PROVE  Replaced(t, f)
<1> DEFINE s == stack[t]
<1>1. s \in Seq(Frame) /\ s # <<>> /\ stack'[t] = [s EXCEPT ![Len(s)] = f]
  BY DEF StackOK
<1>2. Others(t)
  BY DEF StackOK, Others
<1> HIDE DEF s
<1>3. Len(s) \in 1..Len(s)
  BY <1>1
<1>4. /\ [s EXCEPT ![Len(s)] = f] \in Seq(Frame)
      /\ Len([s EXCEPT ![Len(s)] = f]) = Len(s)
      /\ \A i \in 1..Len(s) : [s EXCEPT ![Len(s)] = f][i] = IF i = Len(s) THEN f ELSE s[i]
  BY <1>1, <1>3, ExceptSeq
<1>5. stack' \in [Threads -> Seq(Frame)]
  BY <1>1, <1>4 DEF StackOK
<1> QED
  BY <1>1, <1>2, <1>3, <1>4, <1>5 DEF Replaced, Depth, s

LEMMA TopIsLast ==
  ASSUME StackOK, NEW t \in Threads, Busy(t)
  PROVE  Top(t) = stack[t][Depth(t)] /\ Depth(t) \in Nat /\ Depth(t) >= 1 /\ Top(t) \in Frame
<1>1. stack[t] \in Seq(Frame) /\ stack[t] # <<>>
  BY DEF StackOK, Busy
<1>2. Len(stack[t]) \in Nat /\ Len(stack[t]) >= 1
  BY <1>1
<1> QED
  BY <1>1, <1>2, ElementOfSeq DEF Top, Last, Depth
-------------------------------------------------------------------------------
(* Every step is one of these as far as stacks and mutexes go. *)

HasMutex(f) == f.phase \in {"inside", "calling"}

(* A call begins, which adds to the observers to come if it is an addition.*)
Begins(t) ==
  /\ Busy(t) => Top(t).phase = "calling"
  /\ Busy(t) => Depth(t) < MaxDepth
  /\ \E f \in Frame :
       /\ f.phase \in {"find", "lock"} /\ Pushed(t, f)
       /\ Busy(t) => <<Center(Top(t)), Center(f)>> \in Reaches
       /\ f.op \in Adds => MayAdd
  /\ UNCHANGED mutex
Locks(t) ==
  /\ Busy(t) /\ Top(t).phase = "lock" /\ mutex[Center(Top(t))] = None
  /\ mutex' = [mutex EXCEPT ![Center(Top(t))] = t]
  /\ Replaced(t, [Top(t) EXCEPT !.phase = "inside"])
Ends(t) ==
  /\ Busy(t) /\ HasMutex(Top(t))
  /\ Unlock(t) /\ Popped(t)
LoopsTo(t, k) ==
  /\ Busy(t) /\ HasMutex(Top(t))
  /\ \E f \in Frame :
       /\ f.phase = "calling" /\ f.op = Top(t).op /\ f.name = Top(t).name
       /\ f.node = k /\ f.next >= 1 /\ f.next <= Len(list[k])
       /\ Replaced(t, f)
  /\ UNCHANGED mutex
NodeOf(t) == m_observers[Top(t).name]
Loops(t) ==
  \/ NodeOf(t) # NoNode /\ LoopsTo(t, NodeOf(t))
  \/ Top(t).phase = "calling" /\ LoopsTo(t, Top(t).node)
Finds(t) ==
  /\ Busy(t) /\ Top(t).phase = "find"
  /\ \/ Popped(t)
     \/ Replaced(t, [Top(t) EXCEPT !.next = 1])
  /\ UNCHANGED mutex

LEMMA CallBegins ==
  ASSUME StackOK, NEW t \in Threads, NEW op, NEW n \in Names, NEW k \in Nodes \cup {NoNode},
         NEW o \in Observers \cup {0}, Call(t, op, n, k, o), op \in Adds => MayAdd,
         UNCHANGED mutex
  PROVE  Begins(t)
<1> DEFINE f == [op |-> op, name |-> n, node |-> k, observer |-> o,
                 phase |-> IF op = "getNotificationIterator" THEN "find" ELSE "lock",
                 next |-> 0]
<1>1. f \in Frame
  BY OperationsAssumption DEF Call, Frame
<1>2. Pushed(t, f)
  BY <1>1, PushedFrame DEF Call
<1>3. f.phase \in {"find", "lock"} /\ f.op = op /\ f.name = n
  OBVIOUS
<1> HIDE DEF f
<1>4. /\ Busy(t) => Top(t).phase = "calling" /\ Depth(t) < MaxDepth
      /\ Busy(t) => <<Center(Top(t)), CenterOf[n]>> \in Reaches
  BY DEF Call, MayCall, Busy, InPhase, Depth
<1> QED
  BY <1>1, <1>2, <1>3, <1>4 DEF Begins, Center

(* A step changes the table only when some operation is inside a mutex.    *)
LEMMA TopPhase ==
  ASSUME StackOK, NEW t \in Threads, NEW p, p \in {"inside", "calling"}, InPhase(t, p)
  PROVE  Busy(t) /\ HasMutex(Top(t)) /\ Top(t).phase = p /\ stack[t] # <<>>
BY DEF InPhase, Busy, HasMutex

LEMMA ReturnsEnds ==
  ASSUME StackOK, NEW t \in Threads, InPhase(t, "inside") \/ InPhase(t, "calling"), Returns(t)
  PROVE  Ends(t)
BY TopPhase, PoppedFrame DEF Returns, Ends

LEMMA LoopEffect ==
  ASSUME StackOK, NEW t \in Threads, InPhase(t, "inside") \/ InPhase(t, "calling"),
         NEW k \in Nodes \cup {NoNode}, NEW next \in Nat \ {0}, Loop(t, k, next)
  PROVE  Ends(t) \/ LoopsTo(t, k)
<1>1. CASE Returns(t)
  BY <1>1, ReturnsEnds
<1>2. CASE ~Returns(t)
  <2> DEFINE f == [Top(t) EXCEPT !.phase = "calling", !.node = k, !.next = next]
  <2>1. Busy(t) /\ HasMutex(Top(t)) /\ stack[t] # <<>>
    BY TopPhase
  <2>2. Top(t) \in Frame
    BY <2>1, TopIsLast
  <2>3. /\ f \in Frame /\ f.phase = "calling" /\ f.op = Top(t).op /\ f.name = Top(t).name
        /\ f.node = k /\ f.next = next
    BY <2>2 DEF Frame
  <2>4. /\ stack' = [stack EXCEPT ![t] = [@ EXCEPT ![Len(stack[t])] = f]] /\ UNCHANGED mutex
        /\ next <= Len(list[k])
    BY <1>2 DEF Loop, Top, Last
  <2> HIDE DEF f
  <2>5. Replaced(t, f)
    BY <2>1, <2>3, <2>4, ReplacedFrame
  <2>6. f.next >= 1 /\ f.next <= Len(list[k])
    BY <2>3, <2>4
  <2> QED
    BY <2>1, <2>3, <2>4, <2>5, <2>6 DEF LoopsTo
<1> QED
  BY <1>1, <1>2
-------------------------------------------------------------------------------
(* Every step is one of these as far as the table and its lists go. *)

Calm == UNCHANGED <<m_observers, list, nodes, observers>>

Extends(t) ==
  /\ InPhase(t, "inside") /\ Top(t).op \in Adds /\ NodeOf(t) # NoNode
  /\ Register(Top(t).name, NodeOf(t)) /\ Returns(t)
  /\ UNCHANGED <<m_observers, nodes>>
Creates(t) ==
  /\ InPhase(t, "inside") /\ Top(t).op \in Adds /\ NodeOf(t) = NoNode
  /\ nodes' = nodes + 1
  /\ m_observers' = [m_observers EXCEPT ![Top(t).name] = nodes + 1]
  /\ Register(Top(t).name, nodes + 1) /\ Returns(t)
Shrinks(t) ==
  /\ InPhase(t, "inside") /\ NodeOf(t) # NoNode
  /\ \E i \in DOMAIN list[NodeOf(t)] : list' = [list EXCEPT ![NodeOf(t)] = RemoveAt(@, i)]
  /\ Returns(t)
  /\ UNCHANGED <<m_observers, nodes, observers, places>>
Drops(t) ==
  /\ InPhase(t, "inside")
  /\ m_observers' = [m_observers EXCEPT ![Top(t).name] = NoNode]
  /\ Returns(t)
  /\ UNCHANGED <<list, nodes, observers, places>>
Walks(t) ==
  \/ /\ InPhase(t, "inside") /\ NodeOf(t) # NoNode
     /\ Loop(t, NodeOf(t), 1)
  \/ /\ InPhase(t, "calling")
     /\ Loop(t, Top(t).node, Top(t).next + 1)

(* The operations that change a list or the table, and the others.         *)
Changes(t) == Extends(t) \/ Creates(t) \/ Shrinks(t) \/ Drops(t)
Rests(t) == Begins(t) \/ Locks(t) \/ Ends(t) \/ Finds(t)

LEMMA StepKinds ==
  ASSUME TypeOK, [Next]_vars
  PROVE  \/ Calm /\ UNCHANGED <<mutex, stack>>
         \/ \E t \in Threads : Changes(t) \/ (Calm /\ Rests(t)) \/ Walks(t)
<1>0. StackOK
  BY DEF TypeOK, StackOK
<1>1. ASSUME NEW t \in Threads, NEW n \in Names, CallByName(t, n) PROVE Calm /\ Begins(t)
  <2>1. PICK op : Call(t, op, n, NoNode, 0) /\ (op \in Adds => MayAdd)
    BY <1>1 DEF CallByName
  <2>2. Begins(t)
    BY <1>0, <1>1, <2>1, CallBegins DEF CallByName
  <2> QED
    BY <1>1, <2>2 DEF CallByName, Calm
<1>2. ASSUME NEW t \in Threads, CallByIterator(t) PROVE Calm /\ Begins(t)
  <2>1. PICK i \in iterators, op \in Operations : Call(t, op, i[1], i[2], 0) /\ (op \in Adds => MayAdd)
    BY <1>2 DEF CallByIterator, Call
  <2>2. i[1] \in Names /\ i[2] \in Nodes \cup {NoNode}
    BY DEF TypeOK
  <2>3. Begins(t)
    BY <1>0, <1>2, <2>1, <2>2, CallBegins DEF CallByIterator
  <2> QED
    BY <1>2, <2>3 DEF CallByIterator, Calm
<1>3. ASSUME NEW t \in Threads, CallRemove(t) PROVE Calm /\ Begins(t)
  <2>1. PICK p \in places :
          \/ Call(t, "removeObserver", p[1], NoNode, p[2])
          \/ \E i \in iterators : i[1] = p[1] /\ Call(t, "removeObserverAt", i[1], i[2], p[2])
    BY <1>3 DEF CallRemove
  <2>2. p[1] \in Names /\ p[2] \in Observers \cup {0} /\ UNCHANGED mutex
    BY <1>3 DEF TypeOK, CallRemove
  <2>3. "removeObserver" \notin Adds /\ "removeObserverAt" \notin Adds
    BY DEF Adds
  <2>4. ASSUME Call(t, "removeObserver", p[1], NoNode, p[2]) PROVE Begins(t)
    BY <1>0, <2>2, <2>3, <2>4, CallBegins
  <2>5. ASSUME NEW i \in iterators, i[1] = p[1], Call(t, "removeObserverAt", i[1], i[2], p[2])
        PROVE  Begins(t)
    <3>1. i[1] \in Names /\ i[2] \in Nodes \cup {NoNode}
      BY DEF TypeOK
    <3> QED
      BY <1>0, <2>2, <2>3, <2>5, <3>1, CallBegins
  <2>6. Calm
    BY <1>3 DEF CallRemove, Calm
  <2> QED
    BY <2>1, <2>4, <2>5, <2>6
<1>4. ASSUME NEW t \in Threads, Lock(t) PROVE Calm /\ Locks(t)
  <2>1. Busy(t) /\ Top(t).phase = "lock" /\ stack[t] # <<>>
    BY <1>4 DEF Lock, InPhase, Busy
  <2>2. Top(t) \in Frame
    BY <1>0, <2>1, TopIsLast
  <2>3. [Top(t) EXCEPT !.phase = "inside"] \in Frame
    BY <2>2 DEF Frame
  <2>4. Replaced(t, [Top(t) EXCEPT !.phase = "inside"])
    BY <1>0, <1>4, <2>1, <2>3, ReplacedFrame DEF Lock, Top, Last
  <2> QED
    BY <1>4, <2>1, <2>4 DEF Lock, Locks, Calm
<1>5. ASSUME NEW t \in Threads, AddObserver(t) PROVE Extends(t) \/ Creates(t)
  BY <1>5 DEF AddObserver, Does, Adds, Extends, Creates, NodeOf
<1>6. ASSUME NEW t \in Threads, AddObserverAt(t) PROVE Extends(t)
  BY <1>6 DEF AddObserverAt, Does, Adds, Extends, NodeOf, Valid
<1>7. ASSUME NEW t \in Threads, NEW k, k = NodeOf(t), k # NoNode, InPhase(t, "inside"), Erases(t, k)
      PROVE  Shrinks(t) \/ (Calm /\ UNCHANGED <<mutex, stack>>)
  BY <1>7 DEF Erases, Fault, Shrinks, Calm
<1>8. ASSUME NEW t \in Threads, InPhase(t, "inside"), Returns(t) PROVE Rests(t)
  BY <1>0, <1>8, ReturnsEnds DEF Rests
<1>9. ASSUME NEW t \in Threads, RemoveObserver(t) \/ RemoveObserverAt(t)
      PROVE  Shrinks(t) \/ (Calm /\ Rests(t)) \/ (Calm /\ UNCHANGED <<mutex, stack>>)
  BY <1>7, <1>8, <1>9 DEF RemoveObserver, RemoveObserverAt, Does, Valid, NodeOf, Calm
<1>10. ASSUME NEW t \in Threads, RemoveObservers(t) PROVE Drops(t)
  BY <1>10 DEF RemoveObservers, Does, Drops
<1>11. ASSUME NEW t \in Threads, PostNotification(t) \/ CallbackReturns(t)
       PROVE  Walks(t) \/ (Calm /\ Rests(t))
  BY <1>8, <1>11 DEF PostNotification, CallbackReturns, Does, Valid, Walks, NodeOf, Calm
<1>12. ASSUME NEW t \in Threads, FindFirst(t) \/ FindAgain(t) PROVE Calm /\ Finds(t)
  <2>1. Busy(t) /\ Top(t).phase = "find" /\ stack[t] # <<>>
    BY <1>12 DEF FindFirst, FindAgain, InPhase, Busy
  <2>2. Calm /\ UNCHANGED mutex
    BY <1>12 DEF FindFirst, FindAgain, Calm
  <2>3. CASE Pop(t)
    BY <1>0, <2>1, <2>2, <2>3, PoppedFrame DEF Finds
  <2>4. CASE stack' = [stack EXCEPT ![t][Len(stack[t])].next = 1]
    <3>1. Top(t) \in Frame
      BY <1>0, <2>1, TopIsLast
    <3>2. [Top(t) EXCEPT !.next = 1] \in Frame
      BY <3>1 DEF Frame
    <3>3. Replaced(t, [Top(t) EXCEPT !.next = 1])
      BY <1>0, <2>1, <2>4, <3>2, ReplacedFrame DEF Top, Last
    <3> QED
      BY <2>1, <2>2, <3>3 DEF Finds
  <2> QED
    BY <1>12, <2>3, <2>4 DEF FindFirst, FindAgain
<1>13. ASSUME NEW t \in Threads, FindRaces(t) \/ StaleNode(t) \/ NoNodeUsed(t) \/ LockTwice(t)
       PROVE  Calm /\ UNCHANGED <<mutex, stack>>
  BY <1>13 DEF FindRaces, StaleNode, NoNodeUsed, LockTwice, Fault, Calm
<1>14. ASSUME NEW t \in Threads, EqualsEnd(t) PROVE Calm /\ Rests(t)
  BY <1>8, <1>14 DEF EqualsEnd, Calm
<1>15. CASE UNCHANGED vars
  BY <1>15 DEF vars, Calm
<1>16. ASSUME NEW t \in Threads, Begins(t) \/ Locks(t) \/ Finds(t) PROVE Rests(t)
  BY <1>16 DEF Rests
<1>17. ASSUME NEW t \in Threads, Extends(t) \/ Creates(t) \/ Shrinks(t) \/ Drops(t) PROVE Changes(t)
  BY <1>17 DEF Changes
<1> QED
  BY <1>1, <1>2, <1>3, <1>4, <1>5, <1>6, <1>9, <1>10, <1>11, <1>12, <1>13, <1>14, <1>15, <1>16, <1>17
     DEF Next
-------------------------------------------------------------------------------
(* Types, and the bound on observers and nodes. *)

(* Additions that are under way find room: each takes one observer, and at *)
(* most one node.                                                          *)
CountInv ==
  /\ IsFiniteSet(Adding)
  /\ observers + Cardinality(Adding) <= MaxObservers
  /\ nodes <= observers
  /\ \A t \in Threads : Depth(t) <= MaxDepth

LEMMA AddingPushed ==
  ASSUME StackOK, NEW t \in Threads, NEW f \in Frame, Pushed(t, f), IsFiniteSet(Adding),
         Depth(t) < MaxDepth
  PROVE  /\ IsFiniteSet(Adding') /\ Cardinality(Adding') \in Nat
         /\ Cardinality(Adding') <= Cardinality(Adding) + (IF f.op \in Adds THEN 1 ELSE 0)
<1>1. \A u \in Threads : Depth(u) \in Nat /\ DOMAIN stack[u] = 1..Depth(u)
  BY DEF StackOK, Depth
<1>2. \A u \in Threads : DOMAIN stack'[u] = 1..Len(stack'[u])
  BY DEF Pushed
<1>3. Depth(t) + 1 \in 1..MaxDepth
  BY <1>1, BoundsAssumption
<1>4. \A p \in Threads \X (1..MaxDepth) :
        p \in Adding' <=> p \in Adding \/ (f.op \in Adds /\ p = <<t, Depth(t) + 1>>)
  <2> SUFFICES ASSUME NEW u \in Threads, NEW i \in 1..MaxDepth
               PROVE  <<u, i>> \in Adding' <=>
                        <<u, i>> \in Adding \/ (f.op \in Adds /\ u = t /\ i = Depth(t) + 1)
    OBVIOUS
  <2>1. <<u, i>> \in Adding <=> i \in 1..Depth(u) /\ stack[u][i].op \in Adds
    BY <1>1 DEF Adding
  <2>2. <<u, i>> \in Adding' <=> i \in 1..Len(stack'[u]) /\ stack'[u][i].op \in Adds
    BY <1>2 DEF Adding
  <2>3. CASE u # t
    BY <2>1, <2>2, <2>3 DEF Pushed, Others, Depth
  <2>4. CASE u = t
    BY <1>1, <2>1, <2>2, <2>4 DEF Pushed
  <2> QED
    BY <2>3, <2>4
<1>5. Adding' \subseteq Threads \X (1..MaxDepth) /\ Adding \subseteq Threads \X (1..MaxDepth)
  BY DEF Adding
<1>6. CASE f.op \in Adds
  <2>1. Adding' = Adding \cup {<<t, Depth(t) + 1>>}
    BY <1>3, <1>4, <1>5, <1>6
  <2>2. /\ IsFiniteSet(Adding') /\ Cardinality(Adding') \in Nat /\ Cardinality(Adding) \in Nat
        /\ Cardinality(Adding') = Cardinality(Adding)
             \/ Cardinality(Adding') = Cardinality(Adding) + 1
    BY <2>1, FS_AddElement, FS_CardinalityType
  <2> QED
    BY <1>6, <2>2
<1>7. CASE f.op \notin Adds
  <2>1. Adding' = Adding
    BY <1>4, <1>5, <1>7
  <2> QED
    BY <1>7, <2>1, FS_CardinalityType
<1> QED
  BY <1>6, <1>7

LEMMA AddingPopped ==
  ASSUME StackOK, NEW t \in Threads, Busy(t), Popped(t), IsFiniteSet(Adding), Depth(t) <= MaxDepth
  PROVE  /\ IsFiniteSet(Adding') /\ Cardinality(Adding') \in Nat /\ Cardinality(Adding) \in Nat
         /\ Cardinality(Adding') <= Cardinality(Adding)
         /\ Top(t).op \in Adds => Cardinality(Adding') + 1 = Cardinality(Adding)
<1>1. \A u \in Threads : Depth(u) \in Nat /\ DOMAIN stack[u] = 1..Depth(u)
  BY DEF StackOK, Depth
<1>2. \A u \in Threads : DOMAIN stack'[u] = 1..Len(stack'[u])
  BY DEF Popped
<1>3. Depth(t) \in 1..MaxDepth /\ Top(t) = stack[t][Depth(t)]
  BY <1>1, TopIsLast, BoundsAssumption
<1>4. \A p \in Threads \X (1..MaxDepth) :
        p \in Adding' <=> p \in Adding /\ p # <<t, Depth(t)>>
  <2> SUFFICES ASSUME NEW u \in Threads, NEW i \in 1..MaxDepth
               PROVE  <<u, i>> \in Adding' <=> <<u, i>> \in Adding /\ ~(u = t /\ i = Depth(t))
    OBVIOUS
  <2>1. <<u, i>> \in Adding <=> i \in 1..Depth(u) /\ stack[u][i].op \in Adds
    BY <1>1 DEF Adding
  <2>2. <<u, i>> \in Adding' <=> i \in 1..Len(stack'[u]) /\ stack'[u][i].op \in Adds
    BY <1>2 DEF Adding
  <2>3. CASE u # t
    BY <2>1, <2>2, <2>3 DEF Popped, Others, Depth
  <2>4. CASE u = t
    BY <1>1, <2>1, <2>2, <2>4 DEF Popped
  <2> QED
    BY <2>3, <2>4
<1>5. Adding' = Adding \ {<<t, Depth(t)>>}
  <2>1. Adding' \subseteq Threads \X (1..MaxDepth) /\ Adding \subseteq Threads \X (1..MaxDepth)
    BY DEF Adding
  <2> QED
    BY <1>4, <2>1
<1>6. Top(t).op \in Adds => <<t, Depth(t)>> \in Adding
  BY <1>1, <1>3 DEF Adding
<1>7. /\ IsFiniteSet(Adding') /\ Cardinality(Adding) \in Nat /\ Cardinality(Adding') \in Nat
      /\ Cardinality(Adding') = IF <<t, Depth(t)>> \in Adding THEN Cardinality(Adding) - 1
                                ELSE Cardinality(Adding)
  BY <1>5, FS_RemoveElement, FS_CardinalityType
<1> QED
  BY <1>6, <1>7

LEMMA AddingReplaced ==
  ASSUME StackOK, NEW t \in Threads, Busy(t), NEW f \in Frame, Replaced(t, f), f.op = Top(t).op
  PROVE  Adding' = Adding
<1>1. \A u \in Threads : Depth(u) \in Nat /\ DOMAIN stack[u] = 1..Depth(u)
  BY DEF StackOK, Depth
<1>2. \A u \in Threads : DOMAIN stack'[u] = 1..Len(stack'[u])
  BY DEF Replaced
<1>3. Top(t) = stack[t][Depth(t)]
  BY TopIsLast
<1>4. ASSUME NEW u \in Threads, NEW i \in 1..MaxDepth
      PROVE  <<u, i>> \in Adding' <=> <<u, i>> \in Adding
  <2>1. <<u, i>> \in Adding <=> i \in 1..Depth(u) /\ stack[u][i].op \in Adds
    BY <1>1 DEF Adding
  <2>2. <<u, i>> \in Adding' <=> i \in 1..Len(stack'[u]) /\ stack'[u][i].op \in Adds
    BY <1>2 DEF Adding
  <2>3. CASE u # t
    BY <2>1, <2>2, <2>3 DEF Replaced, Others, Depth
  <2>4. CASE u = t
    BY <1>1, <1>3, <2>1, <2>2, <2>4 DEF Replaced
  <2> QED
    BY <2>3, <2>4
<1> QED
  BY <1>4 DEF Adding
LEMMA WalksEffect ==
  ASSUME TypeOK, NEW t \in Threads, Walks(t)
  PROVE  Calm /\ (Ends(t) \/ Loops(t))
<1>0. StackOK
  BY DEF TypeOK, StackOK
<1>1. Busy(t) /\ Top(t) \in Frame
  BY <1>0, TopIsLast DEF Walks, InPhase
<1>2. Top(t).name \in Names /\ Top(t).node \in Nodes \cup {NoNode} /\ Top(t).next \in Nat
  BY <1>1 DEF Frame
<1>3. NodeOf(t) \in Nodes \cup {NoNode}
  BY <1>2 DEF NodeOf, TypeOK
<1>4. CASE InPhase(t, "inside") /\ NodeOf(t) # NoNode /\ Loop(t, NodeOf(t), 1)
  <2>1. PICK k \in Nodes \cup {NoNode}, next \in Nat \ {0} : k = NodeOf(t) /\ next = 1
    BY <1>3
  <2>2. Ends(t) \/ LoopsTo(t, k)
    BY <1>0, <1>4, <2>1, LoopEffect
  <2> QED
    BY <1>4, <2>1, <2>2 DEF Loop, Loops, Calm
<1>5. CASE InPhase(t, "calling") /\ Loop(t, Top(t).node, Top(t).next + 1)
  <2>1. PICK k \in Nodes \cup {NoNode}, next \in Nat \ {0} : k = Top(t).node /\ next = Top(t).next + 1
    BY <1>2
  <2>2. Ends(t) \/ LoopsTo(t, k)
    BY <1>0, <1>5, <2>1, LoopEffect
  <2> QED
    BY <1>5, <2>1, <2>2 DEF Loop, Loops, Calm, InPhase
<1> QED
  BY <1>4, <1>5 DEF Walks

LEMMA ChangesEnd ==
  ASSUME TypeOK, NEW t \in Threads, Changes(t)
  PROVE  Ends(t) /\ Top(t).phase = "inside" /\ Top(t).name \in Names
<1>0. StackOK
  BY DEF TypeOK, StackOK
<1>1. InPhase(t, "inside") /\ Returns(t)
  BY DEF Changes, Extends, Creates, Shrinks, Drops
<1>2. Ends(t)
  BY <1>0, <1>1, ReturnsEnds
<1>3. Top(t) \in Frame
  BY <1>0, <1>1, TopIsLast DEF InPhase
<1> QED
  BY <1>1, <1>2, <1>3 DEF InPhase, Frame

LEMMA CountEnds ==
  ASSUME TypeOK, CountInv, NEW t \in Threads, Ends(t), 
         \/ observers' = observers /\ nodes' = nodes
         \/ Top(t).op \in Adds /\ observers' = observers + 1 /\ nodes' \in {nodes, nodes + 1}
  PROVE  CountInv'
<1>0. StackOK /\ Busy(t) /\ Popped(t)
  BY DEF TypeOK, StackOK, Ends
<1>1. \A u \in Threads : Depth(u) \in Nat /\ Depth(u) <= MaxDepth
  BY <1>0 DEF StackOK, Depth, CountInv
<1>2. /\ IsFiniteSet(Adding') /\ Cardinality(Adding') \in Nat /\ Cardinality(Adding) \in Nat
      /\ Cardinality(Adding') <= Cardinality(Adding)
      /\ Top(t).op \in Adds => Cardinality(Adding') + 1 = Cardinality(Adding)
  BY <1>0, <1>1, AddingPopped DEF CountInv
<1>3. observers' + Cardinality(Adding') <= MaxObservers /\ nodes' <= observers'
  BY <1>2, BoundsAssumption DEF CountInv, TypeOK
<1>4. \A u \in Threads : Len(stack'[u]) <= MaxDepth
  BY <1>0, <1>1, BoundsAssumption DEF Popped, Others, Depth
<1> QED
  BY <1>2, <1>3, <1>4 DEF CountInv, Depth

LEMMA CountReplaced ==
  ASSUME TypeOK, CountInv, NEW t \in Threads, Busy(t), NEW f \in Frame, Replaced(t, f),
         f.op = Top(t).op, Calm
  PROVE  CountInv'
<1>0. StackOK
  BY DEF TypeOK, StackOK
<1>1. Adding' = Adding
  BY <1>0, AddingReplaced
<1>2. \A u \in Threads : Len(stack'[u]) <= MaxDepth
  BY DEF CountInv, Replaced, Others, Depth
<1> QED
  BY <1>1, <1>2 DEF CountInv, Depth, Calm

LEMMA CountStep == TypeOK /\ CountInv /\ [Next]_vars => CountInv'
<1> SUFFICES ASSUME TypeOK, CountInv, [Next]_vars PROVE CountInv'
  OBVIOUS
<1>0. StackOK
  BY DEF TypeOK, StackOK
<1>1. CASE Calm /\ UNCHANGED <<mutex, stack>>
  BY <1>1 DEF Calm, CountInv, Depth, Adding
<1>2. ASSUME NEW t \in Threads, Changes(t) PROVE CountInv'
  <2>1. Ends(t)
    BY <1>2, ChangesEnd
  <2>2. \/ observers' = observers /\ nodes' = nodes
        \/ Top(t).op \in Adds /\ observers' = observers + 1 /\ nodes' \in {nodes, nodes + 1}
    BY <1>2 DEF Changes, Extends, Creates, Shrinks, Drops, Register
  <2> QED
    BY <2>1, <2>2, CountEnds
<1>3. ASSUME NEW t \in Threads, Calm, Ends(t) PROVE CountInv'
  BY <1>3, CountEnds DEF Calm
<1>4. ASSUME NEW t \in Threads, Calm, Begins(t) PROVE CountInv'
  <2>1. PICK f \in Frame : Pushed(t, f) /\ (f.op \in Adds => MayAdd)
    BY <1>4 DEF Begins
  <2>2. \A u \in Threads : Depth(u) \in Nat /\ Depth(u) <= MaxDepth
    BY <1>0 DEF StackOK, Depth, CountInv
  <2>3. Depth(t) < MaxDepth
    <3>1. ~Busy(t) => Depth(t) = 0
      BY DEF Busy, Depth
    <3> QED
      BY <1>4, <3>1, BoundsAssumption DEF Begins
  <2>4. /\ IsFiniteSet(Adding') /\ Cardinality(Adding') \in Nat
        /\ Cardinality(Adding') <= Cardinality(Adding) + (IF f.op \in Adds THEN 1 ELSE 0)
    BY <1>0, <2>1, <2>3, AddingPushed DEF CountInv
  <2>5. Cardinality(Adding) \in Nat
    BY FS_CardinalityType DEF CountInv
  <2>6. observers' + Cardinality(Adding') <= MaxObservers /\ nodes' <= observers'
    BY <1>4, <2>1, <2>4, <2>5, BoundsAssumption DEF CountInv, TypeOK, MayAdd, Calm
  <2>7. \A u \in Threads : Len(stack'[u]) <= MaxDepth
    BY <2>1, <2>2, <2>3, BoundsAssumption DEF Pushed, Others, Depth
  <2> QED
    BY <2>4, <2>6, <2>7 DEF CountInv, Depth
<1>5. ASSUME NEW t \in Threads, Calm, Locks(t) \/ Finds(t) \/ Loops(t) PROVE CountInv'
  <2>1. Busy(t)
    BY <1>5 DEF Locks, Finds, Loops, LoopsTo
  <2>2. Top(t) \in Frame
    BY <1>0, <2>1, TopIsLast
  <2>3. /\ [Top(t) EXCEPT !.phase = "inside"] \in Frame
        /\ [Top(t) EXCEPT !.phase = "inside"].op = Top(t).op
        /\ [Top(t) EXCEPT !.next = 1] \in Frame
        /\ [Top(t) EXCEPT !.next = 1].op = Top(t).op
    BY <2>2 DEF Frame
  <2>4. CASE Locks(t)
    BY <1>5, <2>1, <2>3, <2>4, CountReplaced DEF Locks
  <2>5. CASE Loops(t)
    BY <1>5, <2>1, <2>5, CountReplaced DEF Loops, LoopsTo
  <2>6. CASE Replaced(t, [Top(t) EXCEPT !.next = 1])
    BY <1>5, <2>1, <2>3, <2>6, CountReplaced
  <2>7. CASE Popped(t)
    <3>1. \A u \in Threads : Depth(u) \in Nat /\ Depth(u) <= MaxDepth
      BY <1>0 DEF StackOK, Depth, CountInv
    <3>2. /\ IsFiniteSet(Adding') /\ Cardinality(Adding') \in Nat /\ Cardinality(Adding) \in Nat
          /\ Cardinality(Adding') <= Cardinality(Adding)
      BY <1>0, <2>1, <2>7, <3>1, AddingPopped DEF CountInv
    <3>3. \A u \in Threads : Len(stack'[u]) <= MaxDepth
      BY <2>7, <3>1, BoundsAssumption DEF Popped, Others, Depth
    <3>4. observers' + Cardinality(Adding') <= MaxObservers /\ nodes' <= observers'
      BY <1>5, <3>2, BoundsAssumption DEF CountInv, TypeOK, Calm
    <3> QED
      BY <3>2, <3>3, <3>4 DEF CountInv, Depth
  <2> QED
    BY <1>5, <2>4, <2>5, <2>6, <2>7 DEF Finds
<1> QED
  BY <1>1, <1>2, <1>3, <1>4, <1>5, StepKinds, WalksEffect DEF Rests
(* One element fewer, the others in their order. *)
LEMMA RemovedAt ==
  ASSUME NEW S, NEW s \in Seq(S), NEW i \in DOMAIN s
  PROVE  /\ RemoveAt(s, i) \in Seq(S) /\ Len(RemoveAt(s, i)) = Len(s) - 1
         /\ \A j \in 1..(Len(s) - 1) : RemoveAt(s, i)[j] = IF j < i THEN s[j] ELSE s[j + 1]
<1>1. Len(s) \in Nat /\ i \in 1..Len(s) /\ \A j \in 1..Len(s) : s[j] \in S
  BY ElementOfSeq
<1>2. /\ SubSeq(s, 1, i - 1) \in Seq(S) /\ Len(SubSeq(s, 1, i - 1)) = i - 1
      /\ \A j \in 1..(i - 1) : SubSeq(s, 1, i - 1)[j] = s[j]
  <2>1. PICK n \in Nat : n = i - 1 /\ \A j \in 1..n : s[j] \in S
    BY <1>1
  <2>2. /\ SubSeq(s, 1, n) \in Seq(S)
        /\ Len(SubSeq(s, 1, n)) = IF 1 <= n THEN n - 1 + 1 ELSE 0
        /\ \A j \in 1..(n - 1 + 1) : SubSeq(s, 1, n)[j] = s[1 + j - 1]
    BY <2>1, SubSeqProperties
  <2>3. \A j \in 1..n : j \in 1..(n - 1 + 1) /\ 1 + j - 1 = j
    OBVIOUS
  <2>4. Len(SubSeq(s, 1, n)) = n
    BY <2>2
  <2> QED
    BY <2>1, <2>2, <2>3, <2>4
<1>3. /\ SubSeq(s, i + 1, Len(s)) \in Seq(S) /\ Len(SubSeq(s, i + 1, Len(s))) = Len(s) - i
      /\ \A j \in 1..(Len(s) - i) : SubSeq(s, i + 1, Len(s))[j] = s[i + j]
  <2>1. PICK m \in Nat, n \in Nat : m = i + 1 /\ n = Len(s) /\ \A j \in m..n : s[j] \in S
    BY <1>1
  <2>2. /\ SubSeq(s, m, n) \in Seq(S)
        /\ Len(SubSeq(s, m, n)) = IF m <= n THEN n - m + 1 ELSE 0
        /\ \A j \in 1..(n - m + 1) : SubSeq(s, m, n)[j] = s[m + j - 1]
    BY <2>1, SubSeqProperties
  <2>3. \A j \in 1..(n - i) : j \in 1..(n - m + 1) /\ m + j - 1 = i + j
    BY <1>1, <2>1
  <2>4. Len(SubSeq(s, m, n)) = n - i
    BY <1>1, <2>1, <2>2
  <2> QED
    BY <2>1, <2>2, <2>3, <2>4
<1>4. PICK p \in Seq(S), q \in Seq(S) : p = SubSeq(s, 1, i - 1) /\ q = SubSeq(s, i + 1, Len(s))
  BY <1>2, <1>3
<1>5. /\ p \o q \in Seq(S) /\ Len(p \o q) = Len(p) + Len(q)
      /\ \A j \in 1..(Len(p) + Len(q)) : (p \o q)[j] = IF j <= Len(p) THEN p[j] ELSE q[j - Len(p)]
  BY ConcatProperties
<1>6. RemoveAt(s, i) = p \o q /\ Len(p) = i - 1 /\ Len(q) = Len(s) - i
  BY <1>2, <1>3, <1>4 DEF RemoveAt
<1>7. Len(p) + Len(q) = Len(s) - 1 /\ i \in Int
  BY <1>1, <1>6
<1>8. \A j \in 1..(Len(s) - 1) : (p \o q)[j] = IF j <= i - 1 THEN p[j] ELSE q[j - (i - 1)]
  BY <1>5, <1>6, <1>7
<1>9. ASSUME NEW j \in 1..(Len(s) - 1)
      PROVE  (p \o q)[j] = IF j < i THEN s[j] ELSE s[j + 1]
  <2>1. CASE j < i
    <3>1. j <= i - 1 /\ j \in 1..(i - 1)
      BY <1>1, <2>1
    <3>2. p[j] = s[j]
      BY <1>2, <1>4, <3>1
    <3> QED
      BY <1>8, <2>1, <3>1, <3>2
  <2>2. CASE ~(j < i)
    <3>1. ~(j <= i - 1) /\ j - (i - 1) \in 1..(Len(s) - i) /\ i + (j - (i - 1)) = j + 1
      BY <1>1, <2>2
    <3>2. q[j - (i - 1)] = s[j + 1]
      BY <1>3, <1>4, <3>1
    <3> QED
      BY <1>8, <2>2, <3>1, <3>2
  <2> QED
    BY <2>1, <2>2
<1> QED
  BY <1>5, <1>6, <1>7, <1>9

(* What the application holds, and what went wrong. *)
HeldOK ==
  /\ iterators \subseteq Names \X (Nodes \cup {NoNode})
  /\ places \subseteq Names \X Observers
  /\ fault \in Faults
TableOK ==
  /\ m_observers \in [Names -> Nodes \cup {NoNode}]
  /\ list \in [Nodes -> Seq(Observers)]
  /\ nodes \in 0..MaxObservers /\ observers \in 0..MaxObservers
MutexOK == mutex \in [Centers -> Threads \cup {None}]

LEMMA TypeParts == TypeOK <=> MutexOK /\ TableOK /\ HeldOK /\ StackOK
BY DEF TypeOK, MutexOK, TableOK, HeldOK, StackOK

(* An addition finds room. *)
LEMMA RoomToAdd ==
  ASSUME TypeOK, CountInv, NEW t \in Threads, Busy(t), Top(t).op \in Adds
  PROVE  observers + 1 \in Observers /\ nodes + 1 \in Nodes
<1>1. StackOK /\ Depth(t) \in 1..MaxDepth /\ Top(t) = stack[t][Depth(t)]
  BY TopIsLast, BoundsAssumption DEF TypeOK, StackOK, CountInv
<1>2. <<t, Depth(t)>> \in Adding
  <2>1. DOMAIN stack[t] = 1..Depth(t)
    BY <1>1 DEF StackOK, Depth
  <2> QED
    BY <1>1, <2>1, TopIsLast DEF Adding
<1>3. Cardinality(Adding) \in Nat /\ Cardinality(Adding) # 0
  BY <1>2, FS_CardinalityType, FS_EmptySet DEF CountInv
<1> QED
  BY <1>3, BoundsAssumption DEF CountInv, TypeOK, Observers, Nodes

LEMMA MutexStep == TypeOK /\ [Next]_vars => MutexOK' /\ StackOK'
<1> SUFFICES ASSUME TypeOK, [Next]_vars PROVE MutexOK' /\ StackOK'
  OBVIOUS
<1>0. MutexOK /\ StackOK
  BY TypeParts
<1>1. CASE UNCHANGED <<mutex, stack>>
  BY <1>0, <1>1 DEF MutexOK, StackOK
<1>2. ASSUME NEW t \in Threads, Begins(t) \/ Locks(t) \/ Ends(t) \/ Finds(t) \/ Loops(t)
      PROVE  MutexOK' /\ StackOK'
  <2>1. MutexOK'
    BY <1>0, <1>2 DEF MutexOK, Begins, Locks, Ends, Finds, Loops, LoopsTo, Unlock
  <2>2. StackOK'
    BY <1>2 DEF StackOK, Begins, Locks, Ends, Finds, Loops, LoopsTo, Pushed, Popped, Replaced
  <2> QED
    BY <2>1, <2>2
<1> QED
  BY <1>1, <1>2, StepKinds, WalksEffect, ChangesEnd DEF Rests

LEMMA TableStep == TypeOK /\ CountInv /\ [Next]_vars => TableOK'
<1> SUFFICES ASSUME TypeOK, CountInv, [Next]_vars PROVE TableOK'
  OBVIOUS
<1>0. TableOK /\ StackOK
  BY TypeParts
<1>1. CASE Calm
  BY <1>0, <1>1 DEF Calm, TableOK
<1>2. ASSUME NEW t \in Threads, Changes(t) PROVE TableOK'
  <2>1. Busy(t) /\ Top(t).name \in Names
    BY <1>2, ChangesEnd DEF Ends
  <2>2. NodeOf(t) # NoNode => NodeOf(t) \in Nodes
    BY <1>0, <2>1 DEF TableOK, NodeOf
  <2>3. ASSUME NEW n, NEW k \in Nodes, Register(n, k), Top(t).op \in Adds
        PROVE  /\ list' \in [Nodes -> Seq(Observers)] /\ observers' \in 0..MaxObservers
    <3>1. observers + 1 \in Observers
      BY <2>1, <2>3, RoomToAdd
    <3>2. list[k] \in Seq(Observers)
      BY <1>0 DEF TableOK
    <3>3. Append(list[k], observers + 1) \in Seq(Observers)
      BY <3>1, <3>2, AppendProperties
    <3> QED
      BY <1>0, <2>3, <3>1, <3>3 DEF Register, TableOK, Observers
  <2>4. CASE Extends(t)
    BY <1>0, <2>2, <2>3, <2>4 DEF Extends, TableOK
  <2>5. CASE Creates(t)
    <3>1. nodes + 1 \in Nodes
      BY <2>1, <2>5, RoomToAdd DEF Creates
    <3> QED
      BY <1>0, <2>1, <2>3, <2>5, <3>1 DEF Creates, TableOK, Nodes
  <2>6. CASE Shrinks(t)
    <3>1. PICK i \in DOMAIN list[NodeOf(t)] : list' = [list EXCEPT ![NodeOf(t)] = RemoveAt(@, i)]
      BY <2>6 DEF Shrinks
    <3>2. list[NodeOf(t)] \in Seq(Observers)
      BY <1>0, <2>2, <2>6 DEF TableOK, Shrinks
    <3>3. RemoveAt(list[NodeOf(t)], i) \in Seq(Observers)
      BY <3>2, RemovedAt
    <3> QED
      BY <1>0, <2>6, <3>1, <3>3 DEF Shrinks, TableOK
  <2>7. CASE Drops(t)
    BY <1>0, <2>7 DEF Drops, TableOK
  <2> QED
    BY <1>2, <2>4, <2>5, <2>6, <2>7 DEF Changes
<1> QED
  BY <1>1, <1>2, StepKinds, WalksEffect

LEMMA HeldStep == TypeOK /\ CountInv /\ [Next]_vars => HeldOK'
<1> SUFFICES ASSUME TypeOK, CountInv, [Next]_vars PROVE HeldOK'
  OBVIOUS
<1>0. HeldOK /\ StackOK /\ TableOK
  BY TypeParts
<1>1. ASSUME NEW t \in Threads, Busy(t) PROVE Top(t).name \in Names
  BY <1>0, <1>1, TopIsLast DEF Frame
<1>2. ASSUME NEW f \in Faults, Fault(f) PROVE HeldOK'
  BY <1>0, <1>2 DEF Fault, HeldOK
<1>3. {"noNode", "staleNode", "staleObserver", "race", "relock"} \subseteq Faults
  BY DEF Faults
<1>4. ASSUME NEW t \in Threads, NEW k, Register(Top(t).name, k), Busy(t), Top(t).op \in Adds,
             UNCHANGED <<iterators, fault>>
      PROVE  HeldOK'
  BY <1>0, <1>1, <1>4, RoomToAdd DEF Register, HeldOK
<1>5. ASSUME NEW t \in Threads, AddObserver(t) \/ AddObserverAt(t) PROVE HeldOK'
  <2>1. Busy(t) /\ Top(t).op \in Adds /\ UNCHANGED <<iterators, fault>>
    BY <1>5 DEF AddObserver, AddObserverAt, Does, InPhase, Adds
  <2>2. PICK k : Register(Top(t).name, k)
    BY <1>5 DEF AddObserver, AddObserverAt
  <2> QED
    BY <1>4, <2>1, <2>2
<1>6. ASSUME NEW t \in Threads,
             \/ \E n \in Names : CallByName(t, n)
             \/ CallByIterator(t) \/ CallRemove(t) \/ Lock(t)
      PROVE  HeldOK'
  BY <1>0, <1>6 DEF CallByName, CallByIterator, CallRemove, Lock, HeldOK
<1>7. ASSUME NEW t \in Threads, NEW k, Erases(t, k) PROVE HeldOK'
  BY <1>0, <1>2, <1>3, <1>7 DEF Erases, HeldOK
<1>8. ASSUME NEW t \in Threads, RemoveObserver(t) \/ RemoveObserverAt(t) PROVE HeldOK'
  BY <1>0, <1>7, <1>8 DEF RemoveObserver, RemoveObserverAt, HeldOK
<1>9. ASSUME NEW t \in Threads, RemoveObservers(t) \/ EqualsEnd(t) PROVE HeldOK'
  BY <1>0, <1>9 DEF RemoveObservers, EqualsEnd, HeldOK
<1>10. ASSUME NEW t \in Threads, PostNotification(t) \/ CallbackReturns(t) PROVE HeldOK'
  BY <1>0, <1>10 DEF PostNotification, CallbackReturns, Loop, HeldOK
<1>11. ASSUME NEW t \in Threads, FindFirst(t) \/ FindAgain(t) PROVE HeldOK'
  <2>1. Top(t).name \in Names
    BY <1>1, <1>11 DEF FindFirst, FindAgain, InPhase
  <2> QED
    BY <1>0, <1>11, <2>1 DEF FindFirst, FindAgain, HeldOK, TableOK
<1>12. ASSUME NEW t \in Threads, FindRaces(t) \/ StaleNode(t) \/ NoNodeUsed(t) \/ LockTwice(t) PROVE HeldOK'
  BY <1>2, <1>3, <1>12 DEF FindRaces, StaleNode, NoNodeUsed, LockTwice
<1>13. CASE UNCHANGED vars
  BY <1>0, <1>13 DEF vars, HeldOK
<1> QED
  BY <1>5, <1>6, <1>8, <1>9, <1>10, <1>11, <1>12, <1>13 DEF Next

(* Every reachable state is well typed, and additions under way find room: *)
(* for any threads, centers, names and nesting of callbacks.               *)
THEOREM TypeCorrect == Spec => [](TypeOK /\ CountInv)
<1>1. Init => TypeOK /\ CountInv
  <2> SUFFICES ASSUME Init PROVE TypeOK /\ CountInv
    OBVIOUS
  <2>1. <<>> \in Seq(Frame) /\ <<>> \in Seq(Observers) /\ Len(<<>>) = 0 /\ DOMAIN <<>> = {}
    OBVIOUS
  <2>2. TypeOK
    BY <2>1, BoundsAssumption DEF Init, TypeOK, Faults
  <2>3. Adding = {}
    BY <2>1 DEF Init, Adding
  <2>4. \A t \in Threads : Depth(t) = 0
    BY <2>1 DEF Init, Depth
  <2> QED
    BY <2>2, <2>3, <2>4, FS_EmptySet, BoundsAssumption DEF CountInv, Init
<1>2. TypeOK /\ CountInv /\ [Next]_vars => TypeOK' /\ CountInv'
  <2>1. MutexOK' /\ TableOK' /\ HeldOK' /\ StackOK' => TypeOK'
    BY DEF TypeOK, MutexOK, TableOK, HeldOK, StackOK
  <2> QED
    BY <2>1, CountStep, MutexStep, TableStep, HeldStep
<1> QED
  BY <1>1, <1>2, PTL DEF Spec
-------------------------------------------------------------------------------
(* Who holds which mutex. *)

(* A thread waits, looks or works only at the top of its stack; each frame *)
(* that is past its lock holds the mutex of its center, no two of a thread *)
(* the same, and a mutex that is held has such a frame.                    *)
OnlyTopIsNotCalling ==
  \A t \in Threads : \A i \in 1..Depth(t) : i < Depth(t) => stack[t][i].phase = "calling"
FramesHold ==
  \A t \in Threads : \A i \in 1..Depth(t) :
    HasMutex(stack[t][i]) => mutex[Center(stack[t][i])] = t
FramesDiffer ==
  \A t \in Threads : \A i, j \in 1..Depth(t) :
    HasMutex(stack[t][i]) /\ HasMutex(stack[t][j]) /\ Center(stack[t][i]) = Center(stack[t][j])
      => i = j
HeldByFrame ==
  \A c \in Centers : mutex[c] # None =>
    \E i \in 1..Depth(mutex[c]) :
      HasMutex(stack[mutex[c]][i]) /\ Center(stack[mutex[c]][i]) = c
CallsReach ==
  \A t \in Threads : \A i \in 1..Depth(t) : i < Depth(t) =>
    <<Center(stack[t][i]), Center(stack[t][i + 1])>> \in Reaches
LockInv == OnlyTopIsNotCalling /\ FramesHold /\ FramesDiffer /\ HeldByFrame /\ CallsReach

LEMMA Frames ==
  ASSUME TypeOK, NEW t \in Threads
  PROVE  /\ Depth(t) \in Nat
         /\ \A i \in 1..Depth(t) : stack[t][i] \in Frame /\ Center(stack[t][i]) \in Centers
         /\ Busy(t) => Top(t) = stack[t][Depth(t)] /\ Depth(t) \in 1..Depth(t)
         /\ ~Busy(t) => Depth(t) = 0
<1>1. StackOK /\ stack[t] \in Seq(Frame)
  BY DEF TypeOK, StackOK
<1>2. Depth(t) \in Nat /\ \A i \in 1..Depth(t) : stack[t][i] \in Frame
  BY <1>1, ElementOfSeq DEF Depth
<1>3. \A i \in 1..Depth(t) : Center(stack[t][i]) \in Centers
  BY <1>2, CentersAssumption DEF Frame, Center
<1>4. Busy(t) => Top(t) = stack[t][Depth(t)] /\ Depth(t) >= 1
  BY <1>1, TopIsLast
<1> QED
  BY <1>2, <1>3, <1>4 DEF Busy, Depth

LEMMA CenterOfName ==
  \A f, g : f.name = g.name => Center(f) = Center(g)
BY DEF Center

LEMMA LockReplaced ==
  ASSUME TypeOK, LockInv, NEW t \in Threads, Busy(t), NEW f, Replaced(t, f),
         f.name = Top(t).name, HasMutex(f) <=> HasMutex(Top(t)), UNCHANGED mutex
  PROVE  LockInv'
<1> DEFINE d == Depth(t)
<1>1. d \in Nat /\ d >= 1 /\ Top(t) = stack[t][d] /\ Center(f) = Center(Top(t))
  BY Frames, CenterOfName
<1>2. /\ \A u \in Threads \ {t} : stack'[u] = stack[u]
      /\ Len(stack'[t]) = d /\ stack'[t][d] = f
      /\ \A i \in 1..d : i < d => stack'[t][i] = stack[t][i]
  BY <1>1 DEF Replaced, Others
<1>3. \A u \in Threads : Len(stack'[u]) = Depth(u)
  BY <1>2 DEF Depth
<1>4. \A u \in Threads : \A i \in 1..Depth(u) :
        /\ Center(stack'[u][i]) = Center(stack[u][i])
        /\ HasMutex(stack'[u][i]) <=> HasMutex(stack[u][i])
        /\ i < Depth(u) => stack'[u][i] = stack[u][i]
  <2> SUFFICES ASSUME NEW u \in Threads, NEW i \in 1..Depth(u)
               PROVE  /\ Center(stack'[u][i]) = Center(stack[u][i])
                      /\ HasMutex(stack'[u][i]) <=> HasMutex(stack[u][i])
                      /\ i < Depth(u) => stack'[u][i] = stack[u][i]
    OBVIOUS
  <2>1. CASE u # t \/ i < d
    BY <1>1, <1>2, <2>1
  <2>2. CASE u = t /\ i = d
    BY <1>1, <1>2, <2>2
  <2> QED
    BY <1>1, <2>1, <2>2
<1> HIDE DEF d
<1>5. \A u \in Threads : Depth(u) \in Nat
  BY Frames
<1>6. OnlyTopIsNotCalling'
  BY <1>3, <1>4 DEF OnlyTopIsNotCalling, LockInv, Depth
<1>7. FramesHold'
  BY <1>3, <1>4 DEF FramesHold, LockInv, Depth
<1>8. FramesDiffer'
  BY <1>3, <1>4 DEF FramesDiffer, LockInv, Depth
<1>9. HeldByFrame'
  <2>1. \A c \in Centers : mutex[c] # None => mutex[c] \in Threads
    BY DEF TypeOK
  <2> QED
    BY <1>3, <1>4, <2>1 DEF HeldByFrame, LockInv, Depth
<1>10. CallsReach'
  <2>1. \A u \in Threads : \A i \in 1..Depth(u) : i < Depth(u) => i + 1 \in 1..Depth(u)
    BY <1>5
  <2> QED
    BY <1>3, <1>4, <2>1 DEF CallsReach, LockInv, Depth
<1> QED
  BY <1>6, <1>7, <1>8, <1>9, <1>10 DEF LockInv

LEMMA LockLocks ==
  ASSUME TypeOK, LockInv, NEW t \in Threads, Locks(t)
  PROVE  LockInv'
<1> DEFINE d == Depth(t)
           f == [Top(t) EXCEPT !.phase = "inside"]
           c == Center(Top(t))
<1>1. /\ d \in Nat /\ d >= 1 /\ Top(t) = stack[t][d] /\ ~HasMutex(Top(t)) /\ c \in Centers
      /\ mutex[c] = None /\ mutex' = [mutex EXCEPT ![c] = t] /\ Replaced(t, f)
  BY Frames DEF Locks, HasMutex
<1>2. Center(f) = c /\ HasMutex(f) /\ f.phase = "inside"
  <2>1. Top(t) \in Frame
    BY <1>1, Frames
  <2> QED
    BY <2>1 DEF Frame, Center, HasMutex
<1>3. /\ \A u \in Threads \ {t} : stack'[u] = stack[u]
      /\ Len(stack'[t]) = d /\ stack'[t][d] = f
      /\ \A i \in 1..d : i < d => stack'[t][i] = stack[t][i]
  BY <1>1 DEF Replaced, Others
<1>4. \A u \in Threads : Len(stack'[u]) = Depth(u)
  BY <1>3 DEF Depth
<1>5. \A u \in Threads : \A i \in 1..Depth(u) : (u # t \/ i # d) => stack'[u][i] = stack[u][i]
  BY <1>1, <1>3 DEF Depth
<1>6. \A u \in Threads : \A i \in 1..Depth(u) :
        HasMutex(stack[u][i]) => Center(stack[u][i]) # c /\ (u # t \/ i # d)
  <2>1. t # None
    BY CentersAssumption
  <2>2. \A u \in Threads : u # None
    BY CentersAssumption
  <2> QED
    BY <1>1, <2>2 DEF LockInv, FramesHold
<1> HIDE DEF d, f, c
<1>7. OnlyTopIsNotCalling'
  BY <1>4, <1>5 DEF OnlyTopIsNotCalling, LockInv, Depth, d
<1>8. FramesHold'
  <2> SUFFICES ASSUME NEW u \in Threads, NEW i \in 1..Depth(u), HasMutex(stack'[u][i])
               PROVE  mutex'[Center(stack'[u][i])] = u
    BY <1>4 DEF FramesHold, Depth
  <2>1. CASE u = t /\ i = d
    BY <1>1, <1>2, <1>3, <2>1 DEF TypeOK
  <2>2. CASE u # t \/ i # d
    BY <1>1, <1>5, <1>6, <2>2, Frames DEF LockInv, FramesHold, TypeOK
  <2> QED
    BY <2>1, <2>2
<1>9. FramesDiffer'
  <2> SUFFICES ASSUME NEW u \in Threads, NEW i \in 1..Depth(u), NEW j \in 1..Depth(u),
                      HasMutex(stack'[u][i]), HasMutex(stack'[u][j]),
                      Center(stack'[u][i]) = Center(stack'[u][j])
               PROVE  i = j
    BY <1>4 DEF FramesDiffer, Depth
  <2>1. CASE u # t \/ (i # d /\ j # d)
    BY <1>5, <2>1 DEF LockInv, FramesDiffer
  <2>2. CASE u = t /\ (i = d \/ j = d)
    BY <1>2, <1>3, <1>5, <1>6, <2>2
  <2> QED
    BY <2>1, <2>2
<1>10. HeldByFrame'
  <2> SUFFICES ASSUME NEW e \in Centers, mutex'[e] # None
               PROVE  \E i \in 1..Len(stack'[mutex'[e]]) :
                        /\ HasMutex(stack'[mutex'[e]][i])
                        /\ Center(stack'[mutex'[e]][i]) = e
    BY DEF HeldByFrame, Depth
  <2>1. CASE e = c
    BY <1>1, <1>2, <1>3, <2>1 DEF TypeOK
  <2>2. CASE e # c
    <3>1. mutex'[e] = mutex[e] /\ mutex[e] # None /\ mutex[e] \in Threads
      BY <1>1, <2>2 DEF TypeOK
    <3>2. PICK i \in 1..Depth(mutex[e]) :
            HasMutex(stack[mutex[e]][i]) /\ Center(stack[mutex[e]][i]) = e
      BY <3>1 DEF LockInv, HeldByFrame
    <3>3. stack'[mutex[e]][i] = stack[mutex[e]][i]
      BY <1>5, <1>6, <3>1, <3>2
    <3> QED
      BY <1>4, <3>1, <3>2, <3>3
  <2> QED
    BY <2>1, <2>2
<1>11. CallsReach'
  <2>1. \A u \in Threads : \A i \in 1..Depth(u) : i < Depth(u) => i + 1 \in 1..Depth(u)
    BY Frames
  <2>2. \A u \in Threads : \A i \in 1..Depth(u) : Center(stack'[u][i]) = Center(stack[u][i])
    BY <1>1, <1>2, <1>3, <1>5 DEF c
  <2> QED
    BY <1>4, <2>1, <2>2 DEF CallsReach, LockInv, Depth
<1> QED
  BY <1>7, <1>8, <1>9, <1>10, <1>11 DEF LockInv
(* The top frame goes, and with it the mutex it holds, if any. *)
LEMMA LockPopped ==
  ASSUME TypeOK, LockInv, NEW t \in Threads, Busy(t), Popped(t),
         \/ HasMutex(Top(t)) /\ mutex' = [mutex EXCEPT ![Center(Top(t))] = None]
         \/ ~HasMutex(Top(t)) /\ UNCHANGED mutex
  PROVE  LockInv'
<1> DEFINE d == Depth(t)
           c == Center(Top(t))
<1>1. d \in Nat /\ d >= 1 /\ Top(t) = stack[t][d] /\ c \in Centers /\ d \in 1..d
  BY Frames
<1>2. /\ \A u \in Threads \ {t} : stack'[u] = stack[u]
      /\ Len(stack'[t]) = d - 1
      /\ \A i \in 1..(d - 1) : stack'[t][i] = stack[t][i]
  BY DEF Popped, Others
<1>3. \A u \in Threads : \A i \in 1..Len(stack'[u]) :
        i \in 1..Depth(u) /\ stack'[u][i] = stack[u][i] /\ (u # t \/ i # d)
  BY <1>1, <1>2 DEF Depth
<1>4. \A u \in Threads : \A i \in 1..Depth(u) :
        (u # t \/ i # d) => i \in 1..Len(stack'[u])
  BY <1>1, <1>2 DEF Depth
<1>5. \A u \in Threads : Depth(u) \in Nat
  BY Frames
<1>6. \A u \in Threads : Len(stack'[u]) <= Depth(u) /\ Len(stack'[u]) \in Int
  BY <1>1, <1>2, <1>5 DEF Depth
<1>7. HasMutex(Top(t)) => mutex[c] = t
  BY <1>1 DEF LockInv, FramesHold
<1> HIDE DEF d, c
<1>8. OnlyTopIsNotCalling'
  BY <1>3, <1>5, <1>6 DEF OnlyTopIsNotCalling, LockInv, Depth
<1>9. FramesHold'
  <2> SUFFICES ASSUME NEW u \in Threads, NEW i \in 1..Len(stack'[u]), HasMutex(stack'[u][i])
               PROVE  mutex'[Center(stack'[u][i])] = u
    BY DEF FramesHold, Depth
  <2>1. /\ i \in 1..Depth(u) /\ stack'[u][i] = stack[u][i] /\ (u # t \/ i # d)
        /\ mutex[Center(stack[u][i])] = u /\ Center(stack[u][i]) \in Centers
    BY <1>3, Frames DEF LockInv, FramesHold
  <2>2. HasMutex(Top(t)) => Center(stack[u][i]) # c
    <3>1. CASE u = t
      BY <1>1, <2>1, <3>1 DEF LockInv, FramesDiffer, d, c
    <3>2. CASE u # t
      BY <1>7, <2>1, <3>2
    <3> QED
      BY <3>1, <3>2
  <2> QED
    BY <2>1, <2>2 DEF TypeOK, c
<1>10. FramesDiffer'
  <2> SUFFICES ASSUME NEW u \in Threads, NEW i \in 1..Len(stack'[u]), NEW j \in 1..Len(stack'[u]),
                      HasMutex(stack'[u][i]), HasMutex(stack'[u][j]),
                      Center(stack'[u][i]) = Center(stack'[u][j])
               PROVE  i = j
    BY DEF FramesDiffer, Depth
  <2> QED
    BY <1>3 DEF LockInv, FramesDiffer
<1>11. HeldByFrame'
  <2> SUFFICES ASSUME NEW e \in Centers, mutex'[e] # None
               PROVE  \E i \in 1..Len(stack'[mutex'[e]]) :
                        /\ HasMutex(stack'[mutex'[e]][i])
                        /\ Center(stack'[mutex'[e]][i]) = e
    BY DEF HeldByFrame, Depth
  <2>1. mutex'[e] = mutex[e] /\ mutex[e] \in Threads /\ (HasMutex(Top(t)) => e # c)
    BY DEF TypeOK, c
  <2>2. PICK i \in 1..Depth(mutex[e]) :
          HasMutex(stack[mutex[e]][i]) /\ Center(stack[mutex[e]][i]) = e
    BY <2>1 DEF LockInv, HeldByFrame
  <2>3. mutex[e] # t \/ i # d
    BY <1>1, <2>1, <2>2 DEF d, c
  <2>4. i \in 1..Len(stack'[mutex[e]])
    BY <1>4, <2>1, <2>3
  <2>5. stack'[mutex[e]][i] = stack[mutex[e]][i]
    BY <1>3, <2>1, <2>4
  <2> QED
    BY <2>1, <2>2, <2>4, <2>5
<1>12. CallsReach'
  <2> SUFFICES ASSUME NEW u \in Threads, NEW i \in 1..Len(stack'[u]), i < Len(stack'[u])
               PROVE  <<Center(stack'[u][i]), Center(stack'[u][i + 1])>> \in Reaches
    BY DEF CallsReach, Depth
  <2>1. i + 1 \in 1..Len(stack'[u])
    BY <1>6
  <2> QED
    BY <1>3, <1>5, <1>6, <2>1 DEF CallsReach, LockInv
<1> QED
  BY <1>8, <1>9, <1>10, <1>11, <1>12 DEF LockInv

LEMMA LockBegins ==
  ASSUME TypeOK, LockInv, NEW t \in Threads, Begins(t)
  PROVE  LockInv'
<1> DEFINE d == Depth(t)
<1>1. PICK f \in Frame :
        /\ f.phase \in {"find", "lock"} /\ Pushed(t, f)
        /\ Busy(t) => <<Center(Top(t)), Center(f)>> \in Reaches
  BY DEF Begins
<1>2. /\ d \in Nat /\ ~HasMutex(f) /\ UNCHANGED mutex
      /\ d # 0 => Top(t) = stack[t][d] /\ stack[t][d].phase = "calling"
                    /\ <<Center(stack[t][d]), Center(f)>> \in Reaches
  BY <1>1, Frames DEF Begins, HasMutex
<1>3. /\ \A u \in Threads \ {t} : stack'[u] = stack[u]
      /\ Len(stack'[t]) = d + 1 /\ stack'[t][d + 1] = f
      /\ \A i \in 1..d : stack'[t][i] = stack[t][i]
  BY <1>1 DEF Pushed, Others
<1>4. \A u \in Threads : Depth(u) \in Nat
  BY Frames
<1>5. \A u \in Threads : \A i \in 1..Depth(u) :
        i \in 1..Len(stack'[u]) /\ stack'[u][i] = stack[u][i]
  BY <1>2, <1>3 DEF Depth
<1>6. \A u \in Threads : \A i \in 1..Len(stack'[u]) :
        i \in 1..Depth(u) \/ (u = t /\ i = d + 1 /\ stack'[u][i] = f)
  BY <1>2, <1>3 DEF Depth
<1>7. \A u \in Threads : Len(stack'[u]) = IF u = t THEN d + 1 ELSE Depth(u)
  BY <1>3 DEF Depth
<1> HIDE DEF d
<1>8. OnlyTopIsNotCalling'
  <2> SUFFICES ASSUME NEW u \in Threads, NEW i \in 1..Len(stack'[u]), i < Len(stack'[u])
               PROVE  stack'[u][i].phase = "calling"
    BY DEF OnlyTopIsNotCalling, Depth
  <2>1. i \in 1..Depth(u) /\ stack'[u][i] = stack[u][i]
    BY <1>2, <1>4, <1>5, <1>7 DEF d
  <2>2. CASE i < Depth(u)
    BY <2>1, <2>2 DEF LockInv, OnlyTopIsNotCalling
  <2>3. CASE i = Depth(u)
    BY <1>2, <1>4, <1>7, <2>1, <2>3 DEF d
  <2> QED
    BY <1>4, <2>1, <2>2, <2>3
<1>9. FramesHold'
  BY <1>2, <1>5, <1>6 DEF FramesHold, LockInv, Depth
<1>10. FramesDiffer'
  <2> SUFFICES ASSUME NEW u \in Threads, NEW i \in 1..Len(stack'[u]), NEW j \in 1..Len(stack'[u]),
                      HasMutex(stack'[u][i]), HasMutex(stack'[u][j]),
                      Center(stack'[u][i]) = Center(stack'[u][j])
               PROVE  i = j
    BY DEF FramesDiffer, Depth
  <2>1. i \in 1..Depth(u) /\ j \in 1..Depth(u)
    BY <1>2, <1>6
  <2> QED
    BY <1>5, <2>1 DEF LockInv, FramesDiffer
<1>11. HeldByFrame'
  <2>1. \A e \in Centers : mutex[e] # None => mutex[e] \in Threads
    BY DEF TypeOK
  <2> QED
    BY <1>2, <1>5, <2>1 DEF HeldByFrame, LockInv, Depth
<1>12. CallsReach'
  <2> SUFFICES ASSUME NEW u \in Threads, NEW i \in 1..Len(stack'[u]), i < Len(stack'[u])
               PROVE  <<Center(stack'[u][i]), Center(stack'[u][i + 1])>> \in Reaches
    BY DEF CallsReach, Depth
  <2>1. i \in 1..Depth(u) /\ stack'[u][i] = stack[u][i]
    BY <1>2, <1>4, <1>5, <1>7 DEF d
  <2>2. CASE i < Depth(u)
    <3>1. i + 1 \in 1..Depth(u)
      BY <1>4, <2>1, <2>2
    <3> QED
      BY <1>5, <2>1, <2>2, <3>1 DEF LockInv, CallsReach
  <2>3. CASE i = Depth(u)
    <3>1. u = t /\ i = d /\ d # 0
      BY <1>4, <1>7, <2>1, <2>3 DEF d
    <3> QED
      BY <1>2, <1>3, <2>1, <3>1
  <2> QED
    BY <1>4, <2>1, <2>2, <2>3
<1> QED
  BY <1>8, <1>9, <1>10, <1>11, <1>12 DEF LockInv

LEMMA LockStep == TypeOK /\ LockInv /\ [Next]_vars => LockInv'
<1> SUFFICES ASSUME TypeOK, LockInv, [Next]_vars PROVE LockInv'
  OBVIOUS
<1>1. CASE UNCHANGED <<mutex, stack>>
  BY <1>1 DEF LockInv, OnlyTopIsNotCalling, FramesHold, FramesDiffer, HeldByFrame, CallsReach, Depth
<1>2. ASSUME NEW t \in Threads, Ends(t) PROVE LockInv'
  BY <1>2, LockPopped DEF Ends, Unlock
<1>3. ASSUME NEW t \in Threads, Loops(t) PROVE LockInv'
  <2>1. PICK f \in Frame : f.phase = "calling" /\ f.name = Top(t).name /\ Replaced(t, f)
    BY <1>3 DEF Loops, LoopsTo
  <2>2. HasMutex(f) /\ HasMutex(Top(t)) /\ Busy(t) /\ UNCHANGED mutex
    BY <1>3, <2>1 DEF Loops, LoopsTo, HasMutex
  <2> QED
    BY <2>1, <2>2, LockReplaced
<1>4. ASSUME NEW t \in Threads, Finds(t) PROVE LockInv'
  <2>1. Busy(t) /\ ~HasMutex(Top(t)) /\ UNCHANGED mutex /\ Top(t).phase = "find"
    BY <1>4 DEF Finds, HasMutex
  <2>2. CASE Popped(t)
    BY <2>1, <2>2, LockPopped
  <2>3. CASE Replaced(t, [Top(t) EXCEPT !.next = 1])
    <3>1. Top(t) \in Frame
      BY <2>1, Frames
    <3>2. PICK f : f = [Top(t) EXCEPT !.next = 1]
      OBVIOUS
    <3>3. f.name = Top(t).name /\ ~HasMutex(f)
      BY <2>1, <3>1, <3>2 DEF Frame, HasMutex
    <3> QED
      BY <2>1, <2>3, <3>2, <3>3, LockReplaced
  <2> QED
    BY <1>4, <2>2, <2>3 DEF Finds
<1> QED
  BY <1>1, <1>2, <1>3, <1>4, LockLocks, LockBegins, StepKinds, WalksEffect, ChangesEnd DEF Rests

LEMMA LockCorrect == Spec => [](TypeOK /\ CountInv /\ LockInv)
<1>1. Init => LockInv
  <2> SUFFICES ASSUME Init PROVE LockInv
    OBVIOUS
  <2>1. \A t \in Threads : Depth(t) = 0
    BY DEF Init, Depth
  <2>2. \A c \in Centers : mutex[c] = None
    BY DEF Init
  <2> QED
    BY <2>1, <2>2 DEF LockInv, OnlyTopIsNotCalling, FramesHold, FramesDiffer, HeldByFrame, CallsReach
<1> QED
  BY <1>1, TypeCorrect, LockStep, PTL DEF Spec
-------------------------------------------------------------------------------
(* Threads that wait for one another. *)

(* The center a stuck thread waits for is the center of a call of another  *)
(* that is in its callbacks, so the call after it reaches a center of theirs. *)
LEMMA StuckReaches ==
  ASSUME TypeOK, LockInv, NEW T \in SUBSET Threads, Stuck(T),
         NEW t \in T, NEW i \in 1..Depth(t)
  PROVE  \E d \in CentersOf(T) : <<Center(stack[t][i]), d>> \in Reaches
<1>1. \A u \in T : \A j \in 1..Depth(u) : Center(stack[u][j]) \in CentersOf(T)
  <2> SUFFICES ASSUME NEW u \in T, NEW j \in 1..Depth(u)
               PROVE  Center(stack[u][j]) \in CentersOf(T)
    OBVIOUS
  <2>1. stack[u] \in Seq(Frame) /\ DOMAIN stack[u] = 1..Depth(u)
    BY DEF TypeOK, Depth
  <2> DEFINE Own(v) == {Center(stack[v][k]) : k \in DOMAIN stack[v]}
  <2>2. Center(stack[u][j]) \in Own(u)
    BY <2>1
  <2>3. CentersOf(T) = UNION {Own(v) : v \in T}
    BY DEF CentersOf
  <2> HIDE DEF Own
  <2> QED
    BY <2>2, <2>3
<1>2. \A u \in T : Depth(u) \in Nat
  BY Frames
<1>3. \A u \in T : \A j \in 1..Depth(u) : j < Depth(u) =>
        \E d \in CentersOf(T) : <<Center(stack[u][j]), d>> \in Reaches
  <2> SUFFICES ASSUME NEW u \in T, NEW j \in 1..Depth(u), j < Depth(u)
               PROVE  \E d \in CentersOf(T) : <<Center(stack[u][j]), d>> \in Reaches
    OBVIOUS
  <2>1. j + 1 \in 1..Depth(u)
    BY <1>2
  <2> QED
    BY <1>1, <2>1 DEF LockInv, CallsReach
<1>4. CASE i < Depth(t)
  BY <1>3, <1>4
<1>5. CASE i = Depth(t)
  <2>1. Top(t) = stack[t][i] /\ Center(Top(t)) \in Centers
    BY <1>5, Frames DEF Stuck, Waits
  <2>2. PICK u \in T : u = mutex[Center(Top(t))]
    BY DEF Stuck
  <2>3. PICK j \in 1..Depth(u) : HasMutex(stack[u][j]) /\ Center(stack[u][j]) = Center(Top(t))
    BY <2>1, <2>2, CentersAssumption DEF LockInv, HeldByFrame
  <2>4. Top(u) = stack[u][Depth(u)] /\ Top(u).phase = "lock"
    BY Frames DEF Stuck, Waits
  <2>5. j < Depth(u)
    <3>1. j # Depth(u)
      BY <2>3, <2>4 DEF HasMutex
    <3> QED
      BY <1>2, <3>1
  <2> QED
    BY <1>3, <2>1, <2>3, <2>5
<1> QED
  BY <1>2, <1>4, <1>5

(* Threads wait for each other for ever, or one for itself, only around a  *)
(* ring of callbacks the application wrote, and a mutex that is held       *)
(* belongs to a thread in a call: for any threads, centers, callbacks and  *)
(* nesting (NotificationCenter.cpp:14, 71, 91, with 78 and 97).            *)
THEOREM ThreadsWaitOnlyInRings == Spec => []OnlyRingsWait
<1>1. ASSUME TypeOK, LockInv PROVE OnlyRingsWait
  <2>1. ASSUME NEW c \in Centers, mutex[c] # None PROVE Busy(mutex[c])
    <3>1. mutex[c] \in Threads /\ \E i \in 1..Depth(mutex[c]) : TRUE
      BY <1>1, <2>1 DEF TypeOK, LockInv, HeldByFrame
    <3> QED
      BY <1>1, <3>1, Frames
  <2>2. ASSUME NEW T \in SUBSET Threads, Stuck(T), NEW c \in CentersOf(T)
        PROVE  \E d \in CentersOf(T) : <<c, d>> \in Reaches
    <3>1. PICK t \in T : c \in {Center(stack[t][i]) : i \in DOMAIN stack[t]}
      BY <2>2 DEF CentersOf
    <3>2. stack[t] \in Seq(Frame) /\ DOMAIN stack[t] = 1..Depth(t)
      BY <1>1 DEF TypeOK, Depth
    <3>3. PICK i \in 1..Depth(t) : c = Center(stack[t][i])
      BY <3>1, <3>2
    <3> QED
      BY <1>1, <2>2, <3>3, StuckReaches
  <2> QED
    BY <2>1, <2>2 DEF OnlyRingsWait
<1> QED
  BY <1>1, LockCorrect, PTL
-------------------------------------------------------------------------------
(* Posts and the lists they walk. *)

(* Names of the table have nodes of their own, a node not made yet is      *)
(* empty, and lists are in the order of registration.                      *)
NodesMade == \A n \in Names : m_observers[n] <= nodes
NodesDiffer ==
  \A m, n \in Names : m_observers[m] = m_observers[n] /\ m_observers[n] # NoNode => m = n
FreshEmpty == \A k \in Nodes : k > nodes => list[k] = <<>>
InOrder(s) ==
  \A i \in 1..Len(s) : s[i] <= observers /\ \A j \in 1..Len(s) : i < j => s[i] < s[j]
ListsInOrder == \A k \in Nodes : InOrder(list[k])
TableInv == NodesMade /\ NodesDiffer /\ FreshEmpty /\ ListsInOrder

(* A post that calls back is at an element of the list of its name. *)
Walking ==
  \A t \in Threads : \A i \in 1..Depth(t) :
    LET f == stack[t][i] IN
      f.phase = "calling" =>
        m_observers[f.name] = f.node /\ f.node \in Nodes /\ f.next \in 1..Len(list[f.node])

LEMMA RegisteredInOrder ==
  ASSUME TypeOK, TableInv, NEW n, NEW k \in Nodes, Register(n, k)
  PROVE  ListsInOrder'
<1>1. /\ observers \in Nat /\ observers' = observers + 1
      /\ list' = [list EXCEPT ![k] = Append(@, observers + 1)]
      /\ list \in [Nodes -> Seq(Observers)]
  BY BoundsAssumption DEF TypeOK, Register
<1>2. ASSUME NEW j \in Nodes PROVE InOrder(list[j])'
  <2> DEFINE s == list[j]
  <2>1. s \in Seq(Observers) /\ InOrder(s) /\ Len(s) \in Nat
    BY <1>1 DEF TableInv, ListsInOrder
  <2>2. \A i \in 1..Len(s) : s[i] \in Nat
    BY <2>1, ElementOfSeq, BoundsAssumption DEF Observers
  <2>3. CASE j # k
    <3>1. list'[j] = s
      BY <1>1, <2>3
    <3> HIDE DEF s
    <3> QED
      BY <1>1, <2>1, <2>2, <3>1 DEF InOrder
  <2>4. CASE j = k
    <3>1. list'[j] = Append(s, observers + 1)
      BY <1>1, <2>4
    <3> HIDE DEF s
    <3>2. /\ Len(Append(s, observers + 1)) = Len(s) + 1
          /\ \A i \in 1..Len(s) : Append(s, observers + 1)[i] = s[i]
          /\ Append(s, observers + 1)[Len(s) + 1] = observers + 1
      BY <1>1, <2>1
    <3>3. PICK r : r = Append(s, observers + 1)
      OBVIOUS
    <3>4. ASSUME NEW i \in 1..Len(r) PROVE r[i] <= observers + 1
      BY <1>1, <2>1, <2>2, <3>2, <3>3 DEF InOrder
    <3>5. ASSUME NEW i \in 1..Len(r), NEW m \in 1..Len(r), i < m PROVE r[i] < r[m]
      <4>1. i \in 1..Len(s) /\ r[i] = s[i] /\ s[i] <= observers /\ s[i] \in Nat
        BY <2>1, <2>2, <3>2, <3>3, <3>5 DEF InOrder
      <4>2. m = Len(s) + 1 \/ (m \in 1..Len(s) /\ r[m] = s[m])
        BY <2>1, <3>2, <3>3
      <4>3. CASE m = Len(s) + 1
        BY <1>1, <3>2, <3>3, <4>1, <4>3
      <4>4. CASE m \in 1..Len(s) /\ r[m] = s[m]
        BY <2>1, <3>5, <4>1, <4>4 DEF InOrder
      <4> QED
        BY <4>2, <4>3, <4>4
    <3> QED
      BY <1>1, <3>1, <3>3, <3>4, <3>5 DEF InOrder
  <2> QED
    BY <2>3, <2>4
<1> QED
  BY <1>2 DEF ListsInOrder

LEMMA ShrunkInOrder ==
  ASSUME TypeOK, TableInv, NEW k \in Nodes, NEW i \in DOMAIN list[k], observers' = observers,
         list' = [list EXCEPT ![k] = RemoveAt(@, i)]
  PROVE  ListsInOrder'
<1>1. list \in [Nodes -> Seq(Observers)] /\ observers \in Nat
  BY BoundsAssumption DEF TypeOK
<1>2. list[k] \in Seq(Observers) /\ Len(list[k]) \in Nat /\ i \in 1..Len(list[k])
  BY <1>1
<1>3. ASSUME NEW j \in Nodes PROVE InOrder(list[j])'
  <2> DEFINE s == list[j]
  <2>1. s \in Seq(Observers) /\ InOrder(s) /\ Len(s) \in Nat
    BY <1>1 DEF TableInv, ListsInOrder
  <2>2. \A m \in 1..Len(s) : s[m] \in Nat
    BY <2>1, ElementOfSeq, BoundsAssumption DEF Observers
  <2>3. CASE j # k
    <3>1. list'[j] = s
      BY <1>1, <2>3
    <3> HIDE DEF s
    <3> QED
      BY <2>1, <2>2, <3>1 DEF InOrder
  <2>4. CASE j = k
    <3>1. list'[j] = RemoveAt(s, i) /\ i \in DOMAIN s /\ i \in 1..Len(s)
      BY <1>1, <1>2, <2>4
    <3> HIDE DEF s
    <3>2. /\ RemoveAt(s, i) \in Seq(Observers) /\ Len(RemoveAt(s, i)) = Len(s) - 1
          /\ \A m \in 1..(Len(s) - 1) : RemoveAt(s, i)[m] = IF m < i THEN s[m] ELSE s[m + 1]
      BY <2>1, <3>1, RemovedAt
    <3>3. PICK r : r = RemoveAt(s, i)
      OBVIOUS
    <3>4. ASSUME NEW m \in 1..Len(r)
          PROVE  r[m] <= observers /\ \A p \in 1..Len(r) : m < p => r[m] < r[p]
      <4>1. m \in 1..(Len(s) - 1)
        BY <3>2, <3>3
      <4>2. PICK a \in 1..Len(s) : a = (IF m < i THEN m ELSE m + 1) /\ r[m] = s[a]
        BY <2>1, <3>1, <3>2, <3>3, <4>1
      <4>3. r[m] <= observers
        BY <2>1, <4>2 DEF InOrder
      <4>4. ASSUME NEW p \in 1..Len(r), m < p PROVE r[m] < r[p]
        <5>1. p \in 1..(Len(s) - 1)
          BY <3>2, <3>3
        <5>2. PICK b \in 1..Len(s) : b = (IF p < i THEN p ELSE p + 1) /\ r[p] = s[b]
          BY <2>1, <3>1, <3>2, <3>3, <5>1
        <5>3. a < b
          BY <2>1, <3>1, <4>1, <4>2, <4>4, <5>1, <5>2
        <5> QED
          BY <2>1, <4>2, <5>2, <5>3 DEF InOrder
      <4> QED
        BY <4>3, <4>4
    <3> QED
      BY <1>1, <3>1, <3>3, <3>4 DEF InOrder
  <2> QED
    BY <2>3, <2>4
<1> QED
  BY <1>2, <1>3 DEF ListsInOrder

LEMMA TableInvStep == TypeOK /\ CountInv /\ TableInv /\ [Next]_vars => TableInv'
<1> SUFFICES ASSUME TypeOK, CountInv, TableInv, [Next]_vars PROVE TableInv'
  OBVIOUS
<1>0. /\ m_observers \in [Names -> Nodes \cup {NoNode}] /\ nodes \in Nat
      /\ list \in [Nodes -> Seq(Observers)]
  BY BoundsAssumption DEF TypeOK
<1>1. CASE Calm
  BY <1>1 DEF Calm, TableInv, NodesMade, NodesDiffer, FreshEmpty, ListsInOrder, InOrder
<1>2. ASSUME NEW t \in Threads, Changes(t) PROVE TableInv'
  <2>1. Busy(t) /\ Top(t).name \in Names
    BY <1>2, ChangesEnd DEF Ends
  <2>2. NodeOf(t) # NoNode => NodeOf(t) \in Nodes /\ NodeOf(t) <= nodes
    BY <1>0, <2>1 DEF NodeOf, TableInv, NodesMade
  <2>3. CASE Extends(t)
    <3>1. ListsInOrder'
      BY <2>2, <2>3, RegisteredInOrder DEF Extends
    <3>2. NodesMade' /\ NodesDiffer'
      BY <2>3 DEF Extends, TableInv, NodesMade, NodesDiffer
    <3>3. FreshEmpty'
      BY <1>0, <2>2, <2>3 DEF Extends, Register, TableInv, FreshEmpty, Nodes
    <3> QED
      BY <3>1, <3>2, <3>3 DEF TableInv
  <2>4. CASE Creates(t)
    <3>1. nodes + 1 \in Nodes
      BY <2>1, <2>4, RoomToAdd DEF Creates
    <3>2. ListsInOrder'
      BY <2>4, <3>1, RegisteredInOrder DEF Creates
    <3>3. NodesMade' /\ NodesDiffer'
      BY <1>0, <2>1, <2>4 DEF Creates, TableInv, NodesMade, NodesDiffer, Nodes, NoNode
    <3>4. FreshEmpty'
      BY <1>0, <2>4, <3>1 DEF Creates, Register, TableInv, FreshEmpty, Nodes
    <3> QED
      BY <3>2, <3>3, <3>4 DEF TableInv
  <2>5. CASE Shrinks(t)
    <3>1. PICK i \in DOMAIN list[NodeOf(t)] : list' = [list EXCEPT ![NodeOf(t)] = RemoveAt(@, i)]
      BY <2>5 DEF Shrinks
    <3>2. ListsInOrder'
      BY <2>2, <2>5, <3>1, ShrunkInOrder DEF Shrinks
    <3>3. NodesMade' /\ NodesDiffer'
      BY <2>5 DEF Shrinks, TableInv, NodesMade, NodesDiffer
    <3>4. FreshEmpty'
      BY <1>0, <2>2, <2>5, <3>1 DEF Shrinks, TableInv, FreshEmpty, Nodes
    <3> QED
      BY <3>2, <3>3, <3>4 DEF TableInv
  <2>6. CASE Drops(t)
    <3>1. NodesMade' /\ NodesDiffer'
      BY <1>0, <2>1, <2>6 DEF Drops, TableInv, NodesMade, NodesDiffer, NoNode
    <3>2. FreshEmpty' /\ ListsInOrder'
      BY <2>6 DEF Drops, TableInv, FreshEmpty, ListsInOrder, InOrder
    <3> QED
      BY <3>1, <3>2 DEF TableInv
  <2> QED
    BY <1>2, <2>3, <2>4, <2>5, <2>6 DEF Changes
<1> QED
  BY <1>1, <1>2, StepKinds, WalksEffect

(* An operation leaves the node and the list of every post that is calling *)
(* back: they are of other names, since they hold other mutexes.           *)
LEMMA Untouched ==
  ASSUME TypeOK, LockInv, TableInv, Walking, NEW t \in Threads, Changes(t),
         NEW u \in Threads, NEW i \in 1..Depth(u), stack[u][i].phase = "calling"
  PROVE  /\ m_observers'[stack[u][i].name] = m_observers[stack[u][i].name]
         /\ list'[stack[u][i].node] = list[stack[u][i].node]
<1> DEFINE f == stack[u][i]
<1>1. Busy(t) /\ Top(t).phase = "inside" /\ Top(t).name \in Names
  BY ChangesEnd DEF Ends
<1>2. Top(t) = stack[t][Depth(t)] /\ Depth(t) \in 1..Depth(t)
  BY <1>1, Frames
<1>3. f \in Frame /\ f.name \in Names
  BY Frames DEF Frame
<1>4. mutex[Center(Top(t))] = t
  BY <1>1, <1>2 DEF LockInv, FramesHold, HasMutex
<1>5. mutex[Center(f)] = u /\ HasMutex(f)
  BY DEF LockInv, FramesHold, HasMutex
<1>6. Center(f) # Center(Top(t))
  BY <1>1, <1>2, <1>4, <1>5 DEF LockInv, FramesDiffer, HasMutex
<1>7. f.name # Top(t).name
  BY <1>6 DEF Center
<1>8. m_observers[f.name] = f.node /\ f.node \in Nodes
  BY DEF Walking
<1> HIDE DEF f
<1>9. f.node # NodeOf(t)
  BY <1>1, <1>3, <1>7, <1>8, BoundsAssumption DEF NodeOf, TableInv, NodesDiffer, Nodes, NoNode
<1>10. f.node # nodes + 1
  BY <1>3, <1>8, BoundsAssumption DEF TableInv, NodesMade, Nodes, TypeOK
<1>11. /\ m_observers \in [Names -> Nodes \cup {NoNode}]
       /\ list \in [Nodes -> Seq(Observers)]
  BY DEF TypeOK
<1>12. m_observers'[f.name] = m_observers[f.name] /\ list'[f.node] = list[f.node]
  BY <1>3, <1>7, <1>8, <1>9, <1>10, <1>11
     DEF Changes, Extends, Creates, Shrinks, Drops, Register
<1> QED
  BY <1>12 DEF f

LEMMA WalkingStep ==
  TypeOK /\ LockInv /\ TableInv /\ Walking /\ [Next]_vars => Walking'
<1> SUFFICES ASSUME TypeOK, LockInv, TableInv, Walking, [Next]_vars PROVE Walking'
  OBVIOUS
<1>0. \A u \in Threads : Depth(u) \in Nat
  BY Frames
<1>1. CASE Calm /\ UNCHANGED <<mutex, stack>>
  BY <1>1 DEF Calm, Walking, Depth
<1>2. ASSUME NEW t \in Threads, Popped(t), Calm \/ Changes(t) PROVE Walking'
  <2>1. ASSUME NEW u \in Threads, NEW i \in 1..Len(stack'[u]), stack'[u][i].phase = "calling"
        PROVE  /\ m_observers'[stack'[u][i].name] = stack'[u][i].node
               /\ stack'[u][i].node \in Nodes
               /\ stack'[u][i].next \in 1..Len(list'[stack'[u][i].node])
    <3>1. i \in 1..Depth(u) /\ stack'[u][i] = stack[u][i]
      BY <1>0, <1>2 DEF Popped, Others, Depth
    <3>2. /\ m_observers'[stack[u][i].name] = m_observers[stack[u][i].name]
          /\ list'[stack[u][i].node] = list[stack[u][i].node]
      BY <1>2, <2>1, <3>1, Untouched DEF Calm
    <3> QED
      BY <2>1, <3>1, <3>2 DEF Walking
  <2> QED
    BY <2>1 DEF Walking, Depth
<1>3. ASSUME NEW t \in Threads, NEW f, Pushed(t, f), f.phase # "calling", Calm PROVE Walking'
  <2>1. ASSUME NEW u \in Threads, NEW i \in 1..Len(stack'[u]), stack'[u][i].phase = "calling"
        PROVE  /\ m_observers'[stack'[u][i].name] = stack'[u][i].node
               /\ stack'[u][i].node \in Nodes
               /\ stack'[u][i].next \in 1..Len(list'[stack'[u][i].node])
    <3>1. i \in 1..Depth(u) /\ stack'[u][i] = stack[u][i]
      BY <1>0, <1>3, <2>1 DEF Pushed, Others, Depth
    <3> QED
      BY <1>3, <2>1, <3>1 DEF Walking, Calm
  <2> QED
    BY <2>1 DEF Walking, Depth
<1>4. ASSUME NEW t \in Threads, NEW f, Busy(t), Replaced(t, f), Calm,
             f.phase = "calling" =>
               /\ m_observers[f.name] = f.node /\ f.node \in Nodes
               /\ f.next \in 1..Len(list[f.node])
      PROVE  Walking'
  <2>1. ASSUME NEW u \in Threads, NEW i \in 1..Len(stack'[u]), stack'[u][i].phase = "calling"
        PROVE  \/ i \in 1..Depth(u) /\ stack'[u][i] = stack[u][i]
               \/ stack'[u][i] = f
    BY <1>0, <1>4, <2>1 DEF Replaced, Others, Depth
  <2> QED
    BY <1>4, <2>1 DEF Walking, Depth, Calm
<1>5. ASSUME NEW t \in Threads, Calm, Locks(t) \/ Finds(t) PROVE Walking'
  <2>1. Busy(t) /\ Top(t).phase \in {"lock", "find"}
    BY <1>5 DEF Locks, Finds
  <2>2. Top(t) \in Frame
    BY <2>1, Frames
  <2>3. /\ [Top(t) EXCEPT !.phase = "inside"].phase # "calling"
        /\ [Top(t) EXCEPT !.next = 1].phase # "calling"
    BY <2>1, <2>2 DEF Frame
  <2> QED
    BY <1>2, <1>4, <1>5, <2>1, <2>3 DEF Locks, Finds
<1>6. ASSUME NEW t \in Threads, Calm, Loops(t) PROVE Walking'
  <2>1. Busy(t)
    BY <1>6 DEF Loops, LoopsTo
  <2>2. Top(t) \in Frame /\ Top(t).name \in Names /\ Depth(t) \in 1..Depth(t) /\ Top(t) = stack[t][Depth(t)]
    BY <2>1, Frames DEF Frame
  <2>3. PICK k : LoopsTo(t, k) /\ k \in Nodes /\ m_observers[Top(t).name] = k
    <3>1. CASE NodeOf(t) # NoNode /\ LoopsTo(t, NodeOf(t))
      BY <2>2, <3>1 DEF NodeOf, TypeOK
    <3>2. CASE Top(t).phase = "calling" /\ LoopsTo(t, Top(t).node)
      BY <2>2, <3>2 DEF Walking
    <3> QED
      BY <1>6, <3>1, <3>2 DEF Loops
  <2>4. Len(list[k]) \in Nat
    BY <2>3 DEF TypeOK
  <2>5. PICK f \in Frame : /\ f.phase = "calling" /\ f.name = Top(t).name /\ f.node = k
                           /\ f.next >= 1 /\ f.next <= Len(list[k]) /\ Replaced(t, f)
    BY <2>3 DEF LoopsTo
  <2>6. f.next \in 1..Len(list[k])
    BY <2>4, <2>5 DEF Frame
  <2> QED
    BY <1>4, <1>6, <2>1, <2>3, <2>5, <2>6
<1>7. ASSUME NEW t \in Threads, Changes(t) PROVE Walking'
  BY <1>2, <1>7, ChangesEnd DEF Ends
<1>8. ASSUME NEW t \in Threads, Calm, Rests(t) PROVE Walking'
  <2>1. CASE Begins(t)
    BY <1>3, <1>8, <2>1 DEF Begins
  <2>2. CASE Ends(t)
    BY <1>2, <1>8, <2>2 DEF Ends
  <2> QED
    BY <1>5, <1>8, <2>1, <2>2 DEF Rests
<1>9. ASSUME NEW t \in Threads, Walks(t) PROVE Walking'
  BY <1>2, <1>6, <1>9, WalksEffect DEF Ends
<1> QED
  BY <1>1, <1>7, <1>8, <1>9, StepKinds

PostInv == TypeOK /\ CountInv /\ LockInv /\ TableInv /\ Walking

LEMMA PostCorrect == Spec => []PostInv
<1>1. Init => TableInv /\ Walking
  <2> SUFFICES ASSUME Init PROVE TableInv /\ Walking
    OBVIOUS
  <2>1. \A t \in Threads : Depth(t) = 0
    BY DEF Init, Depth
  <2>2. \A k \in Nodes : list[k] = <<>> /\ Len(list[k]) = 0
    BY DEF Init
  <2> QED
    BY <2>1, <2>2
       DEF Init, TableInv, NodesMade, NodesDiffer, FreshEmpty, ListsInOrder, InOrder, Walking, NoNode
<1> QED
  BY <1>1, LockCorrect, TableInvStep, WalkingStep, PTL DEF Spec, PostInv

(* While a post is in its loop its notification stays in the table, the    *)
(* observer it calls stays in its list, and the list has the observers in  *)
(* the order they were registered (NotificationCenter.cpp:69-106), for any *)
(* threads, names, centers and nesting of calls in callbacks.              *)
THEOREM PostsWalkTheirList == Spec => []CalledIsRegistered
<1>1. PostInv => CalledIsRegistered
  <2> SUFFICES ASSUME PostInv, NEW t \in Threads, NEW i \in DOMAIN stack[t],
                      stack[t][i].phase = "calling"
               PROVE  /\ m_observers[stack[t][i].name] = stack[t][i].node
                      /\ stack[t][i].next \in DOMAIN list[stack[t][i].node]
                      /\ \A j, k \in DOMAIN list[stack[t][i].node] :
                           j < k => list[stack[t][i].node][j] < list[stack[t][i].node][k]
    BY DEF CalledIsRegistered
  <2>1. i \in 1..Depth(t)
    BY DEF PostInv, TypeOK, Depth
  <2>2. PICK f : f = stack[t][i]
    OBVIOUS
  <2>3. m_observers[f.name] = f.node /\ f.node \in Nodes /\ f.next \in 1..Len(list[f.node])
    BY <2>1, <2>2 DEF PostInv, Walking
  <2>4. DOMAIN list[f.node] = 1..Len(list[f.node]) /\ InOrder(list[f.node])
    BY <2>3 DEF PostInv, TypeOK, TableInv, ListsInOrder
  <2> QED
    BY <2>2, <2>3, <2>4 DEF InOrder
<1> QED
  BY <1>1, PostCorrect, PTL

(* The list a post walks is the same at every callback: nobody, in a       *)
(* callback or in another thread, adds to it or takes from it meanwhile.   *)
THEOREM ListsStandWhilePosted == Spec => PostSeesOneList
<1> DEFINE Stands == \A t \in Threads : \A i \in DOMAIN stack[t] :
       LET f == stack[t][i] IN f.phase = "calling" => list'[f.node] = list[f.node]
<1>1. PostInv /\ [Next]_vars => Stands
  <2> SUFFICES ASSUME PostInv, [Next]_vars, NEW u \in Threads, NEW i \in DOMAIN stack[u],
                      stack[u][i].phase = "calling"
               PROVE  list'[stack[u][i].node] = list[stack[u][i].node]
    OBVIOUS
  <2>1. i \in 1..Depth(u) /\ TypeOK /\ LockInv /\ TableInv /\ Walking
    BY DEF PostInv, TypeOK, Depth
  <2>2. CASE Calm
    BY <2>2 DEF Calm
  <2>3. ASSUME NEW t \in Threads, Changes(t)
        PROVE  list'[stack[u][i].node] = list[stack[u][i].node]
    BY <2>1, <2>3, Untouched
  <2> QED
    BY <2>1, <2>2, <2>3, StepKinds, WalksEffect
<1>2. Spec => [][Stands]_vars
  BY <1>1, PostCorrect, PTL DEF Spec
<1> QED
  BY <1>2 DEF PostSeesOneList
===============================================================================
