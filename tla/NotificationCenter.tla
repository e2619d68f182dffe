--------------------------- MODULE NotificationCenter ---------------------------
(***************************************************************************)
(* Classes/NotificationCenter: named notifications, each with the list of  *)
(* its observers, behind one std::mutex per center.  postNotification      *)
(* holds the mutex while it runs the callbacks, and a callback may call    *)
(* this or another center.  Threads call at will.                          *)
(*                                                                         *)
(* Notifications and observers are handed out as iterators: a notification *)
(* iterator is a node of the hash table, or none (NoNode: the value that   *)
(* getNotificationIterator returns for an unknown name), and an observer's *)
(* is its place in a list.  Both dangle once what they point to is erased. *)
(* The application keeps every iterator it was given until it has used it  *)
(* to remove what it points to.                                            *)
(*                                                                         *)
(* What the C++ leaves undefined ends the behaviour with a fault, or is a  *)
(* choice of a fault and what some standard library does.                  *)
(***************************************************************************)
EXTENDS Naturals, FiniteSets, SequencesExt

CONSTANTS
  Threads,
  Names,         \* names of notifications; one name belongs to one center
  Centers,
  CenterOf,      \* CenterOf[n]: the center of a name
  Reaches,       \* pairs <<c, d>>: callbacks of c may call d
  Operations,    \* the operations the application uses
  None,          \* no thread
  MaxObservers,  \* bound: calls of addObserver
  MaxDepth       \* bound: nesting of calls in callbacks

OperationNames ==
  {"addObserver", "addObserverAt", "removeObserver", "removeObserverAt",
   "removeObservers", "removeAllObservers", "postNotification",
   "postNotificationAt", "getNotificationIterator"}

ASSUME CentersAssumption ==
  /\ CenterOf \in [Names -> Centers] /\ Reaches \subseteq Centers \X Centers
  /\ None \notin Threads
ASSUME OperationsAssumption == Operations \subseteq OperationNames
ASSUME BoundsAssumption == MaxObservers \in Nat /\ MaxDepth \in Nat \ {0}

VARIABLES
  mutex,        \* mutex[c]: the thread that holds m_mutex of center c, or None
  m_observers,  \* m_observers[n]: the node of the notification, or NoNode
  list,         \* list[k]: the observers in node k, first registered first
  nodes,        \* number of nodes made
  observers,    \* number of observers made
  iterators,    \* notification iterators the application holds: <<name, node>>
  places,       \* observer iterators the application holds: <<name, observer>>
  stack,        \* stack[t]: the calls thread t is in, innermost last
  fault         \* what undefined behaviour was met, if any

vars == <<mutex, m_observers, list, nodes, observers, iterators, places, stack, fault>>

NoNode == 0
Nodes == 1..MaxObservers
Observers == 1..MaxObservers

Frame ==
  [op : OperationNames, name : Names,
   node : Nodes \cup {NoNode}, observer : Observers \cup {0},
   phase : {"find", "lock", "inside", "calling"}, next : Nat]
Faults == {"none", "noNode", "staleNode", "staleObserver", "race", "relock"}

TypeOK ==
  /\ mutex \in [Centers -> Threads \cup {None}]
  /\ m_observers \in [Names -> Nodes \cup {NoNode}]
  /\ list \in [Nodes -> Seq(Observers)]
  /\ nodes \in 0..MaxObservers /\ observers \in 0..MaxObservers
  /\ iterators \subseteq Names \X (Nodes \cup {NoNode})
  /\ places \subseteq Names \X Observers
  /\ stack \in [Threads -> Seq(Frame)]
  /\ fault \in Faults

Init ==
  /\ mutex = [c \in Centers |-> None]
  /\ m_observers = [n \in Names |-> NoNode]
  /\ list = [k \in Nodes |-> <<>>]
  /\ nodes = 0 /\ observers = 0
  /\ iterators = {} /\ places = {}
  /\ stack = [t \in Threads |-> <<>>]
  /\ fault = "none"

-------------------------------------------------------------------------------
(* Calls. *)

Busy(t) == stack[t] # <<>>
Top(t) == Last(stack[t])
InPhase(t, p) == fault = "none" /\ Busy(t) /\ Top(t).phase = p
Does(t, op) == InPhase(t, "inside") /\ Top(t).op = op
Center(f) == CenterOf[f.name]

(* A thread calls when it is idle, or from the callback it is running; that*)
(* callback may call its own center, whose mutex the thread holds.         *)
MayCall(t, n) ==
  /\ fault = "none"
  /\ \/ stack[t] = <<>>
     \/ /\ InPhase(t, "calling") /\ Len(stack[t]) < MaxDepth
        /\ <<Center(Top(t)), CenterOf[n]>> \in Reaches

Call(t, op, n, k, o) ==
  /\ op \in Operations /\ MayCall(t, n)
  /\ stack' = [stack EXCEPT ![t] =
       Append(@, [op |-> op, name |-> n, node |-> k, observer |-> o,
                  phase |-> IF op = "getNotificationIterator" THEN "find" ELSE "lock",
                  next |-> 0])]

Adds == {"addObserver", "addObserverAt"}
Adding == {p \in Threads \X (1..MaxDepth) :
             p[2] \in DOMAIN stack[p[1]] /\ stack[p[1]][p[2]].op \in Adds}
MayAdd == observers + Cardinality(Adding) < MaxObservers

CallByName(t, n) ==
  /\ \E op \in {"addObserver", "removeObservers", "postNotification",
                "getNotificationIterator"} :
       /\ op \in Adds => MayAdd
       /\ Call(t, op, n, NoNode, 0)
  /\ UNCHANGED <<mutex, m_observers, list, nodes, observers, iterators, places, fault>>

CallByIterator(t) ==
  /\ \E i \in iterators, op \in {"addObserverAt", "removeAllObservers", "postNotificationAt"} :
       /\ op \in Adds => MayAdd
       /\ Call(t, op, i[1], i[2], 0)
       /\ iterators' = IF op = "removeAllObservers" THEN iterators \ {i} ELSE iterators
  /\ UNCHANGED <<mutex, m_observers, list, nodes, observers, places, fault>>

CallRemove(t) ==
  /\ \E p \in places :
       /\ \/ Call(t, "removeObserver", p[1], NoNode, p[2])
          \/ \E i \in iterators :
               i[1] = p[1] /\ Call(t, "removeObserverAt", i[1], i[2], p[2])
       /\ places' = places \ {p}
  /\ UNCHANGED <<mutex, m_observers, list, nodes, observers, iterators, fault>>

(* std::lock_guard *)
Lock(t) ==
  /\ InPhase(t, "lock") /\ mutex[Center(Top(t))] = None
  /\ mutex' = [mutex EXCEPT ![Center(Top(t))] = t]
  /\ stack' = [stack EXCEPT ![t][Len(stack[t])].phase = "inside"]
  /\ UNCHANGED <<m_observers, list, nodes, observers, iterators, places, fault>>

Pop(t) == stack' = [stack EXCEPT ![t] = Front(@)]
Unlock(t) == mutex' = [mutex EXCEPT ![Center(Top(t))] = None]
Returns(t) == Unlock(t) /\ Pop(t)

Fault(f) ==
  /\ fault' = f
  /\ UNCHANGED <<mutex, m_observers, list, nodes, observers, iterators, places, stack>>

(* Locking a std::mutex the thread holds is undefined: some libraries wait *)
(* for ever, as Lock does, others throw.                                   *)
LockTwice(t) ==
  InPhase(t, "lock") /\ mutex[Center(Top(t))] = t /\ Fault("relock")

-------------------------------------------------------------------------------
(* The operations, inside the mutex. *)

(* Mutant: observers go to the front. *)
RegisterFirst(n, k) ==
  /\ observers' = observers + 1
  /\ list' = [list EXCEPT ![k] = <<observers + 1>> \o @]
  /\ places' = places \cup {<<n, observers + 1>>}

(* A new observer goes to the back of node k.                              *)
Register(n, k) ==
  /\ observers' = observers + 1
  /\ list' = [list EXCEPT ![k] = Append(@, observers + 1)]
  /\ places' = places \cup {<<n, observers + 1>>}

AddObserver(t) ==
  /\ Does(t, "addObserver")
  /\ LET n == Top(t).name IN
       \/ /\ m_observers[n] # NoNode
          /\ Register(n, m_observers[n])
          /\ UNCHANGED <<m_observers, nodes>>
       \/ /\ m_observers[n] = NoNode
          /\ nodes' = nodes + 1
          /\ m_observers' = [m_observers EXCEPT ![n] = nodes + 1]
          /\ Register(n, nodes + 1)
  /\ Returns(t)
  /\ UNCHANGED <<iterators, fault>>

(* Use of a notification iterator: Valid goes on; the others are undefined,*)
(* save that comparing NoNode with end() may find them equal.              *)
Valid(t) == Top(t).node # NoNode /\ m_observers[Top(t).name] = Top(t).node
StaleNode(t) ==
  /\ InPhase(t, "inside") /\ Top(t).node # NoNode /\ ~Valid(t)
  /\ Fault("staleNode")
NoNodeUsed(t) ==
  /\ InPhase(t, "inside") /\ Top(t).node = NoNode
  /\ Top(t).op \in {"addObserverAt", "removeObserverAt", "removeAllObservers",
                    "postNotificationAt"}
  /\ Fault("noNode")
EqualsEnd(t) ==
  /\ InPhase(t, "inside") /\ Top(t).node = NoNode
  /\ Top(t).op \in {"addObserverAt", "removeObserverAt", "removeAllObservers"}
  /\ Returns(t)
  /\ UNCHANGED <<m_observers, list, nodes, observers, iterators, places, fault>>

AddObserverAt(t) ==
  /\ Does(t, "addObserverAt") /\ Valid(t)
  /\ Register(Top(t).name, Top(t).node)
  /\ Returns(t)
  /\ UNCHANGED <<m_observers, nodes, iterators, fault>>

(* list.erase(observer); no notification of the name: nothing happens.     *)
Erases(t, k) ==
  \/ /\ \E i \in DOMAIN list[k] :
          /\ list[k][i] = Top(t).observer
          /\ list' = [list EXCEPT ![k] = RemoveAt(@, i)]
     /\ Returns(t)
     /\ UNCHANGED <<m_observers, nodes, observers, iterators, places, fault>>
  \/ ~Contains(list[k], Top(t).observer) /\ Fault("staleObserver")

RemoveObserver(t) ==
  /\ Does(t, "removeObserver")
  /\ \/ m_observers[Top(t).name] # NoNode /\ Erases(t, m_observers[Top(t).name])
     \/ /\ m_observers[Top(t).name] = NoNode
        /\ Returns(t)
        /\ UNCHANGED <<m_observers, list, nodes, observers, iterators, places, fault>>

RemoveObserverAt(t) ==
  Does(t, "removeObserverAt") /\ Valid(t) /\ Erases(t, Top(t).node)

RemoveObservers(t) ==
  /\ \/ Does(t, "removeObservers")
     \/ Does(t, "removeAllObservers") /\ Valid(t)
  /\ m_observers' = [m_observers EXCEPT ![Top(t).name] = NoNode]
  /\ Returns(t)
  /\ UNCHANGED <<list, nodes, observers, iterators, places, fault>>

(* Mutant: the mutex is released before the callbacks run.                 *)
LoopUnlocked(t, k, next) ==
  /\ \/ /\ next <= Len(list[k])
        /\ stack' = [stack EXCEPT ![t][Len(stack[t])] =
             [@ EXCEPT !.phase = "calling", !.node = k, !.next = next]]
     \/ next > Len(list[k]) /\ Pop(t)
  /\ IF next = 1 THEN Unlock(t) ELSE UNCHANGED mutex
  /\ UNCHANGED <<m_observers, list, nodes, observers, iterators, places, fault>>

(* The loop over node k: it begins, and goes on when a callback returns.   *)
Loop(t, k, next) ==
  /\ \/ /\ next <= Len(list[k])
        /\ stack' = [stack EXCEPT ![t][Len(stack[t])] =
             [@ EXCEPT !.phase = "calling", !.node = k, !.next = next]]
        /\ UNCHANGED mutex
     \/ next > Len(list[k]) /\ Returns(t)
  /\ UNCHANGED <<m_observers, list, nodes, observers, iterators, places, fault>>

(* Mutant: the mutex is kept when the notification does not exist.         *)
PostNotificationKeepsMutex(t) ==
  \/ /\ Does(t, "postNotification") /\ m_observers[Top(t).name] # NoNode
     /\ Loop(t, m_observers[Top(t).name], 1)
  \/ /\ Does(t, "postNotification") /\ m_observers[Top(t).name] = NoNode
     /\ Pop(t)
     /\ UNCHANGED <<mutex, m_observers, list, nodes, observers, iterators, places, fault>>
  \/ /\ Does(t, "postNotificationAt") /\ Valid(t)
     /\ Loop(t, Top(t).node, 1)

PostNotification(t) ==
  \/ /\ Does(t, "postNotification") /\ m_observers[Top(t).name] # NoNode
     /\ Loop(t, m_observers[Top(t).name], 1)
  \/ /\ Does(t, "postNotification") /\ m_observers[Top(t).name] = NoNode
     /\ Returns(t)
     /\ UNCHANGED <<m_observers, list, nodes, observers, iterators, places, fault>>
  \/ /\ Does(t, "postNotificationAt") /\ Valid(t)
     /\ Loop(t, Top(t).node, 1)

CallbackReturns(t) ==
  InPhase(t, "calling") /\ Loop(t, Top(t).node, Top(t).next + 1)

(* getNotificationIterator looks twice, without the mutex, and races with  *)
(* a thread that changes the table.                                        *)
Races(t, c) ==
  \E u \in Threads \ {t} :
    /\ Busy(u) /\ Top(u).phase = "inside" /\ Center(Top(u)) = c
    /\ \/ Top(u).op \in {"removeObservers", "removeAllObservers"}
       \/ Top(u).op = "addObserver" /\ m_observers[Top(u).name] = NoNode

FindFirst(t) ==
  /\ InPhase(t, "find") /\ Top(t).next = 0
  /\ \/ /\ m_observers[Top(t).name] # NoNode
        /\ stack' = [stack EXCEPT ![t][Len(stack[t])].next = 1]
        /\ UNCHANGED iterators
     \/ /\ m_observers[Top(t).name] = NoNode
        /\ iterators' = iterators \cup {<<Top(t).name, NoNode>>}
        /\ Pop(t)
  /\ UNCHANGED <<mutex, m_observers, list, nodes, observers, places, fault>>

FindAgain(t) ==
  /\ InPhase(t, "find") /\ Top(t).next = 1
  /\ iterators' = iterators \cup {<<Top(t).name, m_observers[Top(t).name]>>}
  /\ Pop(t)
  /\ UNCHANGED <<mutex, m_observers, list, nodes, observers, places, fault>>

FindRaces(t) ==
  InPhase(t, "find") /\ Races(t, Center(Top(t))) /\ Fault("race")

-------------------------------------------------------------------------------
Next ==
  \E t \in Threads :
    \/ \E n \in Names : CallByName(t, n)
    \/ CallByIterator(t) \/ CallRemove(t) \/ Lock(t)
    \/ AddObserver(t) \/ AddObserverAt(t) \/ RemoveObserver(t) \/ RemoveObserverAt(t)
    \/ RemoveObservers(t) \/ PostNotification(t) \/ CallbackReturns(t)
    \/ FindFirst(t) \/ FindAgain(t) \/ FindRaces(t)
    \/ StaleNode(t) \/ NoNodeUsed(t) \/ EqualsEnd(t) \/ LockTwice(t)

Spec == Init /\ [][Next]_vars

-------------------------------------------------------------------------------
(* Properties. *)

(* While a post is in its loop, whatever its callbacks and other threads   *)
(* do, its notification stays in the table with the list it walks, the     *)
(* observer being called is in that list, and the list has it in the order *)
(* of registration (NotificationCenter.cpp:69-106): so nobody is called    *)
(* after being removed, and nobody is skipped or called twice.             *)
CalledIsRegistered ==
  \A t \in Threads : \A i \in DOMAIN stack[t] :
    LET f == stack[t][i] IN
      f.phase = "calling" =>
        /\ m_observers[f.name] = f.node
        /\ f.next \in DOMAIN list[f.node]
        /\ \A j, k \in DOMAIN list[f.node] : j < k => list[f.node][j] < list[f.node][k]

(* The lists of a notification being posted do not change.                 *)
PostSeesOneList ==
  [][\A t \in Threads : \A i \in DOMAIN stack[t] :
       LET f == stack[t][i] IN f.phase = "calling" => list'[f.node] = list[f.node]]_vars

(* A mutex is held by a thread that is in a call, and threads that wait for*)
(* each other for ever, or one that waits for itself, do so only around a  *)
(* ring of callbacks the application wrote: each center they are in may    *)
(* call another of these centers, or itself (14, 71, 91, with 78 and 97).  *)
(* So where no such ring exists nobody waits for ever.                     *)
Waits(t) == Busy(t) /\ Top(t).phase = "lock"
Stuck(T) == T # {} /\ \A t \in T : Waits(t) /\ mutex[Center(Top(t))] \in T
CentersOf(T) == UNION {{Center(stack[t][i]) : i \in DOMAIN stack[t]} : t \in T}
OnlyRingsWait ==
  /\ \A c \in Centers : mutex[c] # None => Busy(mutex[c])
  /\ \A T \in SUBSET Threads : Stuck(T) =>
       \A c \in CentersOf(T) : \E d \in CentersOf(T) : <<c, d>> \in Reaches
===============================================================================
