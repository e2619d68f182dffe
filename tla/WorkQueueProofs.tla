---------------------------- MODULE WorkQueueProofs ----------------------------
(* Theorems about WorkQueue, for every set of works and callers and every  *)
(* finite set of pool threads.                                             *)
EXTENDS WorkQueue, SequenceTheorems, FiniteSetTheorems, TLAPS

LEMMA ThreadKinds ==
  /\ Main \in Threads /\ Main \notin Workers
  /\ Workers \subseteq Threads /\ Callers \subseteq Threads
  /\ \A w \in Workers : Home(w) = "running"
  /\ \A t \in Callers : Home(t) = "idle"
BY ThreadsAssumption DEF Threads, Home

LEMMA LabelKinds ==
  /\ WorkerLabels \subseteq Labels /\ CallLabels \subseteq Labels
  /\ ExitLabels \subseteq Labels /\ "idle" \in Labels
  /\ "loop" \in WorkerLabels \ BusyLabels /\ "waiting" \in WorkerLabels \ BusyLabels
  /\ \A t \in Threads : Home(t) \in Labels \ CallLabels
BY DEF Labels, WorkerLabels, CallLabels, ExitLabels, BusyLabels, Home

LEMMA NoItems == \A S : <<>> \in Seq(S)
OBVIOUS

LEMMA SeqTypes ==
  ASSUME NEW S, NEW s \in Seq(S), s # <<>>
  PROVE  Head(s) \in S /\ Tail(s) \in Seq(S)
BY HeadTailProperties

LEMMA AppendType ==
  ASSUME NEW S, NEW s \in Seq(S), NEW x \in S
  PROVE  Append(s, x) \in Seq(S)
BY AppendProperties

-------------------------------------------------------------------------------
(* Type correctness, in two parts: what the threads are doing with what    *)
(* they hold, and the rest.                                                *)

DataOK ==
  /\ m_once \in {"unset", "running", "done"}
  /\ m_instance \in BOOLEAN
  /\ object \in {"none", "built", "destroyed"}
  /\ s_need_quit \in BOOLEAN
  /\ m_works \in Seq(Works)
  /\ accepted \in Seq(Works)
  /\ taken \in Seq(Works)
  /\ finished \in SUBSET Works
  /\ fault \in Faults

Asking == CallLabels \ {"notify"}
ThreadsOK ==
  /\ pc \in [Threads -> Labels]
  /\ arg \in [Threads -> Works \cup {NoWork}]
  /\ work \in [Workers -> Works \cup {NoWork}]
  /\ \A t \in Threads : pc[t] \in Asking => arg[t] \in Works
  /\ \A w \in Workers : pc[w] \in BusyLabels <=> work[w] # NoWork

LEMMA TypeParts ==
  /\ TypeOK <=> DataOK /\ ThreadsOK
  /\ TypeOK' <=> DataOK' /\ ThreadsOK'
BY DEF TypeOK, DataOK, ThreadsOK, Asking

(* One thread goes on to a label at which a pool thread is as busy as it   *)
(* was, and asks for no argument it has not got.                           *)
LEMMA Move ==
  ASSUME ThreadsOK, NEW t \in Threads, NEW label \in Labels, Goto(t, label),
         UNCHANGED <<arg, work>>,
         label \in Asking => arg[t] \in Works,
         t \in Workers => (label \in BusyLabels <=> pc[t] \in BusyLabels)
  PROVE  ThreadsOK'
BY DEF ThreadsOK, Goto

LEMMA NotifyMove ==
  ASSUME ThreadsOK, NEW t \in Threads, pc[t] = "notify", NotifyOne(t, Home(t)),
         UNCHANGED <<arg, work>>
  PROVE  ThreadsOK'
<1>1. /\ Home(t) \in Labels \ Asking
      /\ t \in Workers => Home(t) \in BusyLabels /\ pc[t] \in BusyLabels
  BY ThreadKinds, LabelKinds DEF Asking, BusyLabels, CallLabels
<1>2. CASE Waiting = {}
  BY <1>1, <1>2, Move DEF NotifyOne
<1>3. CASE Waiting # {}
  <2>1. PICK w \in Waiting : pc' = [pc EXCEPT ![t] = Home(t), ![w] = "loop"]
    BY <1>3 DEF NotifyOne
  <2>2. w \in Workers /\ w \in Threads /\ w # t /\ pc[w] \notin BusyLabels
    BY ThreadKinds DEF Waiting, BusyLabels, CallLabels
  <2>3. "loop" \in Labels /\ "loop" \notin Asking /\ "loop" \notin BusyLabels
    BY LabelKinds DEF Asking, BusyLabels
  <2>4. \A u \in Threads : pc'[u] = IF u = w THEN "loop" ELSE IF u = t THEN Home(t) ELSE pc[u]
    BY <2>1, <2>2 DEF ThreadsOK
  <2>5. pc' \in [Threads -> Labels]
    BY <2>1, <2>2, <2>3, <1>1 DEF ThreadsOK
  <2>6. ASSUME NEW u \in Threads, pc'[u] \in Asking PROVE arg'[u] \in Works
    BY <1>1, <2>3, <2>4, <2>6 DEF ThreadsOK
  <2>7. ASSUME NEW v \in Workers PROVE pc'[v] \in BusyLabels <=> pc[v] \in BusyLabels
    BY <1>1, <2>2, <2>3, <2>4, ThreadKinds
  <2> QED
    BY <2>5, <2>6, <2>7 DEF ThreadsOK
<1> QED
  BY <1>2, <1>3

LEMMA CrashMove == ASSUME ThreadsOK, NEW kind, Crash(kind) PROVE ThreadsOK'
BY DEF ThreadsOK, Crash

LEMMA TypeStep == TypeOK /\ [Next]_vars => TypeOK'
<1> SUFFICES ASSUME TypeOK, [Next]_vars PROVE TypeOK'
  OBVIOUS
<1> DataOK /\ ThreadsOK
  BY TypeParts
<1> USE ThreadKinds, LabelKinds, NoItems DEF singletonVars, historyVars, At
<1>1. ASSUME NEW t \in Threads, NEW r \in Works, StartAdd(t, r) PROVE TypeOK'
  <2>1. DataOK'
    BY <1>1 DEF StartAdd, DataOK
  <2>2. ThreadsOK'
    <3>1. "getInstance" \in Labels /\ "getInstance" \in BusyLabels
      BY DEF Labels, CallLabels, BusyLabels
    <3>2. t \in Workers => pc[t] \in BusyLabels
      BY <1>1 DEF StartAdd, BusyLabels
    <3> QED
      BY <1>1, <3>1, <3>2 DEF StartAdd, Goto, ThreadsOK
  <2> QED
    BY <2>1, <2>2, TypeParts
<1>2. ASSUME NEW t \in Threads, GetInstance(t) PROVE TypeOK'
  <2>1. DataOK'
    <3>1. CASE Crash("null dereference")
      BY <3>1 DEF Crash, DataOK, Faults
    <3>2. CASE ~Crash("null dereference")
      BY <1>2, <3>2 DEF GetInstance, DataOK
    <3> QED
      BY <3>1, <3>2
  <2>2. ThreadsOK'
    <3>1. CASE Crash("null dereference")
      BY <3>1, CrashMove
    <3>2. CASE ~Crash("null dereference")
      <4>1. PICK label \in {"construct", "push"} : Goto(t, label)
        BY <1>2, <3>2 DEF GetInstance
      <4>2. label \in Labels /\ label \in BusyLabels
        BY DEF Labels, CallLabels, BusyLabels
      <4>3. arg[t] \in Works /\ pc[t] \in BusyLabels
        BY <1>2 DEF GetInstance, ThreadsOK, Asking, CallLabels, BusyLabels
      <4> QED
        BY <1>2, <3>2, <4>1, <4>2, <4>3, Move DEF GetInstance
    <3> QED
      BY <3>1, <3>2
  <2> QED
    BY <2>1, <2>2, TypeParts
<1>3. ASSUME NEW t \in Threads, Construct(t) PROVE TypeOK'
  <2>1. DataOK'
    BY <1>3 DEF Construct, DataOK
  <2>2. ThreadsOK'
    BY <1>3, Move DEF Construct, ThreadsOK, Asking, BusyLabels, CallLabels, WorkerLabels, Labels, ExitLabels
  <2> QED
    BY <2>1, <2>2, TypeParts
<1>4. ASSUME NEW t \in Threads, CreateThread(t) PROVE TypeOK'
  <2>1. DataOK'
    BY <1>4 DEF CreateThread, DataOK
  <2>2. ThreadsOK'
    BY <1>4, Move DEF CreateThread, ThreadsOK, Asking, BusyLabels, CallLabels, WorkerLabels, Labels, ExitLabels
  <2> QED
    BY <2>1, <2>2, TypeParts
<1>5. ASSUME NEW t \in Threads, Assign(t) PROVE TypeOK'
  <2>1. DataOK'
    BY <1>5 DEF Assign, DataOK
  <2>2. ThreadsOK'
    BY <1>5, Move DEF Assign, ThreadsOK, Asking, BusyLabels, CallLabels, WorkerLabels, Labels, ExitLabels
  <2> QED
    BY <2>1, <2>2, TypeParts
<1>6. ASSUME NEW t \in Threads, Push(t) PROVE TypeOK'
  <2>1. DataOK'
    <3>1. CASE Crash("use after destruction")
      BY <3>1 DEF Crash, DataOK, Faults
    <3>2. CASE PushWork(t)
      <4>1. arg[t] \in Works
        BY <1>6 DEF Push, ThreadsOK, Asking, CallLabels
      <4> QED
        BY <3>2, <4>1, AppendType DEF PushWork, DataOK
    <3> QED
      BY <1>6, <3>1, <3>2 DEF Push
  <2>2. ThreadsOK'
    <3>1. CASE Crash("use after destruction")
      BY <3>1, CrashMove
    <3>2. CASE PushWork(t)
      <4>1. "notify" \in Labels \ Asking /\ "notify" \in BusyLabels /\ "push" \in BusyLabels
        BY DEF Labels, CallLabels, BusyLabels, Asking
      <4> QED
        BY <1>6, <3>2, <4>1 DEF Push, PushWork, Goto, ThreadsOK
    <3> QED
      BY <1>6, <3>1, <3>2 DEF Push
  <2> QED
    BY <2>1, <2>2, TypeParts
<1>7. ASSUME NEW t \in Threads, Notify(t) PROVE TypeOK'
  <2>1. DataOK'
    BY <1>7 DEF Notify, DataOK
  <2>2. ThreadsOK'
    BY <1>7, NotifyMove DEF Notify
  <2> QED
    BY <2>1, <2>2, TypeParts
<1>8. ASSUME NEW w \in Workers, TestQuit(w) PROVE TypeOK'
  <2>1. DataOK'
    BY <1>8 DEF TestQuit, DataOK
  <2>2. ThreadsOK'
    BY <1>8, Move DEF TestQuit, Asking, BusyLabels, CallLabels, WorkerLabels, Labels, ExitLabels
  <2> QED
    BY <2>1, <2>2, TypeParts
<1>9. ASSUME NEW w \in Workers, Take(w) PROVE TypeOK'
  <2>1. DataOK'
    <3>1. CASE Crash("use after destruction")
      BY <3>1 DEF Crash, DataOK, Faults
    <3>2. CASE TakeWork(w) /\ m_works = <<>>
      BY <3>2 DEF TakeWork, DataOK
    <3>3. CASE TakeWork(w) /\ m_works # <<>>
      <4>1. Head(m_works) \in Works /\ Tail(m_works) \in Seq(Works)
        BY <3>3, SeqTypes DEF DataOK
      <4>2. /\ m_works' = Tail(m_works) /\ taken' = Append(taken, Head(m_works))
            /\ UNCHANGED <<singletonVars, s_need_quit, accepted, finished, fault>>
        BY <3>3 DEF TakeWork
      <4> QED
        BY <4>1, <4>2, AppendType DEF DataOK
    <3> QED
      BY <1>9, <3>1, <3>2, <3>3 DEF Take
  <2>2. ThreadsOK'
    <3> DEFINE busy == "running"
    <3>1. /\ "sleep" \in Labels \ Asking /\ "sleep" \notin BusyLabels
          /\ busy \in Labels \ Asking /\ busy \in BusyLabels
          /\ "take" \notin BusyLabels
      BY DEF Labels, WorkerLabels, CallLabels, BusyLabels, Asking
    <3>2. CASE Crash("use after destruction")
      BY <3>2, CrashMove
    <3>3. CASE TakeWork(w) /\ m_works = <<>>
      BY <1>9, <3>1, <3>3, Move DEF TakeWork, Take
    <3>4. CASE TakeWork(w) /\ m_works # <<>>
      <4>1. Head(m_works) \in Works /\ Head(m_works) # NoWork
        BY <3>4, SeqTypes, WorksAssumption DEF DataOK
      <4>2. /\ work' = [work EXCEPT ![w] = Head(m_works)]
            /\ Goto(w, busy) /\ UNCHANGED arg
        BY <3>4 DEF TakeWork
      <4> HIDE DEF busy
      <4> QED
        BY <3>1, <4>1, <4>2 DEF Goto, ThreadsOK
    <3> QED
      BY <1>9, <3>2, <3>3, <3>4 DEF Take
  <2> QED
    BY <2>1, <2>2, TypeParts
<1>10. ASSUME NEW w \in Workers, Sleep(w) PROVE TypeOK'
  <2>1. DataOK'
    BY <1>10 DEF Sleep, DataOK
  <2>2. ThreadsOK'
    BY <1>10, Move DEF Sleep, Asking, BusyLabels, CallLabels, WorkerLabels, Labels, ExitLabels
  <2> QED
    BY <2>1, <2>2, TypeParts
<1>11. ASSUME NEW w \in Workers, SpuriousWakeup(w) PROVE TypeOK'
  <2>1. DataOK'
    BY <1>11 DEF SpuriousWakeup, DataOK
  <2>2. ThreadsOK'
    BY <1>11, Move DEF SpuriousWakeup, Asking, BusyLabels, CallLabels, WorkerLabels, Labels, ExitLabels
  <2> QED
    BY <2>1, <2>2, TypeParts
<1>12. ASSUME NEW w \in Workers, RunReturns(w) PROVE TypeOK'
  <2>1. DataOK'
    BY <1>12 DEF RunReturns, DataOK, ThreadsOK, BusyLabels
  <2>2. ThreadsOK'
    <3>1. "loop" \in Labels \ Asking /\ "loop" \notin BusyLabels
      BY DEF Labels, WorkerLabels, CallLabels, BusyLabels, Asking
    <3>2. /\ work' = [work EXCEPT ![w] = NoWork]
          /\ Goto(w, "loop") /\ UNCHANGED arg
      BY <1>12 DEF RunReturns
    <3> QED
      BY <3>1, <3>2 DEF Goto, ThreadsOK
  <2> QED
    BY <2>1, <2>2, TypeParts
<1>13. ASSUME Exit PROVE TypeOK'
  <2>1. DataOK'
    BY <1>13 DEF Exit, DataOK
  <2>2. ThreadsOK'
    BY <1>13, Move DEF Exit, Asking, BusyLabels, CallLabels, WorkerLabels, Labels, ExitLabels
  <2> QED
    BY <2>1, <2>2, TypeParts
<1>14. ASSUME QuitFlag PROVE TypeOK'
  <2>1. DataOK'
    BY <1>14 DEF QuitFlag, DataOK
  <2>2. ThreadsOK'
    BY <1>14, Move DEF QuitFlag, Asking, BusyLabels, CallLabels, WorkerLabels, Labels, ExitLabels
  <2> QED
    BY <2>1, <2>2, TypeParts
<1>15. ASSUME DestroyMembers PROVE TypeOK'
  <2>1. DataOK'
    BY <1>15 DEF DestroyMembers, DataOK
  <2>2. ThreadsOK'
    BY <1>15, Move DEF DestroyMembers, Asking, BusyLabels, CallLabels, WorkerLabels, Labels, ExitLabels
  <2> QED
    BY <2>1, <2>2, TypeParts
<1>16. ASSUME NullInstance PROVE TypeOK'
  <2>1. DataOK'
    BY <1>16 DEF NullInstance, DataOK
  <2>2. ThreadsOK'
    BY <1>16, Move DEF NullInstance, Asking, BusyLabels, CallLabels, WorkerLabels, Labels, ExitLabels
  <2> QED
    BY <2>1, <2>2, TypeParts
<1>17. ASSUME DestroyStatics PROVE TypeOK'
  <2>1. DataOK'
    BY <1>17 DEF DestroyStatics, Faults, DataOK
  <2>2. ThreadsOK'
    <3>1. CASE Goto(Main, "exited")
      <4>1. "exited" \in Labels \ Asking
        BY DEF Labels, ExitLabels, CallLabels, Asking
      <4> QED
        BY <1>17, <3>1, <4>1, Move DEF DestroyStatics
    <3>2. CASE UNCHANGED pc
      BY <1>17, <3>2 DEF DestroyStatics, ThreadsOK
    <3> QED
      BY <1>17, <3>1, <3>2 DEF DestroyStatics
  <2> QED
    BY <2>1, <2>2, TypeParts
<1>18. CASE UNCHANGED vars
  BY <1>18 DEF vars, TypeOK
<1> QED
  BY <1>1, <1>2, <1>3, <1>4, <1>5, <1>6, <1>7, <1>8, <1>9, <1>10, <1>11, <1>12, <1>13, <1>14, <1>15, <1>16, <1>17, <1>18 DEF Next, CallStep, WorkerStep, ExitStep

(* The type invariant. *)
THEOREM TypeCorrect == Spec => []TypeOK
<1>1. Init => TypeOK
  BY ThreadsAssumption, WorksAssumption, NoItems
     DEF Init, TypeOK, Threads, Labels, WorkerLabels, CallLabels, BusyLabels, Faults
<1> QED
  BY <1>1, TypeStep, PTL DEF Spec

-------------------------------------------------------------------------------
(* The life of the singleton.  One call makes the pool; the object exists  *)
(* from then on for every thread that can reach it, until the exit, which  *)
(* destroys it, has begun.                                                 *)

Making == {"construct", "createThreads", "assign"}
Using  == {"createThreads", "assign", "push", "notify"}

OneMaker ==
  /\ \A t \in Threads : pc[t] \in Making => m_once = "running"
  /\ \A t, u \in Threads : pc[t] \in Making /\ pc[u] \in Making => t = u

MadeBeforeUse ==
  /\ object = "none" => \A w \in Workers : pc[w] = "unborn"
  /\ \A t \in Threads : pc[t] \in Using => object # "none"
  /\ m_once = "done" => object # "none"

GoneOnExit ==
  /\ pc[Main] \in ExitLabels \ {"exited"} => m_once = "done"
  /\ object = "destroyed" => m_once = "done" /\ Exiting
  /\ ~Exiting => (m_once = "done" => m_instance) /\ fault = "none"

LifeInv == OneMaker /\ MadeBeforeUse /\ GoneOnExit

(* A step that leaves the singleton alone and brings no thread to a label  *)
(* the invariant speaks of.                                                *)
Quiet(u) ==
  \/ pc'[u] = pc[u]
  \/ /\ pc'[u] \notin Making \cup ExitLabels /\ pc[u] \notin ExitLabels
     /\ pc'[u] \in Using \/ (u \in Workers /\ pc[u] = "unborn") => object # "none"

LEMMA LifeFrame ==
  ASSUME TypeOK, LifeInv, UNCHANGED singletonVars, fault' = fault \/ Exiting,
         \A u \in Threads : Quiet(u)
  PROVE  LifeInv'
<1>1. \A u \in Threads : pc'[u] \in Making => pc'[u] = pc[u]
  BY DEF Quiet
<1>2. OneMaker'
  BY <1>1 DEF LifeInv, OneMaker, singletonVars
<1>3. MadeBeforeUse'
  <2>1. \A u \in Threads : pc'[u] \in Using => object # "none"
    BY DEF Quiet, LifeInv, MadeBeforeUse
  <2>2. object = "none" => \A w \in Workers : pc'[w] = "unborn"
    BY ThreadKinds DEF Quiet, LifeInv, MadeBeforeUse
  <2> QED
    BY <2>1, <2>2 DEF LifeInv, MadeBeforeUse, singletonVars
<1>4. pc[Main] \in ExitLabels \/ pc'[Main] \in ExitLabels => pc'[Main] = pc[Main]
  BY ThreadKinds DEF Quiet
<1>5. GoneOnExit'
  BY <1>4 DEF LifeInv, GoneOnExit, Exiting, singletonVars
<1> QED
  BY <1>2, <1>3, <1>5 DEF LifeInv

(* One thread goes on. *)
LEMMA GotoQuiet ==
  ASSUME TypeOK, NEW t \in Threads, NEW label, Goto(t, label),
         label \notin Making \cup ExitLabels, pc[t] \notin ExitLabels,
         label \in Using \/ (t \in Workers /\ pc[t] = "unborn") => object # "none"
  PROVE  \A u \in Threads : Quiet(u)
BY DEF Goto, Quiet, TypeOK

LEMMA NotifyQuiet ==
  ASSUME TypeOK, NEW t \in Threads, pc[t] = "notify", NotifyOne(t, Home(t))
  PROVE  \A u \in Threads : Quiet(u)
<1>1. \A u \in Threads :
        \/ pc'[u] = pc[u]
        \/ u = t /\ pc'[u] = Home(t)
        \/ u \in Waiting /\ pc'[u] = "loop"
  BY ThreadKinds DEF NotifyOne, Goto, Waiting, TypeOK
<1>2. Home(t) \in {"idle", "running"}
  BY DEF Home
<1> QED
  BY <1>1, <1>2 DEF Quiet, Making, Using, ExitLabels, Waiting

LEMMA CrashQuiet ==
  ASSUME NEW kind, Crash(kind) PROVE UNCHANGED singletonVars /\ \A u \in Threads : Quiet(u)
BY DEF Crash, Quiet

LEMMA LifeStep == TypeOK /\ LifeInv /\ [Next]_vars => LifeInv'
<1> SUFFICES ASSUME TypeOK, LifeInv, [Next]_vars PROVE LifeInv'
  OBVIOUS
<1> USE ThreadKinds DEF At
<1>1. ASSUME NEW t \in Threads, NEW r \in Works, StartAdd(t, r) PROVE LifeInv'
  <2>1. pc[t] \in {"idle", "running"}
    BY <1>1 DEF StartAdd, Home
  <2> QED
    BY <1>1, <2>1, GotoQuiet, LifeFrame DEF StartAdd, Making, Using, ExitLabels
<1>2. ASSUME NEW t \in Threads, GetInstance(t) PROVE LifeInv'
  <2>1. CASE Crash("null dereference") /\ m_once = "done" /\ ~m_instance
    <3>1. Exiting
      BY <2>1 DEF LifeInv, GoneOnExit
    <3> QED
      BY <2>1, <3>1, CrashQuiet, LifeFrame
  <2>2. CASE Goto(t, "push") /\ m_once = "done" /\ UNCHANGED <<singletonVars, fault>>
    <3>1. object # "none"
      BY <2>2 DEF LifeInv, MadeBeforeUse
    <3> QED
      BY <1>2, <2>2, <3>1, GotoQuiet, LifeFrame DEF GetInstance, Making, Using, ExitLabels
  <2>3. CASE /\ m_once = "unset" /\ m_once' = "running" /\ Goto(t, "construct")
             /\ UNCHANGED <<m_instance, object, fault>>
    <3>1. pc' = [pc EXCEPT ![t] = "construct"] /\ pc[t] = "getInstance"
      BY <1>2, <2>3 DEF Goto, GetInstance
    <3>2. OneMaker'
      BY <2>3, <3>1 DEF TypeOK, LifeInv, OneMaker, Making
    <3>3. MadeBeforeUse'
      BY <2>3, <3>1 DEF TypeOK, LifeInv, MadeBeforeUse, Using
    <3>4. GoneOnExit'
      BY <2>3, <3>1 DEF TypeOK, LifeInv, GoneOnExit, Exiting, ExitLabels
    <3> QED
      BY <3>2, <3>3, <3>4 DEF LifeInv
  <2> QED
    BY <1>2, <2>1, <2>2, <2>3 DEF GetInstance, singletonVars
<1>3. ASSUME NEW t \in Threads, Construct(t) PROVE LifeInv'
  <2>1. pc[t] \in Making /\ m_once = "running"
    BY <1>3 DEF Construct, Making, LifeInv, OneMaker
  <2>2. OneMaker'
    BY <1>3, <2>1 DEF Construct, Goto, TypeOK, LifeInv, OneMaker, Making
  <2>3. MadeBeforeUse'
    BY <1>3, <2>1 DEF Construct, Goto, TypeOK, LifeInv, MadeBeforeUse, Using
  <2>4. GoneOnExit'
    BY <1>3, <2>1 DEF Construct, Goto, TypeOK, LifeInv, GoneOnExit, Exiting, ExitLabels
  <2> QED
    BY <2>2, <2>3, <2>4 DEF LifeInv
<1>4. ASSUME NEW t \in Threads, CreateThread(t) PROVE LifeInv'
  <2>1. object # "none" /\ pc[t] = "createThreads" /\ UNCHANGED <<singletonVars, fault>>
    BY <1>4 DEF CreateThread, LifeInv, MadeBeforeUse, Using
  <2>2. CASE \E w \in Workers : pc[w] = "unborn" /\ Goto(w, "loop")
    <3>1. PICK w \in Workers : pc[w] = "unborn" /\ Goto(w, "loop")
      BY <2>2
    <3> QED
      BY <2>1, <3>1, GotoQuiet, LifeFrame DEF Making, Using, ExitLabels
  <2>3. CASE Goto(t, "assign")
    <3>1. pc' = [pc EXCEPT ![t] = "assign"]
      BY <2>3 DEF Goto
    <3>2. OneMaker'
      BY <2>1, <3>1 DEF TypeOK, LifeInv, OneMaker, Making, singletonVars
    <3>3. MadeBeforeUse'
      BY <2>1, <3>1 DEF TypeOK, LifeInv, MadeBeforeUse, Using, singletonVars
    <3>4. GoneOnExit'
      BY <2>1, <3>1 DEF TypeOK, LifeInv, GoneOnExit, Exiting, ExitLabels, singletonVars
    <3> QED
      BY <3>2, <3>3, <3>4 DEF LifeInv
  <2> QED
    BY <1>4, <2>2, <2>3 DEF CreateThread
<1>5. ASSUME NEW t \in Threads, Assign(t) PROVE LifeInv'
  <2>1. pc[t] \in Making /\ m_once = "running"
    BY <1>5 DEF Assign, Making, LifeInv, OneMaker
  <2>2. OneMaker'
    BY <1>5, <2>1 DEF Assign, Goto, TypeOK, LifeInv, OneMaker, Making
  <2>3. MadeBeforeUse'
    BY <1>5, <2>1 DEF Assign, Goto, TypeOK, LifeInv, MadeBeforeUse, Using
  <2>4. GoneOnExit'
    BY <1>5, <2>1 DEF Assign, Goto, TypeOK, LifeInv, GoneOnExit, Exiting, ExitLabels
  <2> QED
    BY <2>2, <2>3, <2>4 DEF LifeInv
<1>6. ASSUME NEW t \in Threads, Push(t) PROVE LifeInv'
  <2>1. object # "none" /\ pc[t] = "push"
    BY <1>6 DEF Push, LifeInv, MadeBeforeUse, Using
  <2>2. CASE PushWork(t)
    BY <2>1, <2>2, GotoQuiet, LifeFrame DEF PushWork, Making, Using, ExitLabels
  <2>3. CASE object # "built" /\ Crash("use after destruction")
    <3>1. Exiting
      BY <2>1, <2>3 DEF LifeInv, GoneOnExit, TypeOK
    <3> QED
      BY <2>3, <3>1, CrashQuiet, LifeFrame
  <2> QED
    BY <1>6, <2>2, <2>3 DEF Push
<1>7. ASSUME NEW t \in Threads, Notify(t) PROVE LifeInv'
  BY <1>7, NotifyQuiet, LifeFrame DEF Notify
<1>8. ASSUME NEW w \in Workers, TestQuit(w) PROVE LifeInv'
  BY <1>8, GotoQuiet, LifeFrame DEF TestQuit, Making, Using, ExitLabels
<1>9. ASSUME NEW w \in Workers, Take(w) PROVE LifeInv'
  <2>1. object # "none" /\ pc[w] = "take"
    BY <1>9 DEF Take, LifeInv, MadeBeforeUse
  <2>2. CASE TakeWork(w)
    BY <2>1, <2>2, GotoQuiet, LifeFrame DEF TakeWork, Making, Using, ExitLabels
  <2>3. CASE object # "built" /\ Crash("use after destruction")
    <3>1. Exiting
      BY <2>1, <2>3 DEF LifeInv, GoneOnExit, TypeOK
    <3> QED
      BY <2>3, <3>1, CrashQuiet, LifeFrame
  <2> QED
    BY <1>9, <2>2, <2>3 DEF Take
<1>10. ASSUME NEW w \in Workers, Sleep(w) PROVE LifeInv'
  BY <1>10, GotoQuiet, LifeFrame DEF Sleep, Making, Using, ExitLabels
<1>11. ASSUME NEW w \in Workers, SpuriousWakeup(w) PROVE LifeInv'
  BY <1>11, GotoQuiet, LifeFrame DEF SpuriousWakeup, Making, Using, ExitLabels
<1>12. ASSUME NEW w \in Workers, RunReturns(w) PROVE LifeInv'
  BY <1>12, GotoQuiet, LifeFrame DEF RunReturns, Making, Using, ExitLabels
<1>13. ASSUME Exit PROVE LifeInv'
  <2>1. Main \in Threads /\ pc \in [Threads -> Labels]
    BY DEF TypeOK
  <2>2. OneMaker'
    BY <1>13, <2>1 DEF Exit, Goto, LifeInv, OneMaker, Making, singletonVars
  <2>3. MadeBeforeUse'
    BY <1>13, <2>1 DEF Exit, Goto, LifeInv, MadeBeforeUse, Using, singletonVars
  <2>4. GoneOnExit'
    BY <1>13, <2>1 DEF Exit, Goto, LifeInv, GoneOnExit, Exiting, ExitLabels, singletonVars
  <2> QED
    BY <2>2, <2>3, <2>4 DEF LifeInv
<1>14. ASSUME QuitFlag PROVE LifeInv'
  <2>1. Main \in Threads /\ pc \in [Threads -> Labels]
    BY DEF TypeOK
  <2>2. OneMaker'
    BY <1>14, <2>1 DEF QuitFlag, Goto, LifeInv, OneMaker, Making, singletonVars
  <2>3. MadeBeforeUse'
    BY <1>14, <2>1 DEF QuitFlag, Goto, LifeInv, MadeBeforeUse, Using, singletonVars
  <2>4. GoneOnExit'
    BY <1>14, <2>1 DEF QuitFlag, Goto, LifeInv, GoneOnExit, Exiting, ExitLabels, singletonVars
  <2> QED
    BY <2>2, <2>3, <2>4 DEF LifeInv
<1>15. ASSUME DestroyMembers PROVE LifeInv'
  <2>1. Main \in Threads /\ pc \in [Threads -> Labels]
    BY DEF TypeOK
  <2>2. OneMaker'
    BY <1>15, <2>1 DEF DestroyMembers, Goto, LifeInv, OneMaker, Making, singletonVars
  <2>3. MadeBeforeUse'
    BY <1>15, <2>1 DEF DestroyMembers, Goto, LifeInv, MadeBeforeUse, Using, singletonVars
  <2>4. GoneOnExit'
    BY <1>15, <2>1 DEF DestroyMembers, Goto, LifeInv, GoneOnExit, Exiting, ExitLabels, singletonVars
  <2> QED
    BY <2>2, <2>3, <2>4 DEF LifeInv
<1>16. ASSUME NullInstance PROVE LifeInv'
  <2>1. Main \in Threads /\ pc \in [Threads -> Labels]
    BY DEF TypeOK
  <2>2. OneMaker'
    BY <1>16, <2>1 DEF NullInstance, Goto, LifeInv, OneMaker, Making, singletonVars
  <2>3. MadeBeforeUse'
    BY <1>16, <2>1 DEF NullInstance, Goto, LifeInv, MadeBeforeUse, Using, singletonVars
  <2>4. GoneOnExit'
    BY <1>16, <2>1 DEF NullInstance, Goto, LifeInv, GoneOnExit, Exiting, ExitLabels, singletonVars
  <2> QED
    BY <2>2, <2>3, <2>4 DEF LifeInv
<1>17. ASSUME DestroyStatics PROVE LifeInv'
  <2>1. Main \in Threads /\ pc \in [Threads -> Labels]
    BY DEF TypeOK
  <2>2. OneMaker'
    BY <1>17, <2>1 DEF DestroyStatics, Goto, LifeInv, OneMaker, Making, singletonVars
  <2>3. MadeBeforeUse'
    BY <1>17, <2>1 DEF DestroyStatics, Goto, LifeInv, MadeBeforeUse, Using, singletonVars
  <2>4. GoneOnExit'
    BY <1>17, <2>1 DEF DestroyStatics, Goto, LifeInv, GoneOnExit, Exiting, ExitLabels, singletonVars
  <2> QED
    BY <2>2, <2>3, <2>4 DEF LifeInv
<1>18. CASE UNCHANGED vars
  BY <1>18, LifeFrame DEF vars, Quiet
<1> QED
  BY <1>1, <1>2, <1>3, <1>4, <1>5, <1>6, <1>7, <1>8, <1>9, <1>10, <1>11, <1>12, <1>13, <1>14, <1>15, <1>16, <1>17, <1>18 DEF Next, CallStep, WorkerStep, ExitStep

LEMMA LifeCorrect == Spec => []LifeInv
<1>1. Init => LifeInv
  BY ThreadKinds, ThreadsAssumption
     DEF Init, LifeInv, OneMaker, MadeBeforeUse, GoneOnExit, Exiting, Making, Using, ExitLabels, Threads
<1> QED
  BY <1>1, TypeCorrect, LifeStep, PTL DEF Spec

(* No thread uses a pool that is not there before the process exits. *)
THEOREM PoolExistsBeforeExit == Spec => []NoFaultBeforeExit
<1>1. LifeInv => NoFaultBeforeExit
  BY DEF LifeInv, GoneOnExit, NoFaultBeforeExit
<1> QED
  BY <1>1, LifeCorrect, PTL

-------------------------------------------------------------------------------
(* The steps that move works; every other one leaves them where they are.  *)
MovesWork ==
  \/ \E t \in Threads : Push(t) \/ \E r \in Works : StartAdd(t, r)
  \/ \E w \in Workers : Take(w) \/ RunReturns(w)
  \/ DestroyMembers

LEMMA OtherSteps ==
  ASSUME [Next]_vars, ~MovesWork
  PROVE  /\ UNCHANGED <<m_works, arg, work, historyVars>>
         /\ object' = object \/ \E t \in Threads : Construct(t)
<1>1. CASE Next
  BY <1>1 DEF MovesWork, Next, CallStep, WorkerStep, ExitStep, GetInstance, Crash, Construct,
      CreateThread, Assign, Notify, TestQuit, Sleep, SpuriousWakeup, Exit, QuitFlag,
      NullInstance, DestroyStatics, singletonVars, historyVars
<1>2. CASE UNCHANGED vars
  BY <1>2 DEF vars, singletonVars
<1> QED
  BY <1>1, <1>2

(* The order of the works. *)

LEMMA TakeOrder ==
  ASSUME NEW S, NEW t \in Seq(S), NEW q \in Seq(S), q # <<>>
  PROVE  Append(t, Head(q)) \o Tail(q) = t \o q
<1>1. Head(q) \in S /\ Tail(q) \in Seq(S)
  BY HeadTailProperties
<1>2. PICK one : one = <<Head(q)>>
  OBVIOUS
<1>3. one \in Seq(S) /\ Append(t, Head(q)) = t \o one /\ q = one \o Tail(q)
  BY <1>1, <1>2
<1>4. (t \o one) \o Tail(q) = t \o (one \o Tail(q))
  BY <1>1, <1>3, ConcatAssociative
<1> QED
  BY <1>3, <1>4

LEMMA PushOrder ==
  ASSUME NEW S, NEW t \in Seq(S), NEW q \in Seq(S), NEW x \in S
  PROVE  t \o Append(q, x) = Append(t \o q, x)
<1>1. PICK one : one = <<x>>
  OBVIOUS
<1>2. one \in Seq(S) /\ t \o q \in Seq(S)
  BY <1>1, ConcatProperties
<1>3. Append(q, x) = q \o one /\ Append(t \o q, x) = (t \o q) \o one
  BY <1>1, <1>2
<1>4. (t \o q) \o one = t \o (q \o one)
  BY <1>2, ConcatAssociative
<1> QED
  BY <1>3, <1>4

LEMMA OrderStep == TypeOK /\ LifeInv /\ TakenInOrder /\ [Next]_vars => TakenInOrder'
<1> SUFFICES ASSUME TypeOK, LifeInv, TakenInOrder, [Next]_vars PROVE TakenInOrder'
  OBVIOUS
<1> USE ThreadKinds DEF TakenInOrder, At, singletonVars, historyVars
<1>1. ASSUME NEW t \in Threads, Push(t) PROVE TakenInOrder'
  <2>1. CASE PushWork(t)
    <3>1. arg[t] \in Works
      BY <1>1 DEF Push, TypeOK, CallLabels
    <3>2. taken \o Append(m_works, arg[t]) = Append(taken \o m_works, arg[t])
      BY <3>1, PushOrder DEF TypeOK
    <3> QED
      BY <2>1, <3>2 DEF PushWork
  <2>2. CASE Crash("use after destruction")
    BY <2>2 DEF Crash
  <2> QED
    BY <1>1, <2>1, <2>2 DEF Push
<1>2. ASSUME NEW w \in Workers, Take(w) PROVE TakenInOrder'
  <2>1. CASE TakeWork(w) /\ m_works = <<>>
    BY <2>1 DEF TakeWork
  <2>2. CASE TakeWork(w) /\ m_works # <<>>
    <3>1. Append(taken, Head(m_works)) \o Tail(m_works) = taken \o m_works
      BY <2>2, TakeOrder DEF TypeOK
    <3> QED
      BY <2>2, <3>1 DEF TakeWork
  <2>3. CASE Crash("use after destruction")
    BY <2>3 DEF Crash
  <2> QED
    BY <1>2, <2>1, <2>2, <2>3 DEF Take
<1>3. ASSUME NEW t \in Threads, NEW r \in Works, StartAdd(t, r) PROVE TakenInOrder'
  BY <1>3 DEF StartAdd
<1>4. ASSUME NEW w \in Workers, RunReturns(w) PROVE TakenInOrder'
  BY <1>4 DEF RunReturns
<1>5. ASSUME DestroyMembers PROVE TakenInOrder'
  BY <1>5 DEF DestroyMembers
<1>6. CASE ~MovesWork
  <2>1. ASSUME NEW t \in Threads, Construct(t) PROVE object # "destroyed"
    <3>1. m_once = "running"
      BY <2>1 DEF Construct, LifeInv, OneMaker, Making
    <3> QED
      BY <3>1 DEF LifeInv, GoneOnExit
  <2> QED
    BY <1>6, <2>1, OtherSteps
<1> QED
  BY <1>1, <1>2, <1>3, <1>4, <1>5, <1>6 DEF MovesWork

(* Works are popped once, in the order in which they were pushed. *)
THEOREM WorksTakenInOrder == Spec => []TakenInOrder
<1>1. Init => TakenInOrder
  BY DEF Init, TakenInOrder
<1> QED
  BY <1>1, TypeCorrect, LifeCorrect, OrderStep, PTL DEF Spec

-------------------------------------------------------------------------------
(* Who holds which work.  A work is in one hand at a time: the argument of *)
(* one addWork until it is pushed, then one position of the queue, then    *)
(* one worker until its run() returns.                                     *)

ArgFresh ==
  /\ \A t \in Threads : arg[t] # NoWork => arg[t] \notin Range(accepted)
  /\ \A t, u \in Threads : arg[t] = arg[u] /\ arg[t] # NoWork => t = u

AcceptedOnce ==
  \A i, j \in 1..Len(accepted) : accepted[i] = accepted[j] => i = j

HandInv ==
  ArgFresh /\ AcceptedOnce /\ finished \subseteq Range(taken) /\ HandsAreRunning

LEMMA RangeAppend ==
  ASSUME NEW S, NEW s \in Seq(S), NEW x \in S
  PROVE  Range(Append(s, x)) = Range(s) \cup {x}
<1>1. /\ DOMAIN Append(s, x) = 1..(Len(s) + 1) /\ DOMAIN s = 1..Len(s) /\ Len(s) \in Nat
      /\ \A i \in 1..Len(s) : Append(s, x)[i] = s[i]
      /\ Append(s, x)[Len(s) + 1] = x
  BY AppendProperties
<1> QED
  BY <1>1 DEF Range

(* What a pop finds at the head of the queue is new. *)
LEMMA HeadIsNew ==
  ASSUME TypeOK, TakenInOrder, AcceptedOnce, object = "built", m_works # <<>>
  PROVE  /\ Head(m_works) \in Works
         /\ Len(taken) < Len(accepted)
         /\ Head(m_works) = accepted[Len(taken) + 1]
         /\ Head(m_works) \notin Range(taken)
<1>1. taken \in Seq(Works) /\ m_works \in Seq(Works) /\ taken \o m_works = accepted
  BY DEF TypeOK, TakenInOrder
<1>2. Len(m_works) >= 1 /\ Head(m_works) = m_works[1] /\ m_works[1] \in Works
  BY <1>1
<1>3. /\ Len(accepted) = Len(taken) + Len(m_works)
      /\ \A i \in 1..Len(taken) : accepted[i] = taken[i]
      /\ accepted[Len(taken) + 1] = m_works[1]
  BY <1>1, <1>2, ConcatProperties
<1>4. \A i \in 1..Len(taken) : taken[i] # m_works[1]
  BY <1>1, <1>2, <1>3 DEF AcceptedOnce
<1>5. Head(m_works) \notin Range(taken)
  <2>1. DOMAIN taken = 1..Len(taken)
    BY <1>1
  <2>2. ASSUME NEW i \in DOMAIN taken PROVE taken[i] # Head(m_works)
    BY <1>2, <1>4, <2>1
  <2> QED
    BY <2>2 DEF Range
<1> QED
  BY <1>1, <1>2, <1>3, <1>5

LEMMA HandFrame ==
  ASSUME HandInv, UNCHANGED <<arg, work, historyVars>>
  PROVE  HandInv'
BY DEF HandInv, ArgFresh, AcceptedOnce, HandsAreRunning, historyVars

LEMMA HandStep == TypeOK /\ LifeInv /\ TakenInOrder /\ HandInv /\ [Next]_vars => HandInv'
<1> SUFFICES ASSUME TypeOK, LifeInv, TakenInOrder, HandInv, [Next]_vars PROVE HandInv'
  OBVIOUS
<1> USE ThreadKinds DEF At
<1>1. ASSUME NEW t \in Threads, Push(t) PROVE HandInv'
  <2>1. CASE PushWork(t)
    <3>1. /\ accepted' = Append(accepted, arg[t]) /\ arg' = [arg EXCEPT ![t] = NoWork]
          /\ UNCHANGED <<work, taken, finished>>
      BY <2>1 DEF PushWork
    <3>2. arg[t] \in Works /\ arg[t] # NoWork
      BY <1>1, WorksAssumption DEF Push, TypeOK, CallLabels
    <3>3. Range(accepted') = Range(accepted) \cup {arg[t]}
      BY <3>1, <3>2, RangeAppend DEF TypeOK
    <3>4. ArgFresh'
      BY <3>1, <3>2, <3>3 DEF HandInv, ArgFresh, TypeOK
    <3>5. AcceptedOnce'
      <4>1. /\ Len(accepted') = Len(accepted) + 1 /\ Len(accepted) \in Nat
            /\ accepted'[Len(accepted) + 1] = arg[t]
            /\ \A k \in 1..Len(accepted) : accepted'[k] = accepted[k]
        BY <3>1, <3>2, AppendProperties DEF TypeOK
      <4>2. \A k \in 1..Len(accepted) : accepted[k] # arg[t]
        BY <3>2 DEF HandInv, ArgFresh, Range, TypeOK
      <4> QED
        BY <4>1, <4>2 DEF HandInv, AcceptedOnce
    <3> QED
      BY <3>1, <3>4, <3>5 DEF HandInv, HandsAreRunning
  <2>2. CASE Crash("use after destruction")
    BY <2>2, HandFrame DEF Crash
  <2> QED
    BY <1>1, <2>1, <2>2 DEF Push
<1>2. ASSUME NEW w \in Workers, Take(w) PROVE HandInv'
  <2>1. CASE TakeWork(w) /\ m_works = <<>>
    BY <2>1, HandFrame DEF TakeWork
  <2>2. CASE object = "built" /\ TakeWork(w) /\ m_works # <<>>
    <3> DEFINE h == Head(m_works)
    <3>1. /\ taken' = Append(taken, h) /\ work' = [work EXCEPT ![w] = h]
          /\ UNCHANGED <<arg, accepted, finished>>
      BY <2>2 DEF TakeWork
    <3>2. h \in Works /\ h \notin Range(taken) /\ h # NoWork
      BY <2>2, HeadIsNew, WorksAssumption DEF HandInv
    <3>3. Range(taken') = Range(taken) \cup {h}
      BY <3>1, <3>2, RangeAppend DEF TypeOK
    <3>4. work[w] = NoWork
      BY <1>2 DEF Take, TypeOK, BusyLabels, CallLabels
    <3>5. \A v \in Workers : work[v] # h
      BY <3>2 DEF HandInv, HandsAreRunning
    <3>6. h \notin finished
      BY <3>2 DEF HandInv
    <3> HIDE DEF h
    <3>7. \A v \in Workers : work'[v] = IF v = w THEN h ELSE work[v]
      BY <3>1 DEF TypeOK
    <3>8. {work'[v] : v \in {u \in Workers : work'[u] # NoWork}}
            = {work[v] : v \in {u \in Workers : work[u] # NoWork}} \cup {h}
      BY <3>2, <3>4, <3>7
    <3>9. Range(taken') \ finished' = (Range(taken) \ finished) \cup {h}
      BY <3>1, <3>3, <3>6
    <3>10. HandsAreRunning'
      BY <3>5, <3>7, <3>8, <3>9 DEF HandInv, HandsAreRunning
    <3> QED
      BY <3>1, <3>3, <3>10 DEF HandInv, ArgFresh, AcceptedOnce
  <2>3. CASE Crash("use after destruction")
    BY <2>3, HandFrame DEF Crash
  <2> QED
    BY <1>2, <2>1, <2>2, <2>3 DEF Take
<1>3. ASSUME NEW t \in Threads, NEW r \in Works, StartAdd(t, r) PROVE HandInv'
  <2>1. /\ arg' = [arg EXCEPT ![t] = r] /\ UNCHANGED <<work, historyVars>>
        /\ r \notin Range(accepted) /\ \A u \in Threads : arg[u] # r
    BY <1>3 DEF StartAdd, Fresh
  <2>2. ArgFresh'
    BY <2>1 DEF HandInv, ArgFresh, TypeOK, historyVars
  <2> QED
    BY <2>1, <2>2 DEF HandInv, AcceptedOnce, HandsAreRunning, historyVars
<1>4. ASSUME NEW w \in Workers, RunReturns(w) PROVE HandInv'
  <2> DEFINE h == work[w]
  <2>1. /\ finished' = finished \cup {h} /\ work' = [work EXCEPT ![w] = NoWork]
        /\ UNCHANGED <<arg, accepted, taken>>
    BY <1>4 DEF RunReturns
  <2>2. h # NoWork
    BY <1>4 DEF RunReturns, TypeOK, BusyLabels
  <2>3. h \in Range(taken)
    BY <2>2 DEF HandInv, HandsAreRunning
  <2>4. \A v \in Workers : v # w => work[v] # h
    BY <2>2 DEF HandInv, HandsAreRunning
  <2>5. \A v \in Workers : work'[v] = IF v = w THEN NoWork ELSE work[v]
    BY <2>1 DEF TypeOK
  <2>6. {work'[v] : v \in {u \in Workers : work'[u] # NoWork}}
          = {work[v] : v \in {u \in Workers : work[u] # NoWork}} \ {h}
    BY <2>2, <2>4, <2>5
  <2>7. Range(taken') \ finished' = (Range(taken) \ finished) \ {h}
    BY <2>1
  <2>8. HandsAreRunning'
    BY <2>5, <2>6, <2>7 DEF HandInv, HandsAreRunning
  <2> QED
    BY <2>1, <2>3, <2>8 DEF HandInv, ArgFresh, AcceptedOnce
<1>5. ASSUME DestroyMembers PROVE HandInv'
  BY <1>5, HandFrame DEF DestroyMembers
<1>6. CASE ~MovesWork
  BY <1>6, OtherSteps, HandFrame
<1> QED
  BY <1>1, <1>2, <1>3, <1>4, <1>5, <1>6 DEF MovesWork

LEMMA HandCorrect == Spec => []HandInv
<1>1. Init => HandInv
  BY DEF Init, HandInv, ArgFresh, AcceptedOnce, HandsAreRunning, Range
<1> QED
  BY <1>1, TypeCorrect, LifeCorrect, WorksTakenInOrder, HandStep, PTL DEF Spec

(* The works being run are those in the workers' hands, one each. *)
THEOREM HandsHoldRunningWorks == Spec => []HandsAreRunning
<1>1. HandInv => HandsAreRunning
  BY DEF HandInv
<1> QED
  BY <1>1, HandCorrect, PTL

-------------------------------------------------------------------------------
(* The queue implements WorkPool. *)

(* A worker that takes a work finds fewer works running than there are     *)
(* workers: each running work is in the hand of another worker.            *)
LEMMA RoomToStart ==
  ASSUME TypeOK, HandInv, NEW w \in Workers, work[w] = NoWork
  PROVE  Cardinality(Range(taken) \ finished) < Cardinality(Workers)
<1> DEFINE Others == Workers \ {w}
           Holders == {v \in Workers : work[v] # NoWork}
<1>1. IsFiniteSet(Workers) /\ IsFiniteSet(Others)
  BY ThreadsAssumption, FS_RemoveElement
<1>2. Cardinality(Others) = Cardinality(Workers) - 1 /\ Cardinality(Workers) \in Nat
  BY <1>1, FS_RemoveElement, FS_CardinalityType
<1>3. Holders \subseteq Others
  OBVIOUS
<1>4. IsFiniteSet(Holders) /\ Cardinality(Holders) <= Cardinality(Others)
  BY <1>1, <1>3, FS_Subset
<1>5. Range(taken) \ finished = {work[v] : v \in Holders}
  BY DEF HandInv, HandsAreRunning
<1>6. /\ Cardinality({work[v] : v \in Holders}) <= Cardinality(Holders)
      /\ Cardinality({work[v] : v \in Holders}) \in Nat
  <2> DEFINE H == [v \in Holders |-> work[v]]
             R == {work[v] : v \in Holders}
  <2>1. H \in Surjection(Holders, R)
    BY DEF Surjection
  <2>2. IsFiniteSet(R) /\ Cardinality(R) <= Cardinality(Holders)
    BY <1>4, <2>1, FS_Surjection
  <2> QED
    BY <2>2, FS_CardinalityType
<1>7. Cardinality(Holders) \in Nat /\ Cardinality(Others) \in Nat
  BY <1>1, <1>4, FS_CardinalityType
<1> HIDE DEF Others, Holders
<1> QED
  BY <1>2, <1>4, <1>5, <1>6, <1>7

LEMMA SameCardinality == \A S : Pool!Cardinality(S) = Cardinality(S)
BY DEF Pool!Cardinality, Cardinality

LEMMA PoolStep ==
  TypeOK /\ LifeInv /\ TakenInOrder /\ HandInv /\ [Next]_vars => [Pool!Next]_(Pool!vars)
<1> SUFFICES ASSUME TypeOK, LifeInv, TakenInOrder, HandInv, [Next]_vars
             PROVE  Pool!Next \/ UNCHANGED historyVars
  BY DEF Pool!vars, historyVars
<1> USE ThreadKinds DEF At, historyVars
<1>1. ASSUME NEW t \in Threads, Push(t) PROVE Pool!Next \/ UNCHANGED historyVars
  <2>1. CASE Crash("use after destruction")
    BY <2>1 DEF Crash
  <2>2. CASE PushWork(t)
    <3>1. arg[t] \in Works /\ arg[t] # NoWork
      BY <1>1, WorksAssumption DEF Push, TypeOK, CallLabels
    <3>2. arg[t] \notin Range(accepted)
      BY <3>1 DEF HandInv, ArgFresh
    <3>3. Pool!Submit(arg[t])
      BY <2>2, <3>2 DEF PushWork, Pool!Submit, Pool!Range, Range
    <3> QED
      BY <3>1, <3>3 DEF Pool!Next
  <2> QED
    BY <1>1, <2>1, <2>2 DEF Push
<1>2. ASSUME NEW w \in Workers, Take(w) PROVE Pool!Next \/ UNCHANGED historyVars
  <2>1. CASE Crash("use after destruction")
    BY <2>1 DEF Crash
  <2>2. CASE TakeWork(w) /\ m_works = <<>>
    BY <2>2 DEF TakeWork
  <2>3. CASE object = "built" /\ TakeWork(w) /\ m_works # <<>>
    <3>1. Len(taken) < Len(accepted) /\ Head(m_works) = accepted[Len(taken) + 1]
      BY <2>3, HeadIsNew DEF HandInv
    <3>2. work[w] = NoWork
      BY <1>2 DEF Take, TypeOK, BusyLabels, CallLabels
    <3>3. Pool!Cardinality(Pool!Running) < Cardinality(Workers)
      BY <3>2, RoomToStart, SameCardinality DEF Pool!Running, Pool!Range, Range
    <3>4. taken' = Append(taken, accepted[Len(taken) + 1]) /\ UNCHANGED <<accepted, finished>>
      BY <2>3, <3>1 DEF TakeWork
    <3>5. Pool!Start
      BY <3>1, <3>3, <3>4 DEF Pool!Start
    <3> QED
      BY <3>5 DEF Pool!Next
  <2> QED
    BY <1>2, <2>1, <2>2, <2>3 DEF Take
<1>3. ASSUME NEW w \in Workers, RunReturns(w) PROVE Pool!Next
  <2>1. work[w] \in Works /\ work[w] # NoWork
    BY <1>3 DEF RunReturns, TypeOK, BusyLabels
  <2>2. work[w] \in Pool!Running
    BY <2>1 DEF HandInv, HandsAreRunning, Pool!Running, Pool!Range, Range
  <2>3. Pool!Finish(work[w])
    BY <1>3, <2>2 DEF RunReturns, Pool!Finish
  <2> QED
    BY <2>1, <2>3 DEF Pool!Next
<1>4. ASSUME NEW t \in Threads, NEW r \in Works, StartAdd(t, r) PROVE UNCHANGED historyVars
  BY <1>4 DEF StartAdd
<1>5. ASSUME DestroyMembers PROVE UNCHANGED historyVars
  BY <1>5 DEF DestroyMembers
<1>6. CASE ~MovesWork
  BY <1>6, OtherSteps
<1> QED
  BY <1>1, <1>2, <1>3, <1>4, <1>5, <1>6 DEF MovesWork

(* Through every race of first use, addition and exit, works are started   *)
(* once, in order, and no more at a time than there are threads.           *)
THEOREM QueueImplementsPool == Spec => ImplementsWorkPool
<1>1. Init => Pool!Init
  BY DEF Init, Pool!Init
<1> QED
  BY <1>1, PoolStep, TypeCorrect, LifeCorrect, WorksTakenInOrder, HandCorrect, PTL
     DEF Spec, ImplementsWorkPool, Pool!Spec
===============================================================================
