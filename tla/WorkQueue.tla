------------------------------- MODULE WorkQueue -------------------------------
(***************************************************************************)
(* The thread pool of Classes/Foundation/WorkQueue.cpp, a Singleton whose  *)
(* construction (call_once) and destruction (atexit) are part of the model.*)
(*                                                                         *)
(* Application threads (Callers) reach the pool through getInstance() and  *)
(* add works; the pool's detached threads (Workers) take them.  A work     *)
(* runs application code, so a worker in "running" may add works too.      *)
(* Labels of pc are the points where another thread can run; a section     *)
(* under m_lock is one step.  Exit is the end of the main thread: the      *)
(* atexit handler and the static destructors run while the detached        *)
(* threads still do.                                                       *)
(***************************************************************************)
EXTENDS Naturals, Sequences, FiniteSets, Functions

CONSTANTS
  Works,     \* Runnable objects, each added once
  Callers,   \* application threads
  Main,      \* the one whose return ends the process
  Workers,   \* the threads createThreads starts, hardware_concurrency()*2
  MayExit,   \* bound: whether the process may end at all
  NoWork     \* null Runnable*

ASSUME ThreadsAssumption ==
  Main \in Callers /\ Callers \cap Workers = {} /\ IsFiniteSet(Workers)
ASSUME WorksAssumption == NoWork \notin Works
ASSUME MayExitAssumption == MayExit \in BOOLEAN

Threads == Callers \cup Workers

VARIABLES
  m_once,       \* the once_flag: "unset", "running" or "done"
  m_instance,   \* TRUE when the singleton pointer is not null
  object,       \* the WorkQueue: "none", "built" or "destroyed"
  s_need_quit,
  m_works,
  pc,
  arg,          \* arg[t]: the parameter of the addWork in progress on t
  work,         \* work[w]: the work that worker w runs
  accepted,     \* history: works pushed, in order
  taken,        \* history: works popped, in order
  finished,     \* history: works whose run() has returned
  fault         \* the undefined behaviour reached, or "none"

singletonVars == <<m_once, m_instance, object>>
historyVars   == <<accepted, taken, finished>>
vars == <<singletonVars, s_need_quit, m_works, pc, arg, work, historyVars, fault>>

Faults == {"none", "null dereference", "use after destruction",
           "condition destroyed while waited on"}
WorkerLabels == {"unborn", "loop", "take", "sleep", "waiting", "running", "done"}
CallLabels == {"getInstance", "construct", "createThreads", "assign", "push", "notify"}
ExitLabels == {"quitFlag", "destroyMembers", "nullInstance", "destroyStatics", "exited"}
Labels == {"idle"} \cup WorkerLabels \cup CallLabels \cup ExitLabels

(* A worker between the pop of a work and the return of its run(). *)
BusyLabels == {"running"} \cup CallLabels

TypeOK ==
  /\ m_once \in {"unset", "running", "done"}
  /\ m_instance \in BOOLEAN
  /\ object \in {"none", "built", "destroyed"}
  /\ s_need_quit \in BOOLEAN
  /\ m_works \in Seq(Works)
  /\ pc \in [Threads -> Labels]
  /\ arg \in [Threads -> Works \cup {NoWork}]
  /\ work \in [Workers -> Works \cup {NoWork}]
  /\ accepted \in Seq(Works)
  /\ taken \in Seq(Works)
  /\ finished \in SUBSET Works
  /\ fault \in Faults
  /\ \A t \in Threads : pc[t] \in CallLabels \ {"notify"} => arg[t] \in Works
  /\ \A w \in Workers : pc[w] \in BusyLabels <=> work[w] # NoWork

Init ==
  /\ m_once = "unset"
  /\ m_instance = FALSE
  /\ object = "none"
  /\ s_need_quit = FALSE
  /\ m_works = <<>>
  /\ pc = [t \in Threads |-> IF t \in Callers THEN "idle" ELSE "unborn"]
  /\ arg = [t \in Threads |-> NoWork]
  /\ work = [w \in Workers |-> NoWork]
  /\ accepted = <<>>
  /\ taken = <<>>
  /\ finished = {}
  /\ fault = "none"

-------------------------------------------------------------------------------
At(t, label) == fault = "none" /\ pc[Main] # "exited" /\ pc[t] = label
Goto(t, label) == pc' = [pc EXCEPT ![t] = label]
Home(t) == IF t \in Callers THEN "idle" ELSE "running"

Crash(kind) ==
  /\ fault' = kind
  /\ UNCHANGED <<singletonVars, s_need_quit, m_works, pc, arg, work, historyVars>>

(* s_SleepCondition.notify_one() *)
Waiting == {w \in Workers : pc[w] = "waiting"}
NotifyOne(t, label) ==
  IF Waiting = {}
  THEN Goto(t, label)
  ELSE \E w \in Waiting : pc' = [pc EXCEPT ![t] = label, ![w] = "loop"]

-------------------------------------------------------------------------------
(* Singleton<WorkQueue>::getInstance()->addWork(r), on thread t. *)

Fresh(r) == r \notin Range(accepted) /\ \A t \in Threads : arg[t] # r

StartAdd(t, r) ==
  /\ At(t, Home(t))
  /\ Fresh(r)
  /\ arg' = [arg EXCEPT ![t] = r]
  /\ Goto(t, "getInstance")
  /\ UNCHANGED <<singletonVars, s_need_quit, m_works, work, historyVars, fault>>

(* Mutant: a call that finds the flag taken does not wait. *)
GetInstanceWithoutWait(t) ==
  /\ At(t, "getInstance")
  /\ IF m_once = "unset"
     THEN /\ m_once' = "running"
          /\ Goto(t, "construct")
          /\ UNCHANGED <<m_instance, object, s_need_quit, m_works, arg, work,
                         historyVars, fault>>
     ELSE IF m_instance
          THEN /\ Goto(t, "push")
               /\ UNCHANGED <<singletonVars, s_need_quit, m_works, arg, work,
                              historyVars, fault>>
          ELSE Crash("null dereference")

(* call_once: the first call runs the lambda, a call meanwhile waits, and  *)
(* one after it reads the pointer, which destroy() makes null.             *)
GetInstance(t) ==
  /\ At(t, "getInstance")
  /\ \/ /\ m_once = "unset"
        /\ m_once' = "running"
        /\ Goto(t, "construct")
        /\ UNCHANGED <<m_instance, object, s_need_quit, m_works, arg, work,
                       historyVars, fault>>
     \/ /\ m_once = "done" /\ m_instance
        /\ Goto(t, "push")
        /\ UNCHANGED <<singletonVars, s_need_quit, m_works, arg, work,
                       historyVars, fault>>
     \/ /\ m_once = "done" /\ ~m_instance
        /\ Crash("null dereference")

(* The members, then s_need_quit = false. *)
Construct(t) ==
  /\ At(t, "construct")
  /\ object' = "built"
  /\ s_need_quit' = FALSE
  /\ Goto(t, "createThreads")
  /\ UNCHANGED <<m_once, m_instance, m_works, arg, work, historyVars, fault>>

(* One turn of createThreads's loop: the thread runs at once, before the   *)
(* singleton pointer is assigned.                                          *)
CreateThread(t) ==
  /\ At(t, "createThreads")
  /\ \/ \E w \in Workers : pc[w] = "unborn" /\ Goto(w, "loop")
     \/ (\A w \in Workers : pc[w] # "unborn") /\ Goto(t, "assign")
  /\ UNCHANGED <<singletonVars, s_need_quit, m_works, arg, work, historyVars, fault>>

(* m_instance = ...; atexit(destroy); the lambda returns. *)
Assign(t) ==
  /\ At(t, "assign")
  /\ m_instance' = TRUE
  /\ m_once' = "done"
  /\ Goto(t, "push")
  /\ UNCHANGED <<object, s_need_quit, m_works, arg, work, historyVars, fault>>

PushWork(t) ==
  /\ m_works' = Append(m_works, arg[t])
  /\ accepted' = Append(accepted, arg[t])
  /\ arg' = [arg EXCEPT ![t] = NoWork]
  /\ Goto(t, "notify")
  /\ UNCHANGED <<singletonVars, s_need_quit, work, taken, finished, fault>>
Push(t) ==
  /\ At(t, "push")
  /\ \/ object = "built" /\ PushWork(t)
     \/ object # "built" /\ Crash("use after destruction")

(* Mutant: addWork does not notify. *)
NoNotify(t) ==
  /\ At(t, "notify")
  /\ Goto(t, Home(t))
  /\ UNCHANGED <<singletonVars, s_need_quit, m_works, arg, work, historyVars, fault>>

Notify(t) ==
  /\ At(t, "notify")
  /\ NotifyOne(t, Home(t))
  /\ UNCHANGED <<singletonVars, s_need_quit, m_works, arg, work, historyVars, fault>>

CallStep(t) ==
  \/ GetInstance(t) \/ Construct(t) \/ CreateThread(t) \/ Assign(t)
  \/ Push(t) \/ Notify(t)

-------------------------------------------------------------------------------
(* WorkQueue::run, on a detached thread. *)

TestQuit(w) ==
  /\ At(w, "loop")
  /\ Goto(w, IF s_need_quit THEN "done" ELSE "take")
  /\ UNCHANGED <<singletonVars, s_need_quit, m_works, arg, work, historyVars, fault>>

(* Mutant: the work is read under the lock but popped after it. *)
PeekWork(w) ==
  \/ /\ m_works = <<>>
     /\ Goto(w, "sleep")
     /\ UNCHANGED <<singletonVars, s_need_quit, m_works, arg, work, historyVars, fault>>
  \/ /\ m_works # <<>>
     /\ Len(taken) <= Cardinality(Works)
     /\ work' = [work EXCEPT ![w] = Head(m_works)]
     /\ taken' = Append(taken, Head(m_works))
     /\ Goto(w, "running")
     /\ UNCHANGED <<singletonVars, s_need_quit, m_works, arg, accepted, finished, fault>>

TakeWork(w) ==
  \/ /\ m_works = <<>>
     /\ Goto(w, "sleep")
     /\ UNCHANGED <<singletonVars, s_need_quit, m_works, arg, work, historyVars, fault>>
  \/ /\ m_works # <<>>
     /\ m_works' = Tail(m_works)
     /\ work' = [work EXCEPT ![w] = Head(m_works)]
     /\ taken' = Append(taken, Head(m_works))
     /\ Goto(w, "running")
     /\ UNCHANGED <<singletonVars, s_need_quit, arg, accepted, finished, fault>>
Take(w) ==
  /\ At(w, "take")
  /\ \/ object = "built" /\ TakeWork(w)
     \/ object # "built" /\ Crash("use after destruction")

(* The wait has no predicate, and addWork does not hold s_SleepMutex. *)
Sleep(w) ==
  /\ At(w, "sleep")
  /\ Goto(w, "waiting")
  /\ UNCHANGED <<singletonVars, s_need_quit, m_works, arg, work, historyVars, fault>>

SpuriousWakeup(w) ==
  /\ At(w, "waiting")
  /\ Goto(w, "loop")
  /\ UNCHANGED <<singletonVars, s_need_quit, m_works, arg, work, historyVars, fault>>

(* Mutant: run() returns and the thread waits before it looks at the queue.*)
RunThenSleep(w) ==
  /\ At(w, "running")
  /\ finished' = finished \cup {work[w]}
  /\ work' = [work EXCEPT ![w] = NoWork]
  /\ Goto(w, "sleep")
  /\ UNCHANGED <<singletonVars, s_need_quit, m_works, arg, accepted, taken, fault>>

RunReturns(w) ==
  /\ At(w, "running")
  /\ finished' = finished \cup {work[w]}
  /\ work' = [work EXCEPT ![w] = NoWork]
  /\ Goto(w, "loop")
  /\ UNCHANGED <<singletonVars, s_need_quit, m_works, arg, accepted, taken, fault>>

(* The steps of a pool thread. *)
WorkerStep(w) == TestQuit(w) \/ Take(w) \/ Sleep(w) \/ RunReturns(w)

-------------------------------------------------------------------------------
(* The main thread returns: atexit(destroy), then the file's statics. The  *)
(* handler is registered when the first getInstance() has succeeded.       *)

Exit ==
  /\ At(Main, "idle")
  /\ MayExit
  /\ Goto(Main, IF m_once = "done" THEN "quitFlag" ELSE "exited")
  /\ UNCHANGED <<singletonVars, s_need_quit, m_works, arg, work, historyVars, fault>>

(* ~WorkQueue: nobody is notified and the threads are not joined. *)
QuitFlag ==
  /\ At(Main, "quitFlag")
  /\ s_need_quit' = TRUE
  /\ Goto(Main, "destroyMembers")
  /\ UNCHANGED <<singletonVars, m_works, arg, work, historyVars, fault>>

(* m_threads, m_works and m_lock, and the storage. *)
DestroyMembers ==
  /\ At(Main, "destroyMembers")
  /\ object' = "destroyed"
  /\ m_works' = <<>>
  /\ Goto(Main, "nullInstance")
  /\ UNCHANGED <<m_once, m_instance, s_need_quit, arg, work, historyVars, fault>>

NullInstance ==
  /\ At(Main, "nullInstance")
  /\ m_instance' = FALSE
  /\ Goto(Main, "destroyStatics")
  /\ UNCHANGED <<m_once, object, s_need_quit, m_works, arg, work, historyVars, fault>>

(* ~condition_variable on a condition that threads wait on is undefined:   *)
(* it may return, or block the exit.                                       *)
DestroyStatics ==
  /\ At(Main, "destroyStatics")
  /\ \/ Goto(Main, "exited") /\ UNCHANGED fault
     \/ /\ Waiting # {}
        /\ fault' = "condition destroyed while waited on"
        /\ UNCHANGED pc
  /\ UNCHANGED <<singletonVars, s_need_quit, m_works, arg, work, historyVars>>

ExitStep == QuitFlag \/ DestroyMembers \/ NullInstance \/ DestroyStatics

-------------------------------------------------------------------------------
Next ==
  \/ \E t \in Threads : CallStep(t) \/ \E r \in Works : StartAdd(t, r)
  \/ \E w \in Workers : WorkerStep(w) \/ SpuriousWakeup(w)
  \/ Exit \/ ExitStep

Spec == Init /\ [][Next]_vars

(* Every thread that can run does, and the run() of a work returns.        *)
(* Nothing obliges the application to add work or to exit.                 *)
Fairness ==
  /\ \A t \in Threads : WF_vars(CallStep(t))
  /\ \A w \in Workers : WF_vars(WorkerStep(w))
  /\ WF_vars(ExitStep)

FairSpec == Spec /\ Fairness

-------------------------------------------------------------------------------
(* Properties. *)

Exiting == pc[Main] \in ExitLabels

(* However adders and workers interleave, a work is popped once and in the *)
(* order of the pushes (WorkQueue.cpp:51-57, 73-75): while the object      *)
(* exists, the works popped and those queued are the works pushed.         *)
TakenInOrder == object # "destroyed" => taken \o m_works = accepted

(* Until the process ends no thread uses a pool that is not there: neither *)
(* the workers, which start on `this` before the constructor returns       *)
(* (WorkQueue.cpp:33), nor callers that race in the first getInstance()    *)
(* (Singleton.h:37-44).                                                    *)
NoFaultBeforeExit == ~Exiting => fault = "none"

(* The works popped and not yet returned are exactly those in the hands of *)
(* the workers, no two of which hold the same one.                         *)
HandsAreRunning ==
  /\ Range(taken) \ finished = {work[w] : w \in {v \in Workers : work[v] # NoWork}}
  /\ \A v, w \in Workers : work[v] = work[w] /\ work[v] # NoWork => v = w

(* A queued work is taken when some worker is past its wait and has not    *)
(* found the queue empty, or when a notification is due that will find a   *)
(* worker waiting: a later addWork also rescues the works stranded by      *)
(* earlier lost wakeups (WorkQueue.cpp:59-65, 76).  What is still queued   *)
(* when the process exits is not run.                                      *)
Awake(w) == pc[w] \in {"loop", "take"} \cup BusyLabels
Notifying == Waiting # {} /\ \E t \in Threads : pc[t] = "notify"
QueuedIsTaken ==
  \A r \in Works :
    r \in Range(m_works) /\ ((\E w \in Workers : Awake(w)) \/ Notifying)
      ~> r \in Range(taken) \/ Exiting

(* The pool implements WorkPool: a push is a Submit, a pop a Start, the    *)
(* return of run() a Finish; also while the process exits.                 *)
Pool == INSTANCE WorkPool WITH
  Size <- Cardinality(Workers), submitted <- accepted, started <- taken
ImplementsWorkPool == Pool!Spec
===============================================================================
