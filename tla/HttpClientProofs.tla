--------------------------- MODULE HttpClientProofs ---------------------------
(* Theorems about HttpClient, for every set of requests and status codes   *)
(* and every bound.                                                        *)
EXTENDS HttpClient, SequenceTheorems, TLAPS

Hands == Requests \cup SyncRequests \cup {NoRequest}

LEMMA WorkersAreThreads == Workers \subseteq Threads /\ Main \in Threads
BY DEF Threads

LEMMA NoItems == \A S : <<>> \in Seq(S)
OBVIOUS

(* A step that moves one thread, and changes what only that thread holds,  *)
(* keeps pc, inHand and HandOK when the thread holds what its new label    *)
(* needs.                                                                  *)
LEMMA Move ==
  ASSUME TypeOK, NEW t \in Threads, NEW label \in Labels, Goto(t, label),
         NEW x \in Hands, inHand' = [inHand EXCEPT ![t] = x],
         label \in AsyncLabels => x \in Requests,
         label \in SendingLabels => x \in Requests \cup {NoRequest},
         label \in SyncLabels => x \in SyncRequests
  PROVE  /\ pc' \in [Threads -> Labels]
         /\ inHand' \in [Threads -> Hands]
         /\ HandOK'
BY DEF TypeOK, HandOK, Goto, Hands

(* The same for a step that changes what no thread holds. *)
LEMMA Pass ==
  ASSUME TypeOK, NEW t \in Threads, NEW label \in Labels, Goto(t, label),
         UNCHANGED inHand,
         label \in AsyncLabels => inHand[t] \in Requests,
         label \in SendingLabels => inHand[t] \in Requests \cup {NoRequest},
         label \in SyncLabels => inHand[t] \in SyncRequests
  PROVE  /\ pc' \in [Threads -> Labels]
         /\ inHand' \in [Threads -> Hands]
         /\ HandOK'
BY DEF TypeOK, HandOK, Goto, Hands

(* The labels at which nothing is asked of what a thread holds. *)
Free == Labels \ (AsyncLabels \cup SendingLabels \cup SyncLabels)

LEMMA FreeLabels ==
  /\ {"idle", "callback", "loop", "take", "sleep", "waiting", "check", "dispatch",
      "pop", "clear", "deleteRequests", "nullRequests", "deleteResponses",
      "nullResponses", "done", "notify", "quitFlag", "quitNotify", "quitNull",
      "quitFree"} \subseteq Free
  /\ \A t : Home(t) \in Free
BY DEF Free, Home, Labels, WorkerLabels, CallLabels, AsyncLabels, SendingLabels, SyncLabels

LEMMA PassFree ==
  ASSUME TypeOK, NEW t \in Threads, NEW label \in Free, Goto(t, label), UNCHANGED inHand
  PROVE  /\ pc' \in [Threads -> Labels]
         /\ inHand' \in [Threads -> Hands]
         /\ HandOK'
BY Pass DEF Free

LEMMA MoveFree ==
  ASSUME TypeOK, NEW t \in Threads, NEW label \in Free, Goto(t, label),
         NEW x \in Hands, inHand' = [inHand EXCEPT ![t] = x]
  PROVE  /\ pc' \in [Threads -> Labels]
         /\ inHand' \in [Threads -> Hands]
         /\ HandOK'
BY Move DEF Free

(* A notification moves the notifier and at most one waiter. *)
LEMMA NotifyFree ==
  ASSUME TypeOK, NEW t \in Threads, NEW label \in Free, NotifyOne(t, label),
         UNCHANGED inHand
  PROVE  /\ pc' \in [Threads -> Labels]
         /\ inHand' \in [Threads -> Hands]
         /\ HandOK'
<1>1. CASE Waiting = {}
  BY <1>1, PassFree DEF NotifyOne
<1>2. CASE Waiting # {}
  <2>1. PICK w \in Waiting : pc' = [pc EXCEPT ![t] = label, ![w] = "loop"]
    BY <1>2 DEF NotifyOne
  <2>2. w \in Threads /\ "loop" \in Free /\ label \in Labels /\ "loop" \in Labels
    BY FreeLabels, WorkersAreThreads DEF Waiting, Free
  <2>3. \A u \in Threads : pc'[u] \in Free \/ pc'[u] = pc[u]
    BY <2>1, <2>2 DEF TypeOK
  <2>4. pc' \in [Threads -> Labels]
    BY <2>1, <2>2 DEF TypeOK
  <2>5. QED
    BY <2>3, <2>4 DEF TypeOK, HandOK, Free, Hands
<1> QED
  BY <1>1, <1>2

(* The conjuncts of TypeOK that speak neither of pc nor of what is held. *)
DataOK ==
  /\ s_requestQueue \in PointerStates
  /\ requestQueue \in Seq(Requests)
  /\ s_responseQueue \in PointerStates
  /\ responseQueue \in Seq(Requests)
  /\ s_need_quit \in BOOLEAN
  /\ s_pHttpClient \in BOOLEAN
  /\ s_errorBuffer \in Hands
  /\ response \in [Requests -> Responses]
  /\ attempt \in [Threads -> Attempts]
  /\ spawned \in 0..MaxWorkers
  /\ destroys \in 0..MaxDestroys
  /\ accepted \in Seq(Requests)
  /\ delivered \in Seq(Requests)
  /\ fault \in Faults

ThreadsOK == pc \in [Threads -> Labels] /\ inHand \in [Threads -> Hands] /\ HandOK

LEMMA TypeParts ==
  /\ TypeOK <=> DataOK /\ ThreadsOK
  /\ TypeOK' <=> DataOK' /\ ThreadsOK'
BY DEF TypeOK, DataOK, ThreadsOK, Hands

LEMMA SeqTypes ==
  ASSUME NEW S, NEW s \in Seq(S), s # <<>>
  PROVE  Head(s) \in S /\ Tail(s) \in Seq(S)
BY HeadTailProperties

LEMMA AppendType ==
  ASSUME NEW S, NEW s \in Seq(S), NEW x \in S
  PROVE  Append(s, x) \in Seq(S)
BY AppendProperties

LEMMA AttemptType ==
  ASSUME TypeOK, NEW t \in Threads, NEW a \in Attempts,
         attempt' = [attempt EXCEPT ![t] = a]
  PROVE  attempt' \in [Threads -> Attempts]
BY DEF TypeOK

LEMMA InitFailsType ==
  ASSUME TypeOK, NEW t \in Threads, InitFails(t)
  PROVE  attempt' \in [Threads -> Attempts]
<1>1. [ret |-> 1, code |-> -1] \in Attempts
  BY DEF Attempts
<1> QED
  BY <1>1, AttemptType DEF InitFails

LEMMA CurlInitType ==
  ASSUME TypeOK, NEW t \in Threads, NEW ok, NEW failed, CurlInit(t, ok, failed)
  PROVE  attempt' \in [Threads -> Attempts] /\ s_pHttpClient' \in BOOLEAN
BY InitFailsType DEF CurlInit, TypeOK

LEMMA CurlPerformType ==
  ASSUME TypeOK, NEW t \in Threads, CurlPerform(t)
  PROVE  attempt' \in [Threads -> Attempts] /\ s_errorBuffer' \in Hands
<1>1. CASE /\ s_errorBuffer' = inHand[t]
           /\ attempt' = [attempt EXCEPT ![t] = [ret |-> 1, code |-> -1]]
  <2>1. [ret |-> 1, code |-> -1] \in Attempts
    BY DEF Attempts
  <2> QED
    BY <1>1, <2>1, AttemptType DEF TypeOK, Hands
<1>2. CASE \E c \in StatusCodes :
             /\ s_errorBuffer' \in {s_errorBuffer, NoRequest}
             /\ attempt' = [attempt EXCEPT ![t] =
                             [ret |-> IF Is2xx(c) THEN 0 ELSE 1, code |-> c]]
  <2>1. PICK c \in StatusCodes :
          attempt' = [attempt EXCEPT ![t] =
                        [ret |-> IF Is2xx(c) THEN 0 ELSE 1, code |-> c]]
    BY <1>2
  <2>2. [ret |-> IF Is2xx(c) THEN 0 ELSE 1, code |-> c] \in Attempts
    BY DEF Attempts
  <2>3. attempt' \in [Threads -> Attempts]
    BY <2>1, <2>2, AttemptType
  <2> QED
    BY <1>2, <2>3 DEF TypeOK, Hands
<1> QED
  BY <1>1, <1>2 DEF CurlPerform

LEMMA TypeStep == TypeOK /\ [Next]_vars => TypeOK'
<1> SUFFICES ASSUME TypeOK, [Next]_vars PROVE TypeOK'
  OBVIOUS
<1> USE TypeParts, WorkersAreThreads, NoItems DEF queueVars, requestVars, responseVars,
        globalVars, workVars, countVars, historyVars, At
<1>1. ASSUME NEW w \in Workers, TestQuit(w) PROVE TypeOK'
  <2>1. DataOK'
    BY <1>1 DEF TestQuit, DataOK, PointerStates
  <2>2. ThreadsOK'
    BY <1>1, FreeLabels, PassFree DEF TestQuit, ThreadsOK
  <2> QED
    BY <2>1, <2>2
<1>2. ASSUME NEW w \in Workers, Sleep(w) PROVE TypeOK'
  <2>1. DataOK'
    BY <1>2 DEF Sleep, DataOK, PointerStates
  <2>2. ThreadsOK'
    BY <1>2, FreeLabels, PassFree DEF Sleep, ThreadsOK
  <2> QED
    BY <2>1, <2>2
<1>3. ASSUME NEW w \in Workers, SpuriousWakeup(w) PROVE TypeOK'
  <2>1. DataOK'
    BY <1>3 DEF SpuriousWakeup, DataOK, PointerStates
  <2>2. ThreadsOK'
    BY <1>3, FreeLabels, PassFree DEF SpuriousWakeup, ThreadsOK
  <2> QED
    BY <2>1, <2>2
<1>4. ASSUME NEW w \in Workers, Check(w) PROVE TypeOK'
  <2>1. DataOK'
    BY <1>4 DEF Check, DataOK, PointerStates
  <2>2. ThreadsOK'
    BY <1>4, FreeLabels, PassFree DEF Check, ThreadsOK
  <2> QED
    BY <2>1, <2>2
<1>5. ASSUME NEW w \in Workers, Dispatch(w) PROVE TypeOK'
  <2>1. DataOK'
    BY <1>5 DEF Dispatch, DataOK, PointerStates
  <2>2. ThreadsOK'
    BY <1>5, FreeLabels, PassFree DEF Dispatch, ThreadsOK
  <2> QED
    BY <2>1, <2>2
<1>6. ASSUME NEW w \in Workers, CallbackReturns(w) PROVE TypeOK'
  <2>1. DataOK'
    BY <1>6 DEF CallbackReturns, DataOK, PointerStates
  <2>2. ThreadsOK'
    BY <1>6, FreeLabels, PassFree DEF CallbackReturns, ThreadsOK
  <2> QED
    BY <2>1, <2>2
<1>7. ASSUME NEW w \in Workers, DeleteRequests(w) PROVE TypeOK'
  <2>1. DataOK'
    BY <1>7 DEF DeleteRequests, DataOK, PointerStates
  <2>2. ThreadsOK'
    BY <1>7, FreeLabels, PassFree DEF DeleteRequests, ThreadsOK
  <2> QED
    BY <2>1, <2>2
<1>8. ASSUME NEW w \in Workers, NullRequests(w) PROVE TypeOK'
  <2>1. DataOK'
    BY <1>8 DEF NullRequests, DataOK, PointerStates
  <2>2. ThreadsOK'
    BY <1>8, FreeLabels, PassFree DEF NullRequests, ThreadsOK
  <2> QED
    BY <2>1, <2>2
<1>9. ASSUME NEW w \in Workers, DeleteResponses(w) PROVE TypeOK'
  <2>1. DataOK'
    BY <1>9 DEF DeleteResponses, DataOK, PointerStates
  <2>2. ThreadsOK'
    BY <1>9, FreeLabels, PassFree DEF DeleteResponses, ThreadsOK
  <2> QED
    BY <2>1, <2>2
<1>10. ASSUME NEW w \in Workers, NullResponses(w) PROVE TypeOK'
  <2>1. DataOK'
    BY <1>10 DEF NullResponses, DataOK, PointerStates
  <2>2. ThreadsOK'
    BY <1>10, FreeLabels, PassFree DEF NullResponses, ThreadsOK
  <2> QED
    BY <2>1, <2>2
<1>11. ASSUME NEW w \in Workers, Take(w) PROVE TypeOK'
  <2>1. DataOK'
    <3>1. CASE Crash(s_requestQueue)
      BY <3>1 DEF Crash, DataOK, Faults
    <3>2. CASE TakeRequest(w) /\ requestQueue = <<>>
      BY <3>2 DEF TakeRequest, DataOK
    <3>3. CASE TakeRequest(w) /\ requestQueue # <<>>
      <4>1. requestQueue' \in Seq(Requests)
        <5>1. Tail(requestQueue) \in Seq(Requests)
          BY <3>3, SeqTypes DEF TypeOK
        <5>2. requestQueue' = Tail(requestQueue)
          BY <3>3 DEF TakeRequest
        <5> QED
          BY <5>1, <5>2
      <4>2. FirstAttempt \in Attempts
        BY DEF FirstAttempt, Attempts
      <4>3. attempt' \in [Threads -> Attempts]
        BY <3>3, <4>2, AttemptType DEF TakeRequest
      <4> QED
        BY <3>3, <4>1, <4>3 DEF TakeRequest, DataOK
    <3> QED
      BY <1>11, <3>1, <3>2, <3>3 DEF Take
  <2>2. ThreadsOK'
    <3>1. CASE Crash(s_requestQueue)
      BY <3>1 DEF Crash, TypeOK, ThreadsOK, HandOK
    <3>2. CASE TakeRequest(w) /\ requestQueue = <<>>
      BY <3>2, FreeLabels, PassFree DEF TakeRequest, ThreadsOK
    <3>3. CASE TakeRequest(w) /\ requestQueue # <<>>
      <4>1. Head(requestQueue) \in Requests
        BY <3>3, SeqTypes DEF TypeOK
      <4>2. PICK label \in {"finish", "configure"} : Goto(w, label)
        BY <3>3 DEF TakeRequest
      <4>3. label \in Labels /\ label \notin SendingLabels \cup SyncLabels
        BY DEF Labels, WorkerLabels, CallLabels, AsyncLabels, SendingLabels, SyncLabels
      <4> QED
        BY <3>3, <4>1, <4>2, <4>3, Move DEF TakeRequest, ThreadsOK, Hands
    <3> QED
      BY <1>11, <3>1, <3>2, <3>3 DEF Take
  <2> QED
    BY <2>1, <2>2
<1>12. ASSUME NEW w \in Workers, Configure(w) PROVE TypeOK'
  <2>1. DataOK'
    BY <1>12, CurlInitType DEF Configure, DataOK
  <2>2. ThreadsOK'
    <3>1. PICK label \in {"perform", "finish"} : Goto(w, label)
      BY <1>12 DEF Configure, CurlInit
    <3>2. label \in Labels /\ label \notin SendingLabels \cup SyncLabels
      BY DEF Labels, WorkerLabels, CallLabels, AsyncLabels, SendingLabels, SyncLabels
    <3>3. inHand[w] \in Requests
      BY <1>12 DEF Configure, TypeOK, HandOK, AsyncLabels
    <3> QED
      BY <1>12, <3>1, <3>2, <3>3, Pass DEF Configure, ThreadsOK
  <2> QED
    BY <2>1, <2>2
<1>13. ASSUME NEW w \in Workers, Perform(w) PROVE TypeOK'
  <2>1. DataOK'
    BY <1>13, CurlPerformType DEF Perform, DataOK
  <2>2. ThreadsOK'
    <3>1. "finish" \in Labels /\ "finish" \notin SendingLabels \cup SyncLabels
      BY DEF Labels, WorkerLabels, CallLabels, AsyncLabels, SendingLabels, SyncLabels
    <3>2. inHand[w] \in Requests
      BY <1>13 DEF Perform, TypeOK, HandOK, AsyncLabels
    <3> QED
      BY <1>13, <3>1, <3>2, Pass DEF Perform, ThreadsOK
  <2> QED
    BY <2>1, <2>2
<1>14. ASSUME NEW w \in Workers, Finish(w) PROVE TypeOK'
  <2>1. DataOK'
    BY <1>14 DEF Finish, Verdict, Responses, HandOK, AsyncLabels, DataOK, PointerStates, Faults, Attempts, FirstAttempt, TypeOK
  <2>2. ThreadsOK'
    <3>1. "publish" \in Labels /\ "publish" \notin SendingLabels \cup SyncLabels
      BY DEF Labels, WorkerLabels, CallLabels, AsyncLabels, SendingLabels, SyncLabels
    <3>2. inHand[w] \in Requests
      BY <1>14 DEF Finish, TypeOK, HandOK, AsyncLabels
    <3> QED
      BY <1>14, <3>1, <3>2, Pass DEF Finish, ThreadsOK
  <2> QED
    BY <2>1, <2>2
<1>15. ASSUME NEW w \in Workers, Publish(w) PROVE TypeOK'
  <2>1. DataOK'
    <3>1. CASE Crash(s_responseQueue)
      BY <3>1 DEF Crash, DataOK, Faults
    <3>2. CASE PublishResponse(w)
      <4>1. inHand[w] \in Requests
        BY <1>15 DEF Publish, TypeOK, HandOK, AsyncLabels
      <4>2. responseQueue' \in Seq(Requests)
        BY <3>2, <4>1, AppendType DEF PublishResponse, TypeOK
      <4> QED
        BY <3>2, <4>2 DEF PublishResponse, DataOK
    <3> QED
      BY <1>15, <3>1, <3>2 DEF Publish
  <2>2. ThreadsOK'
    <3>1. CASE Crash(s_responseQueue)
      BY <3>1 DEF Crash, TypeOK, ThreadsOK, HandOK
    <3>2. CASE PublishResponse(w)
      BY <3>2, FreeLabels, MoveFree DEF PublishResponse, ThreadsOK, Hands
    <3> QED
      BY <1>15, <3>1, <3>2 DEF Publish
  <2> QED
    BY <2>1, <2>2
<1>16. ASSUME NEW w \in Workers, Pop(w) PROVE TypeOK'
  <2>1. DataOK'
    <3>1. CASE Crash(s_responseQueue)
      BY <3>1 DEF Crash, DataOK, Faults
    <3>2. CASE PopResponse(w) /\ responseQueue = <<>>
      BY <3>2 DEF PopResponse, DataOK
    <3>3. CASE PopResponse(w) /\ responseQueue # <<>>
      <4>1. Head(responseQueue) \in Requests /\ Tail(responseQueue) \in Seq(Requests)
        BY <3>3, SeqTypes DEF TypeOK
      <4>2. delivered' \in Seq(Requests)
        <5>1. delivered' = Append(delivered, Head(responseQueue))
          BY <3>3 DEF PopResponse
        <5> QED
          BY <4>1, <5>1, AppendType DEF TypeOK
      <4> QED
        BY <3>3, <4>1, <4>2 DEF PopResponse, DataOK
    <3> QED
      BY <1>16, <3>1, <3>2, <3>3 DEF Pop
  <2>2. ThreadsOK'
    <3>1. CASE Crash(s_responseQueue)
      BY <3>1 DEF Crash, TypeOK, ThreadsOK, HandOK
    <3>2. CASE PopResponse(w)
      BY <3>2, FreeLabels, PassFree DEF PopResponse, ThreadsOK
    <3> QED
      BY <1>16, <3>1, <3>2 DEF Pop
  <2> QED
    BY <2>1, <2>2
<1>17. ASSUME NEW w \in Workers, Clear(w) PROVE TypeOK'
  <2>1. DataOK'
    BY <1>17 DEF Clear, Crash, DataOK, PointerStates, Faults, Attempts, FirstAttempt, TypeOK
  <2>2. ThreadsOK'
    <3>1. CASE Crash(s_requestQueue)
      BY <3>1 DEF Crash, TypeOK, ThreadsOK, HandOK
    <3>2. CASE ~Crash(s_requestQueue)
      BY <1>17, <3>2, FreeLabels, PassFree DEF Clear, ThreadsOK
    <3> QED
      BY <3>1, <3>2
  <2> QED
    BY <2>1, <2>2
<1>18. ASSUME NEW t \in Threads, QuitFlag(t) PROVE TypeOK'
  <2>1. DataOK'
    BY <1>18 DEF QuitFlag, DataOK, Faults
  <2>2. ThreadsOK'
    BY <1>18, FreeLabels, PassFree DEF QuitFlag, ThreadsOK
  <2> QED
    BY <2>1, <2>2
<1>19. ASSUME NEW t \in Threads, QuitNull(t) PROVE TypeOK'
  <2>1. DataOK'
    BY <1>19 DEF QuitNull, DataOK, Faults
  <2>2. ThreadsOK'
    BY <1>19, FreeLabels, PassFree DEF QuitNull, ThreadsOK
  <2> QED
    BY <2>1, <2>2
<1>20. ASSUME NEW t \in Threads, QuitFree(t) PROVE TypeOK'
  <2>1. DataOK'
    BY <1>20 DEF QuitFree, DataOK, Faults
  <2>2. ThreadsOK'
    BY <1>20, FreeLabels, PassFree DEF QuitFree, ThreadsOK
  <2> QED
    BY <2>1, <2>2
<1>21. ASSUME NEW t \in Threads, StartDestroy(t) PROVE TypeOK'
  <2>1. DataOK'
    BY <1>21, BoundsAssumption DEF StartDestroy, DataOK, Faults
  <2>2. ThreadsOK'
    BY <1>21, FreeLabels, PassFree DEF StartDestroy, ThreadsOK
  <2> QED
    BY <2>1, <2>2
<1>22. ASSUME NEW t \in Threads, LazyInit(t) PROVE TypeOK'
  <2>1. DataOK'
    BY <1>22 DEF LazyInit, DataOK, PointerStates
  <2>2. ThreadsOK'
    <3>1. inHand[t] \in Requests \cup {NoRequest}
      BY <1>22 DEF LazyInit, TypeOK, HandOK, SendingLabels
    <3>2. PICK label \in {"testQueue", "newResponses"} : Goto(t, label)
      BY <1>22 DEF LazyInit
    <3>3. label \in Labels /\ label \notin AsyncLabels \cup SyncLabels
      BY DEF Labels, WorkerLabels, CallLabels, AsyncLabels, SendingLabels, SyncLabels
    <3> QED
      BY <1>22, <3>1, <3>2, <3>3, Pass DEF LazyInit, ThreadsOK
  <2> QED
    BY <2>1, <2>2
<1>23. ASSUME NEW t \in Threads, NewResponses(t) PROVE TypeOK'
  <2>1. DataOK'
    BY <1>23 DEF NewResponses, DataOK, PointerStates
  <2>2. ThreadsOK'
    <3>1. inHand[t] \in Requests \cup {NoRequest}
      BY <1>23 DEF NewResponses, TypeOK, HandOK, SendingLabels
    <3>2. "spawn" \in Labels /\ "spawn" \notin AsyncLabels \cup SyncLabels
      BY DEF Labels, WorkerLabels, CallLabels, AsyncLabels, SendingLabels, SyncLabels
    <3> QED
      BY <1>23, <3>1, <3>2, Pass DEF NewResponses, ThreadsOK
  <2> QED
    BY <2>1, <2>2
<1>24. ASSUME NEW t \in Threads, Spawn(t) PROVE TypeOK'
  <2>1. DataOK'
    BY <1>24, BoundsAssumption DEF Spawn, DataOK, TypeOK
  <2>2. ThreadsOK'
    <3>1. inHand[t] \in Requests \cup {NoRequest}
      BY <1>24 DEF Spawn, TypeOK, HandOK, SendingLabels
    <3>2. spawned + 1 \in Threads
      BY <1>24, BoundsAssumption DEF Spawn, TypeOK, Threads, Workers
    <3>3. pc' \in [Threads -> Labels]
      BY <1>24, <3>2 DEF Spawn, TypeOK, Labels, WorkerLabels, CallLabels
    <3>4. \A u \in Threads : pc'[u] \in {pc[u], "loop"} \/ (u = t /\ pc'[u] = "resetQuit")
      BY <1>24, <3>2 DEF Spawn, TypeOK
    <3> QED
      BY <1>24, <3>1, <3>3, <3>4 DEF Spawn, ThreadsOK, TypeOK, HandOK, Hands, AsyncLabels, SendingLabels, SyncLabels
  <2> QED
    BY <2>1, <2>2
<1>25. ASSUME NEW t \in Threads, ResetQuit(t) PROVE TypeOK'
  <2>1. DataOK'
    BY <1>25 DEF ResetQuit, DataOK
  <2>2. ThreadsOK'
    <3>1. inHand[t] \in Requests \cup {NoRequest}
      BY <1>25 DEF ResetQuit, TypeOK, HandOK, SendingLabels
    <3>2. "testQueue" \in Labels /\ "testQueue" \notin AsyncLabels \cup SyncLabels
      BY DEF Labels, WorkerLabels, CallLabels, AsyncLabels, SendingLabels, SyncLabels
    <3> QED
      BY <1>25, <3>1, <3>2, Pass DEF ResetQuit, ThreadsOK
  <2> QED
    BY <2>1, <2>2
<1>26. ASSUME NEW t \in Threads, TestQueue(t) PROVE TypeOK'
  <2>1. DataOK'
    BY <1>26 DEF TestQueue, DataOK
  <2>2. ThreadsOK'
    <3>1. inHand[t] \in Requests \cup {NoRequest}
      BY <1>26 DEF TestQueue, TypeOK, HandOK, SendingLabels
    <3>2. CASE inHand[t] = NoRequest \/ s_requestQueue = "null"
      BY <1>26, <3>2, FreeLabels, MoveFree DEF TestQueue, ThreadsOK, Hands
    <3>3. CASE ~(inHand[t] = NoRequest \/ s_requestQueue = "null")
      <4>1. "push" \in Labels /\ "push" \notin SendingLabels \cup SyncLabels
        BY DEF Labels, WorkerLabels, CallLabels, AsyncLabels, SendingLabels, SyncLabels
      <4> QED
        BY <1>26, <3>1, <3>3, <4>1, Pass DEF TestQueue, ThreadsOK
    <3> QED
      BY <3>2, <3>3
  <2> QED
    BY <2>1, <2>2
<1>27. ASSUME NEW t \in Threads, Push(t) PROVE TypeOK'
  <2>1. DataOK'
    <3>1. CASE Crash(s_requestQueue)
      BY <3>1 DEF Crash, DataOK, Faults
    <3>2. CASE PushRequest(t)
      <4>1. inHand[t] \in Requests
        BY <1>27 DEF Push, TypeOK, HandOK, AsyncLabels
      <4>2. requestQueue' \in Seq(Requests) /\ accepted' \in Seq(Requests)
        BY <3>2, <4>1, AppendType DEF PushRequest, TypeOK
      <4> QED
        BY <3>2, <4>2 DEF PushRequest, DataOK
    <3> QED
      BY <1>27, <3>1, <3>2 DEF Push
  <2>2. ThreadsOK'
    <3>1. CASE Crash(s_requestQueue)
      BY <3>1 DEF Crash, TypeOK, ThreadsOK, HandOK
    <3>2. CASE PushRequest(t)
      BY <3>2, FreeLabels, MoveFree DEF PushRequest, ThreadsOK, Hands
    <3> QED
      BY <1>27, <3>1, <3>2 DEF Push
  <2> QED
    BY <2>1, <2>2
<1>28. ASSUME NEW t \in Threads, Notify(t) PROVE TypeOK'
  <2>1. DataOK'
    BY <1>28 DEF Notify, DataOK
  <2>2. ThreadsOK'
    BY <1>28, FreeLabels, NotifyFree, PassFree DEF Notify, ThreadsOK
  <2> QED
    BY <2>1, <2>2
<1>29. ASSUME NEW t \in Threads, QuitNotify(t) PROVE TypeOK'
  <2>1. DataOK'
    BY <1>29 DEF QuitNotify, DataOK
  <2>2. ThreadsOK'
    BY <1>29, FreeLabels, NotifyFree, PassFree DEF QuitNotify, ThreadsOK
  <2> QED
    BY <2>1, <2>2
<1>30. ASSUME NEW t \in Threads, SyncConfigure(t) PROVE TypeOK'
  <2>1. DataOK'
    BY <1>30, CurlInitType DEF SyncConfigure, DataOK
  <2>2. ThreadsOK'
    <3>1. CASE pc'[t] = Home(t)
      <4>1. Goto(t, Home(t))
        BY <1>30, <3>1 DEF SyncConfigure, CurlInit, Goto, TypeOK
      <4> QED
        BY <1>30, <3>1, <4>1, FreeLabels, MoveFree DEF SyncConfigure, ThreadsOK, Hands
    <3>2. CASE pc'[t] # Home(t)
      <4>1. Goto(t, "syncPerform")
        BY <1>30, <3>2 DEF SyncConfigure, CurlInit, Goto, TypeOK
      <4>2. "syncPerform" \in Labels /\ "syncPerform" \notin AsyncLabels \cup SendingLabels
        BY DEF Labels, WorkerLabels, CallLabels, AsyncLabels, SendingLabels, SyncLabels
      <4>3. inHand[t] \in SyncRequests
        BY <1>30 DEF SyncConfigure, TypeOK, HandOK, SyncLabels
      <4> QED
        BY <1>30, <3>2, <4>1, <4>2, <4>3, Pass DEF SyncConfigure, ThreadsOK
    <3> QED
      BY <3>1, <3>2
  <2> QED
    BY <2>1, <2>2
<1>31. ASSUME NEW t \in Threads, SyncPerform(t) PROVE TypeOK'
  <2>1. DataOK'
    BY <1>31, CurlPerformType DEF SyncPerform, DataOK
  <2>2. ThreadsOK'
    BY <1>31, FreeLabels, MoveFree DEF SyncPerform, ThreadsOK, Hands
  <2> QED
    BY <2>1, <2>2
<1>32. ASSUME NEW t \in Threads, NEW r \in Requests \cup {NoRequest}, StartSend(t, r)
       PROVE  TypeOK'
  <2>1. DataOK'
    BY <1>32 DEF StartSend, DataOK
  <2>2. "lazyInit" \in Labels /\ "lazyInit" \notin AsyncLabels \cup SyncLabels
    BY DEF Labels, WorkerLabels, CallLabels, AsyncLabels, SendingLabels, SyncLabels
  <2>3. ThreadsOK'
    BY <1>32, <2>2, Move DEF StartSend, ThreadsOK, Hands
  <2> QED
    BY <2>1, <2>3
<1>33. ASSUME NEW t \in Threads, NEW r \in SyncRequests, StartSync(t, r)
       PROVE  TypeOK'
  <2>1. FirstAttempt \in Attempts
    BY DEF FirstAttempt, Attempts
  <2>2. attempt' \in [Threads -> Attempts]
    BY <1>33, <2>1, AttemptType DEF StartSync
  <2>3. DataOK'
    BY <1>33, <2>2 DEF StartSync, DataOK
  <2>4. CASE UNCHANGED <<pc, inHand>>
    BY <2>3, <2>4 DEF ThreadsOK, HandOK
  <2>5. CASE Goto(t, "syncConfigure") /\ inHand' = [inHand EXCEPT ![t] = r]
    <3>1. "syncConfigure" \in Labels \ (AsyncLabels \cup SendingLabels)
      BY DEF Labels, WorkerLabels, CallLabels, AsyncLabels, SendingLabels, SyncLabels
    <3>2. ThreadsOK'
      BY <2>5, <3>1, Move DEF ThreadsOK, Hands
    <3> QED
      BY <2>3, <3>2
  <2> QED
    BY <1>33, <2>4, <2>5 DEF StartSync
<1>34. CASE UNCHANGED vars
  BY <1>34 DEF vars, TypeOK, HandOK
<1> QED
  BY <1>1, <1>2, <1>3, <1>4, <1>5, <1>6, <1>7, <1>8, <1>9, <1>10, <1>11, <1>12, <1>13, <1>14, <1>15, <1>16, <1>17, <1>18, <1>19, <1>20, <1>21, <1>22, <1>23, <1>24, <1>25, <1>26, <1>27, <1>28, <1>29, <1>30, <1>31, <1>32, <1>33, <1>34 DEF Next, WorkerStep, CallStep, StartCall

(* Every variable keeps its type, and what a thread has in hand is what    *)
(* its place in the code takes it to be: a request from the queue where it *)
(* performs one, a request of the caller where it sends one, although      *)
(* Main and callbacks interleave with the network threads at every step.   *)
THEOREM TypeCorrect == Spec => []TypeOK
<1>1. Init => TypeOK
  <2> SUFFICES ASSUME Init PROVE TypeOK
    OBVIOUS
  <2>1. DataOK
    <3>1. NewResponse \in Responses /\ FirstAttempt \in Attempts
      BY DEF NewResponse, Responses, FirstAttempt, Attempts
    <3>2. 0 \in 0..MaxWorkers /\ 0 \in 0..MaxDestroys
      BY BoundsAssumption
    <3> QED
      BY <3>1, <3>2, NoItems DEF Init, DataOK, PointerStates, Faults, Hands
  <2>2. ThreadsOK
    BY DEF Init, ThreadsOK, HandOK, Hands, Labels, WorkerLabels, CallLabels, AsyncLabels, SendingLabels, SyncLabels
  <2> QED
    BY <2>1, <2>2, TypeParts
<1> QED
  BY <1>1, TypeStep, PTL DEF Spec

-------------------------------------------------------------------------------
(* One network thread per queue. *)

CreatingLabels == {"newResponses", "spawn"}

(* The inductive invariant behind QueueHasOneThread: network threads are   *)
(* born in order, only Main creates queues, and while it does no network   *)
(* thread has one; a serving thread's queue is live until it frees it.     *)
BornInOrder == \A w \in Workers : pc[w] = "unborn" <=> w > spawned
CallersApart ==
  /\ pc[Main] \in {"idle"} \cup CallLabels
  /\ \A w \in Workers : pc[w] \notin CreatingLabels \cup {"idle", "resetQuit"}
QueueServed ==
  /\ \A w \in Workers : Serving(w) =>
       s_requestQueue = IF pc[w] = "nullRequests" THEN "freed" ELSE "live"
  /\ \A v, w \in Workers : Serving(v) /\ Serving(w) => v = w
  /\ pc[Main] \in CreatingLabels =>
       s_requestQueue = "live" /\ \A w \in Workers : ~Serving(w)
  /\ s_requestQueue # "null" /\ pc[Main] \notin CreatingLabels =>
       \E w \in Workers : Serving(w)
ThreadInv == BornInOrder /\ CallersApart /\ (fault = "none" => QueueServed)

(* The labels between which a thread moves without touching any of this. *)
Turning == {"unborn", "newResponses", "spawn", "resetQuit", "nullRequests",
            "deleteResponses", "nullResponses", "done"}
Plain(t, label) ==
  /\ label \notin Turning
  /\ t = Main => label \in {"idle"} \cup CallLabels
  /\ t \in Workers => label # "idle"

LEMMA MainIsNoWorker == Main \notin Workers
BY BoundsAssumption DEF Main, Workers

LEMMA PlainMove ==
  ASSUME TypeOK, ThreadInv, NEW t \in Threads, NEW label \in Labels, Goto(t, label),
         Plain(t, pc[t]), Plain(t, label), fault = "none",
         UNCHANGED <<s_requestQueue, spawned>>
  PROVE  ThreadInv'
BY MainIsNoWorker, WorkersAreThreads
   DEF TypeOK, ThreadInv, BornInOrder, CallersApart, QueueServed, Serving, Goto,
       Plain, Turning, CreatingLabels, Threads, CallLabels

LEMMA PlainNotify ==
  ASSUME TypeOK, ThreadInv, NEW t \in Threads, NEW label \in Labels, NotifyOne(t, label),
         Plain(t, pc[t]), Plain(t, label), fault = "none", pc[t] # "waiting",
         UNCHANGED <<s_requestQueue, spawned>>
  PROVE  ThreadInv'
<1>1. CASE Waiting = {}
  BY <1>1, PlainMove DEF NotifyOne
<1>2. CASE Waiting # {}
  <2>1. PICK w \in Waiting : pc' = [pc EXCEPT ![t] = label, ![w] = "loop"]
    BY <1>2 DEF NotifyOne
  <2>2. w \in Workers /\ pc[w] = "waiting" /\ w # t
    BY DEF Waiting
  <2> QED
    BY <2>1, <2>2, MainIsNoWorker, WorkersAreThreads
       DEF TypeOK, ThreadInv, BornInOrder, CallersApart, QueueServed, Serving,
           Plain, Turning, CreatingLabels, Threads, CallLabels
<1> QED
  BY <1>1, <1>2

LEMMA CrashKeeps ==
  ASSUME ThreadInv, NEW pointer, Crash(pointer)
  PROVE  ThreadInv'
BY DEF Crash, ThreadInv, BornInOrder, CallersApart, countVars

LEMMA HomeIsPlain == \A t \in Threads : Home(t) \in Labels /\ Plain(t, Home(t))
BY MainIsNoWorker DEF Home, Plain, Turning, Labels, WorkerLabels, Threads

LEMMA ThreadStep == TypeOK /\ ThreadInv /\ [Next]_vars => ThreadInv'
<1> SUFFICES ASSUME TypeOK, ThreadInv, [Next]_vars PROVE ThreadInv'
  OBVIOUS
<1> USE WorkersAreThreads, MainIsNoWorker
    DEF queueVars, requestVars, responseVars, globalVars, workVars, countVars, historyVars, At
<1>1. ASSUME NEW w \in Workers, TestQuit(w) PROVE ThreadInv'
  <2>1. PICK label \in {"clear", "take"} : Goto(w, label)
    BY <1>1 DEF TestQuit
  <2>2. label \in Labels /\ Plain(w, label) /\ Plain(w, "loop")
    BY HomeIsPlain DEF Plain, Turning, Labels, WorkerLabels, CallLabels
  <2> QED
    BY <1>1, <2>1, <2>2, PlainMove DEF TestQuit
<1>2. ASSUME NEW w \in Workers, Take(w) PROVE ThreadInv'
  <2>1. CASE Crash(s_requestQueue)
    BY <2>1, CrashKeeps
  <2>2. CASE ~Crash(s_requestQueue)
    <3>1. PICK label \in {"sleep", "finish", "configure"} : Goto(w, label)
      BY <1>2, <2>2 DEF Take, TakeRequest
    <3>2. label \in Labels /\ Plain(w, label) /\ Plain(w, "take")
      BY HomeIsPlain DEF Plain, Turning, Labels, WorkerLabels, CallLabels
    <3> QED
      BY <1>2, <2>2, <3>1, <3>2, PlainMove DEF Take, TakeRequest
  <2> QED
    BY <2>1, <2>2
<1>3. ASSUME NEW w \in Workers, Sleep(w) PROVE ThreadInv'
  <2>1. PICK label \in {"waiting"} : Goto(w, label)
    BY <1>3 DEF Sleep
  <2>2. label \in Labels /\ Plain(w, label) /\ Plain(w, "sleep")
    BY HomeIsPlain DEF Plain, Turning, Labels, WorkerLabels, CallLabels
  <2> QED
    BY <1>3, <2>1, <2>2, PlainMove DEF Sleep
<1>4. ASSUME NEW w \in Workers, SpuriousWakeup(w) PROVE ThreadInv'
  <2>1. PICK label \in {"loop"} : Goto(w, label)
    BY <1>4 DEF SpuriousWakeup
  <2>2. label \in Labels /\ Plain(w, label) /\ Plain(w, "waiting")
    BY HomeIsPlain DEF Plain, Turning, Labels, WorkerLabels, CallLabels
  <2> QED
    BY <1>4, <2>1, <2>2, PlainMove DEF SpuriousWakeup
<1>5. ASSUME NEW w \in Workers, Configure(w) PROVE ThreadInv'
  <2>1. PICK label \in {"perform", "finish"} : Goto(w, label)
    BY <1>5 DEF Configure, CurlInit
  <2>2. label \in Labels /\ Plain(w, label) /\ Plain(w, "configure")
    BY HomeIsPlain DEF Plain, Turning, Labels, WorkerLabels, CallLabels
  <2> QED
    BY <1>5, <2>1, <2>2, PlainMove DEF Configure, CurlInit
<1>6. ASSUME NEW w \in Workers, Perform(w) PROVE ThreadInv'
  <2>1. PICK label \in {"finish"} : Goto(w, label)
    BY <1>6 DEF Perform
  <2>2. label \in Labels /\ Plain(w, label) /\ Plain(w, "perform")
    BY HomeIsPlain DEF Plain, Turning, Labels, WorkerLabels, CallLabels
  <2> QED
    BY <1>6, <2>1, <2>2, PlainMove DEF Perform
<1>7. ASSUME NEW w \in Workers, Finish(w) PROVE ThreadInv'
  <2>1. PICK label \in {"publish"} : Goto(w, label)
    BY <1>7 DEF Finish
  <2>2. label \in Labels /\ Plain(w, label) /\ Plain(w, "finish")
    BY HomeIsPlain DEF Plain, Turning, Labels, WorkerLabels, CallLabels
  <2> QED
    BY <1>7, <2>1, <2>2, PlainMove DEF Finish
<1>8. ASSUME NEW w \in Workers, Publish(w) PROVE ThreadInv'
  <2>1. CASE Crash(s_responseQueue)
    BY <2>1, CrashKeeps
  <2>2. CASE ~Crash(s_responseQueue)
    <3>1. PICK label \in {"check"} : Goto(w, label)
      BY <1>8, <2>2 DEF Publish, PublishResponse
    <3>2. label \in Labels /\ Plain(w, label) /\ Plain(w, "publish")
      BY HomeIsPlain DEF Plain, Turning, Labels, WorkerLabels, CallLabels
    <3> QED
      BY <1>8, <2>2, <3>1, <3>2, PlainMove DEF Publish, PublishResponse
  <2> QED
    BY <2>1, <2>2
<1>9. ASSUME NEW w \in Workers, Check(w) PROVE ThreadInv'
  <2>1. PICK label \in {"dispatch", "loop"} : Goto(w, label)
    BY <1>9 DEF Check
  <2>2. label \in Labels /\ Plain(w, label) /\ Plain(w, "check")
    BY HomeIsPlain DEF Plain, Turning, Labels, WorkerLabels, CallLabels
  <2> QED
    BY <1>9, <2>1, <2>2, PlainMove DEF Check
<1>10. ASSUME NEW w \in Workers, Dispatch(w) PROVE ThreadInv'
  <2>1. PICK label \in {"loop", "pop"} : Goto(w, label)
    BY <1>10 DEF Dispatch
  <2>2. label \in Labels /\ Plain(w, label) /\ Plain(w, "dispatch")
    BY HomeIsPlain DEF Plain, Turning, Labels, WorkerLabels, CallLabels
  <2> QED
    BY <1>10, <2>1, <2>2, PlainMove DEF Dispatch
<1>11. ASSUME NEW w \in Workers, Pop(w) PROVE ThreadInv'
  <2>1. CASE Crash(s_responseQueue)
    BY <2>1, CrashKeeps
  <2>2. CASE ~Crash(s_responseQueue)
    <3>1. PICK label \in {"loop", "callback"} : Goto(w, label)
      BY <1>11, <2>2 DEF Pop, PopResponse
    <3>2. label \in Labels /\ Plain(w, label) /\ Plain(w, "pop")
      BY HomeIsPlain DEF Plain, Turning, Labels, WorkerLabels, CallLabels
    <3> QED
      BY <1>11, <2>2, <3>1, <3>2, PlainMove DEF Pop, PopResponse
  <2> QED
    BY <2>1, <2>2
<1>12. ASSUME NEW w \in Workers, CallbackReturns(w) PROVE ThreadInv'
  <2>1. PICK label \in {"loop"} : Goto(w, label)
    BY <1>12 DEF CallbackReturns
  <2>2. label \in Labels /\ Plain(w, label) /\ Plain(w, "callback")
    BY HomeIsPlain DEF Plain, Turning, Labels, WorkerLabels, CallLabels
  <2> QED
    BY <1>12, <2>1, <2>2, PlainMove DEF CallbackReturns
<1>13. ASSUME NEW w \in Workers, Clear(w) PROVE ThreadInv'
  <2>1. CASE Crash(s_requestQueue)
    BY <2>1, CrashKeeps
  <2>2. CASE ~Crash(s_requestQueue)
    <3>1. PICK label \in {"deleteRequests"} : Goto(w, label)
      BY <1>13, <2>2 DEF Clear
    <3>2. label \in Labels /\ Plain(w, label) /\ Plain(w, "clear")
      BY HomeIsPlain DEF Plain, Turning, Labels, WorkerLabels, CallLabels
    <3> QED
      BY <1>13, <2>2, <3>1, <3>2, PlainMove DEF Clear
  <2> QED
    BY <2>1, <2>2
<1>14. ASSUME NEW t \in Threads, TestQueue(t) PROVE ThreadInv'
  <2>1. PICK label \in {"push", Home(t)} : Goto(t, label)
    BY <1>14 DEF TestQueue
  <2>2. label \in Labels /\ Plain(t, label) /\ Plain(t, "testQueue")
    BY HomeIsPlain DEF Plain, Turning, Labels, WorkerLabels, CallLabels
  <2> QED
    BY <1>14, <2>1, <2>2, PlainMove DEF TestQueue
<1>15. ASSUME NEW t \in Threads, Push(t) PROVE ThreadInv'
  <2>1. CASE Crash(s_requestQueue)
    BY <2>1, CrashKeeps
  <2>2. CASE ~Crash(s_requestQueue)
    <3>1. PICK label \in {"notify"} : Goto(t, label)
      BY <1>15, <2>2 DEF Push, PushRequest
    <3>2. label \in Labels /\ Plain(t, label) /\ Plain(t, "push")
      BY HomeIsPlain DEF Plain, Turning, Labels, WorkerLabels, CallLabels
    <3> QED
      BY <1>15, <2>2, <3>1, <3>2, PlainMove DEF Push, PushRequest
  <2> QED
    BY <2>1, <2>2
<1>16. ASSUME NEW t \in Threads, SyncConfigure(t) PROVE ThreadInv'
  <2>1. PICK label \in {"syncPerform", Home(t)} : Goto(t, label)
    BY <1>16 DEF SyncConfigure, CurlInit
  <2>2. label \in Labels /\ Plain(t, label) /\ Plain(t, "syncConfigure")
    BY HomeIsPlain DEF Plain, Turning, Labels, WorkerLabels, CallLabels
  <2> QED
    BY <1>16, <2>1, <2>2, PlainMove DEF SyncConfigure, CurlInit
<1>17. ASSUME NEW t \in Threads, SyncPerform(t) PROVE ThreadInv'
  <2>1. PICK label \in {Home(t)} : Goto(t, label)
    BY <1>17 DEF SyncPerform
  <2>2. label \in Labels /\ Plain(t, label) /\ Plain(t, "syncPerform")
    BY HomeIsPlain DEF Plain, Turning, Labels, WorkerLabels, CallLabels
  <2> QED
    BY <1>17, <2>1, <2>2, PlainMove DEF SyncPerform
<1>18. ASSUME NEW t \in Threads, QuitFlag(t) PROVE ThreadInv'
  <2>1. PICK label \in {"quitNotify"} : Goto(t, label)
    BY <1>18 DEF QuitFlag
  <2>2. label \in Labels /\ Plain(t, label) /\ Plain(t, "quitFlag")
    BY HomeIsPlain DEF Plain, Turning, Labels, WorkerLabels, CallLabels
  <2> QED
    BY <1>18, <2>1, <2>2, PlainMove DEF QuitFlag
<1>19. ASSUME NEW t \in Threads, QuitNull(t) PROVE ThreadInv'
  <2>1. PICK label \in {"quitFree"} : Goto(t, label)
    BY <1>19 DEF QuitNull
  <2>2. label \in Labels /\ Plain(t, label) /\ Plain(t, "quitNull")
    BY HomeIsPlain DEF Plain, Turning, Labels, WorkerLabels, CallLabels
  <2> QED
    BY <1>19, <2>1, <2>2, PlainMove DEF QuitNull
<1>20. ASSUME NEW w \in Workers, DeleteRequests(w) PROVE ThreadInv'
  BY <1>20 DEF DeleteRequests, TypeOK, ThreadInv, BornInOrder, CallersApart, QueueServed, Serving, Goto, CreatingLabels, Threads, CallLabels
<1>21. ASSUME NEW w \in Workers, NullRequests(w) PROVE ThreadInv'
  BY <1>21 DEF NullRequests, TypeOK, ThreadInv, BornInOrder, CallersApart, QueueServed, Serving, Goto, CreatingLabels, Threads, CallLabels
<1>22. ASSUME NEW w \in Workers, DeleteResponses(w) PROVE ThreadInv'
  BY <1>22 DEF DeleteResponses, TypeOK, ThreadInv, BornInOrder, CallersApart, QueueServed, Serving, Goto, CreatingLabels, Threads, CallLabels
<1>23. ASSUME NEW w \in Workers, NullResponses(w) PROVE ThreadInv'
  BY <1>23 DEF NullResponses, TypeOK, ThreadInv, BornInOrder, CallersApart, QueueServed, Serving, Goto, CreatingLabels, Threads, CallLabels
<1>24. ASSUME NEW t \in Threads, LazyInit(t) PROVE ThreadInv'
  <2>1. CASE s_requestQueue # "null"
    <3>1. Plain(t, "lazyInit") /\ Plain(t, "testQueue") /\ "testQueue" \in Labels
      BY DEF Plain, Turning, Labels, CallLabels
    <3> QED
      BY <1>24, <2>1, <3>1, PlainMove DEF LazyInit
  <2>2. CASE s_requestQueue = "null"
    BY <1>24, <2>2 DEF LazyInit, TypeOK, ThreadInv, BornInOrder, CallersApart, QueueServed, Serving, Goto, CreatingLabels, Threads, CallLabels
  <2> QED
    BY <2>1, <2>2
<1>25. ASSUME NEW t \in Threads, NewResponses(t) PROVE ThreadInv'
  BY <1>25 DEF NewResponses, TypeOK, ThreadInv, BornInOrder, CallersApart, QueueServed, Serving, Goto, CreatingLabels, Threads, CallLabels
<1>26. ASSUME NEW t \in Threads, Spawn(t) PROVE ThreadInv'
  <2>1. t = Main
    BY <1>26 DEF Spawn, ThreadInv, CallersApart, CreatingLabels, Threads
  <2>2. spawned + 1 \in Workers /\ spawned \in Nat
    BY <1>26, BoundsAssumption DEF Spawn, TypeOK, Workers
  <2>3. \A w \in Workers : w > spawned + 1 <=> w > spawned /\ w # spawned + 1
    BY <2>2 DEF Workers
  <2>4. pc'[Main] = "resetQuit" /\ pc'[spawned + 1] = "loop"
    BY <1>26, <2>1, <2>2 DEF Spawn, TypeOK
  <2>5. \A w \in Workers \ {spawned + 1} : pc'[w] = pc[w]
    BY <1>26, <2>1, <2>2 DEF Spawn, TypeOK
  <2> QED
    BY <1>26, <2>1, <2>2, <2>3, <2>4, <2>5 DEF Spawn, TypeOK, ThreadInv, BornInOrder, CallersApart, QueueServed, Serving, Goto, CreatingLabels, Threads, CallLabels
<1>27. ASSUME NEW t \in Threads, ResetQuit(t) PROVE ThreadInv'
  BY <1>27 DEF ResetQuit, TypeOK, ThreadInv, BornInOrder, CallersApart, QueueServed, Serving, Goto, CreatingLabels, Threads, CallLabels
<1>28. ASSUME NEW t \in Threads, Notify(t) PROVE ThreadInv'
  <2>1. Home(t) \in Labels /\ Plain(t, Home(t)) /\ Plain(t, "notify")
    BY HomeIsPlain DEF Plain, Turning, CallLabels
  <2> QED
    BY <1>28, <2>1, PlainNotify DEF Notify
<1>29. ASSUME NEW t \in Threads, QuitNotify(t) PROVE ThreadInv'
  <2>1. "quitNull" \in Labels /\ Plain(t, "quitNull") /\ Plain(t, "quitNotify")
    BY DEF Plain, Turning, Labels, CallLabels
  <2> QED
    BY <1>29, <2>1, PlainNotify, PlainMove DEF QuitNotify
<1>30. ASSUME NEW t \in Threads, QuitFree(t) PROVE ThreadInv'
  <2>1. Home(t) \in Labels /\ Plain(t, Home(t)) /\ Plain(t, "quitFree")
    BY HomeIsPlain DEF Plain, Turning, CallLabels
  <2> QED
    BY <1>30, <2>1, PlainMove DEF QuitFree
<1>31. ASSUME NEW t \in Threads, NEW r \in Requests \cup {NoRequest}, StartSend(t, r) PROVE ThreadInv'
  <2>1. "lazyInit" \in Labels /\ Plain(t, "lazyInit") /\ Plain(t, Home(t))
    BY HomeIsPlain DEF Plain, Turning, Labels, CallLabels
  <2> QED
    BY <1>31, <2>1, PlainMove DEF StartSend
<1>32. ASSUME NEW t \in Threads, NEW r \in SyncRequests, StartSync(t, r) PROVE ThreadInv'
  <2>1. "syncConfigure" \in Labels /\ Plain(t, "syncConfigure") /\ Plain(t, Home(t))
    BY HomeIsPlain DEF Plain, Turning, Labels, CallLabels
  <2>2. CASE UNCHANGED pc
    BY <1>32, <2>2 DEF StartSync, ThreadInv, BornInOrder, CallersApart, QueueServed, Serving
  <2>3. CASE Goto(t, "syncConfigure")
    BY <1>32, <2>1, <2>3, PlainMove DEF StartSync
  <2> QED
    BY <1>32, <2>2, <2>3 DEF StartSync
<1>33. ASSUME NEW t \in Threads, StartDestroy(t) PROVE ThreadInv'
  <2>1. "quitFlag" \in Labels /\ Plain(t, "quitFlag") /\ Plain(t, Home(t))
    BY HomeIsPlain DEF Plain, Turning, Labels, CallLabels
  <2> QED
    BY <1>33, <2>1, PlainMove DEF StartDestroy
<1>34. CASE UNCHANGED vars
  BY <1>34 DEF vars, ThreadInv, BornInOrder, CallersApart, QueueServed, Serving
<1> QED
  BY <1>1, <1>2, <1>3, <1>4, <1>5, <1>6, <1>7, <1>8, <1>9, <1>10, <1>11, <1>12, <1>13, <1>14, <1>15, <1>16, <1>17, <1>18, <1>19, <1>20, <1>21, <1>22, <1>23, <1>24, <1>25, <1>26, <1>27, <1>28, <1>29, <1>30, <1>31, <1>32, <1>33, <1>34 DEF Next, WorkerStep, CallStep, StartCall

LEMMA ThreadCorrect == Spec => []ThreadInv
<1>1. Init => ThreadInv
  BY MainIsNoWorker, BoundsAssumption
     DEF Init, ThreadInv, BornInOrder, CallersApart, QueueServed, Serving, Threads, Workers,
         CreatingLabels
<1> QED
  BY <1>1, TypeCorrect, ThreadStep, PTL DEF Spec

(* One queue, one thread: destroyInstance and any number of restarts after *)
(* it never leave two network threads on one queue, nor a queue that no    *)
(* thread serves, nor a serving thread without a queue (97-223, 397-446).  *)
THEOREM OneThreadPerQueue == Spec => []QueueHasOneThread
<1>1. ThreadInv => QueueHasOneThread
  BY DEF ThreadInv, QueueServed, QueueHasOneThread, CreatingLabels
<1> QED
  BY <1>1, ThreadCorrect, PTL

-------------------------------------------------------------------------------
(* The flow of requests before the first destroy. *)

LEMMA TakeFlow ==
  ASSUME NEW d \in Seq(Requests), NEW r \in Seq(Requests), NEW q \in Seq(Requests), q # <<>>,
         NEW one, one = <<Head(q)>>
  PROVE  d \o r \o one \o Tail(q) = d \o r \o q
<1>1. Head(q) \in Requests /\ Tail(q) \in Seq(Requests) /\ one \in Seq(Requests)
  BY SeqTypes
<1>2. one \o Tail(q) = q
  BY <1>1
<1>3. d \o r \in Seq(Requests)
  BY ConcatProperties
<1> QED
  BY <1>1, <1>2, <1>3, ConcatAssociative

LEMMA PopFlow ==
  ASSUME NEW S, NEW d \in Seq(S), NEW r \in Seq(S), r # <<>>
  PROVE  Append(d, Head(r)) \o Tail(r) = d \o r
<1>1. Head(r) \in S /\ Tail(r) \in Seq(S) /\ <<Head(r)>> \in Seq(S)
  BY SeqTypes
<1>2. <<Head(r)>> \o Tail(r) = r
  BY <1>1
<1>3. Append(d, Head(r)) = d \o <<Head(r)>>
  BY <1>1, AppendIsConcat
<1> QED
  BY <1>1, <1>2, <1>3, ConcatAssociative

LEMMA PushFlow ==
  ASSUME NEW S, NEW x \in Seq(S), NEW q \in Seq(S), NEW h \in S
  PROVE  x \o Append(q, h) = Append(x \o q, h)
<1>1. x \o q \in Seq(S) /\ <<h>> \in Seq(S)
  BY ConcatProperties
<1>2. Append(q, h) = q \o <<h>> /\ Append(x \o q, h) = (x \o q) \o <<h>>
  BY <1>1, AppendIsConcat
<1> QED
  BY <1>1, <1>2, ConcatAssociative

(* Before the first destroy the quit flag is down, no thread is quitting   *)
(* or cleaning up, both queues exist once they are created, and nothing    *)
(* has been sent before they are.                                          *)
QuitLabels    == {"quitFlag", "quitNotify", "quitNull", "quitFree"}
CleanupLabels == {"clear", "deleteRequests", "nullRequests", "deleteResponses",
                  "nullResponses", "done"}
Quiet ==
  /\ fault = "none"
  /\ ~s_need_quit
  /\ \A t \in Threads : pc[t] \notin QuitLabels \cup CleanupLabels
  /\ s_requestQueue # "null" /\ pc[Main] # "newResponses" => s_responseQueue = "live"
  /\ pc[Main] = "push" => s_requestQueue # "null"
  /\ s_requestQueue = "null" \/ pc[Main] \in CreatingLabels =>
       /\ requestQueue = <<>> /\ responseQueue = <<>>
       /\ accepted = <<>> /\ delivered = <<>>
FlowInv == destroys = 0 => Quiet /\ FlowInOrder

(* A step that keeps the queues, the histories and what the busy threads   *)
(* hold keeps the flow.                                                    *)
LEMMA FlowFrame ==
  ASSUME FlowInOrder, destroys = 0, fault = "none",
         \A w \in Workers : Busy(w)' <=> Busy(w),
         \A w \in Workers : Busy(w) => inHand'[w] = inHand[w],
         UNCHANGED <<requestQueue, responseQueue, accepted, delivered>>
  PROVE  FlowInOrder'
BY DEF FlowInOrder

(* Where a thread can be before the first destroy, a serving thread has    *)
(* both queues, and a push finds one.                                      *)
LEMMA QueuesLive ==
  ASSUME ThreadInv, Quiet
  PROVE  /\ \A w \in Workers : Serving(w) =>
              s_requestQueue = "live" /\ s_responseQueue = "live" /\ pc[Main] \notin CreatingLabels
         /\ pc[Main] = "push" => s_requestQueue = "live"
BY WorkersAreThreads
   DEF ThreadInv, Quiet, QueueServed, Serving, QuitLabels, CleanupLabels, CreatingLabels

LEMMA FlowStep == TypeOK /\ ThreadInv /\ FlowInv /\ [Next]_vars => FlowInv'
<1> SUFFICES ASSUME TypeOK, ThreadInv, FlowInv, [Next]_vars, destroys' = 0
             PROVE  Quiet' /\ FlowInOrder'
  BY DEF FlowInv
<1> USE WorkersAreThreads, MainIsNoWorker
    DEF queueVars, requestVars, responseVars, globalVars, workVars, countVars, historyVars, At
<1>0. destroys = 0 /\ Quiet /\ FlowInOrder
  <2>1. CASE UNCHANGED destroys
    BY <2>1 DEF FlowInv
  <2>2. CASE destroys' = destroys + 1
    BY <2>2 DEF TypeOK
  <2>3. [Next]_vars => UNCHANGED destroys \/ destroys' = destroys + 1
    BY DEF Next, vars, WorkerStep, CallStep, StartCall, TestQuit, Take, TakeRequest, Crash, Sleep,
        SpuriousWakeup, Configure, Perform, Finish, Publish, PublishResponse, Check,
        Dispatch, Pop, PopResponse, CallbackReturns, Clear, DeleteRequests, NullRequests,
        DeleteResponses, NullResponses, StartSend, LazyInit, NewResponses, Spawn, ResetQuit,
        TestQueue, Push, PushRequest, Notify, StartSync, SyncConfigure, SyncPerform,
        StartDestroy, QuitFlag, QuitNotify, QuitNull, QuitFree
  <2> QED
    BY <2>1, <2>2, <2>3
<1>1. ASSUME NEW w \in Workers, TestQuit(w) PROVE Quiet' /\ FlowInOrder'
  <2>1. Quiet'
    BY <1>0, <1>1 DEF TestQuit, Quiet, TypeOK, Goto, QuitLabels, CleanupLabels, CreatingLabels, Home
  <2>2. FlowInOrder'
    BY <1>0, <1>1, FlowFrame DEF TestQuit, Quiet, TypeOK, Goto, Busy, Home
  <2> QED
    BY <2>1, <2>2
<1>2. ASSUME NEW w \in Workers, Sleep(w) PROVE Quiet' /\ FlowInOrder'
  <2>1. Quiet'
    BY <1>0, <1>2 DEF Sleep, Quiet, TypeOK, Goto, QuitLabels, CleanupLabels, CreatingLabels, Home
  <2>2. FlowInOrder'
    BY <1>0, <1>2, FlowFrame DEF Sleep, Quiet, TypeOK, Goto, Busy, Home
  <2> QED
    BY <2>1, <2>2
<1>3. ASSUME NEW w \in Workers, SpuriousWakeup(w) PROVE Quiet' /\ FlowInOrder'
  <2>1. Quiet'
    BY <1>0, <1>3 DEF SpuriousWakeup, Quiet, TypeOK, Goto, QuitLabels, CleanupLabels, CreatingLabels, Home
  <2>2. FlowInOrder'
    BY <1>0, <1>3, FlowFrame DEF SpuriousWakeup, Quiet, TypeOK, Goto, Busy, Home
  <2> QED
    BY <2>1, <2>2
<1>4. ASSUME NEW w \in Workers, Configure(w) PROVE Quiet' /\ FlowInOrder'
  <2>1. Quiet'
    BY <1>0, <1>4 DEF Configure, CurlInit, Quiet, TypeOK, Goto, QuitLabels, CleanupLabels, CreatingLabels, Home
  <2>2. FlowInOrder'
    BY <1>0, <1>4, FlowFrame DEF Configure, CurlInit, Quiet, TypeOK, Goto, Busy, Home
  <2> QED
    BY <2>1, <2>2
<1>5. ASSUME NEW w \in Workers, Perform(w) PROVE Quiet' /\ FlowInOrder'
  <2>1. Quiet'
    BY <1>0, <1>5 DEF Perform, CurlPerform, Quiet, TypeOK, Goto, QuitLabels, CleanupLabels, CreatingLabels, Home
  <2>2. FlowInOrder'
    BY <1>0, <1>5, FlowFrame DEF Perform, CurlPerform, Quiet, TypeOK, Goto, Busy, Home
  <2> QED
    BY <2>1, <2>2
<1>6. ASSUME NEW w \in Workers, Finish(w) PROVE Quiet' /\ FlowInOrder'
  <2>1. Quiet'
    BY <1>0, <1>6 DEF Finish, Quiet, TypeOK, Goto, QuitLabels, CleanupLabels, CreatingLabels, Home
  <2>2. FlowInOrder'
    BY <1>0, <1>6, FlowFrame DEF Finish, Quiet, TypeOK, Goto, Busy, Home
  <2> QED
    BY <2>1, <2>2
<1>7. ASSUME NEW w \in Workers, Check(w) PROVE Quiet' /\ FlowInOrder'
  <2>1. Quiet'
    BY <1>0, <1>7 DEF Check, Quiet, TypeOK, Goto, QuitLabels, CleanupLabels, CreatingLabels, Home
  <2>2. FlowInOrder'
    BY <1>0, <1>7, FlowFrame DEF Check, Quiet, TypeOK, Goto, Busy, Home
  <2> QED
    BY <2>1, <2>2
<1>8. ASSUME NEW w \in Workers, Dispatch(w) PROVE Quiet' /\ FlowInOrder'
  <2>1. Quiet'
    BY <1>0, <1>8 DEF Dispatch, Quiet, TypeOK, Goto, QuitLabels, CleanupLabels, CreatingLabels, Home
  <2>2. FlowInOrder'
    BY <1>0, <1>8, FlowFrame DEF Dispatch, Quiet, TypeOK, Goto, Busy, Home
  <2> QED
    BY <2>1, <2>2
<1>9. ASSUME NEW w \in Workers, CallbackReturns(w) PROVE Quiet' /\ FlowInOrder'
  <2>1. Quiet'
    BY <1>0, <1>9 DEF CallbackReturns, Quiet, TypeOK, Goto, QuitLabels, CleanupLabels, CreatingLabels, Home
  <2>2. FlowInOrder'
    BY <1>0, <1>9, FlowFrame DEF CallbackReturns, Quiet, TypeOK, Goto, Busy, Home
  <2> QED
    BY <2>1, <2>2
<1>10. ASSUME NEW t \in Threads, ResetQuit(t) PROVE Quiet' /\ FlowInOrder'
  <2>1. Quiet'
    BY <1>0, <1>10, QueuesLive DEF ResetQuit, Quiet, TypeOK, Goto, QuitLabels, CleanupLabels, CreatingLabels, Home
  <2>2. FlowInOrder'
    BY <1>0, <1>10, FlowFrame, QueuesLive DEF ResetQuit, Quiet, TypeOK, Goto, Busy, Home
  <2> QED
    BY <2>1, <2>2
<1>11. ASSUME NEW t \in Threads, TestQueue(t) PROVE Quiet' /\ FlowInOrder'
  <2>1. Quiet'
    BY <1>0, <1>11, QueuesLive DEF TestQueue, Quiet, TypeOK, Goto, QuitLabels, CleanupLabels, CreatingLabels, Home
  <2>2. FlowInOrder'
    BY <1>0, <1>11, FlowFrame, QueuesLive DEF TestQueue, Quiet, TypeOK, Goto, Busy, Home
  <2> QED
    BY <2>1, <2>2
<1>12. ASSUME NEW t \in Threads, Notify(t) PROVE Quiet' /\ FlowInOrder'
  <2>1. Quiet'
    BY <1>0, <1>12, QueuesLive DEF Notify, NotifyOne, Waiting, Quiet, TypeOK, Goto, QuitLabels, CleanupLabels, CreatingLabels, Home
  <2>2. FlowInOrder'
    BY <1>0, <1>12, FlowFrame, QueuesLive DEF Notify, NotifyOne, Waiting, Quiet, TypeOK, Goto, Busy, Home
  <2> QED
    BY <2>1, <2>2
<1>13. ASSUME NEW t \in Threads, SyncConfigure(t) PROVE Quiet' /\ FlowInOrder'
  <2>1. Quiet'
    BY <1>0, <1>13, QueuesLive DEF SyncConfigure, CurlInit, Quiet, TypeOK, Goto, QuitLabels, CleanupLabels, CreatingLabels, Home
  <2>2. FlowInOrder'
    BY <1>0, <1>13, FlowFrame, QueuesLive DEF SyncConfigure, CurlInit, Quiet, TypeOK, Goto, Busy, Home
  <2> QED
    BY <2>1, <2>2
<1>14. ASSUME NEW t \in Threads, SyncPerform(t) PROVE Quiet' /\ FlowInOrder'
  <2>1. Quiet'
    BY <1>0, <1>14, QueuesLive DEF SyncPerform, Quiet, TypeOK, Goto, QuitLabels, CleanupLabels, CreatingLabels, Home
  <2>2. FlowInOrder'
    BY <1>0, <1>14, FlowFrame, QueuesLive DEF SyncPerform, Quiet, TypeOK, Goto, Busy, Home
  <2> QED
    BY <2>1, <2>2
<1>15. ASSUME NEW t \in Threads, NewResponses(t) PROVE Quiet' /\ FlowInOrder'
  <2>1. t = Main
    BY <1>15 DEF NewResponses, ThreadInv, CallersApart, CreatingLabels, Threads
  <2>2. Quiet'
    BY <1>0, <1>15, <2>1 DEF NewResponses, Quiet, TypeOK, Goto, QuitLabels, CleanupLabels, CreatingLabels
  <2>3. UNCHANGED responseQueue
    BY <1>0, <1>15, <2>1 DEF NewResponses, Quiet, CreatingLabels
  <2>4. FlowInOrder'
    BY <1>0, <1>15, <2>3, FlowFrame DEF NewResponses, Quiet, TypeOK, Goto, Busy
  <2> QED
    BY <2>2, <2>4
<1>16. ASSUME NEW t \in Threads, Spawn(t) PROVE Quiet' /\ FlowInOrder'
  <2>1. t = Main /\ spawned + 1 \in Workers
    BY <1>16, BoundsAssumption
       DEF Spawn, ThreadInv, CallersApart, CreatingLabels, Threads, TypeOK, Workers
  <2>2. pc'[Main] = "resetQuit" /\ pc'[spawned + 1] = "loop"
    BY <1>16, <2>1 DEF Spawn, TypeOK
  <2>3. \A u \in Threads \ {Main, spawned + 1} : pc'[u] = pc[u]
    BY <1>16, <2>1 DEF Spawn, TypeOK
  <2>4. ~Busy(spawned + 1)
    BY <1>0, <1>16, <2>1 DEF Spawn, ThreadInv, QueueServed, Quiet, Serving, Busy, CreatingLabels
  <2>5. Quiet'
    BY <1>0, <1>16, <2>1, <2>2, <2>3 DEF Spawn, Quiet, QuitLabels, CleanupLabels, CreatingLabels
  <2>6. FlowInOrder'
    BY <1>0, <1>16, <2>2, <2>3, <2>4, FlowFrame DEF Spawn, Quiet, Busy
  <2> QED
    BY <2>5, <2>6
<1>17. ASSUME NEW t \in Threads, LazyInit(t) PROVE Quiet' /\ FlowInOrder'
  <2>1. CASE s_requestQueue # "null"
    <3>1. Quiet'
      BY <1>0, <1>17, <2>1 DEF LazyInit, Quiet, TypeOK, Goto, QuitLabels, CleanupLabels, CreatingLabels
    <3>2. FlowInOrder'
      BY <1>0, <1>17, <2>1, FlowFrame DEF LazyInit, Quiet, TypeOK, Goto, Busy
    <3> QED
      BY <3>1, <3>2
  <2>2. CASE s_requestQueue = "null"
    <3>1. t = Main
      BY <1>0, <1>17, <2>2, QueuesLive DEF LazyInit, Serving, Threads
    <3>2. Quiet'
      BY <1>0, <1>17, <2>2, <3>1 DEF LazyInit, Quiet, TypeOK, Goto, QuitLabels, CleanupLabels, CreatingLabels
    <3>3. UNCHANGED requestQueue
      BY <1>0, <1>17, <2>2 DEF LazyInit, Quiet
    <3>4. FlowInOrder'
      BY <1>0, <1>17, <2>2, <3>3, FlowFrame DEF LazyInit, Quiet, TypeOK, Goto, Busy
    <3> QED
      BY <3>2, <3>4
  <2> QED
    BY <2>1, <2>2
<1>18. ASSUME NEW w \in Workers, Take(w) PROVE Quiet' /\ FlowInOrder'
  <2>1. Serving(w) /\ ~Busy(w) /\ s_requestQueue = "live"
    BY <1>0, <1>18, QueuesLive DEF Take, Serving, Busy
  <2>2. \A v \in Workers : ~Busy(v)
    BY <1>0, <1>18, <2>1 DEF ThreadInv, QueueServed, Quiet, Serving, Busy
  <2>3. delivered \o responseQueue \o requestQueue = accepted
    BY <1>0, <1>18, <2>2 DEF FlowInOrder, Quiet
  <2>4. TakeRequest(w)
    BY <1>18, <2>1 DEF Take
  <2>5. CASE requestQueue = <<>>
    <3>1. Quiet'
      BY <1>0, <1>18, <2>1, <2>4, <2>5, QueuesLive DEF TakeRequest, Quiet, TypeOK, Goto, QuitLabels, CleanupLabels, CreatingLabels
    <3>2. FlowInOrder'
      BY <1>0, <1>18, <2>4, <2>5, FlowFrame DEF Take, TakeRequest, Quiet, TypeOK, Goto, Busy
    <3> QED
      BY <3>1, <3>2
  <2>6. CASE requestQueue # <<>>
    <3>1. PICK label \in {"finish", "configure"} : Goto(w, label)
      BY <2>4, <2>6 DEF TakeRequest
    <3>2. Quiet'
      BY <1>0, <1>18, <2>1, <2>4, <2>6, <3>1, QueuesLive
         DEF TakeRequest, Quiet, TypeOK, Goto, QuitLabels, CleanupLabels, CreatingLabels
    <3>3. \A v \in Workers : Busy(v)' <=> v = w
      BY <2>2, <3>1 DEF TypeOK, Goto, Busy
    <3>4. inHand'[w] = Head(requestQueue) /\ requestQueue' = Tail(requestQueue)
      BY <2>4, <2>6 DEF TakeRequest, TypeOK
    <3>5. delivered \o responseQueue \o <<Head(requestQueue)>> \o Tail(requestQueue) = accepted
      <4>1. delivered \in Seq(Requests) /\ responseQueue \in Seq(Requests) /\ requestQueue \in Seq(Requests)
        BY DEF TypeOK
      <4>2. PICK one : one = <<Head(requestQueue)>>
        OBVIOUS
      <4>3. delivered \o responseQueue \o one \o Tail(requestQueue)
              = delivered \o responseQueue \o requestQueue
        BY <2>6, <4>1, <4>2, TakeFlow
      <4> QED
        BY <2>3, <4>2, <4>3
    <3>6. UNCHANGED <<delivered, responseQueue, accepted>>
      BY <2>4 DEF TakeRequest
    <3> QED
      BY <3>2, <3>3, <3>4, <3>5, <3>6 DEF FlowInOrder
  <2> QED
    BY <2>5, <2>6
<1>19. ASSUME NEW w \in Workers, Publish(w) PROVE Quiet' /\ FlowInOrder'
  <2>1. Serving(w) /\ Busy(w) /\ s_responseQueue = "live" /\ inHand[w] \in Requests
    BY <1>0, <1>19, QueuesLive DEF Publish, Serving, Busy, TypeOK, HandOK, AsyncLabels
  <2>2. \A v \in Workers : Busy(v) => v = w
    BY <1>0, <1>19, <2>1 DEF ThreadInv, QueueServed, Quiet, Serving, Busy
  <2>3. delivered \o responseQueue \o <<inHand[w]>> \o requestQueue = accepted
    BY <1>0, <1>19, <2>1 DEF FlowInOrder, Quiet
  <2>4. PublishResponse(w)
    BY <1>19, <2>1 DEF Publish
  <2>5. Quiet'
    BY <1>0, <1>19, <2>1, <2>4, QueuesLive DEF PublishResponse, Quiet, TypeOK, Goto, QuitLabels, CleanupLabels, CreatingLabels
  <2>6. \A v \in Workers : ~Busy(v)'
    BY <2>2, <2>4 DEF PublishResponse, TypeOK, Goto, Busy
  <2>7. delivered \o Append(responseQueue, inHand[w]) \o requestQueue = accepted
    <3>1. delivered \in Seq(Requests) /\ responseQueue \in Seq(Requests) /\ requestQueue \in Seq(Requests)
      BY DEF TypeOK
    <3>2. delivered \o Append(responseQueue, inHand[w])
            = Append(delivered \o responseQueue, inHand[w])
      BY <2>1, <3>1, PushFlow
    <3>3. delivered \o responseQueue \in Seq(Requests)
      BY <3>1, ConcatProperties
    <3>4. Append(delivered \o responseQueue, inHand[w])
            = delivered \o responseQueue \o <<inHand[w]>>
      BY <2>1, <3>3, AppendIsConcat
    <3> QED
      BY <2>3, <3>2, <3>4
  <2>8. responseQueue' = Append(responseQueue, inHand[w]) /\ UNCHANGED <<delivered, requestQueue, accepted>>
    BY <2>4 DEF PublishResponse
  <2> QED
    BY <2>5, <2>6, <2>7, <2>8 DEF FlowInOrder
<1>20. ASSUME NEW w \in Workers, Pop(w) PROVE Quiet' /\ FlowInOrder'
  <2>1. Serving(w) /\ ~Busy(w) /\ s_responseQueue = "live"
    BY <1>0, <1>20, QueuesLive DEF Pop, Serving, Busy
  <2>2. \A v \in Workers : ~Busy(v)
    BY <1>0, <1>20, <2>1 DEF ThreadInv, QueueServed, Quiet, Serving, Busy
  <2>3. delivered \o responseQueue \o requestQueue = accepted
    BY <1>0, <1>20, <2>2 DEF FlowInOrder, Quiet
  <2>4. PopResponse(w)
    BY <1>20, <2>1 DEF Pop
  <2>5. Quiet'
    BY <1>0, <1>20, <2>1, <2>4, QueuesLive DEF PopResponse, Quiet, TypeOK, Goto, QuitLabels, CleanupLabels, CreatingLabels
  <2>6. \A v \in Workers : ~Busy(v)'
    BY <2>2, <2>4 DEF PopResponse, TypeOK, Goto, Busy
  <2>7. delivered' \o responseQueue' = delivered \o responseQueue
    <3>1. CASE responseQueue = <<>>
      BY <2>4, <3>1 DEF PopResponse
    <3>2. CASE responseQueue # <<>>
      <4>1. delivered' = Append(delivered, Head(responseQueue)) /\ responseQueue' = Tail(responseQueue)
        BY <2>4, <3>2 DEF PopResponse
      <4> QED
        BY <3>2, <4>1, PopFlow DEF TypeOK
    <3> QED
      BY <3>1, <3>2
  <2>8. UNCHANGED <<requestQueue, accepted>>
    BY <2>4 DEF PopResponse
  <2> QED
    BY <2>3, <2>5, <2>6, <2>7, <2>8 DEF FlowInOrder
<1>21. ASSUME NEW t \in Threads, Push(t) PROVE Quiet' /\ FlowInOrder'
  <2>1. s_requestQueue = "live" /\ inHand[t] \in Requests
    BY <1>0, <1>21, QueuesLive DEF Push, Serving, Threads, TypeOK, HandOK, AsyncLabels
  <2>2. PushRequest(t)
    BY <1>21, <2>1 DEF Push
  <2>3. pc[Main] \notin CreatingLabels
    BY <1>0, <1>21, QueuesLive DEF Push, Serving, Threads, CreatingLabels
  <2>4. Quiet'
    BY <1>0, <1>21, <2>1, <2>2, <2>3 DEF PushRequest, Quiet, TypeOK, Goto, QuitLabels, CleanupLabels, CreatingLabels
  <2>5. \A v \in Workers : /\ Busy(v)' <=> Busy(v)
                           /\ Busy(v) => inHand'[v] = inHand[v] /\ inHand[v] \in Requests
    <3>1. ~Busy(t) /\ "notify" \notin {"configure", "perform", "finish", "publish"}
      BY <1>21 DEF Push, Busy
    <3>2. pc' = [pc EXCEPT ![t] = "notify"] /\ inHand' = [inHand EXCEPT ![t] = NoRequest]
      BY <2>2 DEF PushRequest, Goto
    <3>3. \A v \in Workers : Busy(v) => inHand[v] \in Requests
      BY DEF TypeOK, HandOK, AsyncLabels, Busy
    <3> QED
      BY <3>1, <3>2, <3>3 DEF TypeOK, Busy
  <2>6. /\ requestQueue' = Append(requestQueue, inHand[t])
        /\ accepted' = Append(accepted, inHand[t])
        /\ UNCHANGED <<delivered, responseQueue>>
    BY <2>2 DEF PushRequest
  <2>7. CASE \A v \in Workers : ~Busy(v)
    <3>1. delivered \o responseQueue \in Seq(Requests)
      BY ConcatProperties DEF TypeOK
    <3>2. delivered \o responseQueue \o Append(requestQueue, inHand[t])
            = Append(delivered \o responseQueue \o requestQueue, inHand[t])
      BY <2>1, <3>1, PushFlow DEF TypeOK
    <3> QED
      BY <1>0, <2>4, <2>5, <2>6, <2>7, <3>2 DEF FlowInOrder, Quiet
  <2>8. CASE \E v \in Workers : Busy(v)
    <3>1. ASSUME NEW v \in Workers, Busy(v)
          PROVE  delivered \o responseQueue \o <<inHand[v]>> \o Append(requestQueue, inHand[t]) = accepted'
      <4>1. delivered \o responseQueue \o <<inHand[v]>> \in Seq(Requests)
        BY <2>5, <3>1, ConcatProperties DEF TypeOK
      <4>2. delivered \o responseQueue \o <<inHand[v]>> \o Append(requestQueue, inHand[t])
              = Append(delivered \o responseQueue \o <<inHand[v]>> \o requestQueue, inHand[t])
        BY <2>1, <4>1, PushFlow DEF TypeOK
      <4>3. delivered \o responseQueue \o <<inHand[v]>> \o requestQueue = accepted
        BY <1>0, <3>1 DEF FlowInOrder, Quiet
      <4> QED
        BY <2>6, <4>2, <4>3
    <3>2. \A v \in Workers : Busy(v)' =>
            delivered' \o responseQueue' \o <<inHand'[v]>> \o requestQueue' = accepted'
      BY <2>5, <2>6, <3>1
    <3>3. \E v \in Workers : Busy(v)'
      BY <2>5, <2>8
    <3> QED
      BY <2>4, <3>2, <3>3 DEF FlowInOrder
  <2> QED
    BY <2>7, <2>8
<1>22. ASSUME NEW w \in Workers, Clear(w) PROVE Quiet' /\ FlowInOrder'
  BY <1>0, <1>22 DEF Clear, Quiet, CleanupLabels
<1>23. ASSUME NEW w \in Workers, DeleteRequests(w) PROVE Quiet' /\ FlowInOrder'
  BY <1>0, <1>23 DEF DeleteRequests, Quiet, CleanupLabels
<1>24. ASSUME NEW w \in Workers, NullRequests(w) PROVE Quiet' /\ FlowInOrder'
  BY <1>0, <1>24 DEF NullRequests, Quiet, CleanupLabels
<1>25. ASSUME NEW w \in Workers, DeleteResponses(w) PROVE Quiet' /\ FlowInOrder'
  BY <1>0, <1>25 DEF DeleteResponses, Quiet, CleanupLabels
<1>26. ASSUME NEW w \in Workers, NullResponses(w) PROVE Quiet' /\ FlowInOrder'
  BY <1>0, <1>26 DEF NullResponses, Quiet, CleanupLabels
<1>27. ASSUME NEW t \in Threads, QuitFlag(t) PROVE Quiet' /\ FlowInOrder'
  BY <1>0, <1>27 DEF QuitFlag, Quiet, QuitLabels
<1>28. ASSUME NEW t \in Threads, QuitNotify(t) PROVE Quiet' /\ FlowInOrder'
  BY <1>0, <1>28 DEF QuitNotify, Quiet, QuitLabels
<1>29. ASSUME NEW t \in Threads, QuitNull(t) PROVE Quiet' /\ FlowInOrder'
  BY <1>0, <1>29 DEF QuitNull, Quiet, QuitLabels
<1>30. ASSUME NEW t \in Threads, QuitFree(t) PROVE Quiet' /\ FlowInOrder'
  BY <1>0, <1>30 DEF QuitFree, Quiet, QuitLabels
<1>31. ASSUME NEW t \in Threads, StartDestroy(t) PROVE Quiet' /\ FlowInOrder'
  BY <1>0, <1>31 DEF StartDestroy
<1>32. ASSUME NEW t \in Threads, NEW r \in Requests \cup {NoRequest}, StartSend(t, r) PROVE Quiet' /\ FlowInOrder'
  <2>1. Quiet'
    BY <1>0, <1>32 DEF StartSend, Quiet, TypeOK, Goto, QuitLabels, CleanupLabels, CreatingLabels, Home
  <2>2. FlowInOrder'
    BY <1>0, <1>32, FlowFrame DEF StartSend, Quiet, TypeOK, Goto, Busy, Home
  <2> QED
    BY <2>1, <2>2
<1>33. ASSUME NEW t \in Threads, NEW r \in SyncRequests, StartSync(t, r) PROVE Quiet' /\ FlowInOrder'
  <2>1. Quiet'
    BY <1>0, <1>33 DEF StartSync, Quiet, TypeOK, Goto, QuitLabels, CleanupLabels, CreatingLabels, Home
  <2>2. FlowInOrder'
    BY <1>0, <1>33, FlowFrame DEF StartSync, Quiet, TypeOK, Goto, Busy, Home
  <2> QED
    BY <2>1, <2>2
<1>34. CASE UNCHANGED vars
  <2>1. Quiet'
    BY <1>0, <1>34 DEF vars, Quiet
  <2>2. FlowInOrder'
    BY <1>0, <1>34 DEF vars, FlowInOrder, Busy
  <2> QED
    BY <2>1, <2>2
<1> QED
  BY <1>1, <1>2, <1>3, <1>4, <1>5, <1>6, <1>7, <1>8, <1>9, <1>10, <1>11, <1>12, <1>13, <1>14, <1>15, <1>16, <1>17, <1>18, <1>19, <1>20, <1>21, <1>22, <1>23, <1>24, <1>25, <1>26, <1>27, <1>28, <1>29, <1>30, <1>31, <1>32, <1>33, <1>34 DEF Next, WorkerStep, CallStep, StartCall

LEMMA FlowCorrect == Spec => []FlowInv
<1>1. Init => FlowInv
  <2> SUFFICES ASSUME Init PROVE Quiet /\ FlowInOrder
    BY DEF FlowInv
  <2>1. Quiet
    <3>1. \A t \in Threads : pc[t] \in {"idle", "unborn"}
      BY DEF Init
    <3> QED
      BY <3>1, WorkersAreThreads DEF Init, Quiet, QuitLabels, CleanupLabels, CreatingLabels
  <2>2. FlowInOrder
    <3>1. \A w \in Workers : ~Busy(w)
      BY MainIsNoWorker, WorkersAreThreads DEF Init, Busy
    <3>2. delivered \o responseQueue \o requestQueue = accepted
      BY ConcatEmptySeq, NoItems DEF Init
    <3> QED
      BY <3>1, <3>2 DEF FlowInOrder
  <2> QED
    BY <2>1, <2>2
<1> QED
  BY <1>1, TypeCorrect, ThreadCorrect, FlowStep, PTL DEF Spec

(* Until destroyInstance is called, requests are answered in the order of  *)
(* acceptance, none lost, none twice: what was dispatched, then the        *)
(* responses queued, then the request performed, then the requests queued, *)
(* are the requests accepted.                                              *)
THEOREM RequestsFlowInOrder == Spec => []FlowInOrder
<1>1. FlowInv => FlowInOrder
  BY DEF FlowInv, FlowInOrder
<1> QED
  BY <1>1, FlowCorrect, PTL

(* Until destroyInstance is called, no thread dereferences a null or freed *)
(* queue: the lazy creation, step by step, is always ahead of its users.   *)
THEOREM QueuesSafeBeforeDestroy == Spec => []NoFaultBeforeDestroy
<1>1. FlowInv => NoFaultBeforeDestroy
  BY DEF FlowInv, NoFaultBeforeDestroy, Quiet
<1> QED
  BY <1>1, FlowCorrect, PTL

-------------------------------------------------------------------------------
(* The client implements AsyncService before the first destroy. *)

(* A request that a thread is sending has not been accepted, and no other  *)
(* thread is sending it.                                                   *)
Holding(t) == pc[t] \in SendingLabels \cup {"push"}
FreshInv ==
  \A t \in Threads : Holding(t) /\ inHand[t] # NoRequest =>
    /\ inHand[t] \notin Range(accepted)
    /\ \A u \in Threads : Holding(u) /\ inHand[u] = inHand[t] => u = t

LEMMA FreshFrame ==
  ASSUME FreshInv, UNCHANGED accepted,
         \A t \in Threads : Holding(t)' => Holding(t) /\ inHand'[t] = inHand[t]
  PROVE  FreshInv'
BY DEF FreshInv

LEMMA RangeAppend ==
  ASSUME NEW s \in Seq(Requests), NEW h \in Requests
  PROVE  Range(Append(s, h)) = Range(s) \cup {h}
<1>1. PICK one \in Seq(Requests) : one = <<h>>
  <2>1. <<h>> \in Seq(Requests)
    OBVIOUS
  <2> QED
    BY <2>1
<1>2. Append(s, h) = s \o one
  BY <1>1, AppendIsConcat
<1>3. Range(one) = {h}
  BY <1>1 DEF Range
<1>4. Range(s \o one) = Range(s) \cup Range(one)
  BY RangeConcatenation
<1> QED
  BY <1>2, <1>3, <1>4

LEMMA FreshStep == TypeOK /\ FreshInv /\ [Next]_vars => FreshInv'
<1> SUFFICES ASSUME TypeOK, FreshInv, [Next]_vars PROVE FreshInv'
  OBVIOUS
<1> USE WorkersAreThreads
    DEF queueVars, requestVars, responseVars, globalVars, workVars, countVars, historyVars, At
<1>1. ASSUME NEW w \in Workers, TestQuit(w) PROVE FreshInv'
  BY <1>1, FreshFrame DEF TestQuit, TypeOK, Goto, Home, Holding, SendingLabels
<1>2. ASSUME NEW w \in Workers, Take(w) PROVE FreshInv'
  BY <1>2, FreshFrame DEF Take, TakeRequest, Crash, TypeOK, Goto, Home, Holding, SendingLabels
<1>3. ASSUME NEW w \in Workers, Sleep(w) PROVE FreshInv'
  BY <1>3, FreshFrame DEF Sleep, TypeOK, Goto, Home, Holding, SendingLabels
<1>4. ASSUME NEW w \in Workers, SpuriousWakeup(w) PROVE FreshInv'
  BY <1>4, FreshFrame DEF SpuriousWakeup, TypeOK, Goto, Home, Holding, SendingLabels
<1>5. ASSUME NEW w \in Workers, Configure(w) PROVE FreshInv'
  BY <1>5, FreshFrame DEF Configure, CurlInit, TypeOK, Goto, Home, Holding, SendingLabels
<1>6. ASSUME NEW w \in Workers, Perform(w) PROVE FreshInv'
  BY <1>6, FreshFrame DEF Perform, TypeOK, Goto, Home, Holding, SendingLabels
<1>7. ASSUME NEW w \in Workers, Finish(w) PROVE FreshInv'
  BY <1>7, FreshFrame DEF Finish, TypeOK, Goto, Home, Holding, SendingLabels
<1>8. ASSUME NEW w \in Workers, Publish(w) PROVE FreshInv'
  BY <1>8, FreshFrame DEF Publish, PublishResponse, Crash, TypeOK, Goto, Home, Holding, SendingLabels
<1>9. ASSUME NEW w \in Workers, Check(w) PROVE FreshInv'
  BY <1>9, FreshFrame DEF Check, TypeOK, Goto, Home, Holding, SendingLabels
<1>10. ASSUME NEW w \in Workers, Dispatch(w) PROVE FreshInv'
  BY <1>10, FreshFrame DEF Dispatch, TypeOK, Goto, Home, Holding, SendingLabels
<1>11. ASSUME NEW w \in Workers, Pop(w) PROVE FreshInv'
  BY <1>11, FreshFrame DEF Pop, PopResponse, Crash, TypeOK, Goto, Home, Holding, SendingLabels
<1>12. ASSUME NEW w \in Workers, CallbackReturns(w) PROVE FreshInv'
  BY <1>12, FreshFrame DEF CallbackReturns, TypeOK, Goto, Home, Holding, SendingLabels
<1>13. ASSUME NEW w \in Workers, Clear(w) PROVE FreshInv'
  BY <1>13, FreshFrame DEF Clear, Crash, TypeOK, Goto, Home, Holding, SendingLabels
<1>14. ASSUME NEW w \in Workers, DeleteRequests(w) PROVE FreshInv'
  BY <1>14, FreshFrame DEF DeleteRequests, TypeOK, Goto, Home, Holding, SendingLabels
<1>15. ASSUME NEW w \in Workers, NullRequests(w) PROVE FreshInv'
  BY <1>15, FreshFrame DEF NullRequests, TypeOK, Goto, Home, Holding, SendingLabels
<1>16. ASSUME NEW w \in Workers, DeleteResponses(w) PROVE FreshInv'
  BY <1>16, FreshFrame DEF DeleteResponses, TypeOK, Goto, Home, Holding, SendingLabels
<1>17. ASSUME NEW w \in Workers, NullResponses(w) PROVE FreshInv'
  BY <1>17, FreshFrame DEF NullResponses, TypeOK, Goto, Home, Holding, SendingLabels
<1>18. ASSUME NEW t \in Threads, LazyInit(t) PROVE FreshInv'
  BY <1>18, FreshFrame DEF LazyInit, TypeOK, Goto, Home, Holding, SendingLabels
<1>19. ASSUME NEW t \in Threads, NewResponses(t) PROVE FreshInv'
  BY <1>19, FreshFrame DEF NewResponses, TypeOK, Goto, Home, Holding, SendingLabels
<1>20. ASSUME NEW t \in Threads, ResetQuit(t) PROVE FreshInv'
  BY <1>20, FreshFrame DEF ResetQuit, TypeOK, Goto, Home, Holding, SendingLabels
<1>21. ASSUME NEW t \in Threads, TestQueue(t) PROVE FreshInv'
  BY <1>21, FreshFrame DEF TestQueue, TypeOK, Goto, Home, Holding, SendingLabels
<1>22. ASSUME NEW t \in Threads, Notify(t) PROVE FreshInv'
  BY <1>22, FreshFrame DEF Notify, NotifyOne, Waiting, TypeOK, Goto, Home, Holding, SendingLabels
<1>23. ASSUME NEW t \in Threads, SyncConfigure(t) PROVE FreshInv'
  BY <1>23, FreshFrame DEF SyncConfigure, CurlInit, TypeOK, Goto, Home, Holding, SendingLabels
<1>24. ASSUME NEW t \in Threads, SyncPerform(t) PROVE FreshInv'
  BY <1>24, FreshFrame DEF SyncPerform, TypeOK, Goto, Home, Holding, SendingLabels
<1>25. ASSUME NEW t \in Threads, QuitFlag(t) PROVE FreshInv'
  BY <1>25, FreshFrame DEF QuitFlag, TypeOK, Goto, Home, Holding, SendingLabels
<1>26. ASSUME NEW t \in Threads, QuitNotify(t) PROVE FreshInv'
  BY <1>26, FreshFrame DEF QuitNotify, NotifyOne, Waiting, TypeOK, Goto, Home, Holding, SendingLabels
<1>27. ASSUME NEW t \in Threads, QuitNull(t) PROVE FreshInv'
  BY <1>27, FreshFrame DEF QuitNull, TypeOK, Goto, Home, Holding, SendingLabels
<1>28. ASSUME NEW t \in Threads, QuitFree(t) PROVE FreshInv'
  BY <1>28, FreshFrame DEF QuitFree, TypeOK, Goto, Home, Holding, SendingLabels
<1>29. ASSUME NEW t \in Threads, StartDestroy(t) PROVE FreshInv'
  BY <1>29, FreshFrame DEF StartDestroy, TypeOK, Goto, Home, Holding, SendingLabels
<1>30. ASSUME NEW t \in Threads, Spawn(t) PROVE FreshInv'
  BY <1>30, BoundsAssumption, FreshFrame DEF Spawn, TypeOK, Goto, Home, Holding, SendingLabels
<1>31. ASSUME NEW t \in Threads, NEW r \in SyncRequests, StartSync(t, r) PROVE FreshInv'
  BY <1>31, FreshFrame DEF StartSync, TypeOK, Goto, Home, Holding, SendingLabels
<1>32. ASSUME NEW t \in Threads, NEW r \in Requests \cup {NoRequest}, StartSend(t, r) PROVE FreshInv'
  <2>1. inHand' = [inHand EXCEPT ![t] = r] /\ UNCHANGED accepted
    BY <1>32 DEF StartSend
  <2>2. \A u \in Threads \ {t} : Holding(u)' <=> Holding(u)
    BY <1>32 DEF StartSend, TypeOK, Goto, Holding
  <2>3. r # NoRequest => r \notin Range(accepted) /\ \A u \in Threads : inHand[u] # r
    BY <1>32 DEF StartSend, Fresh
  <2> QED
    BY <2>1, <2>2, <2>3 DEF FreshInv, TypeOK
<1>33. ASSUME NEW t \in Threads, Push(t) PROVE FreshInv'
  <2>1. CASE Crash(s_requestQueue)
    BY <2>1, FreshFrame DEF Crash, Holding
  <2>2. CASE PushRequest(t)
    <3>1. inHand[t] \in Requests /\ Holding(t)
      BY <1>33 DEF Push, TypeOK, HandOK, AsyncLabels, Holding
    <3>2. Range(accepted') = Range(accepted) \cup {inHand[t]}
      BY <2>2, <3>1, RangeAppend DEF PushRequest, TypeOK
    <3>3. \A u \in Threads : Holding(u)' => u # t /\ Holding(u) /\ inHand'[u] = inHand[u]
      BY <2>2 DEF PushRequest, TypeOK, Goto, Holding, SendingLabels
    <3> QED
      BY <3>1, <3>2, <3>3 DEF FreshInv
  <2> QED
    BY <1>33, <2>1, <2>2 DEF Push
<1>34. CASE UNCHANGED vars
  BY <1>34, FreshFrame DEF vars, Holding
<1> QED
  BY <1>1, <1>2, <1>3, <1>4, <1>5, <1>6, <1>7, <1>8, <1>9, <1>10, <1>11, <1>12, <1>13, <1>14, <1>15, <1>16, <1>17, <1>18, <1>19, <1>20, <1>21, <1>22, <1>23, <1>24, <1>25, <1>26, <1>27, <1>28, <1>29, <1>30, <1>31, <1>32, <1>33, <1>34 DEF Next, WorkerStep, CallStep, StartCall

LEMMA FreshCorrect == Spec => []FreshInv
<1>1. Init => FreshInv
  BY DEF Init, FreshInv, Range
<1> QED
  BY <1>1, TypeCorrect, FreshStep, PTL DEF Spec

(* A dispatched response is the next one due. *)
LEMMA PopIsComplete ==
  ASSUME TypeOK, ThreadInv, FlowInOrder, destroys = 0,
         NEW w \in Workers, At(w, "pop"), PopResponse(w), responseQueue # <<>>
  PROVE  Service!Complete
<1>1. Serving(w) /\ ~Busy(w) /\ fault = "none"
  BY DEF At, Serving, Busy
<1>2. \A v \in Workers : ~Busy(v)
  BY <1>1 DEF ThreadInv, QueueServed, Serving, Busy
<1>3. delivered \o responseQueue \o requestQueue = accepted
  BY <1>1, <1>2 DEF FlowInOrder
<1>4. /\ delivered \in Seq(Requests) /\ responseQueue \in Seq(Requests)
      /\ requestQueue \in Seq(Requests) /\ delivered \o responseQueue \in Seq(Requests)
  BY ConcatProperties DEF TypeOK
<1>5. Len(responseQueue) >= 1
  BY <1>4
<1>6. /\ Len(accepted) = Len(delivered) + Len(responseQueue) + Len(requestQueue)
      /\ accepted[Len(delivered) + 1] = responseQueue[1]
  BY <1>3, <1>4, <1>5, ConcatProperties
<1>7. delivered' = Append(delivered, Head(responseQueue)) /\ UNCHANGED accepted
  BY DEF PopResponse
<1>8. Len(delivered) < Len(accepted) /\ Head(responseQueue) = responseQueue[1]
  BY <1>4, <1>5, <1>6
<1> QED
  BY <1>6, <1>7, <1>8 DEF Service!Complete

LEMMA ServiceStep ==
  TypeOK /\ ThreadInv /\ FreshInv /\ FlowInOrder /\ destroys = 0 /\ [Next]_vars
    => [Service!Next]_(Service!vars)
<1> SUFFICES ASSUME TypeOK, ThreadInv, FreshInv, FlowInOrder, destroys = 0, [Next]_vars
             PROVE  Service!Next \/ UNCHANGED historyVars
  BY DEF Service!vars, historyVars
<1> USE WorkersAreThreads DEF countVars, historyVars, At
<1>1. ASSUME NEW w \in Workers, Pop(w) PROVE Service!Next \/ UNCHANGED historyVars
  <2>1. CASE Crash(s_responseQueue)
    BY <2>1 DEF Crash
  <2>2. CASE PopResponse(w) /\ responseQueue = <<>>
    BY <2>2 DEF PopResponse
  <2>3. CASE PopResponse(w) /\ responseQueue # <<>>
    BY <1>1, <2>3, PopIsComplete DEF Pop, Service!Next
  <2> QED
    BY <1>1, <2>1, <2>2, <2>3 DEF Pop
<1>2. ASSUME NEW t \in Threads, Push(t) PROVE Service!Next \/ UNCHANGED historyVars
  <2>1. CASE Crash(s_requestQueue)
    BY <2>1 DEF Crash
  <2>2. CASE PushRequest(t)
    <3>1. inHand[t] \in Requests /\ inHand[t] # NoRequest /\ Holding(t)
      BY <1>2, RequestsAssumption DEF Push, TypeOK, HandOK, AsyncLabels, Holding
    <3>2. inHand[t] \notin Range(accepted)
      BY <3>1 DEF FreshInv
    <3>3. \A i \in 1..Len(accepted) : accepted[i] # inHand[t]
      BY <3>2 DEF Range, TypeOK
    <3>4. Service!Submit(inHand[t])
      BY <2>2, <3>3 DEF PushRequest, Service!Submit
    <3> QED
      BY <3>1, <3>4 DEF Service!Next
  <2> QED
    BY <1>2, <2>1, <2>2 DEF Push
<1>3. CASE Next /\ ~(\E w \in Workers : Pop(w)) /\ ~(\E t \in Threads : Push(t))
  BY <1>3 DEF Next, WorkerStep, CallStep, StartCall, TestQuit, Take, TakeRequest, Crash, Sleep,
      SpuriousWakeup, Configure, Perform, Finish, Publish, PublishResponse, Check,
      Dispatch, CallbackReturns, Clear, DeleteRequests, NullRequests,
      DeleteResponses, NullResponses, StartSend, LazyInit, NewResponses, Spawn, ResetQuit,
      TestQueue, Notify, StartSync, SyncConfigure, SyncPerform,
      StartDestroy, QuitFlag, QuitNotify, QuitNull, QuitFree
<1>4. CASE UNCHANGED vars
  BY <1>4 DEF vars
<1> QED
  BY <1>1, <1>2, <1>3, <1>4 DEF Next

(* A client that is never destroyed implements AsyncService: requests      *)
(* complete one at a time, each once, in the order of acceptance.          *)
THEOREM ClientImplementsService ==
  ASSUME MaxDestroys = 0
  PROVE  Spec => ImplementsAsyncService
<1>1. Init => Service!Init
  BY DEF Init, Service!Init
<1>2. TypeOK => destroys = 0
  BY DEF TypeOK
<1> QED
  BY <1>1, <1>2, ServiceStep, TypeCorrect, ThreadCorrect, FreshCorrect, RequestsFlowInOrder, PTL
     DEF Spec, ImplementsAsyncService, Service!Spec
-------------------------------------------------------------------------------
(* Requests on their way: what is true of them across destructions too. *)

(* A step that leaves alone what threads are busy with: it changes no      *)
(* response and no history, and at most empties a queue.                   *)
LeavesRequests ==
  /\ UNCHANGED <<response, accepted, delivered>>
  /\ requestQueue' \in {requestQueue, <<>>}
  /\ responseQueue' \in {responseQueue, <<>>}
  /\ \A w \in Workers : Busy(w)' =>
       pc'[w] = pc[w] /\ inHand'[w] = inHand[w] /\ attempt'[w] = attempt[w]

LEMMA CrashLeaves == ASSUME NEW pointer, Crash(pointer) PROVE LeavesRequests
BY DEF Crash, LeavesRequests, queueVars, workVars, historyVars, Busy

(* The steps that move a request on; every other one leaves them alone.    *)
Moves(w) ==
  \/ At(w, "take") /\ TakeRequest(w)
  \/ Configure(w) \/ Perform(w) \/ Finish(w)
  \/ At(w, "publish") /\ PublishResponse(w)
  \/ At(w, "pop") /\ PopResponse(w)

LEMMA StepKinds ==
  ASSUME TypeOK, [Next]_vars
  PROVE  \/ LeavesRequests
         \/ \E w \in Workers : Moves(w)
         \/ \E t \in Threads : At(t, "push") /\ PushRequest(t)
<1> USE WorkersAreThreads
    DEF queueVars, requestVars, responseVars, globalVars, workVars, countVars, historyVars, At
<1>1. ASSUME NEW w \in Workers,
             TestQuit(w) \/ Sleep(w) \/ SpuriousWakeup(w) \/ Check(w) \/ Dispatch(w)
               \/ CallbackReturns(w)
      PROVE  LeavesRequests
  BY <1>1 DEF TestQuit, Sleep, SpuriousWakeup, Check, Dispatch, CallbackReturns, TypeOK, Goto,
              LeavesRequests, Busy
<1>2. ASSUME NEW w \in Workers,
             DeleteRequests(w) \/ NullRequests(w) \/ DeleteResponses(w) \/ NullResponses(w)
      PROVE  LeavesRequests
  BY <1>2 DEF DeleteRequests, NullRequests, DeleteResponses, NullResponses, TypeOK, Goto,
              LeavesRequests, Busy
<1>3. ASSUME NEW w \in Workers, Clear(w) PROVE LeavesRequests
  BY <1>3, CrashLeaves DEF Clear, TypeOK, Goto, LeavesRequests, Busy
<1>4. ASSUME NEW w \in Workers, Take(w) \/ Publish(w) \/ Pop(w)
      PROVE  LeavesRequests \/ Moves(w)
  BY <1>4, CrashLeaves DEF Take, Publish, Pop, Moves
<1>5. ASSUME NEW w \in Workers, Configure(w) \/ Perform(w) \/ Finish(w) PROVE Moves(w)
  BY <1>5 DEF Moves
<1>6. ASSUME NEW t \in Threads, NEW r \in Requests \cup {NoRequest}, StartSend(t, r)
      PROVE  LeavesRequests
  BY <1>6 DEF StartSend, TypeOK, Goto, LeavesRequests, Busy
<1>7. ASSUME NEW t \in Threads, LazyInit(t) \/ NewResponses(t) \/ ResetQuit(t) PROVE LeavesRequests
  BY <1>7 DEF LazyInit, NewResponses, ResetQuit, TypeOK, Goto, LeavesRequests, Busy
<1>8. ASSUME NEW t \in Threads, Spawn(t) PROVE LeavesRequests
  BY <1>8, BoundsAssumption DEF Spawn, TypeOK, LeavesRequests, Busy
<1>9. ASSUME NEW t \in Threads, TestQueue(t) PROVE LeavesRequests
  BY <1>9 DEF TestQueue, TypeOK, Goto, Home, LeavesRequests, Busy
<1>10. ASSUME NEW t \in Threads, Push(t)
       PROVE  LeavesRequests \/ (At(t, "push") /\ PushRequest(t))
  BY <1>10, CrashLeaves DEF Push
<1>11. ASSUME NEW t \in Threads, Notify(t) \/ QuitNotify(t) PROVE LeavesRequests
  BY <1>11 DEF Notify, QuitNotify, NotifyOne, Waiting, TypeOK, Goto, Home, LeavesRequests, Busy
<1>12. ASSUME NEW t \in Threads, SyncConfigure(t) PROVE LeavesRequests
  BY <1>12 DEF SyncConfigure, CurlInit, InitFails, TypeOK, Goto, Home, LeavesRequests, Busy
<1>13. ASSUME NEW t \in Threads, SyncPerform(t) PROVE LeavesRequests
  <2>1. \A u \in Threads \ {t} : attempt'[u] = attempt[u]
    BY <1>13 DEF SyncPerform, CurlPerform, TypeOK
  <2>2. pc' = [pc EXCEPT ![t] = Home(t)] /\ inHand' = [inHand EXCEPT ![t] = NoRequest]
    BY <1>13 DEF SyncPerform, Goto
  <2> QED
    BY <1>13, <2>1, <2>2 DEF SyncPerform, TypeOK, Home, LeavesRequests, Busy
<1>14. ASSUME NEW t \in Threads, NEW r \in SyncRequests, StartSync(t, r) PROVE LeavesRequests
  BY <1>14 DEF StartSync, TypeOK, Goto, Home, LeavesRequests, Busy
<1>15. ASSUME NEW t \in Threads,
              StartDestroy(t) \/ QuitFlag(t) \/ QuitNull(t) \/ QuitFree(t)
       PROVE  LeavesRequests
  BY <1>15 DEF StartDestroy, QuitFlag, QuitNull, QuitFree, TypeOK, Goto, Home, LeavesRequests, Busy
<1>16. CASE UNCHANGED vars
  BY <1>16 DEF vars, LeavesRequests, Busy
<1>17. ASSUME NEW w \in Workers, WorkerStep(w) \/ CallbackReturns(w) \/ SpuriousWakeup(w)
       PROVE  LeavesRequests \/ Moves(w)
  BY <1>1, <1>2, <1>3, <1>4, <1>5, <1>17 DEF WorkerStep
<1>18. ASSUME NEW t \in Threads, CallStep(t)
       PROVE  LeavesRequests \/ (At(t, "push") /\ PushRequest(t))
  BY <1>7, <1>8, <1>9, <1>10, <1>11, <1>12, <1>13, <1>15, <1>18 DEF CallStep
<1>19. ASSUME NEW t \in Threads, StartCall(t) PROVE LeavesRequests
  BY <1>6, <1>14, <1>15, <1>19 DEF StartCall
<1> QED
  BY <1>16, <1>17, <1>18, <1>19 DEF Next

(* The verdict of a typed request: the response that is built agrees with  *)
(* the answer in every state, and so does the attempt it is built from.    *)
Agrees(ok, code) == ok <=> code \in 200..299
VerdictInv ==
  /\ \A r \in Requests \ UnknownRequests : Agrees(response[r].succeed, response[r].code)
  /\ \A w \in Workers : pc[w] = "finish" /\ inHand[w] \notin UnknownRequests =>
       Agrees(attempt[w].ret = 0, attempt[w].code)

LEMMA VerdictFrame ==
  ASSUME VerdictInv, UNCHANGED response,
         \A w \in Workers : pc'[w] = "finish" =>
           pc[w] = "finish" /\ inHand'[w] = inHand[w] /\ attempt'[w] = attempt[w]
  PROVE  VerdictInv'
BY DEF VerdictInv

(* What curl leaves in the locals of the task is a verdict.                *)
LEMMA InitFailsAgrees ==
  ASSUME TypeOK, NEW t \in Threads, InitFails(t)
  PROVE  Agrees(attempt'[t].ret = 0, attempt'[t].code)
BY DEF InitFails, TypeOK, Agrees

LEMMA PerformAgrees ==
  ASSUME TypeOK, NEW t \in Threads, CurlPerform(t)
  PROVE  Agrees(attempt'[t].ret = 0, attempt'[t].code)
<1>1. CASE attempt' = [attempt EXCEPT ![t] = [ret |-> 1, code |-> -1]]
  BY <1>1 DEF TypeOK, Agrees
<1>2. ASSUME NEW c \in StatusCodes,
             attempt' = [attempt EXCEPT ![t] = [ret |-> IF Is2xx(c) THEN 0 ELSE 1, code |-> c]]
      PROVE  Agrees(attempt'[t].ret = 0, attempt'[t].code)
  <2>1. attempt'[t] = [ret |-> IF Is2xx(c) THEN 0 ELSE 1, code |-> c]
    BY <1>2 DEF TypeOK
  <2> QED
    BY <2>1 DEF Is2xx, Agrees
<1> QED
  BY <1>1, <1>2 DEF CurlPerform

LEMMA VerdictStep == TypeOK /\ VerdictInv /\ [Next]_vars => VerdictInv'
<1> SUFFICES ASSUME TypeOK, VerdictInv, [Next]_vars PROVE VerdictInv'
  OBVIOUS
<1> USE WorkersAreThreads DEF workVars, At
<1>1. CASE LeavesRequests
  BY <1>1, VerdictFrame DEF LeavesRequests, Busy
<1>2. ASSUME NEW w \in Workers, At(w, "take"), TakeRequest(w) PROVE VerdictInv'
  <2>1. UNCHANGED response
    BY <1>2 DEF TakeRequest
  <2>2. pc'[w] = "finish" => inHand'[w] \in UnknownRequests
    BY <1>2 DEF TakeRequest, Goto, TypeOK
  <2>3. \A v \in Workers \ {w} :
          pc'[v] = pc[v] /\ inHand'[v] = inHand[v] /\ attempt'[v] = attempt[v]
    BY <1>2 DEF TakeRequest, Goto, TypeOK
  <2> QED
    BY <2>1, <2>2, <2>3 DEF VerdictInv
<1>3. ASSUME NEW w \in Workers, Configure(w) PROVE VerdictInv'
  <2>1. UNCHANGED <<response, inHand>>
    BY <1>3 DEF Configure
  <2>2. \A v \in Workers \ {w} : pc'[v] = pc[v] /\ attempt'[v] = attempt[v]
    BY <1>3 DEF Configure, CurlInit, InitFails, Goto, TypeOK
  <2>3. pc'[w] = "finish" => InitFails(w)
    BY <1>3 DEF Configure, CurlInit, Goto, TypeOK
  <2> QED
    BY <2>1, <2>2, <2>3, InitFailsAgrees DEF VerdictInv
<1>4. ASSUME NEW w \in Workers, Perform(w) PROVE VerdictInv'
  <2>1. UNCHANGED <<response, inHand>> /\ CurlPerform(w)
    BY <1>4 DEF Perform
  <2>2. \A v \in Workers \ {w} : pc'[v] = pc[v] /\ attempt'[v] = attempt[v]
    BY <1>4 DEF Perform, CurlPerform, Goto, TypeOK
  <2> QED
    BY <2>1, <2>2, PerformAgrees DEF VerdictInv
<1>5. ASSUME NEW w \in Workers, Finish(w) PROVE VerdictInv'
  <2>1. UNCHANGED <<inHand, attempt>> /\ pc' = [pc EXCEPT ![w] = "publish"]
    BY <1>5 DEF Finish, Goto
  <2>2. inHand[w] \in Requests /\ pc[w] = "finish"
    BY <1>5 DEF Finish, TypeOK, HandOK, AsyncLabels
  <2>3. \A r \in Requests : response'[r] = IF r = inHand[w] THEN Verdict(w) ELSE response[r]
    BY <1>5, <2>2 DEF Finish, TypeOK
  <2>4. \A v \in Workers : pc'[v] = "finish" => pc[v] = "finish"
    BY <2>1 DEF TypeOK
  <2>5. inHand[w] \notin UnknownRequests => Agrees(Verdict(w).succeed, Verdict(w).code)
    BY <2>2 DEF VerdictInv, Verdict
  <2> QED
    BY <2>1, <2>3, <2>4, <2>5 DEF VerdictInv
<1>6. ASSUME NEW w \in Workers, PublishResponse(w) \/ PopResponse(w),
             pc[w] \in {"publish", "pop"}
      PROVE  VerdictInv'
  <2>1. UNCHANGED <<response, attempt>>
    BY <1>6 DEF PublishResponse, PopResponse
  <2>2. \A v \in Workers : pc'[v] = "finish" => pc[v] = "finish" /\ inHand'[v] = inHand[v]
    BY <1>6 DEF PublishResponse, PopResponse, Goto, TypeOK
  <2> QED
    BY <2>1, <2>2, VerdictFrame
<1>7. ASSUME NEW t \in Threads, At(t, "push"), PushRequest(t) PROVE VerdictInv'
  <2>1. UNCHANGED <<response, attempt>>
    BY <1>7 DEF PushRequest
  <2>2. \A v \in Workers : pc'[v] = "finish" => pc[v] = "finish" /\ inHand'[v] = inHand[v]
    BY <1>7 DEF PushRequest, Goto, TypeOK
  <2> QED
    BY <2>1, <2>2, VerdictFrame
<1> QED
  BY <1>1, <1>2, <1>3, <1>4, <1>5, <1>6, <1>7, StepKinds DEF Moves

(* A published response of a typed request reports success exactly when    *)
(* the server answered 2xx, through every interleaving of network threads, *)
(* destructions and restarts (HttpClient.cpp:137-195, 325-338).            *)
THEOREM VerdictsAreRight == Spec => []VerdictMatchesAnswer
<1>1. Init => VerdictInv
  <2>1. Init => \A w \in Workers : pc[w] # "finish"
    BY WorkersAreThreads, MainIsNoWorker DEF Init
  <2>2. Init => \A r \in Requests : response[r].code = -1 /\ response[r].succeed = FALSE
    BY DEF Init, NewResponse
  <2> QED
    BY <2>1, <2>2 DEF VerdictInv, Agrees
<1>2. TypeOK /\ VerdictInv => VerdictMatchesAnswer
  <2> SUFFICES ASSUME TypeOK, VerdictInv,
                      NEW r \in (Range(responseQueue) \cup Range(delivered)) \ UnknownRequests
               PROVE  response[r].succeed <=> response[r].code \in 200..299
    BY DEF VerdictMatchesAnswer
  <2>1. r \in Requests
    BY DEF TypeOK, Range
  <2> QED
    BY <2>1 DEF VerdictInv, Agrees
<1> QED
  BY <1>1, <1>2, TypeCorrect, VerdictStep, PTL DEF Spec
-------------------------------------------------------------------------------
(* The order of delivery, across destructions and restarts. *)

(* r stands before s in the sequence a of accepted requests.               *)
Before(a, r, s) == \E k, l \in DOMAIN a : k < l /\ a[k] = r /\ a[l] = s
InOrder(a, s) == \A i, j \in DOMAIN s : i < j => Before(a, s[i], s[j])
Follow(a, S, T) == \A r \in S, s \in T : Before(a, r, s)

(* What is delivered, published, in a thread's hands and queued has been   *)
(* accepted, and in this order: a destruction may drop some of it, which   *)
(* leaves the rest in order.                                               *)
OrderInv ==
  /\ Range(delivered) \cup Range(responseQueue) \cup Range(requestQueue) \subseteq Range(accepted)
  /\ InOrder(accepted, delivered)
  /\ InOrder(accepted, responseQueue)
  /\ InOrder(accepted, requestQueue)
  /\ Follow(accepted, Range(delivered), Range(responseQueue))
  /\ Follow(accepted, Range(delivered), Range(requestQueue))
  /\ Follow(accepted, Range(responseQueue), Range(requestQueue))
HandInv(w) ==
  Busy(w) =>
    /\ inHand[w] \in Range(accepted)
    /\ Follow(accepted, Range(delivered), {inHand[w]})
    /\ Follow(accepted, Range(responseQueue), {inHand[w]})
    /\ Follow(accepted, {inHand[w]}, Range(requestQueue))
SequenceInv == OrderInv /\ \A w \in Workers : HandInv(w)

LEMMA EmptyOrder ==
  \A a : /\ InOrder(a, <<>>) /\ Range(<<>>) = {}
         /\ \A S : Follow(a, S, {}) /\ Follow(a, {}, S)
BY DEF InOrder, Follow, Range

LEMMA TailOrder ==
  ASSUME NEW s \in Seq(Requests), s # <<>>, NEW a \in Seq(Requests), InOrder(a, s)
  PROVE  /\ InOrder(a, Tail(s))
         /\ Follow(a, {Head(s)}, Range(Tail(s)))
         /\ Range(Tail(s)) \subseteq Range(s) /\ Head(s) \in Range(s)
<1>1. Len(s) \in Nat /\ Len(s) >= 1 /\ DOMAIN s = 1..Len(s) /\ Head(s) = s[1]
  OBVIOUS
<1>2. Tail(s) \in Seq(Requests) /\ Len(Tail(s)) = Len(s) - 1
  BY <1>1
<1>3. \A i \in DOMAIN Tail(s) : i + 1 \in DOMAIN s /\ Tail(s)[i] = s[i + 1] /\ i \in Nat /\ i > 0
  BY <1>1, <1>2
<1>4. InOrder(a, Tail(s))
  BY <1>3 DEF InOrder
<1>5. \A x \in Range(Tail(s)) : \E i \in DOMAIN Tail(s) : x = s[i + 1]
  BY <1>3 DEF Range
<1>6. Follow(a, {Head(s)}, Range(Tail(s)))
  BY <1>1, <1>3, <1>5 DEF InOrder, Follow
<1>7. Range(Tail(s)) \subseteq Range(s) /\ Head(s) \in Range(s)
  BY <1>1, <1>3, <1>5 DEF Range
<1> QED
  BY <1>4, <1>6, <1>7

LEMMA AppendOrder ==
  ASSUME NEW s \in Seq(Requests), NEW a \in Seq(Requests), NEW h \in Requests,
         InOrder(a, s), Follow(a, Range(s), {h})
  PROVE  InOrder(a, Append(s, h))
<1>1. Len(s) \in Nat /\ DOMAIN s = 1..Len(s) /\ DOMAIN Append(s, h) = 1..(Len(s) + 1)
  OBVIOUS
<1>2. /\ \A i \in DOMAIN s : Append(s, h)[i] = s[i] /\ s[i] \in Range(s)
      /\ Append(s, h)[Len(s) + 1] = h
  BY <1>1 DEF Range
<1>3. ASSUME NEW i \in DOMAIN Append(s, h), NEW j \in DOMAIN Append(s, h), i < j
      PROVE  Before(a, Append(s, h)[i], Append(s, h)[j])
  <2>1. i \in DOMAIN s /\ (j \in DOMAIN s \/ j = Len(s) + 1)
    BY <1>1, <1>3
  <2> QED
    BY <1>2, <1>3, <2>1 DEF InOrder, Follow
<1> QED
  BY <1>3 DEF InOrder

(* One more accepted request changes nothing of the order before it, and   *)
(* stands behind all of it.                                                *)
LEMMA AcceptOrder ==
  ASSUME NEW a \in Seq(Requests), NEW h \in Requests
  PROVE  /\ \A r, s : Before(a, r, s) => Before(Append(a, h), r, s)
         /\ \A r \in Range(a) : Before(Append(a, h), r, h)
<1>1. Len(a) \in Nat /\ DOMAIN a = 1..Len(a) /\ DOMAIN Append(a, h) = 1..(Len(a) + 1)
  OBVIOUS
<1>2. /\ \A i \in DOMAIN a : Append(a, h)[i] = a[i] /\ i \in DOMAIN Append(a, h)
      /\ Append(a, h)[Len(a) + 1] = h /\ Len(a) + 1 \in DOMAIN Append(a, h)
  BY <1>1
<1>3. \A r \in Range(a) : \E i \in DOMAIN a : a[i] = r /\ i < Len(a) + 1
  BY <1>1 DEF Range
<1> QED
  BY <1>2, <1>3 DEF Before

LEMMA OrderFrame ==
  ASSUME SequenceInv, LeavesRequests
  PROVE  SequenceInv'
<1> USE DEF LeavesRequests
<1>1. OrderInv'
  BY EmptyOrder DEF SequenceInv, OrderInv
<1>2. ASSUME NEW w \in Workers, Busy(w)' PROVE HandInv(w)'
  <2>1. Busy(w) /\ inHand'[w] = inHand[w]
    BY <1>2 DEF Busy
  <2>2. HandInv(w)
    BY DEF SequenceInv
  <2> QED
    BY <2>1, <2>2, EmptyOrder DEF HandInv
<1> QED
  BY <1>1, <1>2 DEF SequenceInv, HandInv

LEMMA SequenceStep == TypeOK /\ ThreadInv /\ SequenceInv /\ [Next]_vars => SequenceInv'
<1> SUFFICES ASSUME TypeOK, ThreadInv, SequenceInv, [Next]_vars PROVE SequenceInv'
  OBVIOUS
<1> USE WorkersAreThreads
    DEF requestVars, responseVars, workVars, historyVars, At
<1>0. /\ accepted \in Seq(Requests) /\ delivered \in Seq(Requests)
      /\ responseQueue \in Seq(Requests) /\ requestQueue \in Seq(Requests)
  BY DEF TypeOK
<1>a. ASSUME NEW w \in Workers, fault = "none", Serving(w)
      PROVE  \A v \in Workers \ {w} : ~Busy(v)
  BY <1>a DEF ThreadInv, QueueServed, Serving, Busy
<1>1. CASE LeavesRequests
  BY <1>1, OrderFrame
<1>2. ASSUME NEW w \in Workers, At(w, "take"), TakeRequest(w) PROVE SequenceInv'
  <2>1. UNCHANGED <<accepted, delivered, responseQueue>>
    BY <1>2 DEF TakeRequest
  <2>2. \A v \in Workers \ {w} : ~Busy(v)'
    <3>1. \A v \in Workers \ {w} : pc'[v] = pc[v]
      BY <1>2 DEF TakeRequest, Goto, TypeOK
    <3> QED
      BY <1>2, <1>a, <3>1 DEF Serving, Busy
  <2>3. CASE requestQueue = <<>>
    <3>1. ~Busy(w)' /\ UNCHANGED requestQueue
      BY <1>2, <2>3 DEF TakeRequest, Goto, Busy, TypeOK
    <3> QED
      BY <2>1, <2>2, <3>1 DEF SequenceInv, OrderInv, HandInv
  <2>4. CASE requestQueue # <<>>
    <3>1. requestQueue' = Tail(requestQueue) /\ inHand'[w] = Head(requestQueue)
      BY <1>2, <2>4 DEF TakeRequest, TypeOK
    <3>2. /\ InOrder(accepted, Tail(requestQueue))
          /\ Follow(accepted, {Head(requestQueue)}, Range(Tail(requestQueue)))
          /\ Range(Tail(requestQueue)) \subseteq Range(requestQueue)
          /\ Head(requestQueue) \in Range(requestQueue)
      BY <1>0, <2>4, TailOrder DEF SequenceInv, OrderInv
    <3>3. OrderInv'
      BY <2>1, <3>1, <3>2 DEF SequenceInv, OrderInv, Follow
    <3>4. HandInv(w)'
      BY <2>1, <3>1, <3>2 DEF SequenceInv, OrderInv, HandInv, Follow
    <3> QED
      BY <2>2, <3>3, <3>4 DEF SequenceInv, HandInv
  <2> QED
    BY <2>3, <2>4
<1>3. ASSUME NEW w \in Workers, Configure(w) \/ Perform(w) \/ Finish(w) PROVE SequenceInv'
  <2>1. UNCHANGED <<accepted, delivered, requestQueue, responseQueue, inHand>>
    BY <1>3 DEF Configure, Perform, Finish, queueVars
  <2>2. \A v \in Workers : Busy(v)' => Busy(v)
    BY <1>3 DEF Configure, CurlInit, Perform, Finish, Goto, Busy, TypeOK
  <2> QED
    BY <2>1, <2>2 DEF SequenceInv, OrderInv, HandInv
<1>4. ASSUME NEW w \in Workers, At(w, "publish"), PublishResponse(w) PROVE SequenceInv'
  <2>1. /\ UNCHANGED <<accepted, delivered, requestQueue>>
        /\ responseQueue' = Append(responseQueue, inHand[w])
    BY <1>4 DEF PublishResponse
  <2>2. \A v \in Workers : ~Busy(v)'
    <3>1. \A v \in Workers \ {w} : pc'[v] = pc[v]
      BY <1>4 DEF PublishResponse, Goto, TypeOK
    <3>2. ~Busy(w)'
      BY <1>4 DEF PublishResponse, Goto, TypeOK, Busy
    <3> QED
      BY <1>4, <1>a, <3>1, <3>2 DEF Serving, Busy
  <2>3. inHand[w] \in Requests /\ Busy(w)
    BY <1>4 DEF TypeOK, HandOK, AsyncLabels, Busy
  <2>4. Range(responseQueue') = Range(responseQueue) \cup {inHand[w]}
    BY <1>0, <2>1, <2>3, RangeAppend
  <2>5. HandInv(w)
    BY DEF SequenceInv
  <2>6. InOrder(accepted, responseQueue')
    BY <1>0, <2>1, <2>3, <2>5, AppendOrder DEF SequenceInv, OrderInv, HandInv
  <2>7. OrderInv'
    BY <2>1, <2>3, <2>4, <2>5, <2>6 DEF SequenceInv, OrderInv, HandInv, Follow
  <2> QED
    BY <2>2, <2>7 DEF SequenceInv, HandInv
<1>5. ASSUME NEW w \in Workers, At(w, "pop"), PopResponse(w) PROVE SequenceInv'
  <2>1. UNCHANGED <<accepted, requestQueue, inHand>>
    BY <1>5 DEF PopResponse
  <2>2. \A v \in Workers : ~Busy(v)'
    <3>1. \A v \in Workers \ {w} : pc'[v] = pc[v]
      BY <1>5 DEF PopResponse, Goto, TypeOK
    <3>2. ~Busy(w)'
      BY <1>5 DEF PopResponse, Goto, TypeOK, Busy
    <3> QED
      BY <1>5, <1>a, <3>1, <3>2 DEF Serving, Busy
  <2>3. CASE responseQueue = <<>>
    <3>1. UNCHANGED <<responseQueue, delivered>>
      BY <1>5, <2>3 DEF PopResponse
    <3> QED
      BY <2>1, <2>2, <3>1 DEF SequenceInv, OrderInv, HandInv
  <2>4. CASE responseQueue # <<>>
    <3>1. /\ responseQueue' = Tail(responseQueue)
          /\ delivered' = Append(delivered, Head(responseQueue))
      BY <1>5, <2>4 DEF PopResponse
    <3>2. /\ InOrder(accepted, Tail(responseQueue))
          /\ Follow(accepted, {Head(responseQueue)}, Range(Tail(responseQueue)))
          /\ Range(Tail(responseQueue)) \subseteq Range(responseQueue)
          /\ Head(responseQueue) \in Range(responseQueue)
      BY <1>0, <2>4, TailOrder DEF SequenceInv, OrderInv
    <3>3. Head(responseQueue) \in Requests
      BY <1>0, <2>4, SeqTypes
    <3>4. Range(delivered') = Range(delivered) \cup {Head(responseQueue)}
      BY <1>0, <3>1, <3>3, RangeAppend
    <3>5. Follow(accepted, Range(delivered), {Head(responseQueue)})
      BY <3>2 DEF SequenceInv, OrderInv, Follow
    <3>6. InOrder(accepted, delivered')
      BY <1>0, <3>1, <3>3, <3>5, AppendOrder DEF SequenceInv, OrderInv
    <3>7. OrderInv'
      BY <2>1, <3>1, <3>2, <3>4, <3>6 DEF SequenceInv, OrderInv, Follow
    <3> QED
      BY <2>2, <3>7 DEF SequenceInv, HandInv
  <2> QED
    BY <2>3, <2>4
<1>6. ASSUME NEW t \in Threads, At(t, "push"), PushRequest(t) PROVE SequenceInv'
  <2>1. /\ UNCHANGED <<delivered, responseQueue>>
        /\ requestQueue' = Append(requestQueue, inHand[t])
        /\ accepted' = Append(accepted, inHand[t])
    BY <1>6 DEF PushRequest
  <2>2. \A v \in Workers : Busy(v)' => Busy(v) /\ inHand'[v] = inHand[v]
    BY <1>6 DEF PushRequest, Goto, Busy, TypeOK
  <2>3. inHand[t] \in Requests
    BY <1>6 DEF TypeOK, HandOK, AsyncLabels
  <2>4. /\ Range(requestQueue') = Range(requestQueue) \cup {inHand[t]}
        /\ Range(accepted') = Range(accepted) \cup {inHand[t]}
    BY <1>0, <2>1, <2>3, RangeAppend
  <2>5. /\ \A r, s : Before(accepted, r, s) => Before(accepted', r, s)
        /\ \A r \in Range(accepted) : Before(accepted', r, inHand[t])
    BY <1>0, <2>1, <2>3, AcceptOrder
  <2>6. accepted' \in Seq(Requests)
    BY <1>0, <2>1, <2>3
  <2>7. /\ InOrder(accepted', delivered) /\ InOrder(accepted', responseQueue)
        /\ InOrder(accepted', requestQueue) /\ Follow(accepted', Range(requestQueue), {inHand[t]})
    BY <2>5 DEF SequenceInv, OrderInv, InOrder, Follow
  <2>8. InOrder(accepted', requestQueue')
    BY <1>0, <2>1, <2>3, <2>6, <2>7, AppendOrder
  <2>9. OrderInv'
    BY <2>1, <2>4, <2>5, <2>7, <2>8 DEF SequenceInv, OrderInv, Follow
  <2>10. ASSUME NEW v \in Workers, Busy(v)' PROVE HandInv(v)'
    <3>1. HandInv(v) /\ Busy(v) /\ inHand'[v] = inHand[v]
      BY <2>2, <2>10 DEF SequenceInv
    <3> QED
      BY <2>1, <2>4, <2>5, <3>1 DEF HandInv, Follow
  <2> QED
    BY <2>9, <2>10 DEF SequenceInv, HandInv
<1> QED
  BY <1>1, <1>2, <1>3, <1>4, <1>5, <1>6, StepKinds DEF Moves

(* Across any number of destructions and restarts a request is dispatched  *)
(* at most once, and in the order of acceptance: what a destruction drops  *)
(* is never repeated or overtaken (HttpClient.cpp:107-117, 199-221).       *)
THEOREM DeliveriesAreInOrder == Spec => []DeliveredInOrder
<1>1. Init => SequenceInv
  <2>1. Init => \A w \in Workers : ~Busy(w)
    BY WorkersAreThreads, MainIsNoWorker DEF Init, Busy
  <2> QED
    BY <2>1, EmptyOrder DEF Init, SequenceInv, OrderInv, HandInv
<1>2. SequenceInv => DeliveredInOrder
  BY DEF SequenceInv, OrderInv, InOrder, Before, DeliveredInOrder
<1> QED
  BY <1>1, <1>2, TypeCorrect, ThreadCorrect, SequenceStep, PTL DEF Spec
===============================================================================
