------------------------------ MODULE HttpClient ------------------------------
(***************************************************************************)
(* The asynchronous HTTP client of Classes/Network/HttpClient.             *)
(*                                                                         *)
(* One application thread (Main) and the network threads it spawns share   *)
(* the file-scope globals of HttpClient.cpp: two heap-allocated queues,    *)
(* the quit flag, the singleton pointer and curl's error buffer.  Each     *)
(* label of pc is a point where another thread can run; a section between  *)
(* lock() and unlock() is one step, because everything it touches is       *)
(* touched under the same mutex, or by pointer writes that the separate    *)
(* steps of lazyInitThreadSemphore and of the thread's cleanup order       *)
(* around it.  A callback runs application code on the network thread, so  *)
(* a thread in "callback" may call the client exactly as Main does.        *)
(***************************************************************************)
EXTENDS Integers, Sequences, FiniteSets, Functions

CONSTANTS
  Requests,         \* request objects for sendAsynchronousRequest, each sent once
  SyncRequests,     \* request objects for sendSynchronousRequest
  UnknownRequests,  \* those whose type was never set (Type::UNKNOWN)
  SilentRequests,   \* those sent without a response callback
  StatusCodes,      \* HTTP status codes a server may answer
  MaxWorkers,       \* bound: network threads ever spawned
  MaxDestroys,      \* bound: effective calls of destroyInstance
  NoRequest         \* null shared_ptr; also the empty error buffer

ASSUME RequestsAssumption ==
  /\ Requests \cap SyncRequests = {}
  /\ NoRequest \notin Requests \cup SyncRequests
ASSUME StatusCodesAssumption == StatusCodes \subseteq Nat
ASSUME BoundsAssumption == MaxWorkers \in Nat /\ MaxDestroys \in Nat

Main    == 0
Workers == 1..MaxWorkers
Threads == {Main} \cup Workers

VARIABLES
  s_requestQueue,   \* the pointer: "null", "live" or "freed" (dangling)
  requestQueue,     \* the contents of the vector it points to
  s_responseQueue,
  responseQueue,    \* a response is named by the request it holds
  s_need_quit,
  s_pHttpClient,    \* TRUE when the singleton pointer is not null
  s_errorBuffer,    \* the request whose failure the text describes
  response,         \* response[r]: the HttpResponse built for request r
  pc,
  inHand,           \* inHand[t]: the request thread t is working on
  attempt,          \* attempt[t]: its locals retValue and responseCode
  spawned,          \* number of network threads started so far
  destroys,         \* number of effective destroyInstance calls
  accepted,         \* history: requests pushed, in order
  delivered,        \* history: responses dispatched, in order
  fault             \* the undefined behaviour reached, or "none"

requestVars  == <<s_requestQueue, requestQueue>>
responseVars == <<s_responseQueue, responseQueue>>
queueVars    == <<s_requestQueue, requestQueue, s_responseQueue, responseQueue>>
globalVars   == <<s_need_quit, s_pHttpClient, s_errorBuffer>>
workVars     == <<inHand, attempt, response>>
countVars    == <<spawned, destroys>>
historyVars  == <<accepted, delivered>>
vars == <<queueVars, globalVars, workVars, pc, countVars, historyVars, fault>>

PointerStates == {"null", "live", "freed"}
Faults == {"none", "null dereference", "use after free", "bad delete"}

WorkerLabels == {"unborn", "loop", "take", "sleep", "waiting", "configure",
                 "perform", "finish", "publish", "check", "dispatch", "pop",
                 "callback", "clear", "deleteRequests", "nullRequests",
                 "deleteResponses", "nullResponses", "done"}
CallLabels == {"lazyInit", "newResponses", "spawn", "resetQuit", "testQueue",
               "push", "notify", "syncConfigure", "syncPerform",
               "quitFlag", "quitNotify", "quitNull", "quitFree"}
Labels == {"idle"} \cup WorkerLabels \cup CallLabels

Attempts  == [ret : {0, 1}, code : {-1} \cup StatusCodes]
Responses == [code : {-1} \cup StatusCodes, succeed : BOOLEAN,
              error : Requests \cup SyncRequests \cup {NoRequest}]

(* What a thread holds at the labels where it uses what it holds. *)
AsyncLabels   == {"configure", "perform", "finish", "publish", "push"}
SendingLabels == {"lazyInit", "newResponses", "spawn", "resetQuit", "testQueue"}
SyncLabels    == {"syncConfigure", "syncPerform"}
HandOK ==
  \A t \in Threads :
    /\ pc[t] \in AsyncLabels => inHand[t] \in Requests
    /\ pc[t] \in SendingLabels => inHand[t] \in Requests \cup {NoRequest}
    /\ pc[t] \in SyncLabels => inHand[t] \in SyncRequests

TypeOK ==
  /\ s_requestQueue \in PointerStates
  /\ requestQueue \in Seq(Requests)
  /\ s_responseQueue \in PointerStates
  /\ responseQueue \in Seq(Requests)
  /\ s_need_quit \in BOOLEAN
  /\ s_pHttpClient \in BOOLEAN
  /\ s_errorBuffer \in Requests \cup SyncRequests \cup {NoRequest}
  /\ response \in [Requests -> Responses]
  /\ pc \in [Threads -> Labels]
  /\ inHand \in [Threads -> Requests \cup SyncRequests \cup {NoRequest}]
  /\ attempt \in [Threads -> Attempts]
  /\ spawned \in 0..MaxWorkers
  /\ destroys \in 0..MaxDestroys
  /\ accepted \in Seq(Requests)
  /\ delivered \in Seq(Requests)
  /\ fault \in Faults
  /\ HandOK

FirstAttempt == [ret |-> 0, code |-> -1]

(* HttpResponse(request): "the default setting is http access failed". *)
NewResponse == [code |-> -1, succeed |-> FALSE, error |-> NoRequest]

Init ==
  /\ s_requestQueue = "null" /\ requestQueue = <<>>
  /\ s_responseQueue = "null" /\ responseQueue = <<>>
  /\ s_need_quit = FALSE
  /\ s_pHttpClient = FALSE
  /\ s_errorBuffer = NoRequest
  /\ response = [r \in Requests |-> NewResponse]
  /\ pc = [t \in Threads |-> IF t = Main THEN "idle" ELSE "unborn"]
  /\ inHand = [t \in Threads |-> NoRequest]
  /\ attempt = [t \in Threads |-> FirstAttempt]
  /\ spawned = 0
  /\ destroys = 0
  /\ accepted = <<>>
  /\ delivered = <<>>
  /\ fault = "none"

-------------------------------------------------------------------------------
(* Control. *)

At(t, label) == fault = "none" /\ pc[t] = label
Goto(t, label) == pc' = [pc EXCEPT ![t] = label]

(* Where a thread is when no client call is in progress on it. *)
Home(t) == IF t = Main THEN "idle" ELSE "callback"

(* A dereference of a queue pointer that is not live: the program is then  *)
(* outside its semantics and the model stops.                              *)
Crash(pointer) ==
  /\ fault' = IF pointer = "null" THEN "null dereference" ELSE "use after free"
  /\ UNCHANGED <<queueVars, globalVars, workVars, pc, countVars, historyVars>>

(* s_SleepCondition.notify_one(): one waiter, if there is any, goes on;    *)
(* without a waiter the notification is lost.                              *)
Waiting == {w \in Workers : pc[w] = "waiting"}
NotifyOne(t, label) ==
  IF Waiting = {}
  THEN Goto(t, label)
  ELSE \E w \in Waiting : pc' = [pc EXCEPT ![t] = label, ![w] = "loop"]

-------------------------------------------------------------------------------
(* curl, as configureCURL, CURLRaii and the four process*Task use it. *)

(* curl_easy_init or an option fails: 1 and responseCode stays -1. *)
InitFails(t) == attempt' = [attempt EXCEPT ![t] = [ret |-> 1, code |-> -1]]

(* CURLRaii::init.  configureCURL calls getInstance() for the timeouts,    *)
(* which makes a null s_pHttpClient non-null again.                        *)
CurlInit(t, ok, failed) ==
  \/ /\ InitFails(t)
     /\ s_pHttpClient' \in {s_pHttpClient, TRUE}
     /\ Goto(t, failed)
  \/ /\ s_pHttpClient' = TRUE
     /\ UNCHANGED attempt
     /\ Goto(t, ok)

(* Mutant: without the upper limit of the range. *)
AtLeast200(code) == code >= 200

Is2xx(code) == code \in 200..299

(* CURLRaii::perform: a transport failure is described in the buffer set   *)
(* with CURLOPT_ERRORBUFFER; an answer leaves the buffer alone or, in      *)
(* later releases of curl, empties it.  Only 2xx is a success.             *)
CurlPerform(t) ==
  \/ /\ s_errorBuffer' = inHand[t]
     /\ attempt' = [attempt EXCEPT ![t] = [ret |-> 1, code |-> -1]]
  \/ \E c \in StatusCodes :
       /\ s_errorBuffer' \in {s_errorBuffer, NoRequest}
       /\ attempt' = [attempt EXCEPT ![t] =
                        [ret |-> IF Is2xx(c) THEN 0 ELSE 1, code |-> c]]

-------------------------------------------------------------------------------
(* networkThread *)

(* while (true) { if (s_need_quit) break; *)
TestQuit(w) ==
  /\ At(w, "loop")
  /\ Goto(w, IF s_need_quit THEN "clear" ELSE "take")
  /\ UNCHANGED <<queueVars, globalVars, workVars, countVars, historyVars, fault>>

(* Mutant: the newest request is taken first. *)
TakeNewest(w) ==
  /\ s_requestQueue = "live"
  /\ UNCHANGED <<globalVars, responseVars, s_requestQueue, response,
                 countVars, historyVars, fault>>
  /\ \/ /\ requestQueue = <<>>
        /\ Goto(w, "sleep")
        /\ UNCHANGED <<requestQueue, inHand, attempt>>
     \/ /\ requestQueue # <<>>
        /\ requestQueue' = SubSeq(requestQueue, 1, Len(requestQueue) - 1)
        /\ inHand' = [inHand EXCEPT ![w] = requestQueue[Len(requestQueue)]]
        /\ attempt' = [attempt EXCEPT ![w] = FirstAttempt]
        /\ Goto(w, "configure")

(* The head of the queue, if any, then the switch on its type. *)
TakeRequest(w) ==
  /\ s_requestQueue = "live"
  /\ UNCHANGED <<globalVars, responseVars, s_requestQueue, response,
                 countVars, historyVars, fault>>
  /\ \/ /\ requestQueue = <<>>
        /\ Goto(w, "sleep")
        /\ UNCHANGED <<requestQueue, inHand, attempt>>
     \/ /\ requestQueue # <<>>
        /\ requestQueue' = Tail(requestQueue)
        /\ inHand' = [inHand EXCEPT ![w] = Head(requestQueue)]
        /\ attempt' = [attempt EXCEPT ![w] = FirstAttempt]
        /\ Goto(w, IF Head(requestQueue) \in UnknownRequests
                   THEN "finish" ELSE "configure")
Take(w) ==
  /\ At(w, "take")
  /\ \/ TakeRequest(w)
     \/ s_requestQueue # "live" /\ Crash(s_requestQueue)

(* unique_lock lk(s_SleepMutex); s_SleepCondition.wait(lk).  No notifier   *)
(* holds s_SleepMutex, and the wait has no predicate.                      *)
Sleep(w) ==
  /\ At(w, "sleep")
  /\ Goto(w, "waiting")
  /\ UNCHANGED <<queueVars, globalVars, workVars, countVars, historyVars, fault>>

SpuriousWakeup(w) ==
  /\ At(w, "waiting")
  /\ Goto(w, "loop")
  /\ UNCHANGED <<queueVars, globalVars, workVars, countVars, historyVars, fault>>

Configure(w) ==
  /\ At(w, "configure")
  /\ CurlInit(w, "perform", "finish")
  /\ UNCHANGED <<queueVars, s_need_quit, s_errorBuffer, inHand, response,
                 countVars, historyVars, fault>>

Perform(w) ==
  /\ At(w, "perform")
  /\ CurlPerform(w)
  /\ Goto(w, "finish")
  /\ UNCHANGED <<queueVars, s_need_quit, s_pHttpClient, inHand, response,
                 countVars, historyVars, fault>>

(* setResponseCode, setSucceed and, on failure, setErrorBuffer. *)
Verdict(w) ==
  [code    |-> attempt[w].code,
   succeed |-> attempt[w].ret = 0,
   error   |-> IF attempt[w].ret = 0 THEN NoRequest ELSE s_errorBuffer]
Finish(w) ==
  /\ At(w, "finish")
  /\ response' = [response EXCEPT ![inHand[w]] = Verdict(w)]
  /\ Goto(w, "publish")
  /\ UNCHANGED <<queueVars, globalVars, inHand, attempt, countVars,
                 historyVars, fault>>

PublishResponse(w) ==
  /\ s_responseQueue = "live"
  /\ responseQueue' = Append(responseQueue, inHand[w])
  /\ inHand' = [inHand EXCEPT ![w] = NoRequest]
  /\ Goto(w, "check")
  /\ UNCHANGED <<requestVars, s_responseQueue, globalVars, attempt, response,
                 countVars, historyVars, fault>>
Publish(w) ==
  /\ At(w, "publish")
  /\ \/ PublishResponse(w)
     \/ s_responseQueue # "live" /\ Crash(s_responseQueue)

(* if (nullptr != s_pHttpClient) dispatchResponseCallbacks(); *)
Check(w) ==
  /\ At(w, "check")
  /\ Goto(w, IF s_pHttpClient THEN "dispatch" ELSE "loop")
  /\ UNCHANGED <<queueVars, globalVars, workVars, countVars, historyVars, fault>>

(* dispatchResponseCallbacks: the unlocked null test ... *)
Dispatch(w) ==
  /\ At(w, "dispatch")
  /\ Goto(w, IF s_responseQueue = "null" THEN "loop" ELSE "pop")
  /\ UNCHANGED <<queueVars, globalVars, workVars, countVars, historyVars, fault>>

(* Mutant: the response stays in the queue. *)
PopWithoutErase(w) ==
  /\ s_responseQueue = "live"
  /\ UNCHANGED <<queueVars, globalVars, workVars, countVars, accepted, fault>>
  /\ \/ /\ responseQueue = <<>>
        /\ Goto(w, "loop")
        /\ UNCHANGED delivered
     \/ /\ responseQueue # <<>>
        /\ Len(delivered) < Cardinality(Requests)
        /\ delivered' = Append(delivered, Head(responseQueue))
        /\ Goto(w, "callback")

(* ... then, under the mutex, the head response, and its callback if any. *)
PopResponse(w) ==
  /\ s_responseQueue = "live"
  /\ UNCHANGED <<requestVars, s_responseQueue, globalVars, workVars,
                 countVars, accepted, fault>>
  /\ \/ /\ responseQueue = <<>>
        /\ Goto(w, "loop")
        /\ UNCHANGED <<responseQueue, delivered>>
     \/ /\ responseQueue # <<>>
        /\ responseQueue' = Tail(responseQueue)
        /\ delivered' = Append(delivered, Head(responseQueue))
        /\ Goto(w, IF Head(responseQueue) \in SilentRequests
                   THEN "loop" ELSE "callback")
Pop(w) ==
  /\ At(w, "pop")
  /\ \/ PopResponse(w)
     \/ s_responseQueue # "live" /\ Crash(s_responseQueue)

(* Mutant: the thread waits after each response, without looking at the    *)
(* queue first.                                                            *)
CallbackThenSleep(w) ==
  /\ At(w, "callback")
  /\ Goto(w, "sleep")
  /\ UNCHANGED <<queueVars, globalVars, workVars, countVars, historyVars, fault>>

CallbackReturns(w) ==
  /\ At(w, "callback")
  /\ Goto(w, "loop")
  /\ UNCHANGED <<queueVars, globalVars, workVars, countVars, historyVars, fault>>

(* The cleanup after the loop. *)
Clear(w) ==
  /\ At(w, "clear")
  /\ \/ /\ s_requestQueue = "live"
        /\ requestQueue' = <<>>
        /\ Goto(w, "deleteRequests")
        /\ UNCHANGED <<s_requestQueue, responseVars, globalVars, workVars,
                       countVars, historyVars, fault>>
     \/ s_requestQueue # "live" /\ Crash(s_requestQueue)

(* Mutant: the cleanup forgets to reset the pointers. *)
DeleteWithoutNull(w) ==
  /\ At(w, "deleteRequests")
  /\ s_requestQueue' = "freed"
  /\ requestQueue' = <<>>
  /\ Goto(w, "done")
  /\ UNCHANGED <<responseVars, globalVars, workVars, countVars, historyVars, fault>>

DeleteRequests(w) ==
  /\ At(w, "deleteRequests")
  /\ IF s_requestQueue = "null"
     THEN Goto(w, "done") /\ UNCHANGED requestVars
     ELSE /\ s_requestQueue' = "freed"
          /\ requestQueue' = <<>>
          /\ Goto(w, "nullRequests")
  /\ UNCHANGED <<responseVars, globalVars, workVars, countVars, historyVars, fault>>

NullRequests(w) ==
  /\ At(w, "nullRequests")
  /\ s_requestQueue' = "null"
  /\ requestQueue' = <<>>
  /\ Goto(w, "deleteResponses")
  /\ UNCHANGED <<responseVars, globalVars, workVars, countVars, historyVars, fault>>

(* delete of a null pointer does nothing. *)
DeleteResponses(w) ==
  /\ At(w, "deleteResponses")
  /\ s_responseQueue' = IF s_responseQueue = "null" THEN "null" ELSE "freed"
  /\ responseQueue' = <<>>
  /\ Goto(w, "nullResponses")
  /\ UNCHANGED <<requestVars, globalVars, workVars, countVars, historyVars, fault>>

NullResponses(w) ==
  /\ At(w, "nullResponses")
  /\ s_responseQueue' = "null"
  /\ responseQueue' = <<>>
  /\ Goto(w, "done")
  /\ UNCHANGED <<requestVars, globalVars, workVars, countVars, historyVars, fault>>

WorkerStep(w) ==
  \/ TestQuit(w) \/ Take(w) \/ Sleep(w)
  \/ Configure(w) \/ Perform(w) \/ Finish(w) \/ Publish(w)
  \/ Check(w) \/ Dispatch(w) \/ Pop(w)
  \/ Clear(w) \/ DeleteRequests(w) \/ NullRequests(w)
  \/ DeleteResponses(w) \/ NullResponses(w)

-------------------------------------------------------------------------------
(* HttpClient::getInstance()->sendAsynchronousRequest(r), on thread t. *)

Fresh(r) == r \notin Range(accepted) /\ \A t \in Threads : inHand[t] # r

StartSend(t, r) ==
  /\ At(t, Home(t))
  /\ r = NoRequest \/ Fresh(r)
  /\ s_pHttpClient' = TRUE
  /\ inHand' = [inHand EXCEPT ![t] = r]
  /\ Goto(t, "lazyInit")
  /\ UNCHANGED <<queueVars, s_need_quit, s_errorBuffer, attempt, response,
                 countVars, historyVars, fault>>

(* lazyInitThreadSemphore *)
LazyInit(t) ==
  /\ At(t, "lazyInit")
  /\ \/ /\ s_requestQueue # "null"
        /\ Goto(t, "testQueue")
        /\ UNCHANGED requestVars
     \/ /\ s_requestQueue = "null"
        /\ s_requestQueue' = "live"
        /\ requestQueue' = <<>>
        /\ Goto(t, "newResponses")
  /\ UNCHANGED <<responseVars, globalVars, workVars, countVars, historyVars, fault>>

(* Mutant: the response queue is left to its first user. *)
NoNewResponses(t) ==
  /\ At(t, "newResponses")
  /\ Goto(t, "spawn")
  /\ UNCHANGED <<queueVars, globalVars, workVars, countVars, historyVars, fault>>

NewResponses(t) ==
  /\ At(t, "newResponses")
  /\ s_responseQueue' = "live"
  /\ responseQueue' = <<>>
  /\ Goto(t, "spawn")
  /\ UNCHANGED <<requestVars, globalVars, workVars, countVars, historyVars, fault>>

Spawn(t) ==
  /\ At(t, "spawn")
  /\ spawned < MaxWorkers
  /\ spawned' = spawned + 1
  /\ pc' = [pc EXCEPT ![t] = "resetQuit", ![spawned + 1] = "loop"]
  /\ UNCHANGED <<queueVars, globalVars, workVars, destroys, historyVars, fault>>

(* The quit flag is cleared after the thread that tests it has started. *)
ResetQuit(t) ==
  /\ At(t, "resetQuit")
  /\ s_need_quit' = FALSE
  /\ Goto(t, "testQueue")
  /\ UNCHANGED <<queueVars, s_pHttpClient, s_errorBuffer, workVars, countVars,
                 historyVars, fault>>

(* if (!request) return false; if (!s_requestQueue) return false; *)
TestQueue(t) ==
  /\ At(t, "testQueue")
  /\ IF inHand[t] = NoRequest \/ s_requestQueue = "null"
     THEN Goto(t, Home(t)) /\ inHand' = [inHand EXCEPT ![t] = NoRequest]
     ELSE Goto(t, "push") /\ UNCHANGED inHand
  /\ UNCHANGED <<queueVars, globalVars, attempt, response, countVars,
                 historyVars, fault>>

PushRequest(t) ==
  /\ s_requestQueue = "live"
  /\ requestQueue' = Append(requestQueue, inHand[t])
  /\ accepted' = Append(accepted, inHand[t])
  /\ inHand' = [inHand EXCEPT ![t] = NoRequest]
  /\ Goto(t, "notify")
  /\ UNCHANGED <<s_requestQueue, responseVars, globalVars, attempt, response,
                 countVars, delivered, fault>>
Push(t) ==
  /\ At(t, "push")
  /\ \/ PushRequest(t)
     \/ s_requestQueue # "live" /\ Crash(s_requestQueue)

Notify(t) ==
  /\ At(t, "notify")
  /\ NotifyOne(t, Home(t))
  /\ UNCHANGED <<queueVars, globalVars, workVars, countVars, historyVars, fault>>

-------------------------------------------------------------------------------
(* HttpClient::getInstance()->sendSynchronousRequest(r, error). Only the   *)
(* steps on shared state are kept; the response object is local.           *)

StartSync(t, r) ==
  /\ At(t, Home(t))
  /\ s_pHttpClient' = TRUE
  /\ IF r \in UnknownRequests
     THEN UNCHANGED <<pc, inHand>>
     ELSE Goto(t, "syncConfigure") /\ inHand' = [inHand EXCEPT ![t] = r]
  /\ attempt' = [attempt EXCEPT ![t] = FirstAttempt]
  /\ UNCHANGED <<queueVars, s_need_quit, s_errorBuffer, response, countVars,
                 historyVars, fault>>

SyncConfigure(t) ==
  /\ At(t, "syncConfigure")
  /\ CurlInit(t, "syncPerform", Home(t))
  /\ inHand' = IF pc'[t] = Home(t) THEN [inHand EXCEPT ![t] = NoRequest]
                                   ELSE inHand
  /\ UNCHANGED <<queueVars, s_need_quit, s_errorBuffer, response, countVars,
                 historyVars, fault>>

SyncPerform(t) ==
  /\ At(t, "syncPerform")
  /\ CurlPerform(t)
  /\ inHand' = [inHand EXCEPT ![t] = NoRequest]
  /\ Goto(t, Home(t))
  /\ UNCHANGED <<queueVars, s_need_quit, s_pHttpClient, response, countVars,
                 historyVars, fault>>

-------------------------------------------------------------------------------
(* destroyInstance().  On a null pointer it does nothing at all. *)

StartDestroy(t) ==
  /\ At(t, Home(t))
  /\ s_pHttpClient
  /\ destroys < MaxDestroys
  /\ destroys' = destroys + 1
  /\ Goto(t, "quitFlag")
  /\ UNCHANGED <<queueVars, globalVars, workVars, spawned, historyVars, fault>>

(* Mutant: the destructor notifies without raising the flag. *)
NoQuitFlag(t) ==
  /\ At(t, "quitFlag")
  /\ Goto(t, "quitNotify")
  /\ UNCHANGED <<queueVars, globalVars, workVars, countVars, historyVars, fault>>

(* ~HttpClient: the flag, the notification, the pointer. *)
QuitFlag(t) ==
  /\ At(t, "quitFlag")
  /\ s_need_quit' = TRUE
  /\ Goto(t, "quitNotify")
  /\ UNCHANGED <<queueVars, s_pHttpClient, s_errorBuffer, workVars, countVars,
                 historyVars, fault>>

QuitNotify(t) ==
  /\ At(t, "quitNotify")
  /\ IF s_requestQueue # "null" THEN NotifyOne(t, "quitNull")
                                ELSE Goto(t, "quitNull")
  /\ UNCHANGED <<queueVars, globalVars, workVars, countVars, historyVars, fault>>

QuitNull(t) ==
  /\ At(t, "quitNull")
  /\ s_pHttpClient' = FALSE
  /\ Goto(t, "quitFree")
  /\ UNCHANGED <<queueVars, s_need_quit, s_errorBuffer, workVars, countVars,
                 historyVars, fault>>

(* operator delete on a function-local static, which no new allocated: the *)
(* allocator aborts or happens to survive.  Then s_pHttpClient = nullptr.  *)
QuitFree(t) ==
  /\ At(t, "quitFree")
  /\ s_pHttpClient' = FALSE
  /\ Goto(t, Home(t))
  /\ fault' \in {"none", "bad delete"}
  /\ UNCHANGED <<queueVars, s_need_quit, s_errorBuffer, workVars, countVars,
                 historyVars>>

(* The steps of a client call after its first. *)
CallStep(t) ==
  \/ LazyInit(t) \/ NewResponses(t) \/ Spawn(t) \/ ResetQuit(t)
  \/ TestQueue(t) \/ Push(t) \/ Notify(t)
  \/ SyncConfigure(t) \/ SyncPerform(t)
  \/ QuitFlag(t) \/ QuitNotify(t) \/ QuitNull(t) \/ QuitFree(t)

StartCall(t) ==
  \/ \E r \in Requests \cup {NoRequest} : StartSend(t, r)
  \/ \E r \in SyncRequests : StartSync(t, r)
  \/ StartDestroy(t)

-------------------------------------------------------------------------------
Next ==
  \/ \E w \in Workers : WorkerStep(w) \/ CallbackReturns(w) \/ SpuriousWakeup(w)
  \/ \E t \in Threads : CallStep(t) \/ StartCall(t)

Spec == Init /\ [][Next]_vars

(* The scheduler runs every thread that can run, curl's two timeouts end a *)
(* transfer, and a callback returns however many client calls it makes.    *)
(* Nothing obliges the application to call, nor a wakeup to be spurious.   *)
Fairness ==
  /\ \A w \in Workers : WF_vars(WorkerStep(w)) /\ SF_vars(CallbackReturns(w))
  /\ \A t \in Threads : WF_vars(CallStep(t))

FairSpec == Spec /\ Fairness

-------------------------------------------------------------------------------
(* Properties. *)

(* A network thread that has not yet given up the request queue. *)
Serving(w) == pc[w] \notin {"unborn", "deleteResponses", "nullResponses", "done"}

(* A network thread between taking a request and publishing its response. *)
Busy(w) == pc[w] \in {"configure", "perform", "finish", "publish"}

(* Nothing is lost, duplicated or overtaken before the first destroy: the  *)
(* responses dispatched, those queued, the request being performed and the *)
(* requests queued are, in this order, the requests accepted - whatever    *)
(* the interleaving of the sends of Main, and of callbacks, with the       *)
(* network thread's two critical sections (HttpClient.cpp:107-117,         *)
(* 199-201, 466-468, 484-492).                                             *)
FlowInOrder ==
  destroys = 0 /\ fault = "none" =>
    IF \E w \in Workers : Busy(w)
    THEN \A w \in Workers : Busy(w) =>
           delivered \o responseQueue \o <<inHand[w]>> \o requestQueue = accepted
    ELSE delivered \o responseQueue \o requestQueue = accepted

(* Until destroyInstance is called no thread dereferences a null or a      *)
(* freed queue, although the null tests of the code (461, 479) and its     *)
(* dereferences are separate steps and the queues are created lazily.      *)
NoFaultBeforeDestroy == destroys = 0 => fault = "none"

(* A published response of a typed request reports success exactly when    *)
(* the server answered 2xx: the verdict travels through retValue, a local  *)
(* of the task, and the status code (HttpClient.cpp:137-195, 325-338).     *)
VerdictMatchesAnswer ==
  \A r \in (Range(responseQueue) \cup Range(delivered)) \ UnknownRequests :
    response[r].succeed <=> response[r].code \in 200..299

(* Across any number of destroys and restarts a request is dispatched at   *)
(* most once, and only in the order of acceptance: requests may be dropped *)
(* (cleanup, 210-221) but never repeated or overtaken.                     *)
DeliveredInOrder ==
  \A i, j \in DOMAIN delivered : i < j =>
    \E k, l \in DOMAIN accepted :
      k < l /\ accepted[k] = delivered[i] /\ accepted[l] = delivered[j]

(* Outside the creation in lazyInitThreadSemphore, a request queue that    *)
(* exists has exactly one network thread responsible for it, and a network *)
(* thread that has not finished its cleanup has a queue: destroyInstance   *)
(* and the restart after it never leave two threads on one queue, nor a    *)
(* queue without a thread.                                                 *)
QueueHasOneThread ==
  fault = "none" =>
    /\ s_requestQueue # "null" /\ pc[Main] \notin {"newResponses", "spawn"} =>
         \E w \in Workers : Serving(w)
    /\ \A v, w \in Workers : Serving(v) /\ Serving(w) => v = w
    /\ \A w \in Workers : Serving(w) => s_requestQueue # "null"

(* Once accepted, a request is delivered if the network thread is past its *)
(* wait and has not yet found the queue empty.                             *)
Awake(w) == Serving(w) /\ pc[w] \notin {"sleep", "waiting"}
AwakeThreadDelivers ==
  \A r \in Requests :
    r \in Range(requestQueue) /\ (\E w \in Workers : Awake(w))
      ~> r \in Range(delivered)

(* A network thread that waits when destroyInstance notifies, and only     *)
(* then, is certain to see the flag set before the notification and to run *)
(* its cleanup (HttpClient.cpp:421-425, 99-102, 210-221).                  *)
SleepingThreadQuits ==
  \A w \in Workers :
    pc[w] = "waiting" /\ pc[Main] = "quitNotify"
      ~> pc[w] = "done" \/ fault # "none"

(* Before the first destroy the client implements AsyncService: a push is  *)
(* a Submit, the dispatch of a response is a Complete, nothing else shows. *)
Service == INSTANCE AsyncService WITH submitted <- accepted, completed <- delivered
ImplementsAsyncService == Service!Spec

===============================================================================
