------------------------------- MODULE TcpProofs -------------------------------
(***************************************************************************)
(* Theorems about the connection to a server.  First about TcpConnection,  *)
(* for every set of messages and every bound on calls, failures, lines and *)
(* beats.                                                                  *)
(*                                                                         *)
(* Then, from TcpLines: that the lines that come are handed out once and   *)
(* in order, wherever the segments end, as the server's own whole lines if *)
(* no connection is lost within one, and that no byte but the line         *)
(* feeds is lost, whatever the delimiter.  What the texts should be is     *)
(* defined by recursion; each of the three definitions is first shown to   *)
(* satisfy its equations for the empty sequence and for one element more.  *)
(***************************************************************************)
EXTENDS TcpConnection, TcpLines, SequenceTheorems, WellFoundedInduction, TLAPS

-------------------------------------------------------------------------------
(* Sequences, and the counters of handlers that are ready. *)

LEMMA SeqTypes ==
  ASSUME NEW S, NEW s \in Seq(S), s # <<>>
  PROVE  Head(s) \in S /\ Tail(s) \in Seq(S)
BY HeadTailProperties

LEMMA AppendType ==
  ASSUME NEW S, NEW s \in Seq(S), NEW x \in S
  PROVE  Append(s, x) \in Seq(S)
BY AppendProperties

LEMMA NoItems == \A S : <<>> \in Seq(S)
OBVIOUS

Ready == [Completions -> Nat]

LEMMA CompletionLabels ==
  /\ "connected" \in Completions /\ "connectFailed" \in Completions
  /\ "lineRead" \in Completions /\ "emptyRead" \in Completions
  /\ "readFailed" \in Completions /\ "written" \in Completions
  /\ "writeFailed" \in Completions /\ "beatDue" \in Completions
  /\ "beatAborted" \in Completions /\ "reconnectDue" \in Completions
  /\ "reconnectAborted" \in Completions
BY DEF Completions

LEMMA WithFacts ==
  ASSUME NEW r \in Ready, NEW c \in Completions, NEW n \in Nat
  PROVE  /\ With(r, c, n) \in Ready
         /\ With(r, c, n)[c] = r[c] + n
         /\ \A d \in Completions : d # c => With(r, c, n)[d] = r[d]
BY DEF With, Ready

LEMMA WithoutFacts ==
  ASSUME NEW r \in Ready, NEW c \in Completions, r[c] > 0
  PROVE  /\ Without(r, c) \in Ready
         /\ Without(r, c)[c] = r[c] - 1
         /\ \A d \in Completions : d # c => Without(r, c)[d] = r[d]
BY DEF Without, Ready

LEMMA WaitsAbortedFacts ==
  ASSUME NEW r \in Ready, NEW c \in Completions, NEW pending \in BOOLEAN
  PROVE  /\ WaitsAborted(r, c, pending) \in Ready
         /\ \A d \in Completions : d # c => WaitsAborted(r, c, pending)[d] = r[d]
BY DEF WaitsAborted, Ready

(* What an abort of the socket's operations does to the counters.          *)
LEMMA AbortedFacts ==
  ASSUME NEW r \in Ready, reading \in Nat, writing \in Seq(Texts)
  PROVE  /\ Aborted(r) \in Ready
         /\ Aborted(r)["connectFailed"]
              = r["connectFailed"] + (IF m_socket = "connecting" THEN 1 ELSE 0)
         /\ Aborted(r)["readFailed"] = r["readFailed"] + reading
         /\ Aborted(r)["writeFailed"] = r["writeFailed"] + Len(writing)
         /\ \A d \in Completions :
              d \notin {"connectFailed", "readFailed", "writeFailed"} => Aborted(r)[d] = r[d]
<1> DEFINE n == IF m_socket = "connecting" THEN 1 ELSE 0
           r1 == With(r, "connectFailed", n)
           r2 == With(r1, "readFailed", reading)
           r3 == With(r2, "writeFailed", Len(writing))
<1>1. n \in Nat /\ Len(writing) \in Nat
  BY LenProperties
<1>2. /\ r1 \in Ready /\ r1["connectFailed"] = r["connectFailed"] + n
      /\ \A d \in Completions : d # "connectFailed" => r1[d] = r[d]
  <2> HIDE DEF n
  <2> QED
    BY <1>1, CompletionLabels DEF With, Ready
<1>3. /\ r2 \in Ready /\ r2["readFailed"] = r1["readFailed"] + reading
      /\ \A d \in Completions : d # "readFailed" => r2[d] = r1[d]
  <2>1. r1 \in Ready /\ reading \in Nat /\ "readFailed" \in Completions
    BY <1>2, CompletionLabels
  <2> HIDE DEF r1
  <2> QED
    BY <2>1, WithFacts
<1>4. /\ r3 \in Ready /\ r3["writeFailed"] = r2["writeFailed"] + Len(writing)
      /\ \A d \in Completions : d # "writeFailed" => r3[d] = r2[d]
  <2> HIDE DEF r2
  <2> QED
    BY <1>1, <1>3, WithFacts, CompletionLabels
<1>5. Aborted(r) = r3
  BY DEF Aborted
<1> HIDE DEF r1, r2, r3
<1> QED
  BY <1>2, <1>3, <1>4, <1>5, CompletionLabels

-------------------------------------------------------------------------------
(* Type correctness, in three parts: the handlers that are ready, the      *)
(* sequences, and the rest.                                                *)

ReadyOK == ready \in Ready /\ reading \in Nat
QueuesOK ==
  /\ m_messages \in Seq(Texts) /\ posts \in Seq(Texts \cup {CloseRequest})
  /\ writing \in Seq(Texts) /\ accepted \in Seq(Texts) /\ onWire \in Seq(Texts)
FlagsOK ==
  /\ m_socket \in Sockets /\ stopped \in BOOLEAN /\ ownClose \in BOOLEAN
  /\ writeLost \in BOOLEAN
  /\ m_heartBeatTimer \in BOOLEAN /\ m_reconnectTimer \in BOOLEAN
CallsOK ==
  /\ calls \in [DOMAIN Bound -> Nat]
  /\ \A k \in DOMAIN Bound : calls[k] <= Bound[k]

LEMMA TypeParts ==
  /\ TypeOK <=> ReadyOK /\ QueuesOK /\ FlagsOK /\ CallsOK
  /\ TypeOK' <=> ReadyOK' /\ QueuesOK' /\ FlagsOK' /\ CallsOK'
BY DEF TypeOK, ReadyOK, QueuesOK, FlagsOK, CallsOK, Ready

LEMMA BoundType ==
  /\ DOMAIN Bound = {"connect", "again", "disconnect", "close", "idle", "failure", "line", "beat"}
  /\ \A k \in DOMAIN Bound : Bound[k] \in Nat
BY BoundsAssumption DEF Bound

LEMMA CountType ==
  ASSUME CallsOK, NEW k \in DOMAIN Bound, Count(k)
  PROVE  CallsOK'
<1>1. calls[k] \in Nat /\ Bound[k] \in Nat /\ calls[k] < Bound[k]
  BY BoundType DEF CallsOK, Count
<1>2. calls' = [calls EXCEPT ![k] = calls[k] + 1]
  BY DEF Count
<1>3. calls' \in [DOMAIN Bound -> Nat]
  BY <1>1, <1>2 DEF CallsOK
<1>4. ASSUME NEW j \in DOMAIN Bound PROVE calls'[j] <= Bound[j]
  BY <1>1, <1>2 DEF CallsOK
<1> QED
  BY <1>3, <1>4 DEF CallsOK

LEMMA CountConnectType ==
  ASSUME CallsOK, CountConnect
  PROVE  CallsOK'
BY CountType, BoundType DEF CountConnect

(* The calls are counted or stay as they are.                              *)
LEMMA CallsTypeStep ==
  ASSUME CallsOK, Next
  PROVE  CallsOK'
<1>1. CASE UNCHANGED calls
  BY <1>1 DEF CallsOK
<1>2. CASE CountConnect
  BY <1>2, CountConnectType
<1>3. CASE \E k \in DOMAIN Bound : Count(k)
  BY <1>3, CountType
<1>4. UNCHANGED calls \/ CountConnect \/ \E k \in DOMAIN Bound : Count(k)
  <2>1. CASE Connect \/ Disconnect \/ Close \/ IdleUpdate \/ \E m \in Messages : Write(m)
    BY <2>1, BoundType DEF Connect, Disconnect, Close, IdleUpdate, Write
  <2>2. CASE ConnectionBreaks \/ Io
    BY <2>2, BoundType DEF ConnectionBreaks, Io, ConnectCompletes, LineArrives, ReadFails,
       WriteCompletes, HeartBeatExpires, ReconnectExpires
  <2>3. CASE Handler
    BY <2>3 DEF Handler, Connected, ConnectFailed, LineRead, EmptyRead, ReadFailed, Written,
       WriteFailed, DoWrite, DoClose, WaitAborted, DoReconnect, DoHeartBeat
  <2> QED
    BY <2>1, <2>2, <2>3 DEF Next
<1> QED
  BY <1>1, <1>2, <1>3, <1>4

LEMMA FlagsTypeStep ==
  ASSUME FlagsOK, Next
  PROVE  FlagsOK'
<1>1. CASE Connect \/ Disconnect \/ Close \/ IdleUpdate \/ \E m \in Messages : Write(m)
  BY <1>1 DEF FlagsOK, Sockets, Connect, Disconnect, Close, IdleUpdate, Write, timerVars,
     historyVars
<1>2. CASE ConnectionBreaks \/ Io
  BY <1>2 DEF FlagsOK, Sockets, ConnectionBreaks, Io, ConnectCompletes, LineArrives,
     ReadFails, WriteCompletes, HeartBeatExpires, ReconnectExpires, timerVars, historyVars
<1>3. CASE Handler
  <2>1. stopped' \in BOOLEAN
    BY <1>3 DEF Handler, Connected, ConnectFailed, LineRead, EmptyRead, ReadFailed, Written,
       WriteFailed, DoWrite, DoClose, WaitAborted, DoReconnect, DoHeartBeat, Returns, OutOfWork
  <2>2. m_socket' \in Sockets /\ ownClose' \in BOOLEAN /\ writeLost' \in BOOLEAN
    BY <1>3 DEF FlagsOK, Sockets, Handler, Connected, ConnectFailed, LineRead, EmptyRead,
       ReadFailed, Written, WriteFailed, DoWrite, DoClose, WaitAborted, DoReconnect,
       DoHeartBeat, historyVars
  <2>3. m_heartBeatTimer' \in BOOLEAN /\ m_reconnectTimer' \in BOOLEAN
    BY <1>3 DEF FlagsOK, Handler, Connected, ConnectFailed, LineRead, EmptyRead, ReadFailed,
       Written, WriteFailed, DoWrite, DoClose, WaitAborted, DoReconnect, DoHeartBeat,
       timerVars, ArmHeartBeat, ArmReconnect
  <2> QED
    BY <2>1, <2>2, <2>3 DEF FlagsOK
<1> QED
  BY <1>1, <1>2, <1>3 DEF Next

(* What a handler that ran leaves of the counters, whatever timer it arms. *)
LEMMA ArmHeartBeatType ==
  ASSUME ReadyOK, FlagsOK, NEW r \in Ready, ArmHeartBeat(r)
  PROVE  ready' \in Ready
BY WaitsAbortedFacts, CompletionLabels DEF ArmHeartBeat, FlagsOK

LEMMA ArmReconnectType ==
  ASSUME ReadyOK, FlagsOK, NEW r \in Ready, ArmReconnect(r)
  PROVE  ready' \in Ready
BY WaitsAbortedFacts, CompletionLabels DEF ArmReconnect, FlagsOK

LEMMA WithoutType ==
  ASSUME ReadyOK, NEW c \in Completions, Runs(c)
  PROVE  Without(ready, c) \in Ready
BY WithoutFacts DEF Runs, ReadyOK

LEMMA WithType ==
  ASSUME ReadyOK, NEW c \in Completions
  PROVE  With(ready, c, 1) \in Ready
BY WithFacts DEF ReadyOK

LEMMA ReadyTypeStep ==
  ASSUME ReadyOK, QueuesOK, FlagsOK, Next
  PROVE  ReadyOK'
<1> USE CompletionLabels
<1>1. CASE Connect
  BY <1>1, WithType DEF ReadyOK, Connect
<1>2. CASE Disconnect \/ Close \/ IdleUpdate \/ ConnectionBreaks \/ \E m \in Messages : Write(m)
  BY <1>2 DEF ReadyOK, Disconnect, Close, IdleUpdate, ConnectionBreaks, Write
<1>3. CASE Io
  BY <1>3, WithType DEF ReadyOK, Io, ConnectCompletes, LineArrives, ReadFails,
     WriteCompletes, HeartBeatExpires, ReconnectExpires
<1>4. CASE Connected \/ LineRead
  BY <1>4, WithoutType, ArmHeartBeatType DEF ReadyOK, Connected, LineRead
<1>5. CASE ConnectFailed \/ ReadFailed
  BY <1>5, WithoutType, ArmReconnectType DEF ReadyOK, ConnectFailed, ReadFailed
<1>6. CASE EmptyRead \/ WriteFailed \/ WaitAborted \/ DoHeartBeat
  BY <1>6, WithoutType DEF ReadyOK, EmptyRead, WriteFailed, WaitAborted, DoHeartBeat
<1>7. CASE Written
  BY <1>7, WithoutType, ArmHeartBeatType DEF ReadyOK, Written
<1>8. CASE DoWrite
  BY <1>8 DEF ReadyOK, DoWrite
<1>9. CASE DoClose
  <2>1. Aborted(ready) \in Ready
    BY AbortedFacts DEF ReadyOK, QueuesOK
  <2>2. WaitsAborted(Aborted(ready), "beatAborted", m_heartBeatTimer) \in Ready
    BY <2>1, WaitsAbortedFacts DEF FlagsOK
  <2>3. ready' \in Ready
    BY <1>9, <2>2, WaitsAbortedFacts DEF FlagsOK, DoClose
  <2> QED
    BY <1>9, <2>3 DEF ReadyOK, DoClose
<1>10. CASE DoReconnect
  <2>1. Without(ready, "reconnectDue") \in Ready
    BY <1>10, WithoutType DEF DoReconnect
  <2>2. ready' \in Ready
    BY <1>10, <2>1, AbortedFacts DEF ReadyOK, QueuesOK, DoReconnect
  <2> QED
    BY <1>10, <2>2 DEF ReadyOK, DoReconnect
<1> QED
  BY <1>1, <1>2, <1>3, <1>4, <1>5, <1>6, <1>7, <1>8, <1>9, <1>10 DEF Next, Handler

LEMMA TextsInPosts == Texts \subseteq Texts \cup {CloseRequest} /\ HeartBeat \in Texts
BY DEF Texts

LEMMA QueuesTypeStep ==
  ASSUME QueuesOK, Next
  PROVE  QueuesOK'
<1>1. CASE Disconnect \/ Close
  BY <1>1, AppendType DEF QueuesOK, Disconnect, Close, historyVars
<1>2. ASSUME NEW m \in Messages, Write(m) PROVE QueuesOK'
  <2>1. m \in Texts \cup {CloseRequest}
    BY DEF Texts
  <2> QED
    BY <1>2, <2>1, AppendType DEF QueuesOK, Write, historyVars
<1>3. CASE WriteCompletes
  <2>1. Head(writing) \in Texts /\ Tail(writing) \in Seq(Texts)
    BY <1>3, SeqTypes DEF QueuesOK, WriteCompletes
  <2>2. Append(onWire, Head(writing)) \in Seq(Texts)
    BY <2>1, AppendType DEF QueuesOK
  <2> QED
    BY <1>3, <2>1, <2>2 DEF QueuesOK, WriteCompletes
<1>4. CASE Connect \/ IdleUpdate \/ ConnectionBreaks \/ ConnectCompletes \/ LineArrives
           \/ ReadFails \/ HeartBeatExpires \/ ReconnectExpires
  BY <1>4 DEF QueuesOK, Connect, IdleUpdate, ConnectionBreaks, ConnectCompletes, LineArrives,
     ReadFails, HeartBeatExpires, ReconnectExpires, historyVars
<1>5. CASE Connected \/ ConnectFailed \/ LineRead \/ EmptyRead \/ ReadFailed \/ WriteFailed
           \/ WaitAborted
  BY <1>5 DEF QueuesOK, Connected, ConnectFailed, LineRead, EmptyRead, ReadFailed,
     WriteFailed, WaitAborted, historyVars
<1>6. CASE Written
  <2>1. Tail(m_messages) \in Seq(Texts) /\ m_messages' = Tail(m_messages)
    BY <1>6, SeqTypes DEF QueuesOK, Written
  <2>2. m_messages' # <<>> => Append(writing, Head(m_messages')) \in Seq(Texts)
    BY <2>1, SeqTypes, AppendType DEF QueuesOK
  <2> QED
    BY <1>6, <2>1, <2>2 DEF QueuesOK, Written, historyVars
<1>7. CASE DoWrite
  <2>1. Head(posts) \in Texts /\ Tail(posts) \in Seq(Texts \cup {CloseRequest})
    BY <1>7, SeqTypes DEF QueuesOK, DoWrite
  <2>2. /\ Append(m_messages, Head(posts)) \in Seq(Texts)
        /\ Append(accepted, Head(posts)) \in Seq(Texts)
        /\ Append(writing, Head(posts)) \in Seq(Texts)
    BY <2>1, AppendType DEF QueuesOK
  <2> QED
    BY <1>7, <2>1, <2>2 DEF QueuesOK, DoWrite
<1>8. CASE DoClose
  BY <1>8, SeqTypes, NoItems DEF QueuesOK, DoClose
<1>9. CASE DoReconnect
  BY <1>9, NoItems DEF QueuesOK, DoReconnect, historyVars
<1>10. CASE DoHeartBeat
  <2>1. Append(posts, HeartBeat) \in Seq(Texts \cup {CloseRequest})
    BY TextsInPosts, AppendType DEF QueuesOK
  <2> QED
    BY <1>10, <2>1 DEF QueuesOK, DoHeartBeat, historyVars
<1> QED
  BY <1>1, <1>2, <1>3, <1>4, <1>5, <1>6, <1>7, <1>8, <1>9, <1>10 DEF Next, Handler, Io

LEMMA TypeInit == Init => TypeOK
<1> SUFFICES ASSUME Init PROVE TypeOK
  OBVIOUS
<1>1. ReadyOK
  BY DEF Init, ReadyOK, Ready
<1>2. QueuesOK /\ FlagsOK
  BY NoItems DEF Init, QueuesOK, FlagsOK, Sockets
<1>3. CallsOK
  BY BoundType DEF Init, CallsOK
<1> QED
  BY <1>1, <1>2, <1>3, TypeParts

LEMMA TypeStep ==
  ASSUME TypeOK, [Next]_vars
  PROVE  TypeOK'
<1>1. CASE Next
  BY <1>1, TypeParts, ReadyTypeStep, QueuesTypeStep, FlagsTypeStep, CallsTypeStep
<1>2. CASE UNCHANGED vars
  BY <1>2 DEF TypeOK, vars, timerVars, historyVars
<1> QED
  BY <1>1, <1>2

(* Every variable of the connection keeps its type through any calls of    *)
(* the application, failures and handlers; in particular no counter of     *)
(* ready handlers goes below zero and no bound is exceeded.                *)
THEOREM TypeCorrect == Spec => []TypeOK
<1> QED
  BY TypeInit, TypeStep, PTL DEF Spec

-------------------------------------------------------------------------------
(* What a step does to the counters.  Handlers run one at a time: each     *)
(* takes one from its own counter, and may arm one timer.                  *)

LEMMA HeartBeatArmed ==
  ASSUME TypeOK, NEW c \in Completions, Runs(c), ArmHeartBeat(Without(ready, c)),
         c # "beatAborted"
  PROVE  /\ ready[c] > 0 /\ ready'[c] = ready[c] - 1
         /\ \A d \in Completions : d \notin {c, "beatAborted"} => ready'[d] = ready[d]
         /\ m_heartBeatTimer'
<1>1. ReadyOK /\ m_heartBeatTimer \in BOOLEAN /\ ready[c] > 0
  BY TypeParts DEF FlagsOK, Runs
<1>2. /\ Without(ready, c) \in Ready /\ Without(ready, c)[c] = ready[c] - 1
      /\ \A d \in Completions : d # c => Without(ready, c)[d] = ready[d]
  BY <1>1, WithoutFacts DEF ReadyOK
<1>3. \A d \in Completions : d # "beatAborted" => ready'[d] = Without(ready, c)[d]
  <2> DEFINE r0 == Without(ready, c)
  <2>1. ready' = WaitsAborted(r0, "beatAborted", m_heartBeatTimer)
    BY DEF ArmHeartBeat
  <2>2. r0 \in Ready /\ "beatAborted" \in Completions /\ m_heartBeatTimer \in BOOLEAN
    BY <1>1, <1>2, CompletionLabels
  <2> HIDE DEF r0
  <2>3. \A d \in Completions : d # "beatAborted" => ready'[d] = r0[d]
    BY <2>1, <2>2, WaitsAbortedFacts
  <2> QED
    BY <2>3 DEF r0
<1> QED
  BY <1>1, <1>2, <1>3 DEF ArmHeartBeat

LEMMA ReconnectArmed ==
  ASSUME TypeOK, NEW c \in Completions, Runs(c), ArmReconnect(Without(ready, c)),
         c # "reconnectAborted"
  PROVE  /\ ready[c] > 0 /\ ready'[c] = ready[c] - 1
         /\ \A d \in Completions : d \notin {c, "reconnectAborted"} => ready'[d] = ready[d]
         /\ m_reconnectTimer'
<1>1. ReadyOK /\ m_reconnectTimer \in BOOLEAN /\ ready[c] > 0
  BY TypeParts DEF FlagsOK, Runs
<1>2. /\ Without(ready, c) \in Ready /\ Without(ready, c)[c] = ready[c] - 1
      /\ \A d \in Completions : d # c => Without(ready, c)[d] = ready[d]
  BY <1>1, WithoutFacts DEF ReadyOK
<1>3. \A d \in Completions : d # "reconnectAborted" => ready'[d] = Without(ready, c)[d]
  <2> DEFINE r0 == Without(ready, c)
  <2>1. ready' = WaitsAborted(r0, "reconnectAborted", m_reconnectTimer)
    BY DEF ArmReconnect
  <2>2. r0 \in Ready /\ "reconnectAborted" \in Completions /\ m_reconnectTimer \in BOOLEAN
    BY <1>1, <1>2, CompletionLabels
  <2> HIDE DEF r0
  <2>3. \A d \in Completions : d # "reconnectAborted" => ready'[d] = r0[d]
    BY <2>1, <2>2, WaitsAbortedFacts
  <2> QED
    BY <2>3 DEF r0
<1> QED
  BY <1>1, <1>2, <1>3 DEF ArmReconnect

LEMMA HandlerRan ==
  ASSUME TypeOK, NEW c \in Completions, Runs(c), ready' = Without(ready, c)
  PROVE  /\ ready[c] > 0 /\ ready'[c] = ready[c] - 1
         /\ \A d \in Completions : d # c => ready'[d] = ready[d]
BY TypeParts, WithoutFacts DEF ReadyOK, Runs

LEMMA BecomesReady ==
  ASSUME TypeOK, NEW c \in Completions, ready' = With(ready, c, 1)
  PROVE  /\ ready'[c] = ready[c] + 1
         /\ \A d \in Completions : d # c => ready'[d] = ready[d]
BY TypeParts, WithFacts DEF ReadyOK

(* Both ways of closing the socket turn what is pending on it into handlers *)
(* of failures.                                                            *)
Closes ==
  /\ reading' = 0 /\ writing' = <<>>
  /\ ready'["readFailed"] = ready["readFailed"] + reading
  /\ ready'["writeFailed"] = ready["writeFailed"] + Len(writing)
  /\ ready'["connectFailed"]
       = ready["connectFailed"] + (IF m_socket = "connecting" THEN 1 ELSE 0)
  /\ \A c \in {"connected", "lineRead", "emptyRead", "written"} : ready'[c] = ready[c]
  /\ UNCHANGED <<m_messages, accepted, onWire, writeLost>>

LEMMA CloseEffect ==
  ASSUME TypeOK, DoClose
  PROVE  Closes /\ ready'["reconnectDue"] = ready["reconnectDue"]
<1> DEFINE r0 == Aborted(ready)
           r1 == WaitsAborted(r0, "beatAborted", m_heartBeatTimer)
<1> USE CompletionLabels
<1>1. ReadyOK /\ QueuesOK /\ FlagsOK
  BY TypeParts
<1>2. /\ r0 \in Ready
      /\ r0["connectFailed"] = ready["connectFailed"] + (IF m_socket = "connecting" THEN 1 ELSE 0)
      /\ r0["readFailed"] = ready["readFailed"] + reading
      /\ r0["writeFailed"] = ready["writeFailed"] + Len(writing)
      /\ \A d \in Completions :
           d \notin {"connectFailed", "readFailed", "writeFailed"} => r0[d] = ready[d]
  BY <1>1, AbortedFacts DEF ReadyOK, QueuesOK
<1>3. /\ r1 \in Ready /\ \A d \in Completions : d # "beatAborted" => r1[d] = r0[d]
  <2> HIDE DEF r0
  <2> QED
    BY <1>1, <1>2, WaitsAbortedFacts DEF FlagsOK
<1>4. \A d \in Completions : d # "reconnectAborted" => ready'[d] = r1[d]
  <2>1. ready' = WaitsAborted(r1, "reconnectAborted", m_reconnectTimer)
    BY DEF DoClose
  <2>2. r1 \in Ready /\ "reconnectAborted" \in Completions /\ m_reconnectTimer \in BOOLEAN
    BY <1>1, <1>3 DEF FlagsOK
  <2> HIDE DEF r1
  <2> QED
    BY ONLY <2>1, <2>2, WaitsAbortedFacts
<1>5. reading' = 0 /\ writing' = <<>> /\ UNCHANGED <<m_messages, accepted, onWire, writeLost>>
  BY DEF DoClose
<1> HIDE DEF r0, r1
<1> QED
  BY <1>2, <1>3, <1>4, <1>5 DEF Closes

LEMMA ReconnectEffect ==
  ASSUME TypeOK, DoReconnect
  PROVE  /\ Closes
         /\ ready["reconnectDue"] > 0 /\ ready'["reconnectDue"] = ready["reconnectDue"] - 1
<1> DEFINE r0 == Without(ready, "reconnectDue")
<1> USE CompletionLabels
<1>1. ReadyOK /\ QueuesOK /\ ready["reconnectDue"] > 0
  BY TypeParts DEF DoReconnect, Runs
<1>2. /\ r0 \in Ready /\ r0["reconnectDue"] = ready["reconnectDue"] - 1
      /\ \A d \in Completions : d # "reconnectDue" => r0[d] = ready[d]
  BY <1>1, WithoutFacts DEF ReadyOK
<1>3. /\ ready'["connectFailed"] = r0["connectFailed"] + (IF m_socket = "connecting" THEN 1 ELSE 0)
      /\ ready'["readFailed"] = r0["readFailed"] + reading
      /\ ready'["writeFailed"] = r0["writeFailed"] + Len(writing)
      /\ \A d \in Completions :
           d \notin {"connectFailed", "readFailed", "writeFailed"} => ready'[d] = r0[d]
  <2>1. ready' = Aborted(r0)
    BY DEF DoReconnect
  <2> HIDE DEF r0
  <2> QED
    BY <1>1, <1>2, <2>1, AbortedFacts DEF ReadyOK, QueuesOK
<1>4. reading' = 0 /\ writing' = <<>> /\ UNCHANGED <<m_messages, accepted, onWire, writeLost>>
  BY DEF DoReconnect, historyVars
<1> HIDE DEF r0
<1> QED
  BY <1>1, <1>2, <1>3, <1>4 DEF Closes

-------------------------------------------------------------------------------
(* Writing.  The two properties about the queue of messages are inductive  *)
(* together: a write that succeeds moves the head of the queue to the wire *)
(* before the handler pops it, and the head stays there because no second  *)
(* write can be in flight.                                                 *)

WriteInv == OneWriteInFlight /\ SentInOrder

WriteUnchanged ==
  /\ UNCHANGED <<m_messages, writing, accepted, onWire, writeLost>>
  /\ ready'["written"] = ready["written"] /\ ready'["writeFailed"] = ready["writeFailed"]

LEMMA WriteFrame ==
  ASSUME WriteInv, WriteUnchanged
  PROVE  WriteInv'
BY DEF WriteInv, WriteUnchanged, OneWriteInFlight, SentInOrder, InFlight

(* The steps that are not about writing.                                   *)
Elsewhere ==
  \/ Connect \/ Disconnect \/ Close \/ IdleUpdate \/ \E m \in Messages : Write(m)
  \/ ConnectionBreaks \/ ConnectCompletes \/ LineArrives \/ ReadFails
  \/ HeartBeatExpires \/ ReconnectExpires
  \/ Connected \/ ConnectFailed \/ LineRead \/ EmptyRead \/ ReadFailed
  \/ WaitAborted \/ DoHeartBeat

LEMMA ElsewhereEffect ==
  ASSUME TypeOK, Elsewhere
  PROVE  WriteUnchanged
<1> USE CompletionLabels
<1>1. CASE Connect
  BY <1>1, BecomesReady DEF WriteUnchanged, Connect
<1>2. CASE Disconnect \/ Close \/ IdleUpdate \/ ConnectionBreaks \/ \E m \in Messages : Write(m)
  BY <1>2 DEF WriteUnchanged, Disconnect, Close, IdleUpdate, ConnectionBreaks, Write, historyVars
<1>3. CASE ConnectCompletes \/ LineArrives \/ ReadFails \/ HeartBeatExpires \/ ReconnectExpires
  BY <1>3, BecomesReady DEF WriteUnchanged, ConnectCompletes, LineArrives, ReadFails,
     HeartBeatExpires, ReconnectExpires, historyVars
<1>4. CASE Connected \/ LineRead
  BY <1>4, HeartBeatArmed DEF WriteUnchanged, Connected, LineRead, historyVars
<1>5. CASE ConnectFailed \/ ReadFailed
  BY <1>5, ReconnectArmed DEF WriteUnchanged, ConnectFailed, ReadFailed, historyVars
<1>6. CASE EmptyRead \/ WaitAborted \/ DoHeartBeat
  BY <1>6, HandlerRan DEF WriteUnchanged, EmptyRead, WaitAborted, DoHeartBeat, historyVars
<1> QED
  BY <1>1, <1>2, <1>3, <1>4, <1>5, <1>6 DEF Elsewhere

(* The counters and the pending write are numbers, for the steps below.    *)
LEMMA WriteNumbers ==
  ASSUME TypeOK
  PROVE  /\ ready["written"] \in Nat /\ ready["writeFailed"] \in Nat
         /\ m_messages \in Seq(Texts) /\ writing \in Seq(Texts)
         /\ onWire \in Seq(Texts) /\ accepted \in Seq(Texts)
         /\ Len(writing) \in Nat /\ (Len(writing) = 0 <=> writing = <<>>)
<1>1. ReadyOK /\ QueuesOK
  BY TypeParts
<1>2. writing \in Seq(Texts)
  BY <1>1 DEF QueuesOK
<1>3. Len(writing) \in Nat /\ (Len(writing) = 0 <=> writing = <<>>)
  BY <1>2, EmptySeq, LenProperties
<1> QED
  BY <1>1, <1>3, CompletionLabels DEF ReadyOK, QueuesOK, Ready

LEMMA WriteCompletesKeeps ==
  ASSUME TypeOK, WriteInv, WriteCompletes
  PROVE  WriteInv'
<1>1. /\ Len(writing) = 1 /\ ready["written"] = 0 /\ ready["writeFailed"] = 0
      /\ m_messages # <<>> /\ writing = <<Head(m_messages)>> /\ writing' = <<>>
  BY WriteNumbers DEF WriteInv, OneWriteInFlight, InFlight, WriteCompletes
<1>2. UNCHANGED <<m_messages, accepted>> /\ onWire \o m_messages = accepted
  BY <1>1 DEF WriteCompletes, WriteInv, SentInOrder
<1>3. CASE ready' = With(ready, "written", 1) /\ onWire' = Append(onWire, Head(writing))
  <2>1. ready'["written"] = 1 /\ ready'["writeFailed"] = 0
    BY <1>1, <1>3, BecomesReady, CompletionLabels
  <2>2. onWire' \o Tail(m_messages) = onWire \o m_messages
    <3> DEFINE h == Head(m_messages)
    <3>1. onWire \in Seq(Texts) /\ m_messages \in Seq(Texts) /\ m_messages # <<>> /\ h \in Texts
      BY <1>1, WriteNumbers, SeqTypes
    <3>2. onWire' = Append(onWire, h)
      BY <1>1, <1>3
    <3>3. Append(onWire, h) \o Tail(m_messages) = onWire \o m_messages
      BY <3>1
    <3> QED
      BY <3>2, <3>3
  <2> QED
    BY <1>1, <1>2, <2>1, <2>2 DEF WriteInv, OneWriteInFlight, SentInOrder, InFlight
<1>4. CASE ready' = With(ready, "writeFailed", 1) /\ onWire' = onWire
  <2>1. ready'["written"] = 0 /\ ready'["writeFailed"] = 1
    BY <1>1, <1>4, BecomesReady, CompletionLabels
  <2> QED
    BY <1>1, <1>2, <1>4, <2>1 DEF WriteInv, OneWriteInFlight, SentInOrder, InFlight
<1> QED
  BY <1>3, <1>4 DEF WriteCompletes

LEMMA WrittenKeeps ==
  ASSUME TypeOK, WriteInv, Written
  PROVE  WriteInv'
<1>1. /\ ready["written"] = 1 /\ ready["writeFailed"] = 0 /\ writing = <<>>
      /\ onWire \o Tail(m_messages) = accepted
  BY WriteNumbers DEF WriteInv, OneWriteInFlight, SentInOrder, InFlight, Written, Runs
<1>2. ready'["written"] = 0 /\ ready'["writeFailed"] = 0
  BY <1>1, HandlerRan, HeartBeatArmed, CompletionLabels DEF Written
<1>3. m_messages' = Tail(m_messages) /\ UNCHANGED <<onWire, accepted>>
  BY DEF Written, historyVars
<1>4. \/ m_messages' # <<>> /\ writing' = Append(writing, Head(m_messages'))
      \/ m_messages' = <<>> /\ writing' = writing
  BY DEF Written
<1>5. /\ m_messages' = <<>> => writing' = <<>>
      /\ m_messages' # <<>> => writing' = <<Head(m_messages')>>
  BY <1>1, <1>4
<1>6. (m_messages' # <<>> => Len(writing') = 1) /\ (m_messages' = <<>> => Len(writing') = 0)
  BY <1>5
<1>7. OneWriteInFlight'
  <2>1. InFlight' = Len(writing')
    BY <1>2, <1>6 DEF InFlight
  <2> QED
    BY <1>5, <1>6, <2>1 DEF OneWriteInFlight
<1>8. SentInOrder'
  BY <1>1, <1>2, <1>3 DEF SentInOrder
<1> QED
  BY <1>7, <1>8 DEF WriteInv

LEMMA WriteFailedKeeps ==
  ASSUME TypeOK, WriteInv, WriteFailed
  PROVE  WriteInv'
<1>1. /\ ready["writeFailed"] = 1 /\ ready["written"] = 0 /\ writing = <<>>
      /\ onWire \o m_messages = accepted
  BY WriteNumbers DEF WriteInv, OneWriteInFlight, SentInOrder, InFlight, WriteFailed, Runs
<1>2. ready'["writeFailed"] = 0 /\ ready'["written"] = 0
  BY <1>1, HandlerRan, CompletionLabels DEF WriteFailed
<1>3. UNCHANGED <<m_messages, writing, onWire, accepted>>
  BY DEF WriteFailed, historyVars
<1> QED
  BY <1>1, <1>2, <1>3 DEF WriteInv, OneWriteInFlight, SentInOrder, InFlight

LEMMA DoWriteKeeps ==
  ASSUME TypeOK, WriteInv, DoWrite
  PROVE  WriteInv'
<1> DEFINE m == Head(posts)
<1>1. /\ m \in Texts /\ UNCHANGED <<ready, onWire>>
      /\ m_messages' = Append(m_messages, m) /\ accepted' = Append(accepted, m)
      /\ writing' = IF m_messages = <<>> THEN Append(writing, m) ELSE writing
  BY DEF DoWrite
<1> HIDE DEF m
<1>2. m_messages' # <<>>
  BY <1>1, WriteNumbers, AppendProperties
<1>3. CASE m_messages = <<>>
  <2>1. writing = <<>> /\ ready["written"] = 0 /\ ready["writeFailed"] = 0
    BY <1>3, WriteNumbers DEF WriteInv, OneWriteInFlight, InFlight
  <2>2. writing' = <<m>> /\ m_messages' = <<m>>
    BY <1>1, <1>3, <2>1
  <2>3. onWire \o m_messages' = accepted'
    BY <1>1, <1>3, <2>1, <2>2, WriteNumbers DEF WriteInv, SentInOrder
  <2> QED
    BY <1>1, <2>1, <2>2, <2>3 DEF WriteInv, OneWriteInFlight, SentInOrder, InFlight
<1>4. CASE m_messages # <<>>
  <2>1. writing' = writing /\ Head(m_messages') = Head(m_messages)
    BY <1>1, <1>4, WriteNumbers
  <2>2. /\ onWire \o Append(m_messages, m) = Append(onWire \o m_messages, m)
        /\ Tail(Append(m_messages, m)) = Append(Tail(m_messages), m)
        /\ onWire \o Append(Tail(m_messages), m) = Append(onWire \o Tail(m_messages), m)
    <3>1. onWire \in Seq(Texts) /\ m_messages \in Seq(Texts) /\ Tail(m_messages) \in Seq(Texts)
      BY <1>4, WriteNumbers, SeqTypes
    <3> QED
      BY <1>1, <1>4, <3>1
  <2>3. SentInOrder'
    BY <1>1, <2>2 DEF WriteInv, SentInOrder
  <2>4. OneWriteInFlight'
    BY <1>1, <1>2, <2>1, WriteNumbers DEF WriteInv, OneWriteInFlight, InFlight
  <2> QED
    BY <2>3, <2>4 DEF WriteInv
<1> QED
  BY <1>3, <1>4

LEMMA ClosesKeeps ==
  ASSUME TypeOK, WriteInv, Closes
  PROVE  WriteInv'
<1>1. Len(writing') = 0 /\ writing' = <<>>
  BY DEF Closes
<1>2. /\ ready'["written"] = ready["written"]
      /\ ready'["writeFailed"] = ready["writeFailed"] + Len(writing)
      /\ UNCHANGED <<m_messages, onWire, accepted>>
  BY DEF Closes
<1>3. InFlight' = InFlight
  BY <1>1, <1>2, WriteNumbers DEF InFlight
<1> QED
  BY <1>1, <1>2, <1>3 DEF WriteInv, OneWriteInFlight, SentInOrder

LEMMA WriteStep ==
  ASSUME TypeOK, WriteInv, [Next]_vars
  PROVE  WriteInv'
<1>1. CASE Elsewhere
  BY <1>1, ElsewhereEffect, WriteFrame
<1>2. CASE DoClose \/ DoReconnect
  BY <1>2, CloseEffect, ReconnectEffect, ClosesKeeps
<1>3. CASE UNCHANGED vars
  BY <1>3, WriteFrame DEF vars, historyVars, WriteUnchanged
<1> QED
  BY <1>1, <1>2, <1>3, WriteCompletesKeeps, WrittenKeeps, WriteFailedKeeps, DoWriteKeeps
     DEF Next, Io, Handler, Elsewhere

LEMMA WriteInit == Init => WriteInv
BY CompletionLabels DEF Init, WriteInv, OneWriteInFlight, SentInOrder, InFlight

LEMMA WriteInvariant == Spec => []WriteInv
<1>1. TypeOK /\ WriteInv /\ [Next]_vars => WriteInv'
  BY WriteStep
<1> QED
  BY <1>1, WriteInit, TypeCorrect, PTL DEF Spec

(* At most one write is in flight, its buffer is the head of the queue,    *)
(* and the queue keeps that head until the write's handler has run - with  *)
(* any number of messages, heartbeats, closes and lost connections         *)
(* (TcpConnection.cpp:181-229).                                            *)
THEOREM WritesNeverOverlap == Spec => []OneWriteInFlight
<1>1. WriteInv => OneWriteInFlight
  BY DEF WriteInv
<1> QED
  BY <1>1, WriteInvariant, PTL

(* What has been sent, followed by what is queued, is what was accepted:   *)
(* no message is sent twice, skipped or overtaken.                         *)
THEOREM MessagesSentInOrder == Spec => []SentInOrder
<1>1. WriteInv => SentInOrder
  BY DEF WriteInv
<1> QED
  BY <1>1, WriteInvariant, PTL

-------------------------------------------------------------------------------
(* Connecting and reading.  OneEffort counts what one connect() set going; *)
(* inductive is that every call of connect() adds one effort at most, and  *)
(* no handler, failure or close adds any: each passes its effort on.       *)

EffortsBounded == Efforts <= ConnectCalls

Connecting == IF m_socket = "connecting" THEN 1 ELSE 0
Retrying == IF m_reconnectTimer THEN 1 ELSE 0

LEMMA EffortNumbers ==
  ASSUME TypeOK
  PROVE  /\ \A c \in Completions : ready[c] \in Nat
         /\ reading \in Nat /\ ConnectCalls \in Nat
         /\ Connecting \in 0..1 /\ Retrying \in 0..1
         /\ Efforts = Connecting + ready["connected"] + ready["connectFailed"] + reading
              + ready["lineRead"] + ready["emptyRead"] + ready["readFailed"] + Retrying
              + ready["reconnectDue"]
<1>1. ReadyOK /\ CallsOK
  BY TypeParts
<1>2. ConnectCalls \in Nat
  BY <1>1, BoundType DEF CallsOK, ConnectCalls
<1> QED
  BY <1>1, <1>2 DEF ReadyOK, Ready, Connecting, Retrying, Efforts

(* Efforts as a sum of the state after a step. *)
LEMMA EffortsAfter ==
  Efforts' = Connecting' + ready'["connected"] + ready'["connectFailed"] + reading'
              + ready'["lineRead"] + ready'["emptyRead"] + ready'["readFailed"] + Retrying'
              + ready'["reconnectDue"]
BY DEF Efforts, Connecting, Retrying

LEMMA EffortNumbersAfter ==
  ASSUME TypeOK'
  PROVE  Efforts' \in Nat /\ ConnectCalls' \in Nat
<1>1. ReadyOK' /\ CallsOK'
  BY TypeParts
<1>2. ConnectCalls' \in Nat
  BY <1>1, BoundType DEF CallsOK, ConnectCalls
<1>3. /\ \A c \in Completions : ready'[c] \in Nat
      /\ reading' \in Nat /\ Connecting' \in 0..1 /\ Retrying' \in 0..1
  BY <1>1 DEF ReadyOK, Ready, Connecting, Retrying
<1> QED
  BY <1>2, <1>3, EffortsAfter, CompletionLabels

EffortUnchanged ==
  /\ UNCHANGED <<m_socket, m_reconnectTimer, reading>>
  /\ \A c \in {"connected", "connectFailed", "lineRead", "emptyRead", "readFailed",
               "reconnectDue"} : ready'[c] = ready[c]

(* The steps that are not about connecting or reading.                     *)
Aside ==
  \/ Disconnect \/ Close \/ IdleUpdate \/ \E m \in Messages : Write(m)
  \/ WriteCompletes \/ HeartBeatExpires
  \/ Written \/ WriteFailed \/ DoWrite \/ WaitAborted \/ DoHeartBeat

LEMMA AsideEffect ==
  ASSUME TypeOK, Aside
  PROVE  EffortUnchanged /\ UNCHANGED <<calls["connect"], calls["again"]>>
<1> USE CompletionLabels
<1>0. CallsOK /\ DOMAIN calls = DOMAIN Bound
  BY TypeParts DEF CallsOK
<1>1. UNCHANGED <<calls["connect"], calls["again"]>>
  BY <1>0, BoundType DEF Aside, Disconnect, Close, IdleUpdate, Write, WriteCompletes,
     HeartBeatExpires, Written, WriteFailed, DoWrite, WaitAborted, DoHeartBeat, Count
<1>2. CASE Disconnect \/ Close \/ IdleUpdate \/ DoWrite \/ \E m \in Messages : Write(m)
  <2>1. UNCHANGED <<ready, m_socket, m_reconnectTimer, reading>>
    BY <1>2 DEF Disconnect, Close, IdleUpdate, DoWrite, Write, timerVars
  <2> QED
    BY <1>1, <2>1 DEF EffortUnchanged
<1>3. CASE WriteCompletes \/ HeartBeatExpires
  <2>1. /\ UNCHANGED <<m_socket, m_reconnectTimer, reading>>
        /\ \E c \in {"written", "writeFailed", "beatDue"} : ready' = With(ready, c, 1)
    BY <1>3 DEF WriteCompletes, HeartBeatExpires, timerVars
  <2> QED
    BY <1>1, <2>1, BecomesReady DEF EffortUnchanged
<1>4. CASE WriteFailed \/ WaitAborted \/ DoHeartBeat
  BY <1>4, HandlerRan DEF EffortUnchanged, WriteFailed, WaitAborted, DoHeartBeat, timerVars
<1>5. CASE Written
  BY <1>5, HandlerRan, HeartBeatArmed DEF EffortUnchanged, Written, timerVars
<1> QED
  BY <1>1, <1>2, <1>3, <1>4, <1>5 DEF Aside

LEMMA ConnectIsCounted ==
  ASSUME TypeOK, CountConnect
  PROVE  ConnectCalls' = ConnectCalls + 1
<1>1. calls \in [DOMAIN Bound -> Nat] /\ "connect" \in DOMAIN Bound /\ "again" \in DOMAIN Bound
  BY TypeParts, BoundType DEF CallsOK
<1>2. CASE calls["disconnect"] = 0
  BY <1>1, <1>2 DEF CountConnect, Count, ConnectCalls
<1>3. CASE calls["disconnect"] # 0
  BY <1>1, <1>3 DEF CountConnect, Count, ConnectCalls
<1> QED
  BY <1>2, <1>3

LEMMA OthersAreNot ==
  ASSUME TypeOK, NEW k \in {"failure", "line"}, Count(k)
  PROVE  ConnectCalls' = ConnectCalls
<1>1. calls \in [DOMAIN Bound -> Nat] /\ "connect" \in DOMAIN Bound /\ "again" \in DOMAIN Bound
  BY TypeParts, BoundType DEF CallsOK
<1> QED
  BY <1>1 DEF Count, ConnectCalls

(* No effort more. *)
MovesOn == Efforts' <= Efforts /\ ConnectCalls' = ConnectCalls

LEMMA EffortFrame ==
  ASSUME TypeOK, EffortUnchanged
  PROVE  Efforts' = Efforts
BY EffortNumbers, EffortsAfter DEF EffortUnchanged, Connecting, Retrying

LEMMA AsideMovesOn ==
  ASSUME TypeOK, Aside
  PROVE  MovesOn
<1>1. Efforts' = Efforts /\ Efforts \in Nat
  BY AsideEffect, EffortFrame, EffortNumbers, CompletionLabels
<1>2. ConnectCalls' = ConnectCalls
  BY AsideEffect DEF ConnectCalls
<1> QED
  BY <1>1, <1>2 DEF MovesOn

LEMMA ConnectAddsOne ==
  ASSUME TypeOK, Connect
  PROVE  Efforts' = Efforts + 1 /\ ConnectCalls' = ConnectCalls + 1
<1> USE CompletionLabels
<1>1. ConnectCalls' = ConnectCalls + 1 /\ reading' = reading /\ Retrying' = Retrying
  BY ConnectIsCounted DEF Connect, timerVars, Retrying
<1>2. CASE m_socket \in {"closed", "refused"} /\ m_socket' = "connecting" /\ ready' = ready
  <2>1. Connecting = 0 /\ Connecting' = 1
    BY <1>2 DEF Connecting
  <2> QED
    BY <1>1, <1>2, <2>1, EffortNumbers, EffortsAfter
<1>3. CASE ready' = With(ready, "connectFailed", 1) /\ m_socket' = m_socket
  <2>1. /\ ready'["connectFailed"] = ready["connectFailed"] + 1
        /\ \A d \in Completions : d # "connectFailed" => ready'[d] = ready[d]
    BY <1>3, BecomesReady
  <2>2. Connecting' = Connecting
    BY <1>3 DEF Connecting
  <2> QED
    BY <1>1, <2>1, <2>2, EffortNumbers, EffortsAfter
<1> QED
  BY <1>2, <1>3 DEF Connect

LEMMA IoMovesOn ==
  ASSUME TypeOK, ConnectCompletes \/ LineArrives \/ ReadFails \/ ReconnectExpires \/ ConnectionBreaks
  PROVE  MovesOn
<1> USE CompletionLabels
<1>1. CASE ConnectCompletes
  <2>1. ConnectCalls' = ConnectCalls /\ reading' = reading /\ Retrying' = Retrying
    BY <1>1, OthersAreNot DEF ConnectCompletes, ConnectCalls, timerVars, Retrying
  <2>2. Connecting = 1 /\ Connecting' = 0
    BY <1>1 DEF ConnectCompletes, Connecting
  <2>3. PICK c \in {"connected", "connectFailed"} : ready' = With(ready, c, 1)
    BY <1>1 DEF ConnectCompletes
  <2>4. /\ ready'[c] = ready[c] + 1
        /\ \A d \in Completions : d # c => ready'[d] = ready[d]
    BY <2>3, BecomesReady
  <2> QED
    BY <2>1, <2>2, <2>4, EffortNumbers, EffortsAfter DEF MovesOn
<1>2. CASE LineArrives \/ ReadFails
  <2>1. ConnectCalls' = ConnectCalls /\ Retrying' = Retrying /\ Connecting' = Connecting
    BY <1>2, OthersAreNot DEF LineArrives, ReadFails, ConnectCalls, timerVars, Retrying, Connecting
  <2>2. reading' = reading - 1
    BY <1>2 DEF LineArrives, ReadFails
  <2>3. PICK c \in {"lineRead", "emptyRead", "readFailed"} : ready' = With(ready, c, 1)
    BY <1>2 DEF LineArrives, ReadFails
  <2>4. /\ ready'[c] = ready[c] + 1
        /\ \A d \in Completions : d # c => ready'[d] = ready[d]
    BY <2>3, BecomesReady
  <2> QED
    BY <2>1, <2>2, <2>4, EffortNumbers, EffortsAfter DEF MovesOn
<1>3. CASE ReconnectExpires
  <2>1. ConnectCalls' = ConnectCalls /\ Connecting' = Connecting /\ reading' = reading
    BY <1>3 DEF ReconnectExpires, ConnectCalls, Connecting
  <2>2. Retrying = 1 /\ Retrying' = 0
    BY <1>3 DEF ReconnectExpires, Retrying
  <2>3. /\ ready'["reconnectDue"] = ready["reconnectDue"] + 1
        /\ \A d \in Completions : d # "reconnectDue" => ready'[d] = ready[d]
    BY <1>3, BecomesReady DEF ReconnectExpires
  <2> QED
    BY <2>1, <2>2, <2>3, EffortNumbers, EffortsAfter DEF MovesOn
<1>4. CASE ConnectionBreaks
  <2>1. ConnectCalls' = ConnectCalls /\ Retrying' = Retrying /\ Connecting' = Connecting
    BY <1>4, OthersAreNot DEF ConnectionBreaks, timerVars, Retrying, Connecting
  <2>2. reading' = reading /\ ready' = ready
    BY <1>4 DEF ConnectionBreaks
  <2> QED
    BY <2>1, <2>2, EffortNumbers, EffortsAfter DEF MovesOn
<1> QED
  BY <1>1, <1>2, <1>3, <1>4

LEMMA HandlersMoveOn ==
  ASSUME TypeOK, Connected \/ ConnectFailed \/ LineRead \/ EmptyRead \/ ReadFailed
  PROVE  MovesOn
<1> USE CompletionLabels
<1>1. ConnectCalls' = ConnectCalls /\ Connecting' = Connecting
  BY DEF Connected, ConnectFailed, LineRead, EmptyRead, ReadFailed, ConnectCalls, Connecting
<1>2. CASE Connected \/ LineRead
  <2>1. PICK c \in {"connected", "lineRead"} : Runs(c) /\ ArmHeartBeat(Without(ready, c))
    BY <1>2 DEF Connected, LineRead
  <2>2. /\ ready'[c] = ready[c] - 1
        /\ \A d \in Completions : d \notin {c, "beatAborted"} => ready'[d] = ready[d]
    BY <2>1, HeartBeatArmed
  <2>3. reading' = reading + 1 /\ Retrying' = Retrying
    BY <1>2 DEF Connected, LineRead, Retrying
  <2> QED
    BY <1>1, <2>2, <2>3, EffortNumbers, EffortsAfter DEF MovesOn
<1>3. CASE ConnectFailed \/ ReadFailed
  <2>1. PICK c \in {"connectFailed", "readFailed"} : Runs(c) /\ ArmReconnect(Without(ready, c))
    BY <1>3 DEF ConnectFailed, ReadFailed
  <2>2. /\ ready'[c] = ready[c] - 1
        /\ \A d \in Completions : d \notin {c, "reconnectAborted"} => ready'[d] = ready[d]
    BY <2>1, ReconnectArmed
  <2>3. reading' = reading /\ Retrying' <= Retrying + 1 /\ Retrying' \in Nat
    BY <1>3 DEF ConnectFailed, ReadFailed, Retrying
  <2> QED
    BY <1>1, <2>2, <2>3, EffortNumbers, EffortsAfter DEF MovesOn
<1>4. CASE EmptyRead
  <2>1. /\ ready'["emptyRead"] = ready["emptyRead"] - 1
        /\ \A d \in Completions : d # "emptyRead" => ready'[d] = ready[d]
    BY <1>4, HandlerRan DEF EmptyRead
  <2>2. reading' = reading /\ Retrying' = Retrying
    BY <1>4 DEF EmptyRead, timerVars, Retrying
  <2> QED
    BY <1>1, <2>1, <2>2, EffortNumbers, EffortsAfter DEF MovesOn
<1> QED
  BY <1>2, <1>3, <1>4

(* do_close turns every effort but the timer's into a failure to handle;   *)
(* a CloseCallback that connects again pays with its own call.             *)
LEMMA CloseMovesOn ==
  ASSUME TypeOK, DoClose
  PROVE  \/ MovesOn /\ m_socket' = "closed"
         \/ Efforts' <= Efforts + 1 /\ ConnectCalls' = ConnectCalls + 1
<1> USE CompletionLabels
<1>1. /\ reading' = 0
      /\ ready'["readFailed"] = ready["readFailed"] + reading
      /\ ready'["connectFailed"] = ready["connectFailed"] + Connecting
      /\ \A c \in {"connected", "lineRead", "emptyRead", "reconnectDue"} : ready'[c] = ready[c]
  BY CloseEffect DEF Closes, Connecting
<1>2. Retrying' = 0
  BY DEF DoClose, Retrying
<1>3. CASE m_socket' = "closed" /\ UNCHANGED calls
  <2>1. Connecting' = 0 /\ ConnectCalls' = ConnectCalls
    BY <1>3 DEF Connecting, ConnectCalls
  <2> QED
    BY <1>1, <1>2, <1>3, <2>1, EffortNumbers, EffortsAfter DEF MovesOn
<1>4. CASE m_socket' = "connecting" /\ CountConnect
  <2>1. Connecting' = 1 /\ ConnectCalls' = ConnectCalls + 1
    BY <1>4, ConnectIsCounted DEF Connecting
  <2> QED
    BY <1>1, <1>2, <2>1, EffortNumbers, EffortsAfter
<1> QED
  BY <1>3, <1>4 DEF DoClose

LEMMA ReconnectMovesOn ==
  ASSUME TypeOK, DoReconnect
  PROVE  MovesOn
<1> USE CompletionLabels
<1>1. /\ reading' = 0
      /\ ready'["readFailed"] = ready["readFailed"] + reading
      /\ ready'["connectFailed"] = ready["connectFailed"] + Connecting
      /\ \A c \in {"connected", "lineRead", "emptyRead"} : ready'[c] = ready[c]
      /\ ready'["reconnectDue"] = ready["reconnectDue"] - 1
  BY ReconnectEffect DEF Closes, Connecting
<1>2. Retrying' = Retrying /\ Connecting' = 1 /\ ConnectCalls' = ConnectCalls
  BY DEF DoReconnect, timerVars, Retrying, Connecting, ConnectCalls
<1> QED
  BY <1>1, <1>2, EffortNumbers, EffortsAfter DEF MovesOn

LEMMA EffortsStep ==
  ASSUME TypeOK, EffortsBounded, [Next]_vars
  PROVE  EffortsBounded'
<1>1. MovesOn \/ (Efforts' <= Efforts + 1 /\ ConnectCalls' = ConnectCalls + 1) \/ UNCHANGED vars
  <2>1. Aside \/ Connect \/ ConnectCompletes \/ LineArrives \/ ReadFails \/ ReconnectExpires
          \/ ConnectionBreaks \/ Connected \/ ConnectFailed \/ LineRead \/ EmptyRead
          \/ ReadFailed \/ DoClose \/ DoReconnect \/ UNCHANGED vars
    BY DEF Next, Io, Handler, Aside
  <2>2. Connect => Efforts' <= Efforts + 1 /\ ConnectCalls' = ConnectCalls + 1
    BY ConnectAddsOne, EffortNumbers, CompletionLabels
  <2> QED
    BY <2>1, <2>2, AsideMovesOn, IoMovesOn, HandlersMoveOn, CloseMovesOn, ReconnectMovesOn
<1>2. /\ Efforts \in Nat /\ ConnectCalls \in Nat
      /\ Efforts' \in Nat /\ ConnectCalls' \in Nat
  BY TypeStep, EffortNumbers, EffortNumbersAfter, CompletionLabels
<1>3. CASE MovesOn
  BY <1>2, <1>3 DEF MovesOn, EffortsBounded
<1>4. CASE Efforts' <= Efforts + 1 /\ ConnectCalls' = ConnectCalls + 1
  BY <1>2, <1>4 DEF EffortsBounded
<1>5. CASE UNCHANGED vars
  BY <1>5 DEF vars, timerVars, historyVars, EffortsBounded, Efforts, ConnectCalls
<1> QED
  BY <1>1, <1>3, <1>4, <1>5

LEMMA EffortsInvariant == Spec => []EffortsBounded
<1>1. Init => EffortsBounded
  BY CompletionLabels, BoundType DEF Init, EffortsBounded, Efforts, ConnectCalls
<1>2. TypeOK /\ EffortsBounded /\ [Next]_vars => EffortsBounded'
  BY EffortsStep
<1> QED
  BY <1>1, <1>2, TypeCorrect, PTL DEF Spec

(* One connect() keeps one effort going, so reads never overlap and one    *)
(* reconnection at most is due, however often the connection is refused,   *)
(* lost and closed (TcpConnection.cpp:104-179, 218-242).                   *)
THEOREM ConnectMakesOneEffort == Spec => []OneEffort
<1>1. TypeOK /\ EffortsBounded => OneEffort
  BY EffortNumbers, CompletionLabels DEF EffortsBounded, OneEffort
<1> QED
  BY <1>1, TypeCorrect, EffortsInvariant, PTL

-------------------------------------------------------------------------------
(* A reconnection meets no standing connection: while the one effort is a  *)
(* connection that stands, nothing that reconnects is due.                 *)

NothingReconnects ==
  /\ ready["connectFailed"] = 0 /\ ready["readFailed"] = 0
  /\ ~m_reconnectTimer /\ ready["reconnectDue"] = 0
SpareInv ==
  /\ ConnectCalls = 0 => m_socket = "closed"
  /\ ConnectCalls <= 1 /\ m_socket = "connected" => NothingReconnects

(* A single effort is in one place only. *)
LEMMA OnePlace ==
  ASSUME TypeOK, EffortsBounded, ConnectCalls <= 1
  PROVE  /\ m_socket = "connecting" => ConnectCalls = 1 /\ NothingReconnects
         /\ ready["reconnectDue"] > 0 => ConnectCalls = 1
<1>0. Efforts \in Nat /\ ConnectCalls \in Nat /\ Efforts <= ConnectCalls
  BY EffortNumbers, CompletionLabels DEF EffortsBounded
<1>1. Efforts <= 1 /\ (ConnectCalls = 0 => Efforts = 0) /\ ConnectCalls \in 0..1
  BY <1>0
<1>2. CASE m_socket = "connecting"
  <2>1. Connecting = 1
    BY <1>2 DEF Connecting
  <2>2. ready["connectFailed"] = 0 /\ ready["readFailed"] = 0 /\ Retrying = 0
        /\ ready["reconnectDue"] = 0 /\ ConnectCalls = 1
    BY <1>1, <2>1, EffortNumbers, CompletionLabels
  <2> QED
    BY <2>2 DEF NothingReconnects, Retrying
<1>3. CASE m_socket # "connecting"
  BY <1>1, <1>3, EffortNumbers, CompletionLabels
<1> QED
  BY <1>2, <1>3

SpareUnchanged ==
  /\ UNCHANGED <<m_socket, m_reconnectTimer>> /\ ConnectCalls' = ConnectCalls
  /\ ready'["connectFailed"] = ready["connectFailed"]
  /\ ready'["readFailed"] = ready["readFailed"]
  /\ ready'["reconnectDue"] = ready["reconnectDue"]

LEMMA SpareFrame ==
  ASSUME SpareInv, SpareUnchanged
  PROVE  SpareInv'
BY DEF SpareInv, SpareUnchanged, NothingReconnects

LEMMA SpareStep ==
  ASSUME TypeOK, EffortsBounded, SpareInv, [Next]_vars
  PROVE  SpareInv' /\ (ConnectCalls' <= 1 /\ m_socket = "connected" => m_socket' # "connecting")
<1> USE CompletionLabels
<1>0. /\ ConnectCalls \in Nat /\ \A c \in Completions : ready[c] \in Nat
  BY EffortNumbers
<1>1. CASE Aside
  <2>1. SpareUnchanged
    BY <1>1, AsideEffect DEF EffortUnchanged, SpareUnchanged, ConnectCalls
  <2> QED
    BY <2>1, SpareFrame DEF SpareUnchanged
<1>2. CASE Connect
  <2>1. ConnectCalls' = ConnectCalls + 1
    BY <1>2, ConnectIsCounted DEF Connect
  <2>2. m_socket = "connected" => ConnectCalls' > 1
    BY <1>0, <2>1 DEF SpareInv
  <2>3. m_socket' = "connected" => m_socket = "connected"
    BY <1>2 DEF Connect
  <2> QED
    BY <1>0, <2>1, <2>2, <2>3 DEF SpareInv
<1>3. CASE ConnectCompletes
  <2>1. ConnectCalls' = ConnectCalls /\ UNCHANGED m_reconnectTimer /\ m_socket = "connecting"
    BY <1>3, OthersAreNot DEF ConnectCompletes, ConnectCalls, timerVars
  <2>2. ConnectCalls # 0 /\ (ConnectCalls <= 1 => NothingReconnects)
    BY <1>0, <2>1, OnePlace
  <2>3. m_socket' = "connected" => ready' = With(ready, "connected", 1)
    BY <1>3 DEF ConnectCompletes
  <2>4. m_socket' = "connected" /\ ConnectCalls <= 1 => NothingReconnects'
    BY <2>1, <2>2, <2>3, BecomesReady DEF NothingReconnects
  <2> QED
    BY <2>1, <2>2, <2>4 DEF SpareInv
<1>4. CASE LineArrives \/ Connected \/ LineRead \/ EmptyRead
  <2>1. UNCHANGED <<m_socket, m_reconnectTimer>> /\ ConnectCalls' = ConnectCalls
    BY <1>4, OthersAreNot DEF LineArrives, Connected, LineRead, EmptyRead, ConnectCalls, timerVars
  <2>2. CASE LineArrives
    <3>1. PICK c \in {"lineRead", "emptyRead"} : ready' = With(ready, c, 1)
      BY <2>2 DEF LineArrives
    <3> QED
      BY <2>1, <3>1, BecomesReady, SpareFrame DEF SpareUnchanged
  <2>3. CASE Connected \/ LineRead
    <3>1. PICK c \in {"connected", "lineRead"} : Runs(c) /\ ArmHeartBeat(Without(ready, c))
      BY <2>3 DEF Connected, LineRead
    <3> QED
      BY <2>1, <3>1, HeartBeatArmed, SpareFrame DEF SpareUnchanged
  <2>4. CASE EmptyRead
    BY <2>1, <2>4, HandlerRan, SpareFrame DEF EmptyRead, SpareUnchanged
  <2> QED
    BY <1>4, <2>2, <2>3, <2>4
<1>5. CASE ReadFails
  BY <1>5 DEF ReadFails, SpareInv, ConnectCalls
<1>6. CASE ReconnectExpires \/ ConnectFailed \/ ReadFailed
  <2>1. UNCHANGED m_socket /\ ConnectCalls' = ConnectCalls
    BY <1>6 DEF ReconnectExpires, ConnectFailed, ReadFailed, ConnectCalls
  <2>2. ConnectCalls <= 1 => m_socket # "connected"
    BY <1>6 DEF SpareInv, NothingReconnects, ReconnectExpires, ConnectFailed, ReadFailed, Runs
  <2> QED
    BY <2>1, <2>2 DEF SpareInv
<1>7. CASE ConnectionBreaks
  <2>1. ConnectCalls' = ConnectCalls /\ m_socket = "connected" /\ m_socket' = "broken"
    BY <1>7, OthersAreNot DEF ConnectionBreaks
  <2> QED
    BY <2>1 DEF SpareInv
<1>8. CASE DoClose
  <2>1. \/ m_socket' = "closed" /\ UNCHANGED calls
        \/ m_socket' = "connecting" /\ CountConnect
    BY <1>8 DEF DoClose
  <2>2. \/ m_socket' = "closed" /\ ConnectCalls' = ConnectCalls
        \/ m_socket' = "connecting" /\ ConnectCalls' = ConnectCalls + 1
    BY <2>1, ConnectIsCounted DEF ConnectCalls
  <2>3. m_socket = "connected" => ConnectCalls # 0
    BY DEF SpareInv
  <2> QED
    BY <1>0, <2>2, <2>3 DEF SpareInv
<1>9. CASE DoReconnect
  <2>1. m_socket' = "connecting" /\ ConnectCalls' = ConnectCalls /\ ready["reconnectDue"] > 0
    BY <1>9 DEF DoReconnect, ConnectCalls, Runs
  <2>2. ConnectCalls # 0
    BY <1>0, <2>1, OnePlace
  <2>3. ConnectCalls <= 1 => m_socket # "connected"
    BY <2>1 DEF SpareInv, NothingReconnects
  <2> QED
    BY <2>1, <2>2, <2>3 DEF SpareInv
<1>10. CASE UNCHANGED vars
  BY <1>10 DEF vars, timerVars, SpareInv, NothingReconnects, ConnectCalls
<1> QED
  BY <1>1, <1>2, <1>3, <1>4, <1>5, <1>6, <1>7, <1>8, <1>9, <1>10 DEF Next, Io, Handler, Aside

LEMMA SpareInvariant == Spec => []SpareInv
<1>1. Init => SpareInv
  BY BoundType DEF Init, SpareInv, ConnectCalls
<1>2. TypeOK /\ EffortsBounded /\ SpareInv /\ [Next]_vars => SpareInv'
  BY SpareStep
<1> QED
  BY <1>1, <1>2, TypeCorrect, EffortsInvariant, PTL DEF Spec

(* A reconnection never closes a connection that stands, although its      *)
(* timer may have expired before and nothing cancels what is already due   *)
(* (TcpConnection.cpp:231-241).                                            *)
THEOREM StandingConnectionIsSpared == Spec => ReconnectSparesConnection
<1>1. TypeOK /\ EffortsBounded /\ SpareInv /\ [Next]_vars
        => [ConnectCalls' <= 1 /\ m_socket = "connected" => m_socket' # "connecting"]_vars
  BY SpareStep
<1> QED
  BY <1>1, TypeCorrect, EffortsInvariant, SpareInvariant, PTL DEF Spec, ReconnectSparesConnection

-------------------------------------------------------------------------------
(* The heartbeat. *)

LEMMA AppendKeeps ==
  ASSUME NEW S, NEW s \in Seq(S), NEW x \in S
  PROVE  Range(s) \cup {x} \subseteq Range(Append(s, x))
BY AppendProperties DEF Range

(* A queue that is not empty has a write in flight until a write fails: a  *)
(* flight ends with the queue or with a failure, and the first message in  *)
(* an empty queue starts one.                                              *)
QueueMoves == m_messages # <<>> /\ ~writeLost => InFlight = 1

LEMMA FlightGoesOn ==
  ASSUME TypeOK, WriteInv, [Next]_vars
  PROVE  /\ writeLost => writeLost'
         /\ InFlight = 1 => InFlight' = 1 \/ writeLost' \/ (Written /\ m_messages' = <<>>)
         /\ m_messages' # <<>> => InFlight' = 1 \/ writeLost' \/ (m_messages # <<>> /\ InFlight # 1)
<1> USE CompletionLabels
<1>1. CASE Elsewhere
  <2>1. UNCHANGED <<m_messages, writeLost>> /\ InFlight' = InFlight
    BY <1>1, ElsewhereEffect DEF WriteUnchanged, InFlight
  <2> QED
    BY <2>1
<1>2. CASE DoClose \/ DoReconnect
  <2>1. /\ writing' = <<>> /\ ready'["written"] = ready["written"]
        /\ ready'["writeFailed"] = ready["writeFailed"] + Len(writing)
        /\ UNCHANGED <<m_messages, writeLost>>
    BY <1>2, CloseEffect, ReconnectEffect DEF Closes
  <2>2. InFlight' = InFlight
    BY <2>1, WriteNumbers DEF InFlight
  <2> QED
    BY <2>1, <2>2
<1>3. CASE WriteCompletes
  <2>1. /\ UNCHANGED <<m_messages, writeLost>> /\ Len(writing) = 1 /\ writing' = <<>>
        /\ ready["written"] = 0 /\ ready["writeFailed"] = 0
    BY <1>3, WriteNumbers DEF WriteCompletes, WriteInv, OneWriteInFlight, InFlight
  <2>2. ready' = With(ready, "written", 1) \/ ready' = With(ready, "writeFailed", 1)
    BY <1>3 DEF WriteCompletes
  <2>3. InFlight' = 1
    BY <2>1, <2>2, BecomesReady DEF InFlight
  <2> QED
    BY <2>1, <2>3
<1>4. CASE Written
  <2>1. /\ ready["written"] = 1 /\ ready["writeFailed"] = 0 /\ writing = <<>>
    BY <1>4, WriteNumbers DEF WriteInv, OneWriteInFlight, InFlight, Written, Runs
  <2>2. ready'["written"] = 0 /\ ready'["writeFailed"] = 0 /\ writeLost' = writeLost
    BY <1>4, <2>1, HandlerRan, HeartBeatArmed DEF Written, historyVars
  <2>3. m_messages' # <<>> => writing' = Append(<<>>, Head(m_messages'))
    BY <1>4, <2>1 DEF Written
  <2>4. m_messages' # <<>> => InFlight' = 1
    BY <2>2, <2>3 DEF InFlight
  <2> QED
    BY <1>4, <2>2, <2>4
<1>5. CASE WriteFailed
  BY <1>5 DEF WriteFailed
<1>6. CASE DoWrite
  <2>1. UNCHANGED <<ready, writeLost>>
    BY <1>6 DEF DoWrite
  <2>2. CASE m_messages = <<>>
    <3>1. writing = <<>> /\ ready["written"] = 0 /\ ready["writeFailed"] = 0 /\ InFlight = 0
      BY <2>2, WriteNumbers DEF WriteInv, OneWriteInFlight, InFlight
    <3>2. writing' = Append(<<>>, Head(posts))
      BY <1>6, <2>2, <3>1 DEF DoWrite
    <3>3. InFlight' = 1
      BY <2>1, <3>1, <3>2 DEF InFlight
    <3> QED
      BY <2>1, <3>1, <3>3
  <2>3. CASE m_messages # <<>>
    <3>1. InFlight' = InFlight
      BY <1>6, <2>1, <2>3 DEF DoWrite, InFlight
    <3> QED
      BY <2>1, <2>3, <3>1
  <2> QED
    BY <2>2, <2>3
<1>7. CASE UNCHANGED vars
  BY <1>7 DEF vars, historyVars, InFlight
<1> QED
  BY <1>1, <1>2, <1>3, <1>4, <1>5, <1>6, <1>7 DEF Next, Io, Handler, Elsewhere

LEMMA QueueMovesStep ==
  ASSUME TypeOK, WriteInv, QueueMoves, [Next]_vars
  PROVE  QueueMoves'
BY FlightGoesOn DEF QueueMoves

LEMMA KeptAliveStep ==
  ASSUME TypeOK, WriteInv, QueueMoves, KeptAlive, [Next]_vars
  PROVE  KeptAlive'
<1> USE CompletionLabels
<1>0. /\ posts \in Seq(Texts \cup {CloseRequest}) /\ m_messages \in Seq(Texts)
      /\ reading \in Nat /\ \A c \in Completions : ready[c] \in Nat
  BY TypeParts, EffortNumbers DEF QueuesOK
<1>f. /\ writeLost => writeLost'
      /\ InFlight = 1 => InFlight' = 1 \/ writeLost' \/ (Written /\ m_messages' = <<>>)
      /\ m_messages' # <<>> => InFlight' = 1 \/ writeLost' \/ (m_messages # <<>> /\ InFlight # 1)
  BY FlightGoesOn
(* But for the handler that empties the queue, a flight goes on or fails.  *)
<1>g. UNCHANGED m_messages /\ InFlight = 1 => InFlight' = 1 \/ writeLost'
  BY <1>f DEF WriteInv, OneWriteInFlight
(* The connection is read anew, and every handler that starts to read arms *)
(* the timer; or the read is over.                                         *)
<1>1. CASE Connected \/ LineRead
  <2>1. PICK c \in {"connected", "lineRead"} : Runs(c) /\ ArmHeartBeat(Without(ready, c))
    BY <1>1 DEF Connected, LineRead
  <2> QED
    BY <2>1, HeartBeatArmed DEF KeptAlive
<1>2. CASE DoClose \/ DoReconnect
  BY <1>2, CloseEffect, ReconnectEffect DEF Closes, KeptAlive
(* The beat passes from the timer to the handler, to the io_service, to    *)
(* the queue; and the handler that empties the queue arms the timer.       *)
<1>3. CASE HeartBeatExpires
  BY <1>0, <1>3, BecomesReady DEF HeartBeatExpires, KeptAlive
<1>4. CASE DoHeartBeat
  <2>1. HeartBeat \in Range(posts')
    BY <1>0, <1>4, AppendKeeps, TextsInPosts DEF DoHeartBeat
  <2> QED
    BY <2>1 DEF KeptAlive
<1>5. CASE DoWrite
  <2>1. m_messages' # <<>>
    BY <1>0, <1>5, AppendProperties DEF DoWrite
  <2>2. InFlight' = 1 \/ writeLost'
    BY <1>f, <2>1 DEF QueueMoves
  <2> QED
    BY <2>2 DEF KeptAlive
<1>6. CASE Written
  <2>1. m_messages' # <<>> \/ m_heartBeatTimer'
    BY <1>6, HeartBeatArmed DEF Written
  <2>2. InFlight = 1
    BY <1>6, WriteNumbers DEF Written, Runs, WriteInv, OneWriteInFlight, InFlight
  <2> QED
    BY <1>f, <2>1, <2>2 DEF KeptAlive
(* Everything else leaves the beat where it is. *)
<1>7. CASE Disconnect \/ Close
  <2>1. HeartBeat \in Range(posts) => HeartBeat \in Range(posts')
    <3>1. posts' = Append(posts, CloseRequest) /\ CloseRequest \in Texts \cup {CloseRequest}
      BY <1>7 DEF Disconnect, Close
    <3>2. Range(posts) \subseteq Range(Append(posts, CloseRequest))
      BY <1>0, <3>1, AppendKeeps
    <3> QED
      BY <3>1, <3>2
  <2> QED
    BY <1>f, <1>g, <1>7, <2>1 DEF Disconnect, Close, KeptAlive, timerVars
<1>8. ASSUME NEW m \in Messages, Write(m) PROVE KeptAlive'
  <2>1. HeartBeat \in Range(posts) => HeartBeat \in Range(posts')
    BY <1>0, <1>8, AppendKeeps DEF Write, Texts
  <2> QED
    BY <1>f, <1>g, <1>8, <2>1 DEF Write, KeptAlive, timerVars
<1>9. CASE Connect \/ ConnectCompletes \/ LineArrives \/ ReadFails \/ WriteCompletes
           \/ ReconnectExpires
  <2>1. UNCHANGED <<m_heartBeatTimer, posts, m_messages>> /\ reading' <= reading /\ reading' \in Int
    BY <1>0, <1>9 DEF Connect, ConnectCompletes, LineArrives, ReadFails, WriteCompletes,
       ReconnectExpires, timerVars
  <2>2. \/ ready' = ready
        \/ \E c \in Completions : c # "beatDue" /\ ready' = With(ready, c, 1)
    BY <1>9 DEF Connect, ConnectCompletes, LineArrives, ReadFails, WriteCompletes,
       ReconnectExpires
  <2>3. ready'["beatDue"] = ready["beatDue"]
    BY <2>2, BecomesReady
  <2> QED
    BY <1>0, <1>f, <1>g, <2>1, <2>3 DEF KeptAlive
<1>10. CASE ConnectFailed \/ ReadFailed \/ EmptyRead \/ WriteFailed \/ WaitAborted
  <2>1. UNCHANGED <<m_heartBeatTimer, posts, m_messages, reading>>
    BY <1>10 DEF ConnectFailed, ReadFailed, EmptyRead, WriteFailed, WaitAborted, timerVars
  <2>2. CASE ConnectFailed \/ ReadFailed
    <3>1. ready'["beatDue"] = ready["beatDue"]
      BY <2>2, ReconnectArmed DEF ConnectFailed, ReadFailed
    <3> QED
      BY <1>f, <1>g, <2>1, <3>1 DEF KeptAlive
  <2>3. CASE EmptyRead \/ WriteFailed \/ WaitAborted
    <3>1. ready'["beatDue"] = ready["beatDue"]
      BY <2>3, HandlerRan DEF EmptyRead, WriteFailed, WaitAborted
    <3> QED
      BY <1>f, <1>g, <2>1, <3>1 DEF KeptAlive
  <2> QED
    BY <1>10, <2>2, <2>3
<1>11. CASE IdleUpdate \/ ConnectionBreaks \/ UNCHANGED vars
  BY <1>f, <1>g, <1>11 DEF IdleUpdate, ConnectionBreaks, vars, timerVars, KeptAlive
<1> QED
  BY <1>1, <1>2, <1>3, <1>4, <1>5, <1>6, <1>7, <1>8, <1>9, <1>10, <1>11 DEF Next, Io, Handler

LEMMA AliveInvariant == Spec => [](QueueMoves /\ KeptAlive)
<1>1. Init => QueueMoves /\ KeptAlive
  BY DEF Init, QueueMoves, KeptAlive
<1>2. TypeOK /\ WriteInv /\ QueueMoves /\ KeptAlive /\ [Next]_vars => QueueMoves' /\ KeptAlive'
  BY QueueMovesStep, KeptAliveStep
<1> QED
  BY <1>1, <1>2, TypeCorrect, WriteInvariant, PTL DEF Spec

(* Until handle_write is called with an error, a connection that is read   *)
(* has its heartbeat timed, due, posted or behind a write in flight,       *)
(* whatever else fails, is closed or connected meanwhile                   *)
(* (TcpConnection.cpp:120-122, 153-155, 181-203, 244-250).                 *)
THEOREM ConnectionKeptAlive == Spec => []KeptAlive
BY AliveInvariant, PTL

-------------------------------------------------------------------------------
(* Induction, for sets of numbers and of sequences. *)

LEMMA AllNumbers ==
  ASSUME NEW N, N \subseteq Nat, 0 \in N, \A n \in N : n + 1 \in N
  PROVE  N = Nat
<1> DEFINE R == OpToRel(<, Nat)
           T == Nat \ N
<1>1. \A x, y \in Nat : <<x, y>> \in R <=> x < y
  BY DEF OpToRel
<1>2. IsWellFoundedOn(R, Nat)
  BY NatLessThanWellFounded
<1> HIDE DEF R
<1>3. SUFFICES ASSUME T # {} PROVE FALSE
  OBVIOUS
<1>4. PICK k \in T : \A j \in T : ~(<<j, k>> \in R)
  BY <1>2, <1>3, WFMin
<1>5. k \in Nat /\ k \notin N /\ k # 0 /\ k - 1 \in Nat /\ k - 1 < k /\ (k - 1) + 1 = k
  BY <1>4
<1>6. <<k - 1, k>> \in R
  BY <1>1, <1>5
<1>7. k - 1 \in N
  BY <1>4, <1>5, <1>6
<1>8. QED BY <1>5, <1>7

LEMMA AppendFits ==
  ASSUME NEW S, NEW s \in Seq(S), NEW x \in S
  PROVE  /\ Append(s, x) \in Seq(S) /\ Len(Append(s, x)) = Len(s) + 1
         /\ Append(s, x)[Len(s) + 1] = x
         /\ \A i \in 1..Len(s) : Append(s, x)[i] = s[i]
  BY AppendProperties

LEMMA ConcatFits ==
  ASSUME NEW S, NEW s \in Seq(S), NEW t \in Seq(S)
  PROVE  /\ s \o t \in Seq(S) /\ Len(s \o t) = Len(s) + Len(t)
         /\ \A i \in 1..Len(s) : (s \o t)[i] = s[i]
         /\ \A i \in 1..Len(t) : (s \o t)[Len(s) + i] = t[i]
  BY ConcatProperties

LEMMA EmptyFits ==
  ASSUME NEW S PROVE <<>> \in Seq(S) /\ Len(<<>>) = 0
  BY EmptySeq

\* s is r and one element more.
LongerByOne(s, r, S) == r \in Seq(S) /\ Len(s) = Len(r) + 1 /\ \E x \in S : s = Append(r, x)

LEMMA LastTaken ==
  ASSUME NEW S, NEW s \in Seq(S), Len(s) # 0
  PROVE  \E r : LongerByOne(s, r, S)
<1> DEFINE n == Len(s) - 1
<1>0. n \in Nat /\ Len(s) = n + 1
  BY LenProperties
<1> HIDE DEF n
<1>1. PICK x \in S : x = s[n + 1]
  BY <1>0, ElementOfSeq
<1>2. PICK r \in Seq(S) : Len(r) = n /\ \A i \in 1..n : r[i] = s[i]
  <2>1. /\ SubSeq(s, 1, n) \in Seq(S) /\ Len(SubSeq(s, 1, n)) = n
        /\ \A i \in 1..n : SubSeq(s, 1, n)[i] = s[i]
    BY <1>0, SubSeqProperties
  <2>2. QED BY <2>1
<1>3. /\ Append(r, x) \in Seq(S) /\ Len(Append(r, x)) = Len(r) + 1
      /\ Append(r, x)[Len(r) + 1] = x /\ \A i \in 1..Len(r) : Append(r, x)[i] = r[i]
  BY AppendFits
<1>4. \A i \in 1..(n + 1) : i \in 1..n \/ i = n + 1
  BY <1>0
<1>5. \A i \in 1..(n + 1) : Append(r, x)[i] = s[i]
  BY <1>0, <1>1, <1>2, <1>3, <1>4
<1>6. Append(r, x) = s
  BY <1>0, <1>2, <1>3, <1>5, SeqEqual
<1>7. LongerByOne(s, r, S)
  BY <1>0, <1>2, <1>6 DEF LongerByOne
<1>8. QED BY <1>7

LEMMA AllSequences ==
  ASSUME NEW S, NEW T, T \subseteq Seq(S), <<>> \in T,
         \A s \in T : \A x \in S : Append(s, x) \in T
  PROVE  T = Seq(S)
<1> DEFINE N == {n \in Nat : \A s \in Seq(S) : Len(s) = n => s \in T}
<1>1. 0 \in N
  BY EmptySeq
<1>2. ASSUME NEW n \in N PROVE n + 1 \in N
  <2>1. SUFFICES ASSUME NEW s \in Seq(S), Len(s) = n + 1 PROVE s \in T
    OBVIOUS
  <2>2. n \in Nat /\ Len(s) # 0
    BY <2>1
  <2>3. PICK r : LongerByOne(s, r, S)
    BY <2>2, LastTaken
  <2>4. PICK x \in S : s = Append(r, x)
    BY <2>3 DEF LongerByOne
  <2>5. r \in T
    BY <2>1, <2>2, <2>3 DEF LongerByOne
  <2>6. QED BY <2>4, <2>5
<1>3. N = Nat
  <2> HIDE DEF N
  <2>1. N \subseteq Nat
    BY DEF N
  <2>2. QED BY <1>1, <1>2, <2>1, AllNumbers
<1>4. \A s \in Seq(S) : s \in T
  BY <1>3, LenProperties
<1>5. QED BY <1>4

LEMMA AppendToJoin ==
  ASSUME NEW S, NEW s \in Seq(S), NEW t \in Seq(S), NEW x \in S
  PROVE  s \o Append(t, x) = Append(s \o t, x)
<1>1. /\ s \o t \in Seq(S) /\ Len(s \o t) = Len(s) + Len(t)
      /\ Append(t, x) \in Seq(S) /\ Len(Append(t, x)) = Len(t) + 1
      /\ Len(s) \in Nat /\ Len(t) \in Nat
  BY ConcatFits, AppendFits
<1> DEFINE a == s \o Append(t, x)
           b == Append(s \o t, x)
<1>2. /\ a \in Seq(S) /\ b \in Seq(S)
      /\ Len(a) = Len(s) + (Len(t) + 1) /\ Len(b) = (Len(s) + Len(t)) + 1
  BY <1>1, ConcatFits, AppendFits
<1>3. \A i \in 1..Len(s) : a[i] = b[i]
  BY <1>1, ConcatFits, AppendFits
<1>4. \A i \in 1..Len(t) : a[Len(s) + i] = b[Len(s) + i]
  <2>1. SUFFICES ASSUME NEW i \in 1..Len(t) PROVE a[Len(s) + i] = b[Len(s) + i]
    OBVIOUS
  <2>2. i \in 1..Len(Append(t, x)) /\ Len(s) + i \in 1..Len(s \o t)
    BY <1>1
  <2>3. a[Len(s) + i] = t[i]
    BY <1>1, <2>2, ConcatFits, AppendFits
  <2>4. b[Len(s) + i] = t[i]
    BY <1>1, <2>2, ConcatFits, AppendFits
  <2>5. QED BY <2>3, <2>4
<1>5. a[Len(a)] = x /\ b[Len(a)] = x
  <2>1. Len(t) + 1 \in 1..Len(Append(t, x)) /\ Append(t, x)[Len(t) + 1] = x
    BY <1>1, AppendFits
  <2>2. a[Len(s) + (Len(t) + 1)] = x
    BY <1>1, <2>1, ConcatFits
  <2>3. b[(Len(s) + Len(t)) + 1] = x
    BY <1>1, AppendFits
  <2> HIDE DEF a, b
  <2>4. (Len(s) + Len(t)) + 1 = Len(s) + (Len(t) + 1)
    BY <1>1
  <2>5. QED BY <1>2, <2>2, <2>3, <2>4
<1> HIDE DEF a, b
<1>6. \A i \in 1..Len(a) : a[i] = b[i]
  <2>1. SUFFICES ASSUME NEW i \in 1..Len(a) PROVE a[i] = b[i]
    OBVIOUS
  <2>2. CASE i \in 1..Len(s)
    BY <1>3, <2>2
  <2>3. CASE i = Len(a)
    BY <1>5, <2>3
  <2>4. CASE i \notin 1..Len(s) /\ i # Len(a)
    <3>1. i - Len(s) \in 1..Len(t) /\ Len(s) + (i - Len(s)) = i
      BY <1>1, <1>2, <2>4
    <3>2. QED BY <1>4, <3>1
  <2>5. QED BY <2>2, <2>3, <2>4
<1>7. a = b
  BY <1>1, <1>2, <1>6, SeqEqual
<1>8. QED BY <1>7 DEF a, b

-------------------------------------------------------------------------------
(* The three recursive definitions go through a sequence in the same way:  *)
(* they differ in what they begin with and in what one element adds.       *)

Joining == [name |-> "joined", but |-> LineFeed]
Parting == [name |-> "parts", but |-> LineFeed]
Omitting(e) == [name |-> "without", but |-> e]

NoParts == [lines |-> <<>>, open |-> <<>>]

PartsWith(p, x) ==
  IF x = LineFeed
  THEN [lines |-> Append(p.lines, p.open), open |-> <<>>]
  ELSE [lines |-> p.lines, open |-> Append(p.open, x)]

Begun(how) == IF how.name = "parts" THEN NoParts ELSE <<>>

Continued(how, r, x) ==
  IF how.name = "joined" THEN r \o x
  ELSE IF how.name = "parts" THEN PartsWith(r, x)
  ELSE IF x = how.but THEN r ELSE Append(r, x)

\* f[n] is what the first n elements of s make, up to m.
IsRun(f, how, s, m) ==
  f = [n \in 0..m |-> IF n = 0 THEN Begun(how) ELSE Continued(how, f[n - 1], s[n])]

Agree(s, t, m) == \A i \in 1..m : t[i] = s[i]

LEMMA RunGoesOn ==
  ASSUME NEW f, NEW how, NEW s, NEW m \in Nat, IsRun(f, how, s, m)
  PROVE  f[0] = Begun(how) /\ \A n \in 1..m : f[n] = Continued(how, f[n - 1], s[n])
<1>1. \A n \in 0..m : f[n] = IF n = 0 THEN Begun(how) ELSE Continued(how, f[n - 1], s[n])
  BY DEF IsRun
<1>2. QED BY <1>1

LEMMA RunExtends ==
  ASSUME NEW f, NEW how, NEW s, NEW t, NEW m \in Nat, IsRun(f, how, s, m), Agree(s, t, m)
  PROVE  \E g : IsRun(g, how, t, m + 1) /\ g[m + 1] = Continued(how, f[m], t[m + 1])
<1> DEFINE last == Continued(how, f[m], t[m + 1])
           g == [n \in 0..(m + 1) |-> IF n = m + 1 THEN last ELSE f[n]]
<1>1. f[0] = Begun(how) /\ \A n \in 1..m : f[n] = Continued(how, f[n - 1], s[n])
  BY RunGoesOn
<1>2. g[m + 1] = last /\ \A n \in 0..m : g[n] = f[n]
  BY Z3
<1>3. \A n \in 0..(m + 1) : g[n] = IF n = 0 THEN Begun(how) ELSE Continued(how, g[n - 1], t[n])
  <2>1. SUFFICES ASSUME NEW n \in 0..(m + 1)
                 PROVE  g[n] = IF n = 0 THEN Begun(how) ELSE Continued(how, g[n - 1], t[n])
    OBVIOUS
  <2> HIDE DEF g
  <2>2. CASE n = 0
    BY <1>1, <1>2, <2>2
  <2>3. CASE n \in 1..m
    <3>1. g[n] = f[n] /\ g[n - 1] = f[n - 1] /\ t[n] = s[n] /\ n # 0
      BY <1>2, <2>3 DEF Agree
    <3>2. QED BY <1>1, <2>3, <3>1
  <2>4. CASE n = m + 1
    <3>1. n # 0 /\ n - 1 = m /\ g[m] = f[m]
      BY <1>2, <2>4
    <3>2. QED BY <1>2, <2>4, <3>1
  <2>5. QED BY <2>2, <2>3, <2>4
<1>4. IsRun(g, how, t, m + 1)
  BY <1>3 DEF IsRun
<1> HIDE DEF g
<1>5. QED BY <1>2, <1>4

LEMMA RunExists ==
  ASSUME NEW how, NEW s, NEW m \in Nat
  PROVE  \E f : IsRun(f, how, s, m)
<1> DEFINE N == {k \in Nat : \E f : IsRun(f, how, s, k)}
<1>1. 0 \in N
  <2>1. IsRun([n \in 0..0 |-> Begun(how)], how, s, 0)
    BY DEF IsRun
  <2>2. QED BY <2>1
<1>2. ASSUME NEW k \in N PROVE k + 1 \in N
  <2>1. PICK f : IsRun(f, how, s, k)
    OBVIOUS
  <2>2. k \in Nat /\ Agree(s, s, k)
    BY DEF Agree
  <2>3. \E g : IsRun(g, how, s, k + 1)
    BY <2>1, <2>2, RunExtends
  <2>4. QED BY <2>2, <2>3
<1> HIDE DEF N
<1>3. N = Nat
  <2>1. N \subseteq Nat
    BY DEF N
  <2>2. QED BY <1>1, <1>2, <2>1, AllNumbers
<1>4. m \in N
  BY <1>3
<1>5. QED BY <1>4 DEF N

LEMMA RunIsUnique ==
  ASSUME NEW f, NEW g, NEW how, NEW s, NEW m \in Nat, IsRun(f, how, s, m), IsRun(g, how, s, m)
  PROVE  f[m] = g[m]
<1> DEFINE N == {k \in Nat : k <= m => f[k] = g[k]}
<1>1. /\ f[0] = Begun(how) /\ g[0] = Begun(how)
      /\ \A n \in 1..m : f[n] = Continued(how, f[n - 1], s[n])
      /\ \A n \in 1..m : g[n] = Continued(how, g[n - 1], s[n])
  BY RunGoesOn
<1>2. 0 \in N
  BY <1>1
<1>3. ASSUME NEW k \in N PROVE k + 1 \in N
  <2>1. k \in Nat
    OBVIOUS
  <2>2. SUFFICES ASSUME k + 1 <= m PROVE f[k + 1] = g[k + 1]
    BY <2>1
  <2>3. k + 1 \in 1..m /\ (k + 1) - 1 = k /\ f[k] = g[k]
    BY <2>1, <2>2
  <2>4. QED BY <1>1, <2>3
<1> HIDE DEF N
<1>4. N = Nat
  <2>1. N \subseteq Nat
    BY DEF N
  <2>2. QED BY <1>2, <1>3, <2>1, AllNumbers
<1>5. m \in N /\ m <= m
  BY <1>4
<1>6. QED BY <1>5 DEF N

\* v is what all of s makes.
IsResult(v, how, s) == \E f : IsRun(f, how, s, Len(s)) /\ v = f[Len(s)]

LEMMA ResultOfNothing ==
  ASSUME NEW v, NEW how, IsResult(v, how, <<>>)
  PROVE  v = Begun(how)
<1>1. Len(<<>>) = 0
  BY EmptySeq
<1>2. PICK f : IsRun(f, how, <<>>, 0) /\ v = f[0]
  BY <1>1 DEF IsResult
<1>3. QED BY <1>2, RunGoesOn

LEMMA ResultOfOneMore ==
  ASSUME NEW S, NEW s \in Seq(S), NEW x \in S, NEW how, NEW v, NEW w,
         IsResult(v, how, s), IsResult(w, how, Append(s, x))
  PROVE  w = Continued(how, v, x)
<1> DEFINE m == Len(s)
           t == Append(s, x)
<1>1. m \in Nat /\ Len(t) = m + 1 /\ t[m + 1] = x /\ Agree(s, t, m)
  BY AppendFits, LenProperties DEF Agree
<1>2. PICK f : IsRun(f, how, s, m) /\ v = f[m]
  BY DEF IsResult
<1>3. PICK h : IsRun(h, how, t, Len(t)) /\ w = h[Len(t)]
  BY DEF IsResult
<1> HIDE DEF m, t
<1>4. PICK g : IsRun(g, how, t, m + 1) /\ g[m + 1] = Continued(how, f[m], t[m + 1])
  BY <1>1, <1>2, RunExtends
<1>5. m + 1 \in Nat /\ IsRun(h, how, t, m + 1) /\ w = h[m + 1]
  BY <1>1, <1>3
<1>6. g[m + 1] = h[m + 1]
  BY <1>4, <1>5, RunIsUnique
<1>7. QED BY <1>1, <1>2, <1>4, <1>5, <1>6

LEMMA WithoutResults ==
  ASSUME NEW s, NEW e, Len(s) \in Nat
  PROVE  IsResult(Dropping(s, e), Omitting(e), s)
<1> DEFINE m == Len(s)
           kept[n \in 0..m] ==
             IF n = 0 THEN <<>> ELSE IF s[n] = e THEN kept[n - 1] ELSE Append(kept[n - 1], s[n])
<1>1. kept = CHOOSE f : IsRun(f, Omitting(e), s, m)
  BY DEF IsRun, Begun, Continued, Omitting
<1>2. Dropping(s, e) = kept[m]
  BY DEF Dropping
<1> HIDE DEF kept
<1>3. IsRun(kept, Omitting(e), s, m)
  BY <1>1, RunExists
<1>4. QED BY <1>2, <1>3 DEF IsResult

LEMMA JoinedResults ==
  ASSUME NEW s, Len(s) \in Nat
  PROVE  IsResult(Joined(s), Joining, s)
<1> DEFINE m == Len(s)
           all[n \in 0..m] == IF n = 0 THEN <<>> ELSE all[n - 1] \o s[n]
<1>1. all = CHOOSE f : IsRun(f, Joining, s, m)
  BY DEF IsRun, Begun, Continued, Joining
<1>2. Joined(s) = all[m]
  BY DEF Joined
<1> HIDE DEF all
<1>3. IsRun(all, Joining, s, m)
  BY <1>1, RunExists
<1>4. QED BY <1>2, <1>3 DEF IsResult

LEMMA PartsResult ==
  ASSUME NEW s, Len(s) \in Nat
  PROVE  IsResult(Parts(s), Parting, s)
<1> DEFINE m == Len(s)
           upTo[n \in 0..m] ==
             IF n = 0 THEN [lines |-> <<>>, open |-> <<>>]
             ELSE IF s[n] = LineFeed
             THEN [lines |-> Append(upTo[n - 1].lines, upTo[n - 1].open), open |-> <<>>]
             ELSE [lines |-> upTo[n - 1].lines, open |-> Append(upTo[n - 1].open, s[n])]
<1>1. upTo = CHOOSE f : IsRun(f, Parting, s, m)
  BY DEF IsRun, Begun, Continued, Parting, PartsWith, NoParts
<1>2. Parts(s) = upTo[m]
  BY DEF Parts
<1> HIDE DEF upTo
<1>3. IsRun(upTo, Parting, s, m)
  BY <1>1, RunExists
<1>4. QED BY <1>2, <1>3 DEF IsResult

\* The equations of the three definitions.
LEMMA OfNothing ==
  /\ \A e : Dropping(<<>>, e) = <<>>
  /\ Joined(<<>>) = <<>>
  /\ Parts(<<>>) = NoParts
<1>1. Len(<<>>) \in Nat
  BY EmptySeq
<1>2. ASSUME NEW e PROVE Dropping(<<>>, e) = <<>>
  <2>1. IsResult(Dropping(<<>>, e), Omitting(e), <<>>)
    BY <1>1, WithoutResults
  <2>2. Dropping(<<>>, e) = Begun(Omitting(e))
    BY <2>1, ResultOfNothing
  <2>3. QED BY <2>2 DEF Begun, Omitting
<1>3. Joined(<<>>) = <<>>
  BY <1>1, JoinedResults, ResultOfNothing DEF Begun, Joining
<1>4. Parts(<<>>) = NoParts
  BY <1>1, PartsResult, ResultOfNothing DEF Begun, Parting
<1>5. QED BY <1>2, <1>3, <1>4

LEMMA OfOneMore ==
  ASSUME NEW S, NEW s \in Seq(S), NEW x \in S
  PROVE  /\ \A e : Dropping(Append(s, x), e) =
                     IF x = e THEN Dropping(s, e) ELSE Append(Dropping(s, e), x)
         /\ Joined(Append(s, x)) = Joined(s) \o x
         /\ Parts(Append(s, x)) = PartsWith(Parts(s), x)
<1>1. Len(s) \in Nat /\ Len(Append(s, x)) \in Nat
  BY AppendFits, LenProperties
<1>2. ASSUME NEW e
      PROVE  Dropping(Append(s, x), e) = IF x = e THEN Dropping(s, e) ELSE Append(Dropping(s, e), x)
  <2>1. /\ IsResult(Dropping(s, e), Omitting(e), s)
        /\ IsResult(Dropping(Append(s, x), e), Omitting(e), Append(s, x))
    BY <1>1, WithoutResults
  <2>2. Dropping(Append(s, x), e) = Continued(Omitting(e), Dropping(s, e), x)
    BY <2>1, ResultOfOneMore
  <2>3. QED BY <2>2 DEF Continued, Omitting
<1>3. Joined(Append(s, x)) = Joined(s) \o x
  <2>1. /\ IsResult(Joined(s), Joining, s)
        /\ IsResult(Joined(Append(s, x)), Joining, Append(s, x))
    BY <1>1, JoinedResults
  <2>2. Joined(Append(s, x)) = Continued(Joining, Joined(s), x)
    BY <2>1, ResultOfOneMore
  <2>3. QED BY <2>2 DEF Continued, Joining
<1>4. Parts(Append(s, x)) = PartsWith(Parts(s), x)
  <2>1. /\ IsResult(Parts(s), Parting, s)
        /\ IsResult(Parts(Append(s, x)), Parting, Append(s, x))
    BY <1>1, PartsResult
  <2>2. Parts(Append(s, x)) = Continued(Parting, Parts(s), x)
    BY <2>1, ResultOfOneMore
  <2>3. QED BY <2>2 DEF Continued, Parting
<1>5. QED BY <1>2, <1>3, <1>4

-------------------------------------------------------------------------------
(* What the three definitions make of sequences that are joined. *)

LEMMA WithoutFits ==
  ASSUME NEW S, NEW e PROVE \A s \in Seq(S) : Dropping(s, e) \in Seq(S)
<1> DEFINE T == {s \in Seq(S) : Dropping(s, e) \in Seq(S)}
<1>1. <<>> \in T
  BY EmptySeq, OfNothing
<1>2. ASSUME NEW s \in T, NEW x \in S PROVE Append(s, x) \in T
  <2>1. Append(s, x) \in Seq(S) /\ s \in Seq(S)
    BY AppendFits
  <2>2. Dropping(Append(s, x), e) = IF x = e THEN Dropping(s, e) ELSE Append(Dropping(s, e), x)
    BY <2>1, OfOneMore
  <2>3. Append(Dropping(s, e), x) \in Seq(S)
    BY AppendFits
  <2>4. QED BY <2>1, <2>2, <2>3
<1> HIDE DEF T
<1>3. T \subseteq Seq(S)
  BY DEF T
<1>4. T = Seq(S)
  BY <1>1, <1>2, <1>3, AllSequences
<1>5. QED BY <1>4 DEF T

LEMMA WithoutOfJoin ==
  ASSUME NEW S, NEW s \in Seq(S), NEW e
  PROVE  \A t \in Seq(S) : Dropping(s \o t, e) = Dropping(s, e) \o Dropping(t, e)
<1> DEFINE T == {t \in Seq(S) : Dropping(s \o t, e) = Dropping(s, e) \o Dropping(t, e)}
<1>0. Dropping(s, e) \in Seq(S)
  BY WithoutFits
<1>1. <<>> \in T
  <2>1. s \o <<>> = s /\ Dropping(s, e) \o <<>> = Dropping(s, e)
    BY <1>0, ConcatEmptySeq
  <2>2. QED BY <2>1, OfNothing, EmptySeq
<1>2. ASSUME NEW t \in T, NEW x \in S PROVE Append(t, x) \in T
  <2>1. /\ t \in Seq(S) /\ Append(t, x) \in Seq(S) /\ s \o t \in Seq(S)
        /\ Dropping(t, e) \in Seq(S) /\ Dropping(s \o t, e) = Dropping(s, e) \o Dropping(t, e)
    BY AppendFits, ConcatFits, WithoutFits
  <2>2. s \o Append(t, x) = Append(s \o t, x)
    BY <2>1, AppendToJoin
  <2>3. /\ Dropping(Append(s \o t, x), e) =
             IF x = e THEN Dropping(s \o t, e) ELSE Append(Dropping(s \o t, e), x)
        /\ Dropping(Append(t, x), e) = IF x = e THEN Dropping(t, e) ELSE Append(Dropping(t, e), x)
    <3>1. Dropping(Append(s \o t, x), e) =
            IF x = e THEN Dropping(s \o t, e) ELSE Append(Dropping(s \o t, e), x)
      <4> DEFINE u == s \o t
      <4>1. u \in Seq(S)
        BY <2>1
      <4> HIDE DEF u
      <4>2. Dropping(Append(u, x), e) = IF x = e THEN Dropping(u, e) ELSE Append(Dropping(u, e), x)
        BY <4>1, OfOneMore
      <4>3. QED BY <4>2 DEF u
    <3>2. Dropping(Append(t, x), e) = IF x = e THEN Dropping(t, e) ELSE Append(Dropping(t, e), x)
      BY <2>1, OfOneMore
    <3>3. QED BY <3>1, <3>2
  <2>4. Dropping(s, e) \o Append(Dropping(t, e), x) = Append(Dropping(s, e) \o Dropping(t, e), x)
    BY <1>0, <2>1, AppendToJoin
  <2>5. Dropping(s \o Append(t, x), e) = Dropping(s, e) \o Dropping(Append(t, x), e)
    BY <2>1, <2>2, <2>3, <2>4
  <2>6. QED BY <2>1, <2>5
<1> HIDE DEF T
<1>3. T \subseteq Seq(S)
  BY DEF T
<1>4. T = Seq(S)
  BY <1>1, <1>2, <1>3, AllSequences
<1>5. QED BY <1>4 DEF T

\* e is nowhere in s.
Lacks(s, e) == \A i \in 1..Len(s) : s[i] # e

LEMMA LacksWithOneMore ==
  ASSUME NEW S, NEW s \in Seq(S), NEW x \in S, NEW e, Lacks(Append(s, x), e)
  PROVE  Lacks(s, e) /\ x # e
<1>1. /\ Len(Append(s, x)) = Len(s) + 1 /\ Append(s, x)[Len(s) + 1] = x /\ Len(s) \in Nat
      /\ \A i \in 1..Len(s) : Append(s, x)[i] = s[i]
  BY AppendFits, LenProperties
<1>2. \A i \in 1..(Len(s) + 1) : Append(s, x)[i] # e
  BY <1>1 DEF Lacks
<1>3. Len(s) + 1 \in 1..(Len(s) + 1) /\ \A i \in 1..Len(s) : i \in 1..(Len(s) + 1)
  BY <1>1
<1>4. x # e
  BY <1>1, <1>2, <1>3
<1>5. \A i \in 1..Len(s) : s[i] # e
  BY <1>1, <1>2, <1>3
<1>6. QED BY <1>4, <1>5 DEF Lacks

LEMMA WithoutChangesNothing ==
  ASSUME NEW S, NEW e PROVE \A s \in Seq(S) : Lacks(s, e) => Dropping(s, e) = s
<1> DEFINE T == {s \in Seq(S) : Lacks(s, e) => Dropping(s, e) = s}
<1>1. <<>> \in T
  BY EmptySeq, OfNothing
<1>2. ASSUME NEW s \in T, NEW x \in S PROVE Append(s, x) \in T
  <2>1. Append(s, x) \in Seq(S) /\ s \in Seq(S)
    BY AppendFits
  <2>2. SUFFICES ASSUME Lacks(Append(s, x), e) PROVE Dropping(Append(s, x), e) = Append(s, x)
    BY <2>1
  <2>3. Lacks(s, e) /\ x # e
    BY <2>1, <2>2, LacksWithOneMore
  <2>4. Dropping(Append(s, x), e) = Append(Dropping(s, e), x)
    BY <2>1, <2>3, OfOneMore
  <2>5. QED BY <2>3, <2>4
<1> HIDE DEF T
<1>3. T \subseteq Seq(S)
  BY DEF T
<1>4. T = Seq(S)
  BY <1>1, <1>2, <1>3, AllSequences
<1>5. QED BY <1>4 DEF T

LEMMA JoinedFits ==
  ASSUME NEW S PROVE \A s \in Seq(Seq(S)) : Joined(s) \in Seq(S)
<1> DEFINE T == {s \in Seq(Seq(S)) : Joined(s) \in Seq(S)}
<1>1. <<>> \in T
  BY EmptySeq, OfNothing
<1>2. ASSUME NEW s \in T, NEW x \in Seq(S) PROVE Append(s, x) \in T
  <2>1. Append(s, x) \in Seq(Seq(S)) /\ s \in Seq(Seq(S)) /\ Joined(s) \in Seq(S)
    BY AppendFits
  <2>2. Joined(Append(s, x)) = Joined(s) \o x
    BY <2>1, OfOneMore
  <2>3. Joined(s) \o x \in Seq(S)
    BY <2>1, ConcatFits
  <2>4. QED BY <2>1, <2>2, <2>3
<1> HIDE DEF T
<1>3. T \subseteq Seq(Seq(S))
  BY DEF T
<1>4. T = Seq(Seq(S))
  BY <1>1, <1>2, <1>3, AllSequences
<1>5. QED BY <1>4 DEF T

ArePartsOf(p, S) ==
  /\ p = [lines |-> p.lines, open |-> p.open]
  /\ p.lines \in Seq(Seq(S)) /\ p.open \in Seq(S)

LEMMA PartsFit ==
  ASSUME NEW S PROVE \A s \in Seq(S) : ArePartsOf(Parts(s), S)
<1> DEFINE T == {s \in Seq(S) : ArePartsOf(Parts(s), S)}
<1>1. <<>> \in T
  <2>1. Parts(<<>>) = NoParts /\ <<>> \in Seq(S) /\ <<>> \in Seq(Seq(S))
    BY EmptySeq, OfNothing
  <2>2. NoParts.lines = <<>> /\ NoParts.open = <<>>
    BY DEF NoParts
  <2>3. QED BY <2>1, <2>2 DEF ArePartsOf, NoParts
<1>2. ASSUME NEW s \in T, NEW x \in S PROVE Append(s, x) \in T
  <2> DEFINE p == Parts(s)
             q == Parts(Append(s, x))
  <2>1. Append(s, x) \in Seq(S) /\ s \in Seq(S) /\ p.lines \in Seq(Seq(S)) /\ p.open \in Seq(S)
    BY AppendFits DEF ArePartsOf
  <2>2. q = PartsWith(p, x)
    BY <2>1, OfOneMore
  <2>3. Append(p.lines, p.open) \in Seq(Seq(S)) /\ Append(p.open, x) \in Seq(S) /\ <<>> \in Seq(S)
    BY <2>1, AppendFits, EmptySeq
  <2> HIDE DEF p, q
  <2>4. CASE x = LineFeed
    <3>1. q = [lines |-> Append(p.lines, p.open), open |-> <<>>]
      BY <2>2, <2>4 DEF PartsWith
    <3>2. ArePartsOf(q, S)
      BY <2>3, <3>1 DEF ArePartsOf
    <3>3. QED BY <2>1, <3>2 DEF q
  <2>5. CASE x # LineFeed
    <3>1. q = [lines |-> p.lines, open |-> Append(p.open, x)]
      BY <2>2, <2>5 DEF PartsWith
    <3>2. ArePartsOf(q, S)
      BY <2>1, <2>3, <3>1 DEF ArePartsOf
    <3>3. QED BY <2>1, <3>2 DEF q
  <2>6. QED BY <2>4, <2>5
<1> HIDE DEF T
<1>3. T \subseteq Seq(S)
  BY DEF T
<1>4. T = Seq(S)
  BY <1>1, <1>2, <1>3, AllSequences
<1>5. QED BY <1>4 DEF T

\* Text without a line feed goes into the line that is open.
LEMMA OpenLineGrows ==
  ASSUME NEW S, NEW s \in Seq(S)
  PROVE  \A t \in Seq(S) : Lacks(t, LineFeed) =>
           Parts(s \o t) = [lines |-> Parts(s).lines, open |-> Parts(s).open \o t]
<1> DEFINE l == Parts(s).lines
           o == Parts(s).open
           T == {t \in Seq(S) :
                   Lacks(t, LineFeed) => Parts(s \o t) = [lines |-> l, open |-> o \o t]}
<1>0. Parts(s) = [lines |-> l, open |-> o] /\ l \in Seq(Seq(S)) /\ o \in Seq(S)
  BY PartsFit DEF ArePartsOf
<1> HIDE DEF l, o
<1>1. <<>> \in T
  <2>1. s \o <<>> = s /\ o \o <<>> = o
    BY <1>0, ConcatEmptySeq
  <2>2. QED BY <1>0, <2>1, EmptySeq
<1>2. ASSUME NEW t \in T, NEW x \in S PROVE Append(t, x) \in T
  <2>1. /\ t \in Seq(S) /\ Append(t, x) \in Seq(S) /\ s \o t \in Seq(S)
        /\ Lacks(t, LineFeed) => Parts(s \o t) = [lines |-> l, open |-> o \o t]
    BY AppendFits, ConcatFits
  <2>2. SUFFICES ASSUME Lacks(Append(t, x), LineFeed)
                 PROVE  Parts(s \o Append(t, x)) = [lines |-> l, open |-> o \o Append(t, x)]
    BY <2>1
  <2>3. Lacks(t, LineFeed) /\ x # LineFeed
    BY <2>1, <2>2, LacksWithOneMore
  <2>4. Parts(s \o t) = [lines |-> l, open |-> o \o t]
    BY <2>1, <2>3
  <2>5. Parts(Append(s \o t, x)) = PartsWith([lines |-> l, open |-> o \o t], x)
    BY <2>1, <2>4, OfOneMore
  <2>6. PartsWith([lines |-> l, open |-> o \o t], x) = [lines |-> l, open |-> Append(o \o t, x)]
    BY <2>3 DEF PartsWith
  <2>7. s \o Append(t, x) = Append(s \o t, x) /\ o \o Append(t, x) = Append(o \o t, x)
    BY <1>0, <2>1, AppendToJoin
  <2>8. QED BY <2>5, <2>6, <2>7
<1> HIDE DEF T
<1>3. T \subseteq Seq(S)
  BY DEF T
<1>4. T = Seq(S)
  BY <1>1, <1>2, <1>3, AllSequences
<1>5. QED BY <1>4 DEF T, l, o

\* Lines that have ended stay, whatever follows.
LEMMA LinesStay ==
  ASSUME NEW S, NEW s \in Seq(S)
  PROVE  \A t \in Seq(S) : \E more \in Seq(Seq(S)) : Lines(s \o t) = Lines(s) \o more
<1> DEFINE T == {t \in Seq(S) : \E more \in Seq(Seq(S)) : Lines(s \o t) = Lines(s) \o more}
<1>0. Lines(s) \in Seq(Seq(S))
  BY PartsFit DEF ArePartsOf, Lines
<1>1. <<>> \in T
  <2>1. s \o <<>> = s /\ Lines(s) \o <<>> = Lines(s) /\ <<>> \in Seq(Seq(S)) /\ <<>> \in Seq(S)
    BY <1>0, ConcatEmptySeq, EmptySeq
  <2>2. QED BY <2>1
<1>2. ASSUME NEW t \in T, NEW x \in S PROVE Append(t, x) \in T
  <2>1. /\ t \in Seq(S) /\ Append(t, x) \in Seq(S) /\ s \o t \in Seq(S)
    BY AppendFits, ConcatFits
  <2>2. PICK more \in Seq(Seq(S)) : Lines(s \o t) = Lines(s) \o more
    OBVIOUS
  <2> DEFINE p == Parts(s \o t)
  <2>3. Parts(s \o Append(t, x)) = PartsWith(p, x)
    <3>1. s \o Append(t, x) = Append(s \o t, x)
      BY <2>1, AppendToJoin
    <3>2. QED BY <2>1, <3>1, OfOneMore
  <2>4. p.lines = Lines(s) \o more /\ p.open \in Seq(S)
    BY <2>1, <2>2, PartsFit DEF ArePartsOf, Lines
  <2> HIDE DEF p
  <2>5. CASE x = LineFeed
    <3>1. Lines(s \o Append(t, x)) = Append(p.lines, p.open)
      BY <2>3, <2>5 DEF PartsWith, Lines
    <3>2. Append(Lines(s) \o more, p.open) = Lines(s) \o Append(more, p.open)
      <4> DEFINE l == Lines(s)
                 o == p.open
                 L == Seq(S)
      <4>1. l \in Seq(L) /\ more \in Seq(L) /\ o \in L
        BY <1>0, <2>2, <2>4
      <4> HIDE DEF l, o, L
      <4>2. l \o Append(more, o) = Append(l \o more, o)
        BY <4>1, AppendToJoin
      <4>3. QED BY <4>2 DEF l, o
    <3>3. Append(more, p.open) \in Seq(Seq(S))
      BY <2>2, <2>4, AppendFits
    <3>4. \E m \in Seq(Seq(S)) : Lines(s \o Append(t, x)) = Lines(s) \o m
      BY <2>4, <3>1, <3>2, <3>3
    <3>5. QED BY <2>1, <3>4
  <2>6. CASE x # LineFeed
    <3>1. Lines(s \o Append(t, x)) = p.lines
      BY <2>3, <2>6 DEF PartsWith, Lines
    <3>2. QED BY <2>1, <2>2, <2>4, <3>1
  <2>7. QED BY <2>5, <2>6
<1> HIDE DEF T
<1>3. T \subseteq Seq(S)
  BY DEF T
<1>4. T = Seq(S)
  BY <1>1, <1>2, <1>3, AllSequences
<1>5. QED BY <1>4 DEF T

\* A text behind whole lines has its own lines behind those, and its own rest.
LEMMA AfterWholeLines ==
  ASSUME NEW S, NEW c \in Seq(S), Parts(c).open = <<>>
  PROVE  \A t \in Seq(S) :
           Parts(c \o t) = [lines |-> Lines(c) \o Lines(t), open |-> Parts(t).open]
<1> DEFINE L == Seq(S)
           l == Lines(c)
           T == {t \in Seq(S) : Parts(c \o t) = [lines |-> l \o Lines(t), open |-> Parts(t).open]}
<1>0. l \in Seq(L) /\ Parts(c) = [lines |-> l, open |-> <<>>]
  BY PartsFit DEF ArePartsOf, Lines
<1> HIDE DEF L, l
<1>1. <<>> \in T
  <2>1. c \o <<>> = c /\ l \o <<>> = l /\ <<>> \in Seq(S)
    BY <1>0, ConcatEmptySeq, EmptySeq
  <2>2. Lines(<<>>) = <<>> /\ Parts(<<>>).open = <<>>
    BY OfNothing DEF NoParts, Lines
  <2>3. QED BY <1>0, <2>1, <2>2
<1>2. ASSUME NEW t \in T, NEW x \in S PROVE Append(t, x) \in T
  <2> DEFINE m == Lines(t)
             o == Parts(t).open
  <2>1. /\ t \in Seq(S) /\ Append(t, x) \in Seq(S) /\ c \o t \in Seq(S)
        /\ Parts(c \o t) = [lines |-> l \o m, open |-> o]
    BY AppendFits, ConcatFits
  <2>2. m \in Seq(L) /\ o \in L /\ Parts(t) = [lines |-> m, open |-> o]
    BY <2>1, PartsFit DEF ArePartsOf, Lines, L
  <2> HIDE DEF m, o
  <2>3. Parts(Append(t, x)) = PartsWith([lines |-> m, open |-> o], x)
    BY <2>1, <2>2, OfOneMore
  <2>4. Parts(c \o Append(t, x)) = PartsWith([lines |-> l \o m, open |-> o], x)
    <3>1. c \o Append(t, x) = Append(c \o t, x)
      BY <2>1, AppendToJoin
    <3>2. QED BY <2>1, <3>1, OfOneMore
  <2>5. CASE x = LineFeed
    <3>1. /\ Parts(Append(t, x)) = [lines |-> Append(m, o), open |-> <<>>]
          /\ Parts(c \o Append(t, x)) = [lines |-> Append(l \o m, o), open |-> <<>>]
      BY <2>3, <2>4, <2>5 DEF PartsWith
    <3>2. l \o Append(m, o) = Append(l \o m, o)
      BY <1>0, <2>2, AppendToJoin
    <3>3. Lines(Append(t, x)) = Append(m, o) /\ Parts(Append(t, x)).open = <<>>
      BY <3>1 DEF Lines
    <3>4. QED BY <2>1, <3>1, <3>2, <3>3
  <2>6. CASE x # LineFeed
    <3>1. /\ Parts(Append(t, x)) = [lines |-> m, open |-> Append(o, x)]
          /\ Parts(c \o Append(t, x)) = [lines |-> l \o m, open |-> Append(o, x)]
      BY <2>3, <2>4, <2>6 DEF PartsWith
    <3>2. Lines(Append(t, x)) = m /\ Parts(Append(t, x)).open = Append(o, x)
      BY <3>1 DEF Lines
    <3>3. QED BY <2>1, <3>1, <3>2
  <2>7. QED BY <2>5, <2>6
<1> HIDE DEF T
<1>3. T \subseteq Seq(S)
  BY DEF T
<1>4. T = Seq(S)
  BY <1>1, <1>2, <1>3, AllSequences
<1>5. QED BY <1>4 DEF T, l

LinesOf(e) == [k \in 1..Len(e) |-> Lines(e[k])]
AllWhole(e) == \A k \in 1..Len(e) : Parts(e[k]).open = <<>>

\* Texts of whole lines, one behind the other, have the lines of each.
LEMMA WholeTexts ==
  ASSUME NEW S
  PROVE  \A e \in Seq(Seq(S)) :
           /\ LinesOf(e) \in Seq(Seq(Seq(S)))
           /\ AllWhole(e) => Parts(Joined(e)) = [lines |-> Joined(LinesOf(e)), open |-> <<>>]
<1> DEFINE T == {e \in Seq(Seq(S)) :
                   /\ LinesOf(e) \in Seq(Seq(Seq(S)))
                   /\ AllWhole(e) => Parts(Joined(e)) = [lines |-> Joined(LinesOf(e)), open |-> <<>>]}
<1>1. <<>> \in T
  <2>1. LinesOf(<<>>) = <<>>
    <3>1. Len(<<>>) = 0 /\ 1..0 = {}
      BY EmptySeq
    <3>2. QED BY <3>1 DEF LinesOf
  <2>2. Parts(Joined(<<>>)) = [lines |-> Joined(<<>>), open |-> <<>>]
    BY OfNothing DEF NoParts
  <2>3. <<>> \in Seq(Seq(S)) /\ <<>> \in Seq(Seq(Seq(S)))
    BY EmptySeq
  <2>4. QED BY <2>1, <2>2, <2>3
<1>2. ASSUME NEW e \in T, NEW t \in Seq(S) PROVE Append(e, t) \in T
  <2> DEFINE a == Append(e, t)
             n == Len(e)
             K == Seq(Seq(S))
             f == LinesOf(e)
  <2>1. /\ e \in Seq(Seq(S)) /\ f \in Seq(K)
        /\ AllWhole(e) => Parts(Joined(e)) = [lines |-> Joined(f), open |-> <<>>]
    OBVIOUS
  <2>2. /\ a \in Seq(Seq(S)) /\ Len(a) = n + 1 /\ n \in Nat
        /\ a[n + 1] = t /\ \A k \in 1..n : a[k] = e[k]
    BY <2>1, AppendFits, LenProperties
  <2> HIDE DEF a
  <2>3. Lines(t) \in K
    BY PartsFit DEF ArePartsOf, Lines
  <2>4. Len(f) = n /\ \A k \in 1..n : f[k] = Lines(e[k])
    BY <2>1, <2>2, LenProperties DEF LinesOf
  <2> HIDE DEF f, K
  <2>5. LinesOf(a) = Append(f, Lines(t))
    <3> DEFINE g == Append(f, Lines(t))
    <3>1. /\ g \in Seq(K) /\ Len(g) = n + 1 /\ g[n + 1] = Lines(t)
          /\ \A k \in 1..n : g[k] = f[k]
      BY <2>1, <2>3, <2>4, AppendFits
    <3> HIDE DEF g
    <3>2. g = [k \in 1..(n + 1) |-> g[k]]
      BY <3>1, LenProperties
    <3>3. \A k \in 1..(n + 1) : g[k] = Lines(a[k])
      <4>1. \A k \in 1..(n + 1) : k \in 1..n \/ k = n + 1
        BY <2>2
      <4>2. QED BY <2>2, <2>4, <3>1, <4>1
    <3>4. LinesOf(a) = [k \in 1..(n + 1) |-> Lines(a[k])]
      BY <2>2 DEF LinesOf
    <3>5. QED BY <3>2, <3>3, <3>4 DEF g
  <2>6. LinesOf(a) \in Seq(K) /\ Joined(LinesOf(a)) = Joined(f) \o Lines(t)
    BY <2>1, <2>3, <2>5, AppendFits, OfOneMore
  <2>7. ASSUME AllWhole(a) PROVE Parts(Joined(a)) = [lines |-> Joined(LinesOf(a)), open |-> <<>>]
    <3>1. AllWhole(e) /\ Parts(t).open = <<>>
      BY <2>2, <2>7 DEF AllWhole
    <3> DEFINE c == Joined(e)
    <3>2. c \in Seq(S) /\ Joined(a) = c \o t
      BY <2>1, JoinedFits, OfOneMore DEF a
    <3> HIDE DEF c
    <3>3. Parts(c) = [lines |-> Joined(f), open |-> <<>>]
      BY <2>1, <3>1 DEF c
    <3>4. Parts(c).open = <<>> /\ Lines(c) = Joined(f)
      BY <3>3 DEF Lines
    <3>5. Parts(c \o t) = [lines |-> Lines(c) \o Lines(t), open |-> Parts(t).open]
      BY <3>2, <3>4, AfterWholeLines
    <3>6. QED BY <2>6, <3>1, <3>2, <3>4, <3>5
  <2>8. QED BY <2>2, <2>6, <2>7 DEF a, K
<1> HIDE DEF T
<1>3. T \subseteq Seq(Seq(S))
  BY DEF T
<1>4. T = Seq(Seq(S))
  BY <1>1, <1>2, <1>3, AllSequences
<1>5. QED BY <1>4 DEF T

-------------------------------------------------------------------------------
(* getline takes one line off a text. *)

Rest(text) == SubSeq(text, LineLength(text) + 1, Len(text))

LEMMA Halves ==
  ASSUME NEW S, NEW s \in Seq(S), NEW n \in 0..Len(s)
  PROVE  /\ SubSeq(s, 1, n) \in Seq(S) /\ SubSeq(s, n + 1, Len(s)) \in Seq(S)
         /\ s = SubSeq(s, 1, n) \o SubSeq(s, n + 1, Len(s))
<1> DEFINE a == SubSeq(s, 1, n)
           b == SubSeq(s, n + 1, Len(s))
<1>1. Len(s) \in Nat /\ n \in Nat /\ n <= Len(s)
  BY LenProperties
<1>2. a \in Seq(S) /\ Len(a) = n /\ \A i \in 1..n : a[i] = s[i]
  BY <1>1, SubSeqProperties
<1>3. b \in Seq(S) /\ Len(b) = Len(s) - n /\ \A i \in 1..(Len(s) - n) : b[i] = s[n + i]
  BY <1>1, SubSeqProperties
<1> HIDE DEF a, b
<1>4. /\ a \o b \in Seq(S) /\ Len(a \o b) = Len(a) + Len(b)
      /\ \A i \in 1..Len(a) : (a \o b)[i] = a[i]
      /\ \A i \in 1..Len(b) : (a \o b)[Len(a) + i] = b[i]
  <2>1. a \in Seq(S) /\ b \in Seq(S)
    BY <1>2, <1>3
  <2>2. QED BY <2>1, ConcatFits
<1>5. ASSUME NEW i \in 1..Len(s) PROVE (a \o b)[i] = s[i]
  <2>1. CASE i <= n
    <3>1. i \in 1..n
      BY <1>1, <2>1
    <3>2. QED BY <1>2, <1>4, <3>1
  <2>2. CASE ~(i <= n)
    <3>1. i - n \in 1..(Len(s) - n) /\ n + (i - n) = i
      BY <1>1, <2>2
    <3>2. i - n \in 1..Len(b) /\ b[i - n] = s[i]
      BY <1>3, <3>1
    <3>3. (a \o b)[n + (i - n)] = b[i - n]
      BY <1>2, <1>4, <3>2
    <3>4. QED BY <3>1, <3>2, <3>3
  <2>3. QED BY <2>1, <2>2
<1>6. Len(a \o b) = Len(s)
  BY <1>1, <1>2, <1>3, <1>4
<1>7. s = a \o b
  BY <1>4, <1>5, <1>6, SeqEqual
<1>8. QED BY <1>2, <1>3, <1>7 DEF a, b

LEMMA FirstOfMany ==
  ASSUME NEW F, F \subseteq Nat, F # {}
  PROVE  \E i \in F : \A k \in F : i <= k
<1> DEFINE N == {n \in Nat : \A k \in F : n < k}
<1>1. SUFFICES ASSUME ~ \E i \in F : \A k \in F : i <= k PROVE FALSE
  OBVIOUS
<1>2. \A n \in Nat : (\A k \in F : n < k) => \A k \in F : n + 1 <= k
  OBVIOUS
<1>3. 0 \in N
  <2>1. \A k \in F : 0 <= k
    OBVIOUS
  <2>2. 0 \notin F
    BY <1>1, <2>1
  <2>3. \A k \in F : k \in Nat /\ k # 0
    BY <2>2
  <2>4. QED BY <2>3
<1>4. ASSUME NEW n \in N PROVE n + 1 \in N
  <2>1. n \in Nat /\ \A k \in F : n + 1 <= k
    BY <1>2
  <2>2. n + 1 \notin F
    BY <1>1, <2>1
  <2>3. \A k \in F : k \in Nat /\ k # n + 1
    BY <2>2
  <2>4. QED BY <2>1, <2>3
<1> HIDE DEF N
<1>5. N = Nat
  <2>1. N \subseteq Nat
    BY DEF N
  <2>2. QED BY <1>3, <1>4, <2>1, AllNumbers
<1>6. PICK k \in F : TRUE
  OBVIOUS
<1>7. k \in N /\ k \in Nat
  BY <1>5
<1>8. k < k
  BY <1>6, <1>7 DEF N
<1>9. QED BY <1>7, <1>8

LEMMA LineOfEndedText ==
  ASSUME NEW S, NEW text \in Seq(S), ~Lacks(text, LineFeed)
  PROVE  /\ LineLength(text) \in 1..Len(text)
         /\ Line(text) \in Seq(S) /\ Lacks(Line(text), LineFeed)
         /\ LineFeed \in S
         /\ SubSeq(text, 1, LineLength(text)) = Append(Line(text), LineFeed)
<1> DEFINE feeds == {i \in DOMAIN text : text[i] = LineFeed}
           n == LineLength(text)
<1>1. DOMAIN text = 1..Len(text) /\ Len(text) \in Nat
  BY LenProperties
<1>2. feeds # {} /\ feeds \subseteq Nat
  BY <1>1 DEF Lacks
<1>3. n = CHOOSE i \in feeds : \A k \in feeds : i <= k
  BY <1>2 DEF LineLength
<1> HIDE DEF n, feeds
<1>4. n \in feeds /\ \A k \in feeds : n <= k
  BY <1>2, <1>3, FirstOfMany
<1>5. n \in 1..Len(text) /\ text[n] = LineFeed
  BY <1>1, <1>4 DEF feeds
<1>6. Line(text) = SubSeq(text, 1, n - 1)
  BY <1>5 DEF Line, n
<1> DEFINE l == SubSeq(text, 1, n - 1)
<1>7. l \in Seq(S) /\ Len(l) = n - 1 /\ \A i \in 1..(n - 1) : l[i] = text[i]
  BY <1>1, <1>5, SubSeqProperties
<1>8. Lacks(l, LineFeed)
  <2>1. ASSUME NEW i \in 1..(n - 1) PROVE text[i] # LineFeed
    <3>1. i \in 1..Len(text) /\ ~(n <= i)
      BY <1>1, <1>5
    <3>2. i \notin feeds
      BY <1>4, <3>1
    <3>3. QED BY <1>1, <3>1, <3>2 DEF feeds
  <2>2. QED BY <1>7, <2>1 DEF Lacks
<1> HIDE DEF l
<1>9. LineFeed \in S
  BY <1>5, ElementOfSeq
<1> DEFINE a == SubSeq(text, 1, n)
<1>10. a \in Seq(S) /\ Len(a) = n /\ \A i \in 1..n : a[i] = text[i]
  BY <1>1, <1>5, SubSeqProperties
<1> HIDE DEF a
<1>11. a = Append(l, LineFeed)
  <2>1. /\ Append(l, LineFeed) \in Seq(S) /\ Len(Append(l, LineFeed)) = Len(l) + 1
        /\ Append(l, LineFeed)[Len(l) + 1] = LineFeed
        /\ \A i \in 1..Len(l) : Append(l, LineFeed)[i] = l[i]
    BY <1>7, <1>9, AppendFits
  <2>2. Len(l) + 1 = n /\ Len(l) = n - 1
    BY <1>1, <1>5, <1>7
  <2>3. \A i \in 1..n : i \in 1..(n - 1) \/ i = n
    BY <1>1, <1>5
  <2>4. \A i \in 1..(n - 1) : Append(l, LineFeed)[i] = text[i]
    BY <1>7, <2>1, <2>2
  <2>5. Append(l, LineFeed)[n] = text[n]
    BY <1>5, <2>1, <2>2
  <2>6. \A i \in 1..n : Append(l, LineFeed)[i] = text[i]
    BY <2>3, <2>4, <2>5
  <2>7. \A i \in 1..n : Append(l, LineFeed)[i] = a[i]
    BY <1>10, <2>6
  <2>8. QED BY <1>10, <2>1, <2>2, <2>7, SeqEqual
<1>12. QED BY <1>5, <1>6, <1>7, <1>8, <1>9, <1>11 DEF n, l, a

\* Either the line ends with a line feed, or it is all there is.
LEMMA LineIsTaken ==
  ASSUME NEW S, NEW text \in Seq(S)
  PROVE  /\ Line(text) \in Seq(S) /\ Rest(text) \in Seq(S) /\ Lacks(Line(text), LineFeed)
         /\ ~Lacks(text, LineFeed) =>
              LineFeed \in S /\ text = Append(Line(text), LineFeed) \o Rest(text)
         /\ Lacks(text, LineFeed) => text = Line(text) \o Rest(text)
<1>1. Len(text) \in Nat /\ DOMAIN text = 1..Len(text)
  BY LenProperties
<1>2. CASE ~Lacks(text, LineFeed)
  <2>1. LineLength(text) \in 0..Len(text)
    <3>1. LineLength(text) \in 1..Len(text)
      BY <1>2, LineOfEndedText
    <3>2. QED BY <1>1, <3>1
  <2>2. /\ Rest(text) \in Seq(S)
        /\ text = SubSeq(text, 1, LineLength(text)) \o Rest(text)
    BY <2>1, Halves DEF Rest
  <2>3. QED BY <1>2, <2>2, LineOfEndedText
<1>3. CASE Lacks(text, LineFeed)
  <2>1. {i \in DOMAIN text : text[i] = LineFeed} = {}
    BY <1>1, <1>3 DEF Lacks
  <2>2. LineLength(text) = Len(text)
    BY <2>1 DEF LineLength
  <2>3. Len(text) > 0 => text[Len(text)] # LineFeed
    BY <1>1, <1>3 DEF Lacks
  <2>4. Line(text) = SubSeq(text, 1, Len(text))
    BY <2>2, <2>3 DEF Line
  <2>5. SubSeq(text, 1, Len(text)) = text
    BY SubSeqFull
  <2>6. Len(text) \in 0..Len(text)
    BY <1>1
  <2>7. Rest(text) \in Seq(S) /\ text = SubSeq(text, 1, Len(text)) \o Rest(text)
    BY <2>2, <2>6, Halves DEF Rest
  <2>8. QED BY <1>3, <2>4, <2>5, <2>7
<1>4. QED BY <1>2, <1>3

-------------------------------------------------------------------------------
(* A line is taken off the buffer. *)

LEMMA PlainFits ==
  ASSUME NEW S PROVE \A s \in Seq(S) : Plain(s) \in Seq(S)
BY WithoutFits DEF Plain

LEMMA PlainOfJoin ==
  ASSUME NEW S, NEW s \in Seq(S), NEW t \in Seq(S)
  PROVE  Plain(s \o t) = Plain(s) \o Plain(t)
BY WithoutOfJoin DEF Plain

LEMMA PlainOfLine ==
  ASSUME NEW S, NEW text \in Seq(S)
  PROVE  Plain(text) = Line(text) \o Plain(Rest(text))
<1> DEFINE l == Line(text)
           r == Rest(text)
<1>1. /\ l \in Seq(S) /\ r \in Seq(S) /\ Lacks(l, LineFeed)
      /\ ~Lacks(text, LineFeed) => LineFeed \in S /\ text = Append(l, LineFeed) \o r
      /\ Lacks(text, LineFeed) => text = l \o r
  BY LineIsTaken
<1> HIDE DEF l, r
<1>2. Plain(l) = l
  BY <1>1, WithoutChangesNothing DEF Plain
<1>3. CASE Lacks(text, LineFeed)
  <2>1. l \in Seq(S) /\ r \in Seq(S)
    BY <1>1
  <2>2. Plain(l \o r) = Plain(l) \o Plain(r)
    BY <2>1, PlainOfJoin
  <2>3. QED BY <1>1, <1>2, <1>3, <2>2 DEF l, r
<1>4. CASE ~Lacks(text, LineFeed)
  <2> DEFINE a == Append(l, LineFeed)
  <2>1. a \in Seq(S)
    BY <1>1, <1>4, AppendFits
  <2>2. Plain(a) = l
    BY <1>1, <1>2, <1>4, OfOneMore DEF Plain
  <2>3. text = a \o r
    BY <1>1, <1>4
  <2> HIDE DEF a
  <2>4. a \in Seq(S) /\ r \in Seq(S)
    BY <1>1, <2>1
  <2>5. Plain(a \o r) = Plain(a) \o Plain(r)
    BY <2>4, PlainOfJoin
  <2>6. QED BY <2>2, <2>3, <2>5 DEF l, r
<1>5. QED BY <1>3, <1>4

LEMMA PartsOfLine ==
  ASSUME NEW S, NEW c \in Seq(S), Parts(c).open = <<>>,
         NEW text \in Seq(S), ~Lacks(text, LineFeed)
  PROVE  /\ LineFeed \in S /\ Line(text) \in Seq(S)
         /\ c \o Append(Line(text), LineFeed) \in Seq(S)
         /\ Parts(c \o Append(Line(text), LineFeed)) =
              [lines |-> Append(Lines(c), Line(text)), open |-> <<>>]
<1> DEFINE l == Line(text)
<1>1. l \in Seq(S) /\ Lacks(l, LineFeed) /\ LineFeed \in S
  BY LineIsTaken
<1> HIDE DEF l
<1>2. c \o l \in Seq(S) /\ Append(l, LineFeed) \in Seq(S)
  BY <1>1, ConcatFits, AppendFits
<1>3. c \o Append(l, LineFeed) \in Seq(S)
  BY <1>2, ConcatFits
<1>4. c \o Append(l, LineFeed) = Append(c \o l, LineFeed)
  BY <1>1, AppendToJoin
<1>5. Parts(c \o l) = [lines |-> Lines(c), open |-> l]
  <2>1. Parts(c \o l) = [lines |-> Parts(c).lines, open |-> Parts(c).open \o l]
    BY <1>1, OpenLineGrows
  <2>2. Parts(c).open \o l = l
    BY <1>1, ConcatEmptySeq
  <2>3. QED BY <2>1, <2>2 DEF Lines
<1> DEFINE u == c \o l
<1>6. u \in Seq(S) /\ Parts(u) = [lines |-> Lines(c), open |-> l]
  BY <1>2, <1>5
<1> HIDE DEF u
<1>7. Parts(Append(u, LineFeed)) = PartsWith(Parts(u), LineFeed)
  BY <1>1, <1>6, OfOneMore
<1>8. PartsWith(Parts(u), LineFeed) = [lines |-> Append(Lines(c), l), open |-> <<>>]
  BY <1>6 DEF PartsWith
<1>9. QED BY <1>1, <1>3, <1>4, <1>7, <1>8 DEF u, l

\* Text in which a delimiter was found that ends with a line feed has one.
LEMMA FoundEndsLine ==
  ASSUME NEW S, NEW text \in Seq(S), NEW d \in Seq(S),
         d # <<>>, d[Len(d)] = LineFeed, Found(d, text)
  PROVE  ~Lacks(text, LineFeed)
<1>1. DOMAIN text = 1..Len(text) /\ Len(text) \in Nat /\ Len(d) \in Nat /\ Len(d) # 0
  BY LenProperties, EmptySeq
<1>2. PICK i \in 1..Len(text) : StandsAt(d, text, i)
  BY <1>1 DEF Found
<1> DEFINE j == i + Len(d) - 1
<1>3. j \in i..Len(text) /\ SubSeq(text, i, j) = d
  BY <1>1, <1>2 DEF StandsAt
<1>4. Len(d) = (j - i) + 1 /\ j \in 1..Len(text)
  BY <1>1, <1>2, <1>3
<1> HIDE DEF j
<1>5. i \in Int /\ j \in Int /\ i <= j /\ \A k \in i..j : text[k] \in S
  BY <1>1, <1>2, <1>3, ElementOfSeq
<1>6. \A k \in 1..((j - i) + 1) : SubSeq(text, i, j)[k] = text[(i + k) - 1]
  BY <1>5, SubSeqProperties
<1>7. (j - i) + 1 \in 1..((j - i) + 1) /\ (i + ((j - i) + 1)) - 1 = j
  BY <1>5
<1>8. d[(j - i) + 1] = text[j]
  BY <1>3, <1>6, <1>7
<1>9. text[j] = LineFeed
  BY <1>4, <1>8
<1>10. QED BY <1>4, <1>9 DEF Lacks

-------------------------------------------------------------------------------
(* The invariant: what was received is a text of whole lines, which were   *)
(* handed out unless they are empty, and the buffer.                       *)

HandedOut(c, buffer, all, given) ==
  /\ c \in Seq(Characters) /\ all = c \o buffer
  /\ Parts(c).open = <<>> /\ given = Dropping(Lines(c), <<>>)

LinesAreOut == EndsLines => \E c : HandedOut(c, m_buffer, received, messages)

DoneIsFound == readUntil = "done" => Found(m_delimiter, m_buffer)

ReadsInv == LinesTyped /\ BytesAreKept /\ LinesAreOut /\ DoneIsFound

\* The parts of the invariant that concern texts.
TextsUnchanged == UNCHANGED <<m_delimiter, m_buffer, messages, received>>

\* What was received, in terms of the two histories it is made of.
LEMMA ReceivedFits ==
  ASSUME LinesTyped
  PROVE  Joined(earlier) \in Seq(Characters) /\ received \in Seq(Characters)
BY JoinedFits, ConcatFits DEF LinesTyped, received

LEMMA ReceivedStays ==
  ASSUME UNCHANGED <<earlier, current>> PROVE received' = received
BY DEF received

LEMMA TextsStay ==
  ASSUME ReadsInv, TextsUnchanged PROVE BytesAreKept' /\ LinesAreOut'
<1>1. BytesAreKept'
  BY DEF ReadsInv, TextsUnchanged, BytesAreKept
<1>2. LinesAreOut'
  BY DEF ReadsInv, TextsUnchanged, LinesAreOut, EndsLines
<1>3. QED BY <1>1, <1>2

LEMMA StartReads == LinesInit => ReadsInv
<1>1. SUFFICES ASSUME LinesInit PROVE ReadsInv
  OBVIOUS
<1>0. received = <<>>
  BY <1>1, OfNothing, ConcatEmptySeq, EmptySeq DEF LinesInit, received
<1>2. LinesTyped
  <2>1. <<>> \in Seq(Characters) /\ <<>> \in Seq(Seq(Characters))
    BY EmptySeq
  <2>2. 0 \in 0..MaxLosses
    BY LinesAssumption
  <2>3. QED BY <1>1, <2>1, <2>2 DEF LinesInit, LinesTyped
<1>3. Plain(<<>>) = <<>> /\ Joined(<<>>) = <<>> /\ Parts(<<>>) = NoParts
  BY OfNothing DEF Plain
<1>4. <<>> \in Seq(Characters) /\ <<>> \o <<>> = <<>>
  BY EmptySeq, ConcatEmptySeq
<1>5. BytesAreKept
  BY <1>0, <1>1, <1>3, <1>4 DEF LinesInit, BytesAreKept
<1>6. Parts(<<>>).open = <<>> /\ Lines(<<>>) = <<>> /\ Dropping(<<>>, <<>>) = <<>>
  BY <1>3, OfNothing DEF Lines, NoParts
<1>7. HandedOut(<<>>, m_buffer, received, messages)
  BY <1>0, <1>1, <1>4, <1>6 DEF LinesInit, HandedOut
<1>8. LinesAreOut
  BY <1>7 DEF LinesAreOut
<1>9. DoneIsFound
  BY <1>1 DEF LinesInit, DoneIsFound
<1>10. QED BY <1>2, <1>5, <1>8, <1>9 DEF ReadsInv

LEMMA ConnectReads == ReadsInv /\ HandleConnect => ReadsInv'
<1>1. SUFFICES ASSUME ReadsInv, HandleConnect PROVE ReadsInv'
  OBVIOUS
<1>2. LinesTyped'
  <2>1. Append(earlier, current) \in Seq(Seq(Characters)) /\ <<>> \in Seq(Characters)
    BY <1>1, AppendFits, EmptySeq DEF ReadsInv, LinesTyped
  <2>2. QED BY <1>1, <2>1 DEF ReadsInv, LinesTyped, HandleConnect, Started
<1>3. BytesAreKept' /\ LinesAreOut'
  <2> DEFINE e == Joined(earlier)
  <2>1. /\ earlier \in Seq(Seq(Characters)) /\ current \in Seq(Characters)
        /\ received \in Seq(Characters) /\ received = e \o current
    BY <1>1, ReceivedFits DEF ReadsInv, LinesTyped, received
  <2>2. Joined(Append(earlier, current)) = e \o current
    BY <2>1, OfOneMore
  <2>3. received' = Joined(Append(earlier, current)) \o <<>>
    BY <1>1 DEF HandleConnect, received
  <2>4. received' = received
    BY <2>1, <2>2, <2>3, ConcatEmptySeq
  <2>5. QED BY <1>1, <2>4, TextsStay DEF HandleConnect, TextsUnchanged
<1>4. DoneIsFound'
  BY <1>1 DEF HandleConnect, Started, DoneIsFound
<1>5. QED BY <1>2, <1>3, <1>4 DEF ReadsInv

LEMMA SendReads ==
  ASSUME NEW c \in Characters PROVE ReadsInv /\ ServerSends(c) => ReadsInv'
<1>1. SUFFICES ASSUME ReadsInv, ServerSends(c) PROVE ReadsInv'
  OBVIOUS
<1>2. LinesTyped'
  <2>1. kernel' \in Seq(Characters)
    BY <1>1, AppendFits DEF ReadsInv, LinesTyped, ServerSends
  <2>2. QED BY <1>1, <2>1 DEF ReadsInv, LinesTyped, ServerSends
<1>3. BytesAreKept' /\ LinesAreOut'
  BY <1>1, TextsStay, ReceivedStays DEF ServerSends, TextsUnchanged
<1>4. DoneIsFound'
  BY <1>1 DEF ReadsInv, ServerSends, DoneIsFound
<1>5. QED BY <1>2, <1>3, <1>4 DEF ReadsInv

LEMMA BreakReads == ReadsInv /\ ConnectionIsLost => ReadsInv'
<1>1. SUFFICES ASSUME ReadsInv, ConnectionIsLost PROVE ReadsInv'
  OBVIOUS
<1>2. LinesTyped'
  <2>1. kernel' \in Seq(Characters)
    BY <1>1, EmptySeq DEF ReadsInv, LinesTyped, ConnectionIsLost
  <2>2. losses' \in 0..MaxLosses
    BY <1>1, LinesAssumption DEF ReadsInv, LinesTyped, ConnectionIsLost
  <2>3. QED BY <1>1, <2>1, <2>2 DEF ReadsInv, LinesTyped, ConnectionIsLost
<1>3. BytesAreKept' /\ LinesAreOut'
  BY <1>1, TextsStay, ReceivedStays DEF ConnectionIsLost, TextsUnchanged
<1>4. DoneIsFound'
  BY <1>1 DEF ReadsInv, ConnectionIsLost, DoneIsFound
<1>5. QED BY <1>2, <1>3, <1>4 DEF ReadsInv

LEMMA ErrorReads == ReadsInv /\ HandleReadError => ReadsInv'
<1>1. SUFFICES ASSUME ReadsInv, HandleReadError PROVE ReadsInv'
  OBVIOUS
<1>2. LinesTyped'
  BY <1>1 DEF ReadsInv, LinesTyped, HandleReadError
<1>3. BytesAreKept' /\ LinesAreOut'
  BY <1>1, TextsStay, ReceivedStays DEF HandleReadError, TextsUnchanged
<1>4. DoneIsFound'
  BY <1>1 DEF HandleReadError, DoneIsFound
<1>5. QED BY <1>2, <1>3, <1>4 DEF ReadsInv

LEMMA ArriveReads ==
  ASSUME NEW n \in 1..MaxBytes PROVE ReadsInv /\ Arrive(n) => ReadsInv'
<1>1. SUFFICES ASSUME ReadsInv, Arrive(n) PROVE ReadsInv'
  OBVIOUS
<1> DEFINE piece == SubSeq(kernel, 1, n)
           out == Joined(messages)
<1>2. /\ m_buffer \in Seq(Characters) /\ received \in Seq(Characters)
      /\ kernel \in Seq(Characters) /\ messages \in Seq(Seq(Characters))
      /\ earlier \in Seq(Seq(Characters)) /\ current \in Seq(Characters)
      /\ Joined(earlier) \in Seq(Characters) /\ n \in 0..Len(kernel)
  BY <1>1, LenProperties, ReceivedFits DEF ReadsInv, LinesTyped, Arrive
<1>3. piece \in Seq(Characters) /\ SubSeq(kernel, n + 1, Len(kernel)) \in Seq(Characters)
  BY <1>2, Halves
<1>4a. /\ m_buffer' = m_buffer \o piece /\ current' = current \o piece
       /\ kernel' = SubSeq(kernel, n + 1, Len(kernel))
       /\ readUntil' = IF Found(m_delimiter, m_buffer') THEN "done" ELSE "pending"
       /\ UNCHANGED <<m_delimiter, connection, messages, earlier, silent, losses>>
  BY <1>1 DEF Arrive, Started
<1> HIDE DEF piece
<1>4. /\ m_buffer' = m_buffer \o piece /\ received' = received \o piece
      /\ kernel' = SubSeq(kernel, n + 1, Len(kernel))
      /\ readUntil' = IF Found(m_delimiter, m_buffer') THEN "done" ELSE "pending"
      /\ UNCHANGED <<m_delimiter, connection, messages, earlier, silent, losses>>
  <2> DEFINE e == Joined(earlier)
  <2>1. e \in Seq(Characters) /\ current \in Seq(Characters) /\ piece \in Seq(Characters)
    BY <1>2, <1>3
  <2>2. received = e \o current /\ received' = e \o (current \o piece)
    BY <1>4a DEF received
  <2> HIDE DEF e
  <2>3. (e \o current) \o piece = e \o (current \o piece)
    BY <2>1, ConcatAssociative
  <2>4. QED BY <1>4a, <2>2, <2>3
<1>5. m_buffer' \in Seq(Characters) /\ current' \in Seq(Characters)
  BY <1>2, <1>3, <1>4a, ConcatFits
<1>6. LinesTyped'
  BY <1>1, <1>3, <1>4, <1>5 DEF ReadsInv, LinesTyped
<1>7. BytesAreKept'
  <2>1. /\ Plain(m_buffer \o piece) = Plain(m_buffer) \o Plain(piece)
        /\ Plain(received \o piece) = Plain(received) \o Plain(piece)
    BY <1>2, <1>3, PlainOfJoin
  <2>2. /\ Plain(m_buffer) \in Seq(Characters) /\ Plain(piece) \in Seq(Characters)
        /\ out \in Seq(Characters)
    BY <1>2, <1>3, PlainFits, JoinedFits
  <2>3. out \o Plain(m_buffer) = Plain(received)
    BY <1>1 DEF ReadsInv, BytesAreKept
  <2>4. out' = out
    BY <1>4
  <2> HIDE DEF out
  <2>5. (out \o Plain(m_buffer)) \o Plain(piece) = out \o (Plain(m_buffer) \o Plain(piece))
    BY <2>2, ConcatAssociative
  <2>6. out' \o Plain(m_buffer') = Plain(received')
    BY <1>4, <2>1, <2>3, <2>4, <2>5
  <2>7. QED BY <2>6 DEF BytesAreKept, out
<1>8. LinesAreOut'
  <2>1. SUFFICES ASSUME EndsLines' PROVE \E c : HandedOut(c, m_buffer', received', messages')
    BY DEF LinesAreOut
  <2>2. EndsLines
    BY <1>4, <2>1 DEF EndsLines
  <2>3. PICK c : HandedOut(c, m_buffer, received, messages)
    BY <1>1, <2>2 DEF ReadsInv, LinesAreOut
  <2>4. (c \o m_buffer) \o piece = c \o (m_buffer \o piece)
    <3>1. c \in Seq(Characters)
      BY <2>3 DEF HandedOut
    <3>2. m_buffer \in Seq(Characters)
      BY <1>2
    <3>3. QED BY <1>3, <3>1, <3>2, ConcatAssociative
  <2>5. HandedOut(c, m_buffer', received', messages')
    BY <1>4, <2>3, <2>4 DEF HandedOut
  <2>6. QED BY <2>5
<1>9. DoneIsFound'
  BY <1>4 DEF DoneIsFound
<1>10. QED BY <1>6, <1>7, <1>8, <1>9 DEF ReadsInv

\* What handle_read does to the texts, whether it calls back or not.
LEMMA ReadsOne ==
  ASSUME HandleRead
  PROVE  /\ m_buffer' = Rest(m_buffer)
         /\ messages' = IF Line(m_buffer) = <<>> THEN messages ELSE Append(messages, Line(m_buffer))
         /\ readUntil = "done"
         /\ UNCHANGED <<m_delimiter, connection, kernel, earlier, current, received, losses>>
BY ReceivedStays DEF HandleRead, Rest

LEMMA ReadKeepsBytes ==
  ASSUME ReadsInv, HandleRead PROVE BytesAreKept'
<1> DEFINE l == Line(m_buffer)
           r == Plain(Rest(m_buffer))
           out == Joined(messages)
<1>1. m_buffer \in Seq(Characters) /\ messages \in Seq(Seq(Characters))
  BY DEF ReadsInv, LinesTyped
<1>2. Plain(m_buffer) = l \o r
  BY <1>1, PlainOfLine
<1>3. l \in Seq(Characters) /\ r \in Seq(Characters) /\ out \in Seq(Characters)
  BY <1>1, LineIsTaken, PlainFits, JoinedFits
<1>4. /\ Plain(m_buffer') = r /\ received' = received
      /\ messages' = IF l = <<>> THEN messages ELSE Append(messages, l)
  BY ReadsOne
<1>5. Joined(Append(messages, l)) = out \o l
  BY <1>1, <1>3, OfOneMore
<1>6. out \o Plain(m_buffer) = Plain(received)
  BY DEF ReadsInv, BytesAreKept
<1> HIDE DEF l, r, out
<1>7. (out \o l) \o r = out \o (l \o r)
  BY <1>3, ConcatAssociative
<1>8. out \o <<>> = out
  BY <1>3, ConcatEmptySeq
<1>9. Joined(messages') = out \o l
  <2>1. CASE l = <<>>
    BY <1>4, <1>8, <2>1 DEF out
  <2>2. CASE l # <<>>
    BY <1>4, <1>5, <2>2
  <2>3. QED BY <2>1, <2>2
<1>10. Joined(messages') \o Plain(m_buffer') = Plain(received')
  BY <1>2, <1>4, <1>6, <1>7, <1>9
<1>11. QED BY <1>10 DEF BytesAreKept

LEMMA ReadTakesLine ==
  ASSUME ReadsInv, HandleRead PROVE LinesAreOut'
<1> DEFINE l == Line(m_buffer)
           r == Rest(m_buffer)
<1>1. /\ m_buffer \in Seq(Characters) /\ messages \in Seq(Seq(Characters))
      /\ m_delimiter \in Seq(Characters)
  BY LinesAssumption DEF ReadsInv, LinesTyped
<1>2. /\ m_buffer' = r /\ received' = received /\ m_delimiter' = m_delimiter
      /\ messages' = IF l = <<>> THEN messages ELSE Append(messages, l)
      /\ readUntil = "done"
  BY ReadsOne
<1>3. SUFFICES ASSUME EndsLines' PROVE \E c : HandedOut(c, m_buffer', received', messages')
  BY DEF LinesAreOut
<1>4. m_delimiter # <<>> /\ m_delimiter[Len(m_delimiter)] = LineFeed /\ EndsLines
  BY <1>2, <1>3 DEF EndsLines
<1>5. Found(m_delimiter, m_buffer)
  BY <1>2 DEF ReadsInv, DoneIsFound
<1>6. ~Lacks(m_buffer, LineFeed)
  BY <1>1, <1>4, <1>5, FoundEndsLine
<1>7. PICK c : HandedOut(c, m_buffer, received, messages)
  BY <1>4 DEF ReadsInv, LinesAreOut
<1>8. /\ c \in Seq(Characters) /\ Parts(c).open = <<>>
      /\ received = c \o m_buffer /\ messages = Dropping(Lines(c), <<>>)
  BY <1>7 DEF HandedOut
<1> DEFINE a == Append(l, LineFeed)
           d == c \o a
<1>9. /\ l \in Seq(Characters) /\ d \in Seq(Characters) /\ a \in Seq(Characters)
      /\ Parts(d) = [lines |-> Append(Lines(c), l), open |-> <<>>]
  <2>1. /\ LineFeed \in Characters /\ l \in Seq(Characters) /\ d \in Seq(Characters)
        /\ Parts(d) = [lines |-> Append(Lines(c), l), open |-> <<>>]
    BY <1>1, <1>6, <1>8, PartsOfLine
  <2>2. a \in Seq(Characters)
    BY <2>1, AppendFits
  <2>3. QED BY <2>1, <2>2
<1>10. m_buffer = a \o r /\ r \in Seq(Characters)
  BY <1>1, <1>6, LineIsTaken
<1> HIDE DEF l, r, a
<1>11. received' = d \o m_buffer'
  <2>1. (c \o a) \o r = c \o (a \o r)
    <3>1. c \in Seq(Characters) /\ a \in Seq(Characters) /\ r \in Seq(Characters)
      BY <1>8, <1>9, <1>10
    <3>2. QED BY <3>1, ConcatAssociative
  <2>2. QED BY <1>2, <1>8, <1>10, <2>1
<1> HIDE DEF d
<1>12. Parts(d).open = <<>> /\ Lines(d) = Append(Lines(c), l)
  BY <1>9 DEF Lines
<1>13. messages' = Dropping(Lines(d), <<>>)
  <2> DEFINE L == Seq(Characters)
             k == Lines(c)
  <2>1. k \in Seq(L) /\ l \in L
    BY <1>8, <1>9, PartsFit DEF ArePartsOf, Lines
  <2> HIDE DEF L, k
  <2>2. Dropping(Append(k, l), <<>>) =
          IF l = <<>> THEN Dropping(k, <<>>) ELSE Append(Dropping(k, <<>>), l)
    BY <2>1, OfOneMore
  <2>3. QED BY <1>2, <1>8, <1>12, <2>2 DEF k
<1>14. HandedOut(d, m_buffer', received', messages')
  BY <1>9, <1>11, <1>12, <1>13 DEF HandedOut
<1>15. QED BY <1>14

LEMMA ReadReads == ReadsInv /\ HandleRead => ReadsInv'
<1>1. SUFFICES ASSUME ReadsInv, HandleRead PROVE ReadsInv'
  OBVIOUS
<1>2. LinesTyped'
  <2>1. m_buffer \in Seq(Characters) /\ messages \in Seq(Seq(Characters))
    BY <1>1 DEF ReadsInv, LinesTyped
  <2>2. Line(m_buffer) \in Seq(Characters) /\ Rest(m_buffer) \in Seq(Characters)
    BY <2>1, LineIsTaken
  <2>3. Append(messages, Line(m_buffer)) \in Seq(Seq(Characters))
    BY <2>1, <2>2, AppendFits
  <2>4. m_buffer' \in Seq(Characters) /\ messages' \in Seq(Seq(Characters))
    BY <1>1, <2>1, <2>2, <2>3, ReadsOne
  <2>5. readUntil' \in {"none", "pending", "done"} /\ silent' \in BOOLEAN
    BY <1>1 DEF ReadsInv, LinesTyped, HandleRead, Started
  <2>6. UNCHANGED <<m_delimiter, connection, kernel, earlier, current, losses>>
    BY <1>1, ReadsOne
  <2>7. QED BY <1>1, <2>4, <2>5, <2>6 DEF ReadsInv, LinesTyped
<1>3. BytesAreKept' /\ LinesAreOut'
  BY <1>1, ReadKeepsBytes, ReadTakesLine
<1>4. DoneIsFound'
  BY <1>1 DEF HandleRead, Started, DoneIsFound
<1>5. QED BY <1>2, <1>3, <1>4 DEF ReadsInv

-------------------------------------------------------------------------------
(* The theorems. *)

\* Every step keeps the invariant.
LEMMA StepsRead == ReadsInv /\ [LinesNext]_lineVars => ReadsInv'
<1>1. SUFFICES ASSUME ReadsInv, [LinesNext]_lineVars PROVE ReadsInv'
  OBVIOUS
<1>2. CASE UNCHANGED lineVars
  <2>1. LinesTyped' /\ DoneIsFound'
    BY <1>1, <1>2 DEF ReadsInv, LinesTyped, DoneIsFound, lineVars
  <2>2. BytesAreKept' /\ LinesAreOut'
    BY <1>1, <1>2, TextsStay, ReceivedStays DEF lineVars, TextsUnchanged
  <2>3. QED BY <2>1, <2>2 DEF ReadsInv
<1>3. CASE HandleConnect
  BY <1>1, <1>3, ConnectReads
<1>4. CASE ConnectionIsLost
  BY <1>1, <1>4, BreakReads
<1>5. CASE HandleRead
  BY <1>1, <1>5, ReadReads
<1>6. CASE HandleReadError
  BY <1>1, <1>6, ErrorReads
<1>7. CASE \E c \in Characters : ServerSends(c)
  BY <1>1, <1>7, SendReads
<1>8. CASE \E n \in 1..MaxBytes : Arrive(n)
  BY <1>1, <1>8, ArriveReads
<1>9. QED BY <1>1, <1>2, <1>3, <1>4, <1>5, <1>6, <1>7, <1>8 DEF LinesNext

LEMMA AlwaysReads == LinesSpec => []ReadsInv
<1>1. LinesInit => ReadsInv
  BY StartReads
<1>2. ReadsInv /\ [LinesNext]_lineVars => ReadsInv'
  BY StepsRead
<1>3. QED BY <1>1, <1>2, PTL DEF LinesSpec

\* Lines that were handed out are a prefix of those that were received.
LEMMA HandedOutInOrder ==
  ASSUME ReadsInv PROVE LinesInOrder
<1>1. BytesAreKept
  BY DEF ReadsInv
<1>1a. EndsLines /\ LostBetweenLines => ServerLines = Lines(received)
  <2>1. SUFFICES ASSUME LostBetweenLines PROVE ServerLines = Lines(received)
    OBVIOUS
  <2> DEFINE c == Joined(earlier)
             f == LinesOf(earlier)
  <2>2. /\ earlier \in Seq(Seq(Characters)) /\ current \in Seq(Characters)
        /\ c \in Seq(Characters) /\ received = c \o current
    BY ReceivedFits DEF ReadsInv, LinesTyped, received
  <2>3. Parts(c) = [lines |-> Joined(f), open |-> <<>>]
    BY <2>1, <2>2, WholeTexts DEF LostBetweenLines, AllWhole
  <2>4. ServerLines = Joined(f) \o Lines(current)
    BY DEF ServerLines, LinesOf
  <2> HIDE DEF c, f
  <2>5. Parts(c).open = <<>> /\ Lines(c) = Joined(f)
    BY <2>3 DEF Lines
  <2>6. Parts(c \o current) = [lines |-> Lines(c) \o Lines(current), open |-> Parts(current).open]
    BY <2>2, <2>5, AfterWholeLines
  <2>7. Lines(received) = Lines(c) \o Lines(current)
    <3> DEFINE l == Lines(c) \o Lines(current)
    <3>1. Parts(received) = [lines |-> l, open |-> Parts(current).open]
      BY <2>2, <2>6
    <3> HIDE DEF l
    <3>2. Lines(received) = l
      BY <3>1 DEF Lines
    <3>3. QED BY <3>2 DEF l
  <2>8. QED BY <2>4, <2>5, <2>7
<1>2. SUFFICES ASSUME EndsLines PROVE IsPrefixOf(messages, Dropping(Lines(received), <<>>))
  BY <1>1, <1>1a DEF LinesInOrder
<1>3. PICK c : HandedOut(c, m_buffer, received, messages)
  BY <1>2 DEF ReadsInv, LinesAreOut
<1> DEFINE L == Seq(Characters)
           k == Lines(c)
<1>4. /\ c \in Seq(Characters) /\ m_buffer \in Seq(Characters)
      /\ received = c \o m_buffer /\ messages = Dropping(k, <<>>)
  BY <1>3 DEF ReadsInv, LinesTyped, HandedOut
<1>5. PICK more \in Seq(L) : Lines(received) = k \o more
  BY <1>4, LinesStay
<1>6. k \in Seq(L)
  BY <1>4, PartsFit DEF ArePartsOf, Lines
<1> HIDE DEF L, k
<1> DEFINE e == Dropping(more, <<>>)
<1>7. Dropping(Lines(received), <<>>) = messages \o e
  <2>1. Dropping(k \o more, <<>>) = Dropping(k, <<>>) \o e
    BY <1>5, <1>6, WithoutOfJoin
  <2>2. QED BY <1>4, <1>5, <2>1
<1>8. messages \in Seq(L) /\ e \in Seq(L)
  <2>1. Dropping(k, <<>>) \in Seq(L) /\ e \in Seq(L)
    BY <1>5, <1>6, WithoutFits
  <2>2. QED BY <1>4, <2>1
<1> HIDE DEF e
<1>9. IsPrefixOf(messages, messages \o e)
  <2> DEFINE s == messages \o e
             n == Len(messages)
  <2>1. /\ s \in Seq(L) /\ Len(s) = n + Len(e) /\ \A i \in 1..n : s[i] = messages[i]
        /\ n \in Nat /\ Len(e) \in Nat
    BY <1>8, ConcatFits, LenProperties
  <2> HIDE DEF s
  <2>2. /\ SubSeq(s, 1, n) \in Seq(L) /\ Len(SubSeq(s, 1, n)) = n
        /\ \A i \in 1..n : SubSeq(s, 1, n)[i] = s[i]
    BY <2>1, SubSeqProperties
  <2>3. SubSeq(s, 1, n) = messages
    BY <1>8, <2>1, <2>2, SeqEqual
  <2>4. Len(messages) <= Len(s) /\ messages = SubSeq(s, 1, Len(messages))
    BY <2>1, <2>3
  <2>5. QED BY <2>4 DEF IsPrefixOf, s
<1>10. QED BY <1>7, <1>9

\* For any delimiters, segments, losses and bytes the messages and the buffer
\* hold the server's bytes but the line feeds, in order.  With a delimiter that
\* ends with a line feed the messages are the lines of the bytes that came, each
\* once and in order, the empty ones missing; and if no connection was lost in
\* the middle of a line, they are lines of the server, connection by connection
\* and whole (TcpConnection.cpp:104-179).
THEOREM ServerLinesInOrder == LinesSpec => []LinesInOrder
<1>1. ReadsInv => LinesInOrder
  BY HandedOutInOrder
<1>2. QED BY AlwaysReads, <1>1, PTL

\* Every variable of the reading side keeps its type.
THEOREM LinesAreTyped == LinesSpec => []LinesTyped
<1>1. ReadsInv => LinesTyped
  BY DEF ReadsInv
<1>2. QED BY AlwaysReads, <1>1, PTL
================================================================================
