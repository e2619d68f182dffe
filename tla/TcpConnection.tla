----------------------------- MODULE TcpConnection -----------------------------
(***************************************************************************)
(* The client connection of Classes/Network/TcpClient/AsioNet, with as     *)
(* much of boost::asio (external) as it depends on.                        *)
(*                                                                         *)
(* One application thread calls the connection and, through update(), runs *)
(* every handler; a handler is one step.  Callbacks run application code   *)
(* inside a handler, and all they can do to the connection is to call it:  *)
(* those calls post to the io_service or start an operation, so a call     *)
(* made in the middle of a handler is the call made next to it - before,   *)
(* if the handler would leave nothing to do; DoClose has the one exception.*)
(* The application sets the five callbacks and keeps its shared_ptr.       *)
(*                                                                         *)
(* The io_service keeps the closures posted by write() and close() in      *)
(* order, and the handlers of completed operations, between which and the  *)
(* posts asio promises no order.  It is stopped by stop(), or by running   *)
(* out of work, and stays so until reset(), which no code here calls.      *)
(***************************************************************************)
EXTENDS Naturals, Sequences, Functions

CONSTANTS
  Messages,        \* what the application writes, each once
  HeartBeat,       \* the contents of m_heartBeat
  CloseRequest,    \* the posted do_close
  MaxConnects,     \* bound: calls of connect() with a usable address
  MaxReconnects,   \* bound: the same, after a disconnect()
  MaxDisconnects,  \* bound: calls of disconnect()
  MaxCloses,       \* bound: calls of close() by a derived class
  MaxIdleUpdates,  \* bound: calls of update() with nothing to wait for
  MaxFailures,     \* bound: refused connections and lost ones
  MaxLines,        \* bound: lines the server sends
  MaxBeats         \* bound: expiries of the heartbeat timer

ASSUME MessagesAssumption ==
  HeartBeat \notin Messages /\ CloseRequest \notin Messages \cup {HeartBeat}
ASSUME BoundsAssumption ==
  /\ MaxConnects \in Nat /\ MaxReconnects \in Nat /\ MaxDisconnects \in Nat
  /\ MaxCloses \in Nat /\ MaxIdleUpdates \in Nat /\ MaxFailures \in Nat /\ MaxLines \in Nat
  /\ MaxBeats \in Nat

Texts == Messages \cup {HeartBeat}

VARIABLES
  m_socket,          \* "closed" or, when open, how the connection stands
  m_messages,        \* the queue of messages, its head being written
  m_heartBeatTimer,  \* TRUE when a wait on the timer is pending
  m_reconnectTimer,
  stopped,           \* the io_service is stopped
  posts,             \* closures posted and not yet run, in order
  ready,             \* ready[c]: handlers of kind c ready to run; aborted waits,
                     \* whose handlers do nothing, count as one
  reading,           \* number of async_read_until pending
  writing,           \* the messages given to a pending async_write
  accepted,          \* history: messages that do_write has queued, in order
  onWire,            \* history: messages asio has sent, in order
  ownClose,          \* do_close has run and connect() was not called since
  writeLost,         \* history: handle_write was called with an error
  calls              \* what is used up of each bound

timerVars   == <<m_heartBeatTimer, m_reconnectTimer>>
historyVars == <<accepted, onWire, ownClose, writeLost>>
vars == <<m_socket, m_messages, timerVars, stopped, posts, ready, reading,
          writing, historyVars, calls>>

Sockets == {"closed", "connecting", "refused", "connected", "broken"}

Completions ==
  {"connected", "connectFailed", "lineRead", "emptyRead", "readFailed",
   "written", "writeFailed", "beatDue", "beatAborted", "reconnectDue",
   "reconnectAborted"}

Bound == [connect |-> MaxConnects, again |-> MaxReconnects,
          disconnect |-> MaxDisconnects, close |-> MaxCloses, idle |-> MaxIdleUpdates,
          failure |-> MaxFailures, line |-> MaxLines, beat |-> MaxBeats]

TypeOK ==
  /\ m_socket \in Sockets
  /\ m_messages \in Seq(Texts)
  /\ m_heartBeatTimer \in BOOLEAN /\ m_reconnectTimer \in BOOLEAN
  /\ stopped \in BOOLEAN
  /\ posts \in Seq(Texts \cup {CloseRequest})
  /\ ready \in [Completions -> Nat]
  /\ reading \in Nat
  /\ writing \in Seq(Texts)
  /\ accepted \in Seq(Texts)
  /\ onWire \in Seq(Texts)
  /\ ownClose \in BOOLEAN /\ writeLost \in BOOLEAN
  /\ calls \in [DOMAIN Bound -> Nat]
  /\ \A k \in DOMAIN Bound : calls[k] <= Bound[k]

Init ==
  /\ m_socket = "closed"
  /\ m_messages = <<>>
  /\ m_heartBeatTimer = FALSE /\ m_reconnectTimer = FALSE
  /\ stopped = FALSE
  /\ posts = <<>>
  /\ ready = [c \in Completions |-> 0]
  /\ reading = 0
  /\ writing = <<>>
  /\ accepted = <<>> /\ onWire = <<>> /\ ownClose = FALSE /\ writeLost = FALSE
  /\ calls = [k \in DOMAIN Bound |-> 0]

-------------------------------------------------------------------------------
(* boost::asio *)

(* One more event of a bounded kind. *)
Count(k) ==
  /\ calls[k] < Bound[k]
  /\ calls' = [calls EXCEPT ![k] = @ + 1]

With(r, c, n) == [r EXCEPT ![c] = @ + n]
Without(r, c) == [r EXCEPT ![c] = @ - 1]
WaitsAborted(r, c, pending) == [r EXCEPT ![c] = IF pending THEN 1 ELSE @]

(* No handler is ready and none is owed: the io_service has run out of work.*)
OutOfWork ==
  /\ m_socket # "connecting" /\ reading = 0 /\ writing = <<>>
  /\ ~m_heartBeatTimer /\ ~m_reconnectTimer
  /\ posts = <<>> /\ \A c \in Completions : ready[c] = 0

(* update() runs the handler of a completion. *)
Runs(c) == ~stopped /\ ready[c] > 0

(* Closing the socket aborts what is pending on it. *)
Aborted(r) ==
  With(With(With(r, "connectFailed", IF m_socket = "connecting" THEN 1 ELSE 0),
            "readFailed", reading),
       "writeFailed", Len(writing))

(* expires_from_now aborts a pending wait; async_wait then starts another. *)
ArmHeartBeat(r) ==
  /\ ready' = WaitsAborted(r, "beatAborted", m_heartBeatTimer)
  /\ m_heartBeatTimer' = TRUE
ArmReconnect(r) ==
  /\ ready' = WaitsAborted(r, "reconnectAborted", m_reconnectTimer)
  /\ m_reconnectTimer' = TRUE

(* The outcome of a connection attempt. *)
ConnectCompletes ==
  /\ ~stopped /\ m_socket = "connecting"
  /\ \/ /\ m_socket' = "connected"
        /\ ready' = With(ready, "connected", 1)
        /\ UNCHANGED calls
     \/ /\ Count("failure")
        /\ m_socket' = "refused"
        /\ ready' = With(ready, "connectFailed", 1)
  /\ UNCHANGED <<m_messages, timerVars, stopped, posts, reading, writing, historyVars>>

(* The server or the network ends the connection. *)
ConnectionBreaks ==
  /\ m_socket = "connected"
  /\ Count("failure")
  /\ m_socket' = "broken"
  /\ UNCHANGED <<m_messages, timerVars, stopped, posts, ready, reading, writing,
                 historyVars>>

(* A line arrives, possibly an empty one. *)
LineArrives ==
  /\ ~stopped /\ reading > 0 /\ m_socket = "connected"
  /\ Count("line")
  /\ reading' = reading - 1
  /\ \E c \in {"lineRead", "emptyRead"} : ready' = With(ready, c, 1)
  /\ UNCHANGED <<m_socket, m_messages, timerVars, stopped, posts, writing, historyVars>>

ReadFails ==
  /\ ~stopped /\ reading > 0 /\ m_socket # "connected"
  /\ reading' = reading - 1
  /\ ready' = With(ready, "readFailed", 1)
  /\ UNCHANGED <<m_socket, m_messages, timerVars, stopped, posts, writing, historyVars,
                 calls>>

(* A write on a connection succeeds, and may still seem to on a lost one.  *)
WriteCompletes ==
  /\ ~stopped /\ writing # <<>>
  /\ writing' = Tail(writing)
  /\ \/ /\ m_socket \in {"connected", "broken"}
        /\ ready' = With(ready, "written", 1)
        /\ onWire' = Append(onWire, Head(writing))
     \/ /\ m_socket # "connected"
        /\ ready' = With(ready, "writeFailed", 1)
        /\ UNCHANGED onWire
  /\ UNCHANGED <<m_socket, m_messages, timerVars, stopped, posts, reading, accepted,
                 ownClose, writeLost, calls>>

HeartBeatExpires ==
  /\ ~stopped /\ m_heartBeatTimer
  /\ Count("beat")
  /\ m_heartBeatTimer' = FALSE
  /\ ready' = With(ready, "beatDue", 1)
  /\ UNCHANGED <<m_socket, m_messages, m_reconnectTimer, stopped, posts, reading,
                 writing, historyVars>>

ReconnectExpires ==
  /\ ~stopped /\ m_reconnectTimer
  /\ m_reconnectTimer' = FALSE
  /\ ready' = With(ready, "reconnectDue", 1)
  /\ UNCHANGED <<m_socket, m_messages, m_heartBeatTimer, stopped, posts, reading,
                 writing, historyVars, calls>>

Io ==
  \/ ConnectCompletes \/ LineArrives \/ ReadFails \/ WriteCompletes
  \/ HeartBeatExpires \/ ReconnectExpires

-------------------------------------------------------------------------------
(* The application's calls. *)

(* connect(): a bad address is caught and only printed.  On a socket that  *)
(* is connecting or was connected the attempt fails at once; on one whose  *)
(* last attempt was refused that depends on the system.                    *)
CountConnect == Count(IF calls["disconnect"] = 0 THEN "connect" ELSE "again")
Connect ==
  /\ CountConnect
  /\ \/ /\ m_socket \in {"closed", "refused"}
        /\ m_socket' = "connecting"
        /\ UNCHANGED ready
     \/ /\ m_socket # "closed"
        /\ ready' = With(ready, "connectFailed", 1)
        /\ UNCHANGED m_socket
  /\ ownClose' = FALSE
  /\ UNCHANGED <<m_messages, timerVars, stopped, posts, reading, writing, accepted,
                 onWire, writeLost>>

(* Each message is written once. *)
Fresh(m) == m \notin Range(posts) \cup Range(accepted)
Write(m) ==
  /\ Fresh(m)
  /\ posts' = Append(posts, m)
  /\ UNCHANGED <<m_socket, m_messages, timerVars, stopped, ready, reading, writing,
                 historyVars, calls>>

(* The do_close is posted, and the io_service stopped before it can run. *)
Disconnect ==
  /\ Count("disconnect")
  /\ posts' = Append(posts, CloseRequest)
  /\ stopped' = TRUE
  /\ UNCHANGED <<m_socket, m_messages, timerVars, ready, reading, writing, historyVars>>

(* close(), which derived classes may call. *)
Close ==
  /\ Count("close")
  /\ posts' = Append(posts, CloseRequest)
  /\ UNCHANGED <<m_socket, m_messages, timerVars, stopped, ready, reading, writing,
                 historyVars>>

(* update() with nothing to wait for. *)
IdleUpdate ==
  /\ Count("idle")
  /\ OutOfWork
  /\ stopped' = TRUE
  /\ UNCHANGED <<m_socket, m_messages, timerVars, posts, ready, reading, writing,
                 historyVars>>

-------------------------------------------------------------------------------
(* The handlers.  When one returns and none is left to run or to wait for, *)
(* the io_service stops.                                                   *)

Returns == stopped' = OutOfWork'

Connected ==
  /\ Runs("connected")
  /\ ArmHeartBeat(Without(ready, "connected"))
  /\ reading' = reading + 1
  /\ UNCHANGED <<m_socket, m_messages, m_reconnectTimer, posts, writing, historyVars, calls>>
  /\ Returns

(* Mutant: a refused connection is not tried again. *)
ConnectFailedForGood ==
  /\ Runs("connectFailed")
  /\ ready' = Without(ready, "connectFailed")
  /\ UNCHANGED <<m_socket, m_messages, timerVars, posts, reading, writing, historyVars, calls>>
  /\ Returns

ConnectFailed ==
  /\ Runs("connectFailed")
  /\ ArmReconnect(Without(ready, "connectFailed"))
  /\ UNCHANGED <<m_socket, m_messages, m_heartBeatTimer, posts, reading, writing,
                 historyVars, calls>>
  /\ Returns

LineRead ==
  /\ Runs("lineRead")
  /\ ArmHeartBeat(Without(ready, "lineRead"))
  /\ reading' = reading + 1
  /\ UNCHANGED <<m_socket, m_messages, m_reconnectTimer, posts, writing, historyVars, calls>>
  /\ Returns

(* if (msg.empty()) return; *)
EmptyRead ==
  /\ Runs("emptyRead")
  /\ ready' = Without(ready, "emptyRead")
  /\ UNCHANGED <<m_socket, m_messages, timerVars, posts, reading, writing, historyVars, calls>>
  /\ Returns

(* Mutant: a read that failed is started again as well. *)
ReadFailedReads ==
  /\ Runs("readFailed")
  /\ ArmReconnect(Without(ready, "readFailed"))
  /\ reading' = reading + 1
  /\ UNCHANGED <<m_socket, m_messages, m_heartBeatTimer, posts, writing, historyVars, calls>>
  /\ Returns

(* Every error, also the abort of the read by the connection's own close.  *)
ReadFailed ==
  /\ Runs("readFailed")
  /\ ArmReconnect(Without(ready, "readFailed"))
  /\ UNCHANGED <<m_socket, m_messages, m_heartBeatTimer, posts, reading, writing,
                 historyVars, calls>>
  /\ Returns

(* Mutants: the next message is not written; the heartbeat is not started. *)
WrittenAndDone ==
  /\ Runs("written")
  /\ m_messages' = Tail(m_messages)
  /\ ArmHeartBeat(Without(ready, "written"))
  /\ UNCHANGED <<m_socket, m_reconnectTimer, posts, reading, writing, historyVars, calls>>
  /\ Returns
WrittenUntimed ==
  /\ Runs("written")
  /\ m_messages' = Tail(m_messages)
  /\ writing' = IF m_messages' # <<>> THEN Append(writing, Head(m_messages')) ELSE writing
  /\ ready' = Without(ready, "written")
  /\ UNCHANGED <<m_socket, timerVars, posts, reading, historyVars, calls>>
  /\ Returns

Written ==
  /\ Runs("written")
  /\ m_messages # <<>>
  /\ m_messages' = Tail(m_messages)
  /\ \/ /\ m_messages' # <<>>
        /\ writing' = Append(writing, Head(m_messages'))
        /\ ready' = Without(ready, "written")
        /\ UNCHANGED m_heartBeatTimer
     \/ /\ m_messages' = <<>>
        /\ ArmHeartBeat(Without(ready, "written"))
        /\ UNCHANGED writing
  /\ UNCHANGED <<m_socket, m_reconnectTimer, posts, reading, historyVars, calls>>
  /\ Returns

(* Mutant: the message that was not written is dropped. *)
WriteFailedDrops ==
  /\ Runs("writeFailed")
  /\ ready' = Without(ready, "writeFailed")
  /\ m_messages' = Tail(m_messages)
  /\ writeLost' = TRUE
  /\ UNCHANGED <<m_socket, timerVars, posts, reading, writing, accepted, onWire,
                 ownClose, calls>>
  /\ Returns

(* The message that was not written stays at the head of the queue. *)
WriteFailed ==
  /\ Runs("writeFailed")
  /\ ready' = Without(ready, "writeFailed")
  /\ writeLost' = TRUE
  /\ UNCHANGED <<m_socket, m_messages, timerVars, posts, reading, writing, accepted, onWire,
                 ownClose, calls>>
  /\ Returns

(* Mutant: a write does not wait for its turn. *)
DoWriteAtOnce ==
  /\ ~stopped /\ posts # <<>> /\ Head(posts) \in Texts
  /\ posts' = Tail(posts)
  /\ m_messages' = Append(m_messages, Head(posts))
  /\ accepted' = Append(accepted, Head(posts))
  /\ writing' = Append(writing, Head(posts))
  /\ UNCHANGED <<m_socket, timerVars, ready, reading, onWire, ownClose, writeLost, calls>>
  /\ Returns

DoWrite ==
  /\ ~stopped /\ posts # <<>> /\ Head(posts) \in Texts
  /\ posts' = Tail(posts)
  /\ m_messages' = Append(m_messages, Head(posts))
  /\ accepted' = Append(accepted, Head(posts))
  /\ writing' = IF m_messages = <<>> THEN Append(writing, Head(posts)) ELSE writing
  /\ UNCHANGED <<m_socket, timerVars, ready, reading, onWire, ownClose, writeLost, calls>>
  /\ Returns

(* The CloseCallback may call connect() before the io_service can run out  *)
(* of work.                                                                *)
DoClose ==
  /\ ~stopped /\ posts # <<>> /\ Head(posts) = CloseRequest
  /\ posts' = Tail(posts)
  /\ ready' = WaitsAborted(WaitsAborted(Aborted(ready), "beatAborted", m_heartBeatTimer),
                           "reconnectAborted", m_reconnectTimer)
  /\ reading' = 0 /\ writing' = <<>>
  /\ m_heartBeatTimer' = FALSE /\ m_reconnectTimer' = FALSE
  /\ \/ /\ m_socket' = "closed" /\ ownClose' = TRUE
        /\ UNCHANGED calls
     \/ /\ m_socket' = "connecting" /\ ownClose' = FALSE
        /\ CountConnect
  /\ UNCHANGED <<m_messages, accepted, onWire, writeLost>>
  /\ Returns

(* do_reconnect and do_heartbeat of an aborted wait do nothing. *)
WaitAborted ==
  \E c \in {"reconnectAborted", "beatAborted"} :
    /\ Runs(c)
    /\ ready' = Without(ready, c)
    /\ UNCHANGED <<m_socket, m_messages, timerVars, posts, reading, writing,
                   historyVars, calls>>
    /\ Returns

(* m_socket.close(), which aborts what is pending, and async_connect. *)
DoReconnect ==
  /\ Runs("reconnectDue")
  /\ ready' = Aborted(Without(ready, "reconnectDue"))
  /\ reading' = 0 /\ writing' = <<>>
  /\ m_socket' = "connecting"
  /\ UNCHANGED <<m_messages, timerVars, posts, historyVars, calls>>
  /\ Returns

(* write(m_heartBeat) *)
DoHeartBeat ==
  /\ Runs("beatDue")
  /\ ready' = Without(ready, "beatDue")
  /\ posts' = Append(posts, HeartBeat)
  /\ UNCHANGED <<m_socket, m_messages, timerVars, reading, writing, historyVars, calls>>
  /\ Returns

Handler ==
  \/ Connected \/ ConnectFailed \/ LineRead \/ EmptyRead \/ ReadFailed
  \/ Written \/ WriteFailed \/ DoWrite \/ DoClose
  \/ WaitAborted \/ DoReconnect \/ DoHeartBeat

-------------------------------------------------------------------------------
Next ==
  \/ Connect \/ Disconnect \/ Close \/ IdleUpdate \/ \E m \in Messages : Write(m)
  \/ ConnectionBreaks \/ Io \/ Handler

Spec == Init /\ [][Next]_vars

(* The application calls update() for ever, which runs every handler that  *)
(* is ready and lets asio complete what can be completed; nothing obliges  *)
(* the application to make other calls or the server to send lines.        *)
Fairness ==
  /\ WF_vars(ConnectCompletes) /\ WF_vars(ReadFails) /\ WF_vars(WriteCompletes)
  /\ WF_vars(HeartBeatExpires) /\ WF_vars(ReconnectExpires)
  /\ WF_vars(Connected) /\ WF_vars(ConnectFailed) /\ WF_vars(LineRead)
  /\ WF_vars(EmptyRead) /\ WF_vars(ReadFailed) /\ WF_vars(Written)
  /\ WF_vars(WriteFailed) /\ WF_vars(DoWrite \/ DoClose) /\ WF_vars(WaitAborted)
  /\ WF_vars(DoReconnect) /\ WF_vars(DoHeartBeat)

FairSpec == Spec /\ Fairness

-------------------------------------------------------------------------------
(* Properties. *)

(* The buffer of a pending async_write is the head of m_messages, which    *)
(* nothing moves or pops meanwhile, and one write is in flight at a time:  *)
(* do_write starts one only on an empty queue and handle_write the next,   *)
(* through failures, closes and reconnections (TcpConnection.cpp:181-216). *)
InFlight == Len(writing) + ready["written"] + ready["writeFailed"]
OneWriteInFlight ==
  /\ InFlight <= 1
  /\ InFlight = 1 => m_messages # <<>>
  /\ writing # <<>> => writing = <<Head(m_messages)>>

(* What asio has sent, with what is queued behind it, is what do_write     *)
(* accepted, in order: no failure or reconnection sends a message twice,   *)
(* skips one or reorders two.                                              *)
SentInOrder ==
  onWire \o (IF ready["written"] > 0 THEN Tail(m_messages) ELSE m_messages) = accepted

(* An application that calls connect() once has at most one of: a          *)
(* connection attempt, a read, or a reconnection due - however failures,   *)
(* timers and closes interleave.  So reads never overlap.                  *)
Efforts ==
  (IF m_socket = "connecting" THEN 1 ELSE 0) + ready["connected"] + ready["connectFailed"]
  + reading + ready["lineRead"] + ready["emptyRead"] + ready["readFailed"]
  + (IF m_reconnectTimer THEN 1 ELSE 0) + ready["reconnectDue"]
ConnectCalls == calls["connect"] + calls["again"]
OneEffort == ConnectCalls <= 1 => Efforts <= 1

(* Nor does a reconnection, whose timer may have expired long ago, ever    *)
(* close a connection that stands (TcpConnection.cpp:231-241).             *)
ReconnectSparesConnection ==
  [][ConnectCalls' <= 1 /\ m_socket = "connected" => m_socket' # "connecting"]_vars

(* Until a write fails, a connection that is read is kept alive: its       *)
(* heartbeat is timed, due, posted, or behind a write that is in flight,   *)
(* whose handler goes on to the end of the queue and arms the timer there  *)
(* (120-122, 153-155, 181-203, 244-250).  The timer has one pending wait,  *)
(* armed by three handlers, aborted by each and cancelled by do_close; and *)
(* nothing but a failed write makes the queue stand still.  What a failed  *)
(* write does to it is the subject of WrittenIsSent.                       *)
KeptAlive ==
  reading > 0 /\ ~writeLost =>
    \/ m_heartBeatTimer \/ ready["beatDue"] > 0
    \/ HeartBeat \in Range(posts) \/ InFlight = 1

(* Unless the io_service is stopped or the connection closed from here, an *)
(* effort goes on until the connection stands: the chain of handlers, timer*)
(* and operations that reconnects (113-135, 160-178, 231-242) never breaks.*)
EffortConnects ==
  Efforts > 0 /\ ready["emptyRead"] = 0 /\ ~stopped
    ~> m_socket = "connected" \/ stopped \/ ownClose

(* Until a write fails, a write in flight is followed by the next until    *)
(* the queue is empty (181-203).                                           *)
QueueDrains ==
  InFlight = 1 ~> m_messages = <<>> \/ ready["writeFailed"] > 0 \/ stopped

-------------------------------------------------------------------------------
(* A claim of the comments that the code does not keep. *)

(* TcpConnection.h:44: write() sends the message to the server; here, one  *)
(* written on a connection that will not be lost again.                    *)
WrittenIsSent ==
  \A m \in Messages :
    m \in Range(posts) /\ m_socket = "connected" /\ calls["failure"] = MaxFailures
      ~> m \in Range(onWire)
===============================================================================
