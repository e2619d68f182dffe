------------------------------ MODULE TcpLines ------------------------------
(***************************************************************************)
(* How TcpConnection cuts what the server sends into messages: bytes arrive *)
(* in segments of any size, async_read_until waits for the delimiter in     *)
(* m_buffer, and handle_read takes one line off it with getline, which      *)
(* knows line feeds only.  Connecting, timers and writing are the subject   *)
(* of TcpConnection; here a lost connection comes back or does not.         *)
(***************************************************************************)
EXTENDS Integers, Sequences

CONSTANTS
  Characters,   \* what the server sends, a line feed among them
  LineFeed,
  Delimiters,   \* what the application may set m_delimiter to
  MaxBytes,     \* bound: bytes the server sends
  MaxLosses     \* bound: lost connections

ASSUME LinesAssumption ==
  /\ LineFeed \in Characters
  /\ Delimiters \subseteq Seq(Characters)
  /\ MaxBytes \in Nat /\ MaxLosses \in Nat

VARIABLES
  m_delimiter,
  m_buffer,     \* bytes that were read and not yet handed out; outlives a connection
  connection,   \* "down", "up", or "lost" and not yet noticed
  readUntil,    \* "none", "pending", or "done" with handle_read still to run
  kernel,       \* bytes that have come and were not read
  messages,     \* history: what MessageCallback was called with
  earlier,      \* history: the text read on each connection before this one
  current,      \* history: the text read on this connection
  silent,       \* history: handle_read returned before it read on, on this connection
  losses

lineVars == <<m_delimiter, m_buffer, connection, readUntil, kernel, messages, earlier, current, silent, losses>>

\* delimiter stands in text from position i on.
StandsAt(delimiter, text, i) ==
  i + Len(delimiter) - 1 <= Len(text) /\ SubSeq(text, i, i + Len(delimiter) - 1) = delimiter

\* Mutant: a read ends with whatever has come.
FoundAtOnce(delimiter, text) == text # <<>>

\* What async_read_until looks for.  An empty delimiter is found in any text
\* but the empty one.
Found(delimiter, text) == \E i \in DOMAIN text : StandsAt(delimiter, text, i)

\* The length of the first line with its line feed, or of all there is.
LineLength(text) ==
  LET feeds == {i \in DOMAIN text : text[i] = LineFeed}
  IN  IF feeds = {} THEN Len(text) ELSE CHOOSE i \in feeds : \A k \in feeds : i <= k

\* getline: the line without its line feed.
Line(text) ==
  LET n == LineLength(text)
  IN  IF n > 0 /\ text[n] = LineFeed THEN SubSeq(text, 1, n - 1) ELSE SubSeq(text, 1, n)

\* read(): a delimiter that is there already ends the read at once.
Started(text) == IF Found(m_delimiter, text) THEN "done" ELSE "pending"

\* The sequences of a sequence, one behind the other.
Joined(s) ==
  LET all[n \in 0..Len(s)] == IF n = 0 THEN <<>> ELSE all[n - 1] \o s[n]
  IN  all[Len(s)]

\* Every byte that ever went into m_buffer.
received == Joined(earlier) \o current

LinesInit ==
  /\ m_delimiter \in Delimiters
  /\ m_buffer = <<>>
  /\ connection = "down"
  /\ readUntil = "none"
  /\ kernel = <<>>
  /\ messages = <<>>
  /\ earlier = <<>> /\ current = <<>>
  /\ silent = FALSE
  /\ losses = 0

\* handle_connect without an error.
HandleConnect ==
  /\ connection = "down"
  /\ connection' = "up"
  /\ readUntil' = Started(m_buffer)
  /\ silent' = FALSE
  /\ earlier' = Append(earlier, current) /\ current' = <<>>
  /\ UNCHANGED <<m_delimiter, m_buffer, kernel, messages, losses>>

ServerSends(c) ==
  /\ connection = "up"
  /\ Len(received) + Len(kernel) < MaxBytes
  /\ kernel' = Append(kernel, c)
  /\ UNCHANGED <<m_delimiter, m_buffer, connection, readUntil, messages, earlier, current, silent, losses>>

\* The connection ends; what was on its way may be lost with it.
ConnectionIsLost ==
  /\ connection = "up" /\ losses < MaxLosses
  /\ losses' = losses + 1
  /\ connection' = "lost"
  /\ kernel' \in {kernel, <<>>}
  /\ UNCHANGED <<m_delimiter, m_buffer, readUntil, messages, earlier, current, silent>>

\* One piece of what has come goes into the buffer of a pending read.
Arrive(n) ==
  /\ readUntil = "pending" /\ n \in 1..Len(kernel)
  /\ kernel' = SubSeq(kernel, n + 1, Len(kernel))
  /\ m_buffer' = m_buffer \o SubSeq(kernel, 1, n)
  /\ current' = current \o SubSeq(kernel, 1, n)
  /\ readUntil' = Started(m_buffer')
  /\ UNCHANGED <<m_delimiter, connection, messages, earlier, silent, losses>>

\* Mutant: the next read waits for more although a line lies in the buffer.
HandleReadWaits ==
  /\ readUntil = "done"
  /\ m_buffer' = SubSeq(m_buffer, LineLength(m_buffer) + 1, Len(m_buffer))
  /\ IF Line(m_buffer) = <<>>
     THEN readUntil' = "none" /\ silent' = TRUE /\ UNCHANGED messages
     ELSE /\ messages' = Append(messages, Line(m_buffer))
          /\ readUntil' = "pending"
          /\ UNCHANGED silent
  /\ UNCHANGED <<m_delimiter, connection, kernel, earlier, current, losses>>

\* handle_read without an error: one line, and the next read unless it is empty.
HandleRead ==
  /\ readUntil = "done"
  /\ m_buffer' = SubSeq(m_buffer, LineLength(m_buffer) + 1, Len(m_buffer))
  /\ IF Line(m_buffer) = <<>>
     THEN readUntil' = "none" /\ silent' = TRUE /\ UNCHANGED messages
     ELSE /\ messages' = Append(messages, Line(m_buffer))
          /\ readUntil' = Started(m_buffer')
          /\ UNCHANGED silent
  /\ UNCHANGED <<m_delimiter, connection, kernel, earlier, current, losses>>

\* handle_read with an error: the timer to reconnect is set, the buffer stays.
HandleReadError ==
  /\ readUntil = "pending" /\ connection = "lost" /\ kernel = <<>>
  /\ connection' = "down"
  /\ readUntil' = "none"
  /\ UNCHANGED <<m_delimiter, m_buffer, kernel, messages, earlier, current, silent, losses>>

LinesNext ==
  \/ HandleConnect \/ ConnectionIsLost \/ HandleRead \/ HandleReadError
  \/ \E c \in Characters : ServerSends(c)
  \/ \E n \in 1..MaxBytes : Arrive(n)

LinesSpec == LinesInit /\ [][LinesNext]_lineVars

\* The application goes on calling update(), and the network delivers.
FairLines == LinesSpec /\ WF_lineVars(HandleRead) /\ WF_lineVars(\E n \in 1..MaxBytes : Arrive(n))

-----------------------------------------------------------------------------
LinesTyped ==
  /\ m_delimiter \in Delimiters
  /\ m_buffer \in Seq(Characters) /\ kernel \in Seq(Characters)
  /\ earlier \in Seq(Seq(Characters)) /\ current \in Seq(Characters)
  /\ connection \in {"down", "up", "lost"}
  /\ readUntil \in {"none", "pending", "done"}
  /\ messages \in Seq(Seq(Characters))
  /\ silent \in BOOLEAN /\ losses \in 0..MaxLosses

\* The lines of a text that end with a line feed, in order, and what follows.
Parts(text) ==
  LET upTo[n \in 0..Len(text)] ==
        IF n = 0 THEN [lines |-> <<>>, open |-> <<>>]
        ELSE IF text[n] = LineFeed
        THEN [lines |-> Append(upTo[n - 1].lines, upTo[n - 1].open), open |-> <<>>]
        ELSE [lines |-> upTo[n - 1].lines, open |-> Append(upTo[n - 1].open, text[n])]
  IN  upTo[Len(text)]

Lines(text) == Parts(text).lines

\* The elements of a sequence that are not e.
Dropping(s, e) ==
  LET kept[n \in 0..Len(s)] ==
        IF n = 0 THEN <<>> ELSE IF s[n] = e THEN kept[n - 1] ELSE Append(kept[n - 1], s[n])
  IN  kept[Len(s)]

IsPrefixOf(s, t) == Len(s) <= Len(t) /\ s = SubSeq(t, 1, Len(s))

EndsLines == m_delimiter # <<>> /\ m_delimiter[Len(m_delimiter)] = LineFeed

\* The part of a text up to the last delimiter: what reads will end for.
Ended(text) ==
  LET d == Len(m_delimiter)
      ends == {0} \cup {i \in d..Len(text) : StandsAt(m_delimiter, text, i - d + 1)}
  IN  SubSeq(text, 1, CHOOSE i \in ends : \A k \in ends : k <= i)

LinesDue == Lines(Ended(received \o kernel))

\* Every line the server has ended is handed out in the end, also when several
\* lie in the buffer at once and nothing more comes - unless an empty line has
\* put an end to reading, or the connection is lost.
LinesAreDelivered ==
  \A n \in 1..MaxBytes :
    EndsLines /\ Len(LinesDue) >= n ~> Len(messages) >= n \/ silent \/ losses > 0

\* A text without its line feeds.
Plain(text) == Dropping(text, LineFeed)

\* Whatever the delimiter - none, one without a line feed, which cuts or joins
\* lines as they happen to arrive - and across lost connections, no byte but
\* the line feeds is lost, repeated or moved (TcpConnection.cpp:137-159).
BytesAreKept == Joined(messages) \o Plain(m_buffer) = Plain(received)

\* The lines the server ended, connection by connection.
ServerLines == Joined([k \in 1..Len(earlier) |-> Lines(earlier[k])]) \o Lines(current)

\* No connection before this one was lost in the middle of a line.
LostBetweenLines == \A k \in 1..Len(earlier) : Parts(earlier[k]).open = <<>>

\* With a delimiter that ends with a line feed the messages are moreover the
\* lines that were ended in what was read, each once and in order, wherever the
\* segments end; the empty ones are missing.  As long as no connection is lost
\* in the middle of a line they are lines of the server, whole; when one is,
\* m_buffer outlives it, and the next one's first line is put behind what was
\* left there (TcpConnection.cpp:104-179).
LinesInOrder ==
  /\ BytesAreKept
  /\ EndsLines => IsPrefixOf(messages, Dropping(Lines(received), <<>>))
  /\ EndsLines /\ LostBetweenLines => IsPrefixOf(messages, Dropping(ServerLines, <<>>))
=============================================================================
