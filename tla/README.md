# OriginalMind: specifications, model checking and proofs

OriginalMind (`src/`) is a small C++ library for game clients, with a Lua part: an
asynchronous HTTP client, a TCP connection on boost::asio, a pool of worker threads, a
notification center, buffers, byte streams and codecs, and a Lua class library. This
directory holds TLA+ modules that model these parts, configurations that model-check them
with TLC, and proofs that TLAPS checks.

All paths below are relative to `src/`. The repository has no tests; its documentation is
the comments in its headers and sources, and `proj.win32/ReadMe.txt`.

## 1. Inventory

| Part | Source | State it keeps | Operations | Hard behaviour |
|---|---|---|---|---|
| HttpClient | `Classes/Network/HttpClient/` | file-scope globals: two heap-allocated queues with a mutex each, a third mutex and a condition variable, the quit flag, the singleton pointer, one error buffer for curl | `sendAsynchronousRequest`, `sendSynchronousRequest`, `destroyInstance`, the detached network thread, callbacks | three threads of control in the life of one request, lost notifications, restart while the old thread still cleans up |
| WorkQueue, Singleton | `Classes/Foundation/WorkQueue.*`, `Runnable.h`, `Singleton.h` | queue, mutex, condition variable, quit flag, the instance and its `once_flag` | `addWork`, `run` on each thread of the pool, first use, exit | races of adders and threads, detached threads that outlive the object |
| TcpConnection | `Classes/Network/TcpClient/AsioNet/` | socket, queue of messages, two timers, the `io_service` | `connect`, `write`, `update`, `disconnect`, `close` (for derived classes), nine handlers | completions in any order, aborted operations, reconnection, timers against handlers |
| NotificationCenter | `Classes/NotificationCenter.*`, `Notification.h` | table of lists of observers, one mutex | add, remove and post by name and by iterator | callbacks under the mutex, iterators held by the application |
| Buffer, BitStream | `Classes/Foundation/` | memory with an owner flag, three positions in bits | read, write, resize, wrap | who owns which memory, limits in two units, growth, writes across bytes |
| DataStream | `Classes/Foundation/` | a string used as a queue of bytes | typed reads and writes, containers, raw bytes, moves | widths of lengths, short input, lengths nobody wrote |
| Base64, Unicode, Functional, Endian | `Classes/Foundation/` | none | conversions | truncated input, the last field, boundaries of lengths |
| md5, sha1, aes | `Classes/Foundation/` (third-party) | MD5: a count and a partial block | digests in pieces or at once; encrypt, decrypt | the block that is just full, room that runs out |
| Lua class library | `ScriptLib/classlib.lua` | tables of classes, inheritance, attributes' origins | `class`, `shared`, construction, `is_a` | ambiguity and sharing in multiple inheritance |
| Lua helpers | `ScriptLib/tableex.lua`, `stringex.lua`, ... | none | copying, splitting, UTF-8 length | boundaries |
| Math, random numbers, exceptions, logger, macros | `Classes/Foundation/` | none | | not modelled: section 8 |
| `ScriptLib/lua-stdlib`, Windows build | | | | not modelled: section 8 |

**How they interact.** Hardly at all: no component calls another. What connects
components is the application: it gives them callbacks and calls them back from within.
So the modules compose at that border: each takes the application as an environment that
makes any legal call at any moment, also from inside a callback, and HttpClient and
WorkQueue compose further with an abstract specification they are shown to implement.
Singleton is the exception: it owns the life of the WorkQueue and is part of that module.

**What makes each part correct.**

- HttpClient: an accepted request is answered at most once, in order, with its own
  verdict; a request queue is served by one thread only, across destruction and restart; no
  thread uses a queue that is not there; a request is eventually answered.
- WorkQueue: a work is run once, in order of addition, by one thread; no thread uses the
  pool before it is built; a work is eventually run.
- TcpConnection: one write on the wire at a time, from a buffer nobody changes; the
  messages arrive in the order they were written, none twice; the server's lines are handed
  out whole, once and in order, wherever segments end, unless a connection is lost in the
  middle of one; a lost connection is made
  again by one chain of attempts, which neither dies nor multiplies nor harms a connection
  that stands; while no write has failed, a connection that reads has its next heartbeat in
  the air. (After a failed write nothing is sent any more, the heartbeat neither: section 6.)
- NotificationCenter: a post calls exactly the observers registered, in order; threads that
  post wait for each other for ever only around a ring of callbacks the application wrote.
- Buffer: memory is deleted once, by its owner; sizes stay inside it; elements survive
  growth and copying.
- BitStream: as long as the program puts no limit beyond the memory, the calls for bits stay
  inside it, whatever the stream grows to; bits written are the bits read, whatever their
  alignment.
- DataStream: what is written is what is read, type by type; no call loses, repeats or makes
  up a byte.
- Codecs: a conversion and its inverse give back the text, at every boundary of lengths;
  functions of the C++ part and of the scripts that treat the same text agree about it;
  digests see the padded message whatever pieces it comes in; an encrypted message comes
  back, or the call says that there was no room.
- Class library: a class has exactly the attributes its bases agree on; an inherited
  method gets the object of the class that defined it; base objects are initialised once.

## 2. Modules

| Module | What it is |
|---|---|
| `AsyncService` | abstract: submit once, complete once, in order |
| `HttpClient` | the client, its network threads, the callbacks |
| `MCHttpClient`, `HttpClientProofs` | values for TLC; theorems |
| `WorkPool` | abstract: works started in order, no more at a time than threads, finished once |
| `WorkQueue` | the pool, its threads, its first use and its end |
| `MCWorkQueue`, `WorkQueueProofs` | values for TLC; theorems |
| `TcpConnection` | the connection, with as much of asio as it depends on |
| `MCTcpConnection`, `MCTcpLines` | values for TLC |
| `TcpLines` | what the connection makes of the bytes it reads: delimiter, buffer, lines |
| `TcpProofs` | theorems about both |
| `NotificationCenter` | the centers, the threads, callbacks that call centers |
| `MCNotificationCenter`, `NotificationCenterProofs` | values for TLC; theorems |
| `BitStream` | one stream, its memory, its limits, the bits the program has written |
| `MCBitStream`, `BitStreamProofs` | values for TLC; theorems |
| `Buffer` | buffers, and the memory they allocate, wrap, exchange and delete |
| `MCBuffer`, `BufferProofs` | values for TLC; theorems |
| `DataStream` | streams of bytes, what is written to them and what is read |
| `Base64`, `Unicode`, `Fields` | encode and decode; wide texts and `utf8len`; three ways to split |
| `Digests`, `Aes` | the blocks MD5 and SHA-1 compress; blocks, padding and room of AES |
| `Codecs` | the state in which the five modules above are checked: a message that grows |
| `MCDataStream`, `MCCodecs` | values for TLC |
| `ByteProofs` | theorems about DataStream and Codecs |
| `ClassLib` | classes, one attribute of theirs, objects and their construction |
| `MCClassLib`, `ClassLibProofs` | values for TLC; theorems |

`PROJECT.json` maps every definition to the lines it stands for. Definitions whose comment
begins with "Mutant:" are wrong versions of a definition of the model, kept next to it: each
property is violated when the right one is replaced by one of them, which shows that the
property says something about the code.

### HttpClient

Thread 0 (`Main`) is the application's thread, 1..`MaxWorkers` the network threads, each
started by `lazyInitThreadSemphore` after the previous client was destroyed. `pc[t]` is the
place of thread t; a label stands wherever another thread can get between, and a section
between `lock()` and `unlock()` is one step, as everything it touches is touched only
under that mutex. The condition variable has no predicate: `Sleep` moves a thread to
`waiting`, `NotifyOne` moves one waiting thread on, and what nobody waits for is lost.
A queue is a pointer (`null`, `live`, `freed`) and its contents; use of a pointer that is
not live sets `fault`, after which nothing more happens, because the C++ program has no
meaning from there on. Application code in a callback may call the client from the network
thread, so the calls' actions take the thread as a parameter.

curl is external: a transfer fails, or is answered with one of `StatusCodes`. When it is
answered, the error buffer is kept or emptied (versions of curl differ). Cookies, headers
and bodies are data no property reads.

### WorkQueue

`Callers` are the application's threads and `Workers` the pool's; a running work may add
works. `getInstance` is `std::call_once`: one caller builds, the others wait. The
constructor starts the threads one by one, and those run at once. `Exit` begins when main
returns: flag, members, instance pointer and statics go in that order (`QuitFlag`,
`DestroyMembers`, `NullInstance`, `DestroyStatics`) while the detached threads run on.

### TcpConnection

The application has one thread; it calls the connection and runs every handler by calling
`update()`. So a handler is one action, and the interleaving is in what asio does between:
operations complete, timers expire, the server closes. `posts` are the closures of
`write()` and `close()`, in order; `ready` counts the completed operations whose handler has
not run, between which and the posts asio promises no order. A call the application makes
inside a callback posts or starts an operation and nothing else, so it equals the same
call next to the handler; the one place where that is not so (`CloseCallback`, when
`do_close` leaves nothing to do and the service would stop) is a disjunct of `DoClose`.
The `io_service` stops by `stop()` or when it runs out of work, and nothing resets it.

### TcpLines

`TcpConnection` treats a line that arrives as one event; this module is what happens inside
it. The server's bytes come in pieces of any size (`kernel`, then `m_buffer`);
`async_read_until` waits for the delimiter, `handle_read` takes one line off with `getline`,
which knows line feeds only, and reads on unless the line was empty. Connecting is one step
here, and a connection may be lost, with or without the bytes on their way, `MaxLosses`
times; `m_buffer` outlives it, as in the code. `messages` is a history, as are `earlier` and `current`, the
texts read on each connection so far; `received` is all of them, one behind the other.

### NotificationCenter

A thread has a stack of calls, because a callback may call a center: the top call is
waiting for the mutex, inside, or calling a callback. `Reaches` says which centers the
callbacks of a center may call. Lists are nodes, so an iterator (`iterators`, `places`)
can outlive what it points to; its use then is a fault, or an outcome the library's
implementation gives. A callback that calls its own center locks a mutex its thread holds:
it waits for ever, or the library throws (`LockTwice`, a fault). `getNotificationIterator` reads the table without the mutex, in two
steps.

### Buffer

`buffer[b]` holds the four members; `heap` says of each block of memory whether it was
never allocated, is live or was deleted. A deleted block is never handed out again, so
that a use of it shows. `delete[]` of anything that is not live, and reading what was
deleted, set `fault`. `value` is a history of the elements each buffer should have; `mixed`
records that a buffer that owns was swapped with one that wraps, after which the owner
flags are wrong and the properties about ownership promise nothing.

### BitStream

A stream is in one memory (its own or foreign); sizes are in bits and bytes as in the
code. `NewSize` and `Resized` are the growth of `resizeBits` with the padding
(`ResizePad`, 1500 in the code); `Aligned`, `Shifted` and `InOneByte` are the three ways
`writeBits` copies; `Store` is `write_T`. Neither `setMaxSizes` nor the constructor that takes
`maxWriteSize` compares its limits with the memory (BitStream.cpp:21-31, BitStream.h:93-96),
and the model sets them anywhere, too; the history `overstated` says which limit the program
so put beyond the memory, until the stream grows and takes both from its new size. `written`
is a history: of each bit, the value the program last wrote there; `got` is what the last read
gave.

### DataStream

`m_buffer[s]` is the string of each stream. A kind is an element or a counted container of
rows of one or two elements (`vector` and `list`, `map` and `unordered_map`);
`ElementBytes`, `ReadElement` and `ReadRows` are the overloads of `operator<<` and
`operator>>` with their short reads and the exception of `substr`. `sizeWidth` is the width of
`size_t` in the build, 4 or 8. `put` and `taken` are histories of bytes, `items` of what is
written and unread, until a call leaves the writer's order (`Unaligned`). `IsItem` says what can
be written: elements with the bytes of their types, in whole rows, their lengths and their number
below `Limit` (2^31 - 1), beyond which `Number` no longer tells lengths apart.

### Codecs

`Base64`, `Unicode`, `Digests`, `Aes` and `Fields` have no state: their definitions are the
functions of the code, over sequences of bytes, written as folds of recursive functions.
Where the code reads behind the end of a text the value is a parameter (`stray`), and
`ReadsPastEnd` says when. SHA-1's and MD5's compression and the rounds of AES are opaque: a
digest is the sequence of blocks it was made of, a sealed block a record. `Codecs` gives these
functions a `message` that grows by raw pieces or by wide characters, with the `md5_state_t`
that was given the same pieces.

### ClassLib

A class is the number of its creation, which is also its name. One attribute is followed:
it is a function, another value that is true, false, a wrapper made for an inherited function,
or absent.
`Inspect` is the body of the loop of `class()`, `inspected` its rounds. Objects are paths of classes,
a shared base object starting at its own class; `Objects` goes down level by level, and
`FieldsOver` is what `build` makes of the fields of the bases' objects (`Fields`); `New` pushes the constructor of the most
derived class on `stack`, whose steps (`Return`, `CallInit`, `UserInitReturns`,
`UserInitFails`, `InitBases`) are the frames of `__init`. The program's constructor may call
constructors of bases by hand or fail. `late` records that the attribute appeared,
vanished, or changed its kind or origin in a class others already derive from.

## 3. Runs

| Run | Instance | Checked | States, time |
|---|---|---|---|
| `http_steady` | three asynchronous requests (one answered by no callback, one of unknown type), one synchronous, one network thread, never destroyed | `FlowInOrder`, `NoFaultBeforeDestroy`, `VerdictMatchesAnswer`; live: `AwakeThreadDelivers`, `ImplementsAsyncService` | 501 208, 75 s |
| `http_restart` | two requests, one destruction, three successive threads | `DeliveredInOrder`, `QueueHasOneThread`; live: `SleepingThreadQuits` | 190 322, 60 s |
| `pool_life` | three works, two callers, two threads, exit at any moment or never | `TakenInOrder`, `NoFaultBeforeExit`; live: `QueuedIsTaken`, `ImplementsWorkPool` | 68 234, 11 s |
| `tcp_calls` | one message and one heartbeat, two `connect`, one reconnection, two failures, a line, a close, a disconnect, an idle `update` | `OneWriteInFlight`, `SentInOrder`, `OneEffort`, `KeptAlive`, `ReconnectSparesConnection`; live: `EffortConnects`, `QueueDrains` | 1 295 554, 80 s |
| `tcp_mute` | one message, one heartbeat, one failure | `WrittenIsSent` fails | seconds |
| `tcp_lines` | six bytes of three characters in segments of any size, four delimiters, one lost connection | `LinesInOrder`; live: `LinesAreDelivered` | 459 264, 60 s |
| `note_posts` | two threads, two centers with a name each, callbacks that call the other center and, of the first, its own, two observers, calls two deep | `CalledIsRegistered`, `OnlyRingsWait`, `PostSeesOneList` | 2 141 803, 70 s |
| `bit_calls` | any four calls; memory of 0 or 2 bytes, own or foreign, limits inside and beyond it, up to 5 bytes after growth | `BitsStayInside`, `WrittenIsKept`, `ReadIsWritten` | 601 497, 11 s |
| `buffer_calls` | any five calls on two buffers, five blocks, capacities 0, 1 and 3 | `LiveBlocksHaveOneOwner`, `DeletesAreValid`, `ContentIsKept` | 161 959, 25 s |
| `stream_calls` | any five calls on two streams, nine items of every type, three forged inputs, `size_t` of 4 and 8 bytes | `StreamIsQueue`, `WrittenIsRead` | 1 653 629, 45 s |
| `codec_messages` | messages of up to four of fifteen pieces and eleven wide characters, cut at line feeds and at dots | `Base64IsUndone`, `TextsAgree`, `DigestsSeeThePaddedMessage`, `CipherIsUndone` | 159 115, 50 s |
| `class_objects` | every hierarchy of four classes with up to two bases, three assignments, of a function, a property or false | `InheritsUnlessAmbiguous`, `MethodsGetTheirBase`, `InitializedOnce` | 3 830 051, 115 s |

**Bounds and why they are enough.**

- HttpClient: with three requests the queues hold two behind the one in hand, so every
  order of push, take, publish and pop is met; one of each special kind meets every branch
  of the thread's loop. One destruction with three threads lets the old thread's clean-up
  overlap the birth of the second and the second's that of the third. Each request is sent
  once (the client gives them no identity, so sending one again is sending another).
- WorkQueue: two threads and two callers are the smallest number of which one can
  overtake another, three works leave one queued while both threads are busy.
- TcpConnection: a message and a heartbeat are enough for one write to wait behind
  another, and in both orders; two failures let a reconnection fail or a new connection be
  lost. Bounds are on events from outside (`Bound`), never on handlers.
- TcpLines: six bytes hold three lines of one character, or two and a delimiter of two; the
  delimiters are none, the line feed, one that ends with it, one without it.
- DataStream: five calls write two values and read them back with a call of any other kind
  between; nine items meet every type and every kind of container. `MaxElements` bounds the
  loop a forged length would run: each further round reads zeros from an empty stream.
- Codecs: pieces of 8, 16, 55, 63 and 64 bytes and single ones make messages of every length
  around a block, a group of three, and the last byte with room for the padding; the wide
  characters are the first and the last of each length.
- NotificationCenter: two threads hold two mutexes at once, and with calls two deep close
  a ring when each is in a callback that calls the other's center; two observers suffice for one
  to be removed beside the other. Nodes and iterators are bounded by the observers.
- BitStream: counts 1, 3, 8 and 11 and positions 0, 5 and 18 make writes inside a byte, up
  to its edge, aligned and across two bytes, inside the limits, at them and beyond.
  The padding is 1 byte because 1500 would hide every overrun behind it; the proofs hold
  for any padding.
- Buffer: a call allocates at most one block, so five blocks never run out in five calls.
- ClassLib: four classes make the diamond and the first hierarchy of section 7, in which a method
  loses its self. Five classes are too many for a run of minutes, and
  matter: only there can a method get a wrong object, the second hierarchy of section 7. The
  proof found it, not the run: a stronger `MethodsGetTheirBase` held with four classes and could
  not be proved. Hence its premise about the classes on the way; the proofs are for any
  number of classes.

`CHECK_DEADLOCK FALSE` stands where the system may really stop: the application may end
its calls (TCP, lines, notification center, streams, codecs, buffers, classes), the process
may exit (`pool_life`), or the program has reached undefined behaviour (`http_restart`).

`note_posts` permutes the threads, `buffer_calls` the buffers and the blocks, `stream_calls`
the streams; all check safety only, and none treats one of them differently.

Every module with a state but Codecs declares its types in `TypeOK` (`LinesTyped` in TcpLines).
All of them are proved (section 5) and the runs do not check them again, nor the invariants
`HandsAreRunning`, `LimitsInside` and `SizesInside`, which are proved, too. Every other invariant
and action property of the table is checked by its run and proved.

**Mutants.** For each property `PROJECT.json` names a wrong definition with which the run
finds the property violated.

## 4. Fairness

- HttpClient: weak fairness of each step of a network thread and of a call in progress
  (the operating system schedules threads that can run). A callback that returns has strong
  fairness, since it may call the client again and again before it does; an application
  whose callback never returned would stop the thread. No fairness for beginning a call or
  for spurious wakeups, which nothing promises.
- WorkQueue: weak fairness of calls, threads and, once begun, the exit sequence.
- TcpConnection: the application calls `update()` for ever, which asio answers by running
  a ready handler and completing what can be completed: weak fairness for each handler and
  for each completion, but not for lines of the server, for lost connections or for the
  application's other calls.
- TcpLines: weak fairness of `HandleRead` (the application goes on calling `update()`) and of
  the arrival of bytes that were sent; none for the server or for a lost connection.
- The other modules state safety only.

No live property assumes that a notification is received: a notified thread is one that
was waiting. A notification that falls between a thread's test and its wait is lost
(section 7), which is why `AwakeThreadDelivers` and `QueuedIsTaken` are about threads that are awake or about to be.
What is still queued when the process exits is not run; `QueuedIsTaken` says so.

## 5. Proofs

Everything below is proved for every value of the constants, from the assumptions the
modules name: sets of requests and works with a value outside them (`NoRequest`,
`NoWork`), natural bounds, memory that is foreign or the heap's, delimiters, items and
pieces made of the bytes there are, wide characters below 2^27.

**HttpClientProofs.** `TypeCorrect`. `OneThreadPerQueue` needs `ThreadInv`: threads are
born in the order of their numbers (`BornInOrder`), only one thread at a time is inside the
birth of a client (`CallersApart`), and until a fault each queue is served by exactly the
thread last born (`QueueServed`); the property alone is not inductive, because what makes
it true is which thread will take the queue over. `RequestsFlowInOrder` needs `FlowInv`:
before the first destruction no thread is at a label of the clean-up (`Quiet`).
`QueuesSafeBeforeDestroy` follows from the same invariant. `ClientImplementsService`, under
`MaxDestroys = 0` (a destruction drops requests, which the abstract service does not), maps
every step to a submission, a completion or a stutter, and needs `FreshInv`: what two
callers hold in hand is not yet accepted and not the same. `VerdictsAreRight` needs
`VerdictInv`: the verdict a thread has in hand, and every response published, agrees with
the answer the network gave for that request, also while another thread reuses the response.
`DeliveriesAreInOrder` holds across destructions and restarts; its `SequenceInv` joins the
order of what was delivered and is still queued (`OrderInv`) with what each thread holds
between taking a request and publishing its response (`HandInv`), and it rests on
`ThreadInv`: two threads that served one queue could overtake each other.

**WorkQueueProofs.** `TypeCorrect`. `PoolExistsBeforeExit` by `LifeInv`: one maker, made
before use, gone only on exit. `WorksTakenInOrder` and `HandsHoldRunningWorks` by
`HandInv`: works are accepted once, a work in a caller's hand is fresh, a finished one
was taken. `QueueImplementsPool` adds `RoomToStart`: a thread that takes a work is not
among those that run one, so that the abstract pool has room.

**TcpProofs**, the connection. `TypeCorrect`. `WritesNeverOverlap` and `MessagesSentInOrder` are
inductive together (`WriteInv`): that one write at most is under way is what makes its
completion pop the right message. `ConnectMakesOneEffort` by `EffortsBounded`, the number of
attempts, armed timers and completions that may start one, is never above the number of
`connect()`: each handler consumes the effort it replaces. `StandingConnectionIsSpared`
needs in addition `SpareInv`, that no effort is left once a connection stands.
`ConnectionKeptAlive` (`AliveInvariant`) is inductive together with `WriteInv` and
`QueueMoves`: unless a write has failed, a queue that is not empty has one under way, so
whoever finds the queue busy is not alone in keeping the beat.

**TcpProofs**, the lines. `LinesAreTyped`. `ServerLinesInOrder` needs `ReadsInv`: the bytes that were received are a text
of whole lines followed by the buffer, and the messages are the lines of that text which are not
empty (`LinesAreOut`); and a read that is done has found its delimiter (`DoneIsFound`), so that
`getline` ends at a line feed and not at the end of what has come - the step
which fails for any other delimiter. `LineIsTaken` is `getline`; `OpenLineGrows` and `LinesStay`
say that segments may end anywhere. That these are the server's lines, connection by connection
(`ServerLines`), is `WholeTexts` with `AfterWholeLines`: as long as no connection was lost in the
middle of a line, texts one behind the other have the lines of each. For any delimiter the bytes are kept (`PlainOfLine`).

**NotificationCenterProofs.** `TypeCorrect` with `CountInv`, by which additions under way have
room. `LockInv` says of all frames of all threads that only the innermost waits or works,
that a frame past its lock holds its center's mutex, that no two of a thread hold the same,
and that callbacks call what `Reaches` allows. `ThreadsWaitOnlyInRings` assumes nothing of
the callbacks: the thread that holds a center somebody waits for is itself waiting, so the
call that holds it is in a callback (`OnlyTopIsNotCalling`), and the call after it reaches
another center of the threads that are stuck (`StuckReaches`). As each of finitely many
centers leads to another, the callbacks close a ring; an application without one never waits
for ever. `PostsWalkTheirList` and `ListsStandWhilePosted` need
`TableInv` (names have nodes of their own, new nodes are empty, lists are in order) and
`Walking` (a post that calls back is at an element of its name's list); the heart is
`Untouched`: whoever changes a list holds another mutex, so it is another name's.

**BitStreamProofs.** The first part is about sizes. One invariant, `StaysInside`: sizes have
their types (`SizesOK`), a limit beyond the memory is one the program put there
(`LimitsInside`), and no call for bits leaves the memory under another (`BitsStayInside`). The
lemmas on growth (`NewSizeFits`, `SpacesFit`) do the arithmetic. Nothing is assumed of the
limits the program sets.
The second part is about contents. `BitsAreKept` and `ReadsAreWritten` rest on `KeepsBits`, which
is `StaysInside` and `Contents`: besides the two properties, no bit that counts lies beyond the
bytes in use - growth copies those and nothing else, so that without it a growth could lose a
bit. The argument goes up in three layers. A byte is the sum of its eight bits, so the
shifts, masks and blends of the code can be told bit by bit at each of the eight alignments. From
there, each of the three ways in which `writeBits` copies puts into byte k the bits that belong
there and keeps the neighbours (`Placed`), and bytes placed one by one leave v[p] at every bit p
of a range and the old bit elsewhere (`Deposits`). Last, every call either deposits what the
history records (`Recorded`, `DepositKeeps`), or reads what is there, or leaves memory and history
alone.

**BufferProofs.** `OwnersAreSound` is `LiveBlocksHaveOneOwner` seen from the buffers, and
adds that a buffer that wraps points to foreign memory, without which `operator=` could
delete another's block. `SizesInv` adds that memory in use was allocated - so that a new
block is nobody's - and that the history has as many elements as the buffer.
The steps are proved for the four things operations are made of (a new block, a move to a
new block, a change in place, a failure), and each operation is one of them. `ContentsAreKept`
rests on `HeldInv`: no two buffers point to one block, also after exchanges between buffers
that own and that wrap - so a change in place is seen through no other - and every block
begins with the elements its buffer should have.

**ByteProofs**, the streams. `TypesAreRight`. `StreamsAreQueues`: every read leaves a rest of the stream (`IsRest`), through
exceptions, short reads and any number of rounds of a forged length, and each call changes bytes
taken and bytes there in step (`Becomes`). Overwriting is the delicate one: `write` moves bytes
inside the stream, and must move them in the history alike (`OverwrittenInBoth`).
`WhatIsWrittenIsRead` needs `Held`: a stream that is in step holds exactly the bytes of the
items written and unread, one behind the other (`HoldsItems`). Numbers, texts, elements and
containers read back what was written and leave what follows (`NumbersReadBack`, ...,
`ItemsReadBack`), so the first item goes and the others stay. It assumes of the items what `IsItem`
says, and the property has the premise that the widths of lengths agree.

**ByteProofs**, the codecs. The four properties hold of messages of any length made of any pieces,
because `MessageInv` does: the message is bytes, it is the conversion of the wide text if there is one,
and the MD5 state `Holds` it - its count is the message's bits, its blocks are the message's whole
blocks, its buffer begins with what remains.
For `DigestsArePadded`, a piece appended leaves the state holding the longer message whether
it fits into the buffer, just fills it or goes over several blocks, and the padding
appended last makes whole blocks of what is left.
`CiphersAreUndone` says what decryption has written after k blocks (`Written`): all of them, or, once
the room ended, less than the room and a failure that no later block takes back; the last block gives
what its padding leaves (`WrittenLast`).
The rest is about texts that are read from front to back, by 1, 4 or the number of bytes that the
first one announces. Such a reader is a walk (`IsWalk`): a function over positions with the
position it goes to next, about which one argues from the end of the text (`FromTheEnd`). A text that
was written is a chain of pieces (`IsChain`), and a walk that goes from piece to piece and reads
each back reads the text back. So `Base64ComesBack` is about groups
of three bytes and their line feeds, the wide texts of `TextsAlwaysAgree` (`WideComesBack`)
about the bytes of one character - those below 2^26, or 2^16 through 16 bits, as section 7
says - and the fields (`FieldsAreTheSame`) about the text up to the next separator, in the iterator
one that is no pattern. `utf8len` and the conversion, which must agree on any bytes whatever
(`ScriptsCount`), are two walks with the same steps.

**ClassLibProofs.** `TypesAreRight` and the three properties, for any number of classes and bases.
A base is older than its heirs, so what is defined by going down a hierarchy can be proved from
the bases up (`AllObjects`), and `Objects`, `Fields` and `Sources` satisfy the equations they
were written for (`ObjectsAreClosed`, `FieldsUnfold`, `SourcesUnfold`).
`ConstructorsRunOnce` needs `ConstructionOK`: an object whose constructor ran is initialised, with
all its base objects, or under way on the stack; and the bases a frame has passed are initialised, but for
the one whose call is just above. No object is under way twice, as each call goes to an object of an
older class than the one below (`StackFits`).
`InheritanceIsRight` needs `HeirsOK`, which says what classes know of each other until an assignment
comes too late. A class that inherited: every base of it that has the attribute stands by it and
has the same origin, which is shared if there are two such bases (`InheritsOK`). A class that did
not: no base has the attribute, or two that stand by theirs clash (`LacksOK`). A new class
establishes this through the loop over its bases (`FoundFits`) and must not break it for the others,
whose `__inherited` it may cancel; an assignment in time changes neither kind nor origin. With it, following
the derivation ends at one object, of the class and sharing that `__from` records (`SourcesFit`).
`MethodsReachTheirBase` adds `KindsOK` - functions are inherited as wrappers - and
`FieldHoldsSource`: where every class on the way keeps its field, it holds that object.

**Recursion.** What is written to a stream, the lines of a text, the objects of a class and the
like are recursive functions. The provers do not unfold these by themselves, and the library's
induction takes an operator; so induction is stated for sets (`AllNumbers`, `AllSequences`, from the
well-foundedness of the natural numbers), and from it follow the existence of each function and
the equations it satisfies (`RowsUnfold`, `BytesUnfold`, `FieldsUnfold`, `OfNothing` and
`OfOneMore`), on which everything else is built.

**Only model-checked**: the live properties, with the fairness they need and the ENABLED in it, and
so the fairness of the two abstract specifications; that the client and the pool do the steps of
these is proved.

## 6. Where code and comments part

`tcp_mute` is a run that fails, as expected (TcpConnection.cpp:199): a failed write leaves its
message at the head of the queue and starts no other, and `do_write` starts one only on an
empty queue: after one failed write nothing is sent any more, on a new connection neither.
The header says of `write` "Send message to server" (TcpConnection.h:44).

## 7. Known divergences without a run

They are in the model where it says so; no run asks, because one step shows them.

- HttpClient: `notify_one` is called without the mutex the network thread tests and sleeps
  under - another than the one it tests under, in fact - so a request pushed between the test
  and the wait stays unanswered until the next one, against the comment at 469 (123;
  modelled, and in every run of the client). Callbacks run on the network thread, though HttpClient.h:18 and :79 promise
  the main thread (HttpClient.cpp:205-206; modelled). A request of an unknown type is
  answered as a success (138, 179-195; modelled). The error text may be an earlier
  request's (190; modelled). A restarted thread may see the old quit flag (443; modelled).
- WorkQueue: `addWork` notifies without the mutex, too (62; modelled); detached threads use
  destroyed members during exit (25; modelled). Where `hardware_concurrency()` answers 0 the
  pool has no thread and nothing is ever run (19; not modelled: a constant with a value
  outside its assumption).
- TcpConnection: `disconnect()` never closes the socket, the posted close being behind the
  stop, and nothing resets the stopped service, so the outcome of the `connect()` the header
  invites to (TcpConnection.h:70-71) is never handled (88; modelled). `update()` before the first connect stops the service for good (31;
  modelled). An empty line ends reading (145; modelled). The read aborted by the
  connection's own close reconnects (172; modelled). Two calls of `connect()` keep closing
  each other's connection (236-239; modelled, hence "one connect()" in `OneEffort`). Not
  modelled: the destructor's `shared_from_this` (25, 101), `connect` by url trying the last
  endpoint only (60-63), callbacks that throw or are not set.
- TcpLines: the default delimiter is the empty string, found in any byte, so lines are cut
  where segments end (15, 107); a delimiter without a line feed cuts and glues lines, as
  `getline` looks for the line feed (141); what a lost connection left in the buffer is put
  before the first line of the next (143), which is then no line of the server's: hence the premise
  `LostBetweenLines` of what `LinesInOrder` says of those. All modelled; `BytesAreKept` is what is
  left in any case.
- NotificationCenter: a callback that calls its own center waits for itself
  (NotificationCenter.cpp:78), and callbacks of two centers that call each other may keep two
  threads waiting, restrictions written nowhere (`OnlyRingsWait` says that nothing else does); posting to a null iterator
  dereferences it (24, 103) where the header promises false (NotificationCenter.h:93-94);
  `getNotificationIterator` reads without the mutex (111-113); a handle is used after another
  thread removed its notification (49); all modelled.
- Buffer: `swap()` leaves the owner flags behind (210), and `operator=` into a buffer that
  wraps deletes foreign memory (81-91); `append` of a buffer to itself reads deleted
  memory when it grows (190-193); assigning no elements leaves the old ones (167). All
  modelled.
- BitStream: whole values written on a new stream are not counted as in use and lost when
  it grows; `reset()` clears contents though BitStream.h:114 speaks of position and error
  only; the constructor over foreign memory zeroes it; limits are never compared with the
  memory, neither in `setMaxSizes` (BitStream.cpp:21-31) nor in the constructor that takes one
  (BitStream.h:93-96), and under a limit beyond it every call goes out of the memory; `readFlag`
  accepts the bit just behind the limit (BitStream.h:358), without the error that
  BitStream.h:67 announces; `writeFlag` far beyond the limit writes outside the
  memory (BitStream.cpp:191); whole values are not checked against limits and past-end
  writes never set `error` (BitStream.h:67); a string longer than its forced length leaves
  the reader elsewhere than the writer (358-381). Modelled, as faults after which
  the program has no meaning; no property is about the flags and whole values among them.
  Not modelled: `readWString` with a forced length over 2048, sums that wrap at 2^32.
- DataStream: lengths are written as `size_t` and read as 32 bits, so with a `size_t` of 8
  bytes a text starts with four bytes of its length (192); `read(uint8_t*, n)` copies over its
  own parameter, so the caller gets nothing and more than a pointer's bytes leave the
  variable; a container read from other bytes runs the loop their first four announce (151);
  a text that announces too much throws with its length taken (196). All modelled.
- Base64 and Unicode: `decode` takes four characters without asking whether they are there
  (Base64.cpp:172), `string2wstring` the bytes a first byte announces (Unicode.cpp:69);
  `wstring2string` writes five of the six bytes of a character above 2^26 and none from 2^27
  on. Modelled, as premises. `toupper` sets the bit it should clear, which leaves lower case
  as it is (Functional.cpp:37; not modelled).
- Fields: `SplitIterator` drops a last field of one character (stringex.lua:47); modelled, and
  stated by `TextsAgree`. Its `find` lacks the fourth argument that split's has (44, against 16), so
  that a separator is a pattern of Lua: '.' finds every character, '^' and '$' find a place for ever,
  '%', '(' and '[' raise an error. Modelled for separators of one character (`FindPattern`), and left
  out of what `TextsAgree` says of the iterator (`Literal`).
- ClassLib: with A.k, B(A), C(A, B), D(B, C), all unshared, k is ambiguous in C, which drops
  it; so D finds it through B alone, while D's object has two objects of A and therefore no
  field for either: `D():k()` calls A.k with self nil (404). With E(C, D) in addition, E inherits
  k through D alone, from B's object of A, and as D has lost its field for A, E's is the one
  that C offers: `E():k()` calls A.k with C's object of A, against "called with the correct
  base object self" (398-399). Both are modelled, and left out of `MethodsGetTheirBase` by its premise. An attribute that changes in a base after derivation
  can also leave a method without self (`late`); behind a shared diamond an attribute whose
  own origin is not shared is given up though one object exists (415). Modelled. An inherited
  attribute whose value is false is taken for defined where it is found, because the code asks
  `if base_inherited then` (377): with A.k = false, B and C deriving shared A, and D(B, C), B and
  C become the origins and D drops k, against "ambiguous unless they originate in the same shared
  class" (412-413). Modelled (`Truthy`); `InheritsUnlessAmbiguous` describes it, as `Defines`
  counts such a class among those that define the attribute. A constructor that catches the error of
  a base's constructor (`pcall`) leaves that object's `__initialized` unset, and the loop over the
  bases runs its constructor again (269-274), against "initialized exactly once" (265); not
  modelled: an error ends the construction (`UserInitFails`). Bases of one
  name leave the first base object unreachable and uninitialised (164, 171-173); not modelled.

## 8. What is not modelled, and why

- TcpConnection's destructor and the `connect` that resolves a url: the first calls what may
  no longer be called (section 7), the second is a loop over the system's resolver.
- `defaultCenter()`, rehashing (17): the table is a function in the model.
- `addWork(nullptr)`, a machine that reports no processors, `run()` that throws.
- `CocosSingleton`: no two callers, no life cycle beyond a pointer.
- Endian (a macro and a cast); trimming, case, formatting and tokenizing of Functional and
  stringex; `tableex` (deep copies and printing), fileutils, functional.lua and unrequire.lua:
  one-line wrappers, formatting, files.
- `implements` and `is_a` of the class library, which only look; its debugging mode
  (`keep_ambiguous`), `__get` and `__set`.
- The compression functions of MD5 and SHA-1 and the rounds of AES: third-party tables and
  shifts, opaque in the model.
- Math and random numbers: real numbers and the standard library's engines.
- Exceptions, logger, macros: formatting, or nothing at all.
- `ScriptLib/lua-stdlib`, the Windows build: not this program's logic.

## 9. Plan

Modelled first were the parts where threads meet (HttpClient, WorkQueue), then events
(TcpConnection), callbacks under a mutex (NotificationCenter), the sequential parts with state
(Buffer, BitStream, ClassLib, DataStream, TcpLines), and last the pure functions. Proofs
followed in the same order. What is left:

1. Deep copies of `tableex` over small graphs with cycles; `connect` by url.
2. `is_a` and `implements`, and classes of equal names, in ClassLib.
