# A TLA+ model of the brainslug backend

Brainslug is a media center: a C++ backend that serves what it knows about
movies and TV shows as JSON over HTTP, from an SQLite cache, and a SproutCore
front end in the browser. The backend embeds pion-net 3.0.15, an HTTP server with
its own thread scheduler, queues, plug-ins and web services, and cajun, a JSON
library; the repository carries both under `Contrib`. All of the program's
concurrency and most of its logic are in there, so they are part of the model.

## 1. Inventory

| Component | State it keeps | Operations | What makes it correct |
|---|---|---|---|
| HTTP connections (`TCPServer`, `HTTPReader`, `TCPTimer`, `HTTPWriter`) | connection pool, a mutex, `m_is_listening`; per connection its socket, lifecycle, read position, timer, outstanding operation | start, stop, join; completion handlers of accept, read, write and timer | one owner per connection, no self-deadlock, responses in order, timers that spare responses, an accept loop that lives as long as the server, a stop that ends and leaves nothing running |
| HTTP parser (`HTTPParser`) | three parse states, read pointers, the message being filled | parse, parseMissingData, receive | messages and their boundaries do not depend on how reads cut the stream |
| HTTP types (`HTTPTypes`, static parsers of `HTTPParser`) | none | URL, base64, query and cookie conversions | decoders read what encoders write |
| HTTP messages and writers (`HTTPMessage`, `HTTPWriter` and its subclasses) | headers, content buffers, the flags of a writer | write, send, sendChunk, sendFinalChunk | the framing that is announced is the framing that is sent |
| File service (`services/FileService`) | a cache of files, options | start, the request methods, DiskFileSender's pieces | answers show the file as it is |
| Thread scheduler (`PionScheduler`, both forms) | running flag, active users, services, threads, timers | startup, shutdown, join, addActiveUser, removeActiveUser, post | work is done, shutdown returns and leaves no thread |
| Locked queue (`PionLockedQueue`) | nodes, two mutexes, the list of idle consumers, a version number | push, pop, clear, stop, reset | a FIFO queue; no wake-up is lost |
| Lock-free queue, stack, free lists | tagged pointers, nodes | push, pop, allocate, deallocate | FIFO and LIFO although nodes are reused |
| Blobs (`PionBlob`) | memory with a count of copies | copy, assign, set, clear | memory lives as long as a blob refers to it |
| Plug-ins (`PionPlugin`, `PluginManager`) | a map of open libraries with counts; a map of objects | open, release; load, add, remove, replace, clone, run, find, clear | a library stays as long as its objects |
| Authentication (`HTTPAuth`, `HTTPBasicAuth`, `HTTPCookieAuth`) | users, restricted and permitted resources, a cache of sessions | handleRequest, login, logout, expiry | restricted resources stay restricted, sessions end |
| HTTP server resources (`HTTPServer`) | handlers, redirections | add, remove, find, handleRequest | the nearest handler, after redirection and authentication |
| Web services (`WebServer`) | services and whether they are started | load, start, stop, clear, loadServiceConfig | requests meet services that live; a file does what it says |
| TCP streams (`TCPStream`) | read and write buffers, an outstanding operation | overflow, xsputn, sync, underflow, xsgetn, put back | bytes in order, each once |
| `FrontendServer`, `main` | the server, the cache, five handlers | construct, run, handle unknown resources | schema and data are there before the port is bound; every request is answered |
| Resource handlers | none of their own | handle, list, view, sanitize, create table, insert test data | a response shows exactly the rows that were asked for |
| `SQLiteDB` | the open database | execute | rows reach the callback as they are, failures are reported |
| cajun | a document | read, write, edit | what is written is read back; texts that are not JSON are refused |
| JSON test databases (`TestDB`) | a document | select, selectWhere | answers are complete or say they are not |
| Browser front end | current page, selection, responder | menu and grid events | not modelled |

How they interact. `main` constructs a `FrontendServer`: it opens `cache.db`,
each handler creates its table, the test data are inserted, the handlers are
registered, and `run` starts the server and joins it. From then on everything
happens in completion handlers that asio dispatches to the scheduler's threads.
A read completes, the parser finds a message, `HTTPServer::handleRequest` follows
redirections, asks for authentication if there is one, and calls a handler: a
resource handler of brainslug, which runs a select through `SQLiteDB::execute` and
collects the rows in a `Lister`, or a service of a `WebServer`. The handler posts
the write of the response through a writer. When the write completes,
`TCPConnection::finish` calls `TCPServer::finishConnection`, which closes the
connection or, still holding the server's mutex, serves the next request of it.

Hard behaviours: threads that share connections without locks; a non-recursive
mutex held across a whole request; flags read without it; timers that expire as
they are cancelled; requests pipelined and cut by reads; stop and restart while
all this goes on; condition variables whose signal comes before the wait; nodes
reused under a compare-and-swap; counts read and changed in two steps; files that
change while they are read; sessions that expire while they are used; a launch
killed between two statements; two backends over one file; statements that fail
half way. `PROJECT.json` lists the hazards, each with its line and its properties.

## 2. Modules

| Module | Models | Checked in |
|---|---|---|
| `RequestService` | connections, timers and threads of the server, with the handlers reduced to whether they answer | `MCRequestService`, `MCLiveness`, `MCMessages` |
| `HTTPTypes` | conversions of URLs, base64, queries, cookies | `MCMessages` |
| `HTTPParser` | the incremental parser over a stream that is cut anywhere and may lose bytes | `MCMessages` |
| `HTTPMessage`, `HTTPWriter` | the framing of messages; a program that calls writers | `MCMessages` |
| `CacheDB` | launches of backends over one `cache.db` | `MCCacheDB`, `MCData` |
| `JSON`, `JSONText`, `JSONDocument` | cajun: elements, reader and writer; texts typed piece by piece; documents being edited | `MCData` |
| `TestDB` | queries on a JSON document, over `JSON` | `MCData` |
| `ResourceHandler` | what the five handlers answer | `MCResourceHandler` |
| `Fifo`, `Lifo`, `Libraries` | abstract: what a queue, a stack and shared libraries promise | refined by the next ones |
| `LockedQueue` | `PionLockedQueue`, implements `Fifo` | `MCObjects`, `MCThreads` |
| `LockFreeQueue` | `PionLockFreeQueue` and boost's `fifo`, implement `Fifo` | `MCObjects` |
| `LockFreeStack` | boost's `stack` over its free lists, implements `Lifo` | `MCObjects` |
| `Blob` | `PionBlob` | `MCObjects` |
| `Plugins` | `PionPlugin`, implements `Libraries` | `MCObjects` |
| `PluginManager` | the objects of plug-ins, over `Libraries` | `MCObjects` |
| `Scheduler` | both schedulers | `MCObjects`, `MCThreads` |
| `FileService` | the file service for one file, with `HTTPMessage`'s writers | `MCData` |
| `AuthResources`, `HTTPAuth` | restricted resources; both schemes of authentication | `MCWeb` |
| `HTTPServer` | redirections, authentication and the search for a handler, over `AuthResources` | `MCWeb` |
| `WebServer`, `ServiceConfig` | the life of services; the configuration file | `MCWeb` |
| `TCPStream` | `TCPStreamBuffer` | `MCWeb`, `MCThreads` |
| `RequestService_proofs`, `CacheDB_proofs`, `ResourceHandler_proofs`, `Scheduler_proofs`, `LockFreeQueue_proofs`, `LockFreeStack_proofs` | theorems about the module they are named after, see section 5 | |
| `Shared_proofs`, `Web_proofs` | theorems about `LockedQueue`, `Blob`, `Plugins` and `PluginManager`; `WebServer`, `HTTPAuth` and `TCPStream` | |

The MC modules extend a component that is proved about, so that a run checks the very
definitions of the proofs, and instantiate others. `MCMessages`, `MCData`, `MCObjects`,
`MCThreads` and `MCWeb` explore several of them side by side: `part` is chosen in
the first state and says which component moves, the others keep their initial
state. A component is instantiated several times where its constants are to vary
(both schedulers, both schemes of authentication, both lock-free queues, every setting
of the file cache). The other invariants of these modules are conjunctions of the
components' properties, each under the part it is about; what each says is in the
comment above it, and the component's own comment says more.

A definition whose comment starts with "Mutant" is a plausible bug of the
definition after it; it is used by no specification, and `PROJECT.json` says which
property finds it.

### Connections (`RequestService`)

An action is what one thread does between two points at which another thread can
interfere: taking or leaving the mutex, a dispatch, an asynchronous call.

* `listening` is `m_is_listening`; `ctl` is where each caller of `start` and `stop` is.
  `Start`/`StartListen` are `start` before and after it releases the mutex to call
  `listen`; `Stop`/`StopWakes` are `stop` before and after its wait. Both look at
  `m_is_listening` alone, as the code does, so that the calls of several callers
  overlap: a `start` may come while a `stop` waits, and a `stop` in front of a
  `listen`. `CallsApart` says that they do not.
* `pool`, `sock`, `life` are `m_conn_pool`, the socket, and `m_lifecycle`.
* `op` is the asynchronous operation outstanding on a connection. A read posted
  on a closed socket is `dead`: it can only fail.
* `armed` and `stale` are the timers that run and those that were cancelled but
  whose callback is still queued. A stale timer keeps a reference to its
  connection, which `pruneConnections` (`Orphans`) sees.
* `stream` counts requests: sent by the client, delivered by reads, consumed by
  the parser; a read delivers any number of whole requests and perhaps a piece
  of the next. `answered` logs the request each response was written for.
* `pc` and `cur` are a thread's position in its handler and its connection;
  `lock` is the owner of `m_mutex` between steps.

`RunAccept`, `RunAcceptError`, `RunRead`, `RunReadError`, `RunWrite` are the
completion handlers up to their first interference; `Listen`, `handleConnection`,
`ConsumePiece`, `ConsumeMessage`, `ConsumeBadMessage`, `HandleAnswers`,
`HandleIgnores`, `Respond`, `Report`, `KeepConnection`, `EraseConnection` are what
follows. `TimerFires` and `StaleTimerRuns` are `timerCallback`.

Abstractions. What a request asks for is chosen when it is parsed. Several
stale timers of one connection are one. A connection object is reused after its
destruction. An accept completes, and `start` begins, only while an object is left
for the `listen` that follows (`ObjectLeft`): this bounds the number of connections
and nothing else. `beforeStarting`, `afterStopping` and the count of the scheduler's
users are not part of this module. `PION_HAVE_SSL` is off, and of the exceptions a handler may throw only the
lost connection is modelled. As in Boost 1.43, which the backend names, an accept
assigns the socket when it completes, so that `stop(false)` closes a socket whose
handler is still queued. Brainslug itself reaches `stop` only through the
destructor of the server; `stop` and a second `start` are part of the model
because the server offers them.

### Messages (`HTTPParser`, `HTTPTypes`, `HTTPMessage`, `HTTPWriter`)

`HTTPParser` is the byte machine: `HeaderByte` is the switch of `parseHeaders`,
`ChunkByte` that of `parseChunks`, `finishHeaderParsing` the decision how content
is framed, `parse` the loop over the message states, `parseMissingData` the gap
that a capture of packets may have. Where a row of states only compares one
character and moves on, tables (`Literal`, `HeaderLineExit`, `ChunkExit`) hold the
comparisons. `sent` is what the peer sends, cut into reads at every byte; `p` is
parser and message; `got` the finished messages. A byte is a symbol, and header
names and values that are compared as a whole are one symbol each.

`HTTPTypes` has the conversions as operators over sequences of bytes, by folds and
recursive functions that keep the source's state from byte to byte, and one string
that is typed byte by byte.

`HTTPMessage` holds the headers that frame a message and `prepareHeadersForSend`;
`HTTPWriter` is a program that calls a writer as its documentation says, and a
connection on which writes complete later or fail. A receiver (`Received`) follows
the headers; it is the reference the writer is measured by.

### The cache and its handlers (`CacheDB`, `ResourceHandler`)

`pc` and `at` say which statement of its launch a process is at. `Launch`,
`CreateTable`, `CreateTableFails` (`exit(1)`), `Insert`, `InsertFails` (ignored by
`initTestData`), `Bind`, `BindFails` are the launch; `Crash` is a kill at any time.
A row is reduced to its keys; `Conflicts` is the primary key and the unique
constraints that make an insert fail. Foreign keys are declared, but SQLite does
not enforce them unless told to. `clean` remembers whether an insert of a launch
failed for a reason outside the data.

`ResourceHandler` has one request at a time on one resource: handlers keep no
state and SQLite serializes the threads that share a connection, so that requests
interact only through the table, into which other backends may insert whenever no
statement of this one holds the shared lock (`Insert`). `Receive`, `Unrecognized`,
`List`, `View` are `handle` and its branches. `ExecRow` is `sqlite3_exec` calling
back; `StepFirstRow` and `StepRow` are the loop of the parameterized statement;
`Done` and `Fails` its ends; `Return` destroys the Lister. A value of a query is
the text it stands for and the form it arrives in: plain, escaped, or a number
with a leading zero. From the second row on the callback gets pointers that are no
longer valid; the model lets them show the old text, the new text or neither
(`StaleItem`), with the columns of one type sharing their fate.

### JSON and the test database (`JSON`, `JSONText`, `JSONDocument`, `TestDB`)

An element is a record with one field, its type. `Write` is `Writer`, `Scan` and
the `Parse` operators are `Reader`; they are RECURSIVE, which is why nothing is
proved about them. `IsJSON` of `JSONText` is a grammar by all ways to split a
text, independent of the reader. Numbers are integers. `JSONDocument` edits a
document with the operators of the elements. `TestDB` keeps a document and answers
queries, with the exceptions of cajun as the error of the answer.

### What threads share

* `Scheduler`: what a thread does under `m_mutex` without blocking is one step;
  `pc` is the place in a call. A service is whether it is stopped, its timer's
  waits, and its queue. `Worker(w)` is a thread of the pool in `io_service::run`.
* `LockedQueue`: what happens under `m_head_mutex` is one step; `m_tail_mutex` is a
  variable. The chain of nodes is a sequence, the dummy first. `Link` writes the two
  pointers of lines 203 to 207 at once, and the memory of nodes, which `dequeue`
  frees and `push` takes again, is not modelled.
* `LockFreeQueue`, `LockFreeStack`: a step reads or writes one shared word. Memory
  is assumed to be sequentially consistent. In the queue the free list is one step per call; the stack
  models it word by word. Tags are counted on and compared modulo `Tags`, the 2^16 values a
  tag has beside a compressed pointer.
* `Blob`: `Start` reads the count, `Free`, `Decrement`, `Grab`, `Create` follow, so
  that another thread may come between the read and the decrement.
* `Plugins`: the operations on the map of libraries, with the steps that happen
  outside of the mutex apart. `PluginManager` uses the abstract `Libraries` for the
  libraries of its objects; `Pointers` are what callers keep of `getLibPtr`. `careful`,
  chosen in the first state, says whether its callers take turns, that is, whether one
  leaves an identifier alone that another works on. `clone` and `replace` take whatever
  the identifier has at that moment.

### Around the server

* `FileService` has one file, whose inodes other programs replace, write, remove
  or make unreadable between any two accesses to the disk. Size and time of a file
  are read in one step. `m_max_cache_size` cannot be set by an option and is left
  out; so are MIME types and the checks of the path's characters.
* `HTTPAuth` has a clock; a request reads it once and takes the lock of the cache
  twice, a login reads it and then takes the lock to insert its session. Password hashes are left out: a password is a value.
* `HTTPServer` compares paths as sequences of characters, with characters below and
  above the slash, since sorted maps are searched by the order of strings.
* `WebServer` numbers its services; `orderly` remembers whether one was loaded while the
  server listened, `thrown` whether a `start` or `stop` of the server threw. `StartThrows`
  and `StopThrows` are the exceptions of services (and of `bind`) that leave
  `beforeStarting` and `afterStopping`: those before the one that throws have been
  started or stopped, and a `clear` that was stopping the server ends. That
  `m_server_has_stopped` is then not notified (`TCPServer.cpp:149`) concerns `join`, which
  is not in this module. `ServiceConfig` is the state machine of
  `loadServiceConfig` over tokens, each line with what its author means by it.
* `TCPStream` numbers the bytes in both directions.

## 3. Runs

| Run | Checks | Result |
|---|---|---|
| `service_safety` | `OneOwner`, `QuietWhenDown`, `AcceptLoopAlive`, `BusyStaysOpen` | hold; 447k states |
| `service_pipelining` (`MCMessages`) | `TypeOK`, `AnswersInOrder`, `NoSelfDeadlock`, `AcceptLoopIntact`; `MessagesParsed`, `ReceiverGetsContent`, `EncodingsAgree` | hold; 376k states |
| `service_liveness` (`MCLiveness`) | `ClosingEnds`, `KeepsAccepting` | hold; 52k states |
| `service_orphan` | `HandledConnectionsFinish` | violated, finding 1 |
| `cache_launch` (`MCData`) | `LaunchComplete`, `CacheOnlyGrows`; `ReadsWhatIsWritten`, `FilesAsOnDisk` | hold; 723k states |
| `cache_links` | `EpisodeLinksAgree` | violated, finding 2 |
| `handler_answers` | `TypeOK`, `WholeTable`, `ViewCounts`, `LookupByIdExact` | hold; 193k states |
| `handler_viewrows` | `ViewExact` | violated, finding 3 |
| `handler_escapes` | `FoundByShownValue` | violated, finding 4 |
| `objects_shared` (`MCObjects`) | refinements `ImplementsFifo`, `LockFreeImplementsFifo`, `ImplementsLifo`, `ImplementsLibraries`; `NeverFreedInUse`, `ContentKept`, `Accounted`; `PluginObjectsLive` | hold; 173k states |
| `threads_liveness` (`MCThreads`) | `WorkIsDone`, `CallsReturn`, `ItemsTaken`, `CloseReleases`, `ThreadsForUsers` | hold; 29k states |
| `web_services` (`MCWeb`) | `RequestsReachHandlers`, `SessionsAreOwn`, `SessionsEndInTime`, `ServicesInOrder`, `ConfigDoesWhatItSays`, `StreamsInOrder` | hold; 1.2M states |

Deadlock is checked in every run.

Bounds and why they are enough.

* `service_safety`: two threads and three connection objects, so that two
  connections are served, or one is served and one orphaned, while the third
  carries the accept loop; one request each. Two callers of `start` and `stop`, so that
  each call meets every place of another. The four properties are also proved
  for any number of them.
* `service_pipelining`: one served connection with three requests: a read can
  deliver one request, leave a second in the buffer and cut the third. Two
  threads, so that another handler can run while one holds the mutex. One caller of
  `start` and `stop`: `NoSelfDeadlock` and `AcceptLoopIntact` hold only of calls that do
  not overlap. The parser
  gets two messages one behind the other, of every kind of content, with all four
  line ends, and each string one byte too long once; limits are two bytes, so that
  both sides of each are met, and content passes its limit by one and two. Writers
  send two messages of up to three writes of zero to two bytes. Encoders and
  decoders meet every string of up to three bytes out of eleven special ones, the
  limits of the query parser every string of up to six out of five.
* `service_liveness`: two connection objects and one request, no symmetry. A stop meets
  every combination of a served connection and an accept. Two threads and two callers
  together make a graph too large for liveness, so that `MCLiveness` keeps one of them out
  of each behaviour (`absent`): there are two threads and one caller, or one thread
  and two callers whose calls overlap.
* `cache_launch`: two processes, two failing statements, any number of kills.
  With two processes one can be at any statement while the other is at any other.
  Texts of JSON grow by up to four pieces behind six beginnings that lead into
  objects, arrays and strings; documents of up to two members are edited three
  times; databases have up to three items out of six, some without the key. Two threads
  serve a file for every setting of the cache, and one with every method, files in
  pieces of zero to two bytes, and every failure of the disk.
* `handler_answers`: all five resources with every set of test rows, up to two
  pairs per query, which gives two filters, a key given twice, and a filter next
  to an unknown key.
* `objects_shared`: the locked queue has two producers, a consumer that is stopped
  and started and wakes spuriously, a poller, and a limit of one, so that the limit
  is overrun; three blobs over two pieces of memory; the lock-free queues three
  nodes, so that one is reused while a thread still points at it, boost's with two
  producers, pion's with one (see section 4); two threads on the stack over each
  free list; two threads that open, share and release three plug-ins, one linked
  in and one broken; three users of a scheduler with two threads; two threads on the
  manager, with two identifiers, two plug-ins, one pointer that a caller keeps, and three
  objects, so that an object is replaced by a clone while another is loaded; two
  objects where callers do not take turns (`RacingObjects`), where the theorem about
  `EntriesLive` covers the rest.
* `threads_liveness`: two users of each scheduler, one that shuts it down, the
  single service with handlers that post more work and a joiner; a producer and
  two consumers over a queue of limit one; a stream with one byte in each direction. No symmetry.
* `web_services`: two requests and two users with sessions over a clock of two or three
  ticks, with an expiration of one (the cookies are named like the two credentials of the
  basic scheme, so that one property covers both); paths of up to four characters; five services
  on three resources, two controllers and two connections; configuration files of
  three lines out of eighteen, one after another; streams with buffers of three to
  six bytes and calls of up to eight.

Fairness. Nothing is assumed of clients or peers: none has to connect, to send,
or to read.

* `service_liveness`: a handler that runs is scheduled, and it obtains the mutex
  although others may take it in between, hence strong fairness of `Run(w)`. The
  completion of an operation on a closed socket or acceptor is dispatched, a
  cancelled timer's callback is run, and the wait of 250 ms in `stop` ends. Each
  competes for idle threads or for the mutex with others that may keep coming, so
  these are strong, too; asio's queue and the operating system's mutex give that
  much. Nothing is claimed of `stop(true)`, which waits for a client that never
  reads its response; there is no write timeout. A `stop(false)` whose wait another
  caller interrupts with a `start` waits for the connections of the new run as well,
  and for whoever stops them; `ClosingEnds` leaves out the time when the server
  listens again or another call is under way.
* `threads_liveness`, scheduler: a thread of the pool runs on, a timer expires, a
  call that has begun goes on when it can (all weak), and a user that has done its
  work obtains the mutex to remove itself (strong: others may take it in between).
* Locked queue: threads run on (weak), and a thread that waits for a mutex, or for
  a condition that has been signalled, gets it (strong). A consumer calls `pop`
  again as long as it has not been stopped. Nobody has to push.
* Stream: asio completes an operation whose connection is closed or whose bytes
  are there, and the thread that was woken goes on (weak).

## 4. Findings and observations

Four disagreements between brainslug's code and what its comments say have a run of their own:

1. A request for an unknown resource, and one whose statement fails, gets no
   response, and its connection is not finished (`FrontendServer.cpp:64`,
   `ResourceHandler.cpp:86` and `106`). It is closed when another client connects.
   The same happens to a malformed request whose connection was closed before the
   400 is sent: the exception leaves `handleBadRequest`.
2. Episodes 3 and 4 of the test data name a show that is not the show of their
   season (`EpisodesResourceHandler.cpp:58`).
3. A view that matches several rows shows the first row's cells, or freed memory,
   for the later ones (`SQLiteDB.cpp:96`): `colValues` is never cleared.
   `ViewCounts` and `LookupByIdExact` say what remains true.
4. A view by a text that a URL carries escaped finds nothing
   (`ResourceHandler.cpp:98`): the value is compared as it arrives.

Some properties of pion-net and cajun do not hold, or hold only under the constants
the runs give them. With the constants below TLC finds the property
violated; brainslug itself does not reach these cases unless noted. Paths are
below `Contrib/pion-net-3.0.15` or `Contrib/cajun`.

| Module | Constants | Property | What the code does |
|---|---|---|---|
| `HTTPParser` | as in the run: lost bytes that begin inside and end beyond `m_max_content_length` | `NoUndefinedContent` | `net/src/HTTPParser.cpp:168`: bytes that are missing are counted and not filled in when they would pass the limit, also those inside the buffer |
| `HTTPParser` | `ByReceive`, an answer to HEAD | `HeadAnswerEndsWithHeaders` | `net/src/HTTPMessage.cpp:55`: `receive` clears the request method the parser needs, and waits for content |
| `HTTPWriter` | requests whose message does not say that chunks are supported | `ReceiverGetsContent` | `net/include/pion/net/HTTPMessage.hpp:408`: chunks are sent and not announced |
| `HTTPWriter` | a message received in chunks that is sent again | `WholeMessageUnchunked` | `HTTPMessage.hpp:410`: its Transfer-Encoding header stays |
| `HTTPWriter` | a response whose content begins with a zero byte | `LengthIsContent` | `HTTPResponseWriter.hpp:97`: its length is announced, its content not sent |
| `FileService` | `Coarse`: two changes in one second | `ServesUpdates` | `net/services/FileService.cpp:726`: an update of the same length is never noticed |
| `FileService` | `Failures`: the file cannot be read for a while | `ServesUpdates` | `FileService.cpp:732`: the entry has the new time and no content |
| `FileService` | `FairSpec`, pieces, a file that gets shorter | `SendingEnds` | `FileService.cpp:819`: `send` returns without finishing |
| `FileService` | `Failures`, a PUT | `PutStored` | `FileService.cpp:464`: 204 for a file that could not be opened |
| `Scheduler` | `Orderly` FALSE | `UsersKeepThreads` | `common/src/PionScheduler.cpp:89`: a shutdown between startup and the count |
| `Scheduler` | `FairSpec`, `MaxStarts` 2 | `KeepRunningWaits` | `PionScheduler.cpp:79`: a cancelled wait re-arms the timer for ever |
| `Scheduler` | `FairSpec`, `OneToOne` and `Chains` | `ShutdownReturns` | `PionScheduler.cpp:44`: a handler that posts waits for the mutex of the shutdown that joins it |
| `Scheduler` | `FairSpec`, `OneToOne`, `Orderly` FALSE | `WorkIsDone` | `PionScheduler.hpp:302`: more services than threads after `setNumThreads` |
| `LockedQueue` | `FairSpec`, a consumer in `Stoppable` | `StopReturns` | `common/include/pion/PionLockedQueue.hpp:124`: `stop` notifies without the mutex of the wait |
| `LockedQueue` | `FairSpec`, one of two consumers in `Stoppable` | `ItemsTaken` | `PionLockedQueue.hpp:241`: a stopped consumer stays in the list of idle ones and is woken in the place of another |
| `LockedQueue` | `Spurious`, two consumers | `IdleLinked` | `PionLockedQueue.hpp:242`: a consumer links itself twice |
| `LockFreeQueue` | `KeepsTags` FALSE, two producers | `ImplementsFifo` | `PionLockFreeQueue.hpp:59`: the tag of a reused node starts at zero again |
| `HTTPAuth` | `basic`, `MaxTime` 4 | `IdleForExpiration` | `net/src/HTTPCookieAuth.cpp:262`, and `HTTPBasicAuth` alike: entries are cleaned up once per expiration, and looked up without a test of their age |
| `HTTPAuth` | `RacyRandom` | `SessionIsOwn` | `HTTPCookieAuth.cpp:135`: the generator has no lock |
| `RequestService` | two callers, two requests | `NoSelfDeadlock` | `net/src/TCPServer.cpp:78`: a `start` while another caller's `stop(false)` waits; a connection whose socket `stop` has closed is kept alive (line 252), its buffered request is handled with `m_mutex` held (line 255), and its lost response calls `finish`, which locks it again. `TCPServer.hpp:226` calls the class thread-safe; brainslug stops its server only in the destructor and does not come there |
| `RequestService` | two callers | `AcceptLoopIntact` | `net/src/TCPServer.cpp:107`: a `stop` and a `start` in front of a `listen` leave two accept loops |
| `PluginManager` | `careful` FALSE | `UsesLiving` | `common/include/pion/PluginManager.hpp:379`: `run` and `getStatistic` use an object outside of the lock under which they found it; another caller may have removed it. Line 193 calls the class thread-safe |
| `PluginManager` | `careful` FALSE | `UsesManaged`, `NothingLost` | `common/include/pion/PluginManager.hpp:260` and `206`: whether `insert` inserted is not looked at |
| `PluginManager` | `careful` FALSE | `MadeByItsPlugin`, `KeepsCode` | `PluginManager.hpp:238`: `replace` puts a clone under an identifier that another plug-in has now, which destroys it; `clone`'s plug-in may be closed by then |
| `HTTPServer` | siblings of one length | `FindsNearest` | `PluginManager.hpp:342`: `find` stops at an entry that is not shorter than the one before |
| `WebServer` | a `StartThrows`, then a `Clear` | `StoppedFirst` | `net/include/pion/net/WebServer.hpp:178`: services that were started are destroyed without a stop |
| `WebServer` | a `StopThrows`, then a `Clear` | `StoppedFirst` | `WebServer.hpp:189`: the services behind the one that throws are not stopped, and the server no longer listens, so that `clear` destroys them |
| `WebServer` | `Careful` FALSE | `ServesLiving` | `WebServer.hpp:167`: `clear` tests `isListening` without the lock |
| `ServiceConfig` | `Unended` | `LoadsWhatIsMeant` | `net/src/WebServer.cpp:250`: a last line without its end is dropped |
| `JSONText` | the piece `-` | `ReadsJSON` | `json/reader.inl:478`: a token that converts to nothing is a number |
| `JSONText` | a text cut behind a comma | `NeverPastEnd` | `json/reader.inl:408`: the assertion at the end of the tokens |
| `JSONDocument` | a name with a quote | `RoundTrip` | `json/writer.inl:85`: names are written without escapes |
| `TestDB` | a content that is not an array | `DataKept` | `Backend/lib/TestDB.cpp:39`: reading changes the document |
| `Blob` | `Concurrent` | `NothingLeaks` | `common/include/pion/PionBlob.hpp:81`: two releases both see another holder |
| `Blob` | `SelfAssign` | `ContentKept` | `PionBlob.hpp:183`: released before it is grabbed |
| `TCPStream` | `Spurious`, writing | `PeerGetsPrefix` | `net/include/pion/net/TCPStream.hpp:125`: a wait without a loop sends bytes again |
| `TCPStream` | `UngetAfterFailure` | `ReadsInOrder` | `TCPStream.hpp:151`: the buffer is rearranged before a read that fails |

Seen while reading, and not modelled: `ShutdownManager`'s signal handler locks a
mutex; `HTTPRequest::changeResource` does not clear the first line that was built;
the copy of an `HTTPMessage` leaves out its cookies; a file that was removed while
cached is answered with 500; a second configuration file without an `auth` line
clears the authentication of the first; boost's simple `freelist` decrements its
size on both `allocate` and `deallocate`; an element of cajun that is assigned from
its own child is deleted before it is copied; a plug-in assigned to itself is
closed; services that are loaded while the server listens are never started;
a failed `overflow` leaves one byte behind `epptr`; a tag of boost's containers
comes round after 65536 swaps, which a thread that is overtaken by as many does not see.

## 5. Proofs

### RequestService

`RequestService_proofs` proves, for every `Conn`, `Worker`, `Caller` and `MaxRequests`
that satisfy `ServiceAssumption` (`MaxRequests` is a natural number, `NoConn` is not a
connection, `Free` not a thread), that `Spec` implies `TypeOK`, `OneOwner`,
`QuietWhenDown`, `AcceptLoopAlive`, `AnswersInOrder` and the action property
`BusyStaysOpen`, however the calls of `start` and `stop` overlap; and that
`Spec /\ []CallsApart` implies `NoSelfDeadlock` and `AcceptLoopIntact`. Without
`CallsApart`, which says that at most one call is under way, these two are false
(section 4). No finiteness is assumed.

They are not inductive as they stand. The invariant `IInv` joins `TypeOK` with:

* `Ownership`: a thread serves a connection exactly while it is not idle, alone,
  and no operation is outstanding on that connection;
* `Pooled`: what is outstanding or served is in the pool, and the pool is empty
  when the server does not listen and nobody waits in `stop`. This gives `QuietWhenDown`;
* `TimersGuardReads`: a timer runs only while its read is outstanding, which is
  why it cannot hit a response (`BusyStaysOpen`);
* `LockInv`: between steps only a thread on the keep-alive path of
  `finishConnection` holds the mutex, at the points of that path, while the server
  listens;
* `FreshCloses`: a connection being accepted has the lifecycle that closes it, so
  a failed accept is not kept alive;
* `AcceptLoopAlive`.

Of calls that do not overlap a second invariant, `SerialInv`, holds as well:

* `CallsEmpty`: a `start` in front of its `listen` finds the pool empty, and the server
  does not listen while a `stop` waits;
* `KeptIsOpen`: while the server listens, a connection that `finishConnection`
  would keep alive is open;
* `LockOpen`: hence the connection the mutex is kept for is open and not being
  finished (its timer was cancelled, and `stop(false)` needs the mutex to close it). So
  `send` does not find it closed, and `handleRequest` does not call `finish` on that
  stack: this is why there is no self-deadlock;
* `AcceptLoopIntact`: the only `listen` from outside of the loop finds none.

There is one lemma per action that it preserves `IInv`, and one that it preserves
`SerialInv`, with one step per conjunct. TLC finds `IInv` to hold in the instance of
`service_safety` and `SerialInv` in that of the pipelining part.

`AnswersInOrder` rests on a second invariant, `Order`, that is inductive together
with `IInv`. Of every stream it says that the answers are `1..n` (`Exact`), and for
every place of a connection where its stream stands: nothing is left to parse while
a read is outstanding (`Drained`), the last request taken has been answered when
the parser goes on (`Caught`), it is the one being handled until the response is
written (`InHand`), and a connection that is kept alive without pipelining has
nothing left in its buffer (`Kept`). A connection outside of the pool has a fresh
stream. The order then follows although requests are cut, pipelined and handled
by different threads, since the place decides which request is next.

### LockedQueue

`Shared_proofs` proves, for any sets of producers, consumers, pollers and
items, any limit and with spurious wake-ups and stops or without, that `Spec`
implies `TypeOK` and `ImplementsFifo`: the list behind its dummy node, the items of
pushes that have not linked theirs and the items of pops that have not returned
are a behaviour of `Fifo`. The mapping ignores locks, versions, counts and the list
of idle threads, so the invariant is small: `TypeOK`, which says that the list
always has its dummy, and `Holding`, which says that a producer has an item exactly
while it is in `push`, and a consumer exactly after it has taken one. Each action is
shown to be a step of `Fifo` or a stutter.

`LimitOverrunByOneEach` proves `Overrun` for finitely many threads: at most one item
per producer but one lies beyond `MaxSize`. `push` compares `m_size` with the limit
outside of the lock, so the invariant `Sized` counts what is under way: `m_size` is
the length of the list, plus the takers that have not counted down, less the item
that is linked and not counted; and the items together with the producers that have
found room stay within the bound. A producer that finds room sees `m_size` below the
limit; all the others may have found it before.

### LockFreeQueue

`LockFreeQueue_proofs` proves of boost's `fifo`, for any producers, consumers, items, calls
and finite memory (`QueueAssumption`), that it implements `Fifo` (`QueueIsFifo`), that a node
is linked, free, unused or in the hands of one thread and the tail is a linked node
(`QueueNodesApart`), and that `pop` says "empty" only of a queue that was
(`EmptyIsNeverMistaken`). `KeepsTags` is assumed: a node that is used again goes on with the
tag of its next pointer. `PionLockFreeQueue` starts it at zero, and with two producers TLC
finds the link that is put into a node of the free list (section 4). As for the
stack, `TagsTell` is assumed of the three words that are compared, the head, the tail and a
next pointer; with 1 or 2 tags the queue is not a `Fifo`, and with 2 tags and `TagsTell` it
is.

The walks and their lemmas are those of the stack. The invariant says of the lists that
the queue is a chain from its dummy to a node without a link, that the tail is on it
and that nothing is in two places (`Lists`); that the nodes behind the dummy have items
(`Placed`); and of every thread what its copies are worth (`Copies`). A tail with the tag
of the copy is the copy. The next pointer that a producer has read has at most the tag it
has now; if that tag is the same at the link, the node is the last of the queue, also when
the tail has moved on meanwhile. A consumer that finds the head unchanged knows that
what it read after it is true of the head: the node behind it, its item, and that the tail
was further on if it read another one, so that the head never passes the tail.

What a step does to the others is proved once per kind, not once per pair of actions. Every step is
one of five (`Kinds`): it takes a node out of memory, links it, takes the dummy off, gives a
node back, or leaves the lists alone and at most moves the tail on. Each of them keeps the
lists, lets tags only grow and leaves the links inside the queue and its items as
they are (`Onward`), and does not touch what other threads hold (`Untouched`); from these
alone the copies of all other threads stay right (`OthersSound`).

### LockFreeStack

`LockFreeStack_proofs` proves, for any threads, items, calls and finite memory, and for
both free lists (`StackAssumption`), that a node is in one place, in one stack, unused or
in the hands of one thread (`NodesInOnePlace`), and that the stack implements `Lifo`
(`StackIsLifo`). Both assume `TagsTell`: no top is swapped `Tags` times between the
moment a thread copies it and its own swap. The tag has 16 bits (`Tags` is 2^16), and with
1 or 2 tags TLC finds the node that is taken twice: the containers are correct as long as
no thread is overtaken by 65536 swaps inside one call. Without a tag the theorem would be
false, and with the assumption it is the whole argument: an equal pointer with an equal
tag is the same top, and nothing below an unchanged top has changed.

A stack is what a walk along the links finds, so the proof is about walks of any length.
What induction would show is shown by the least counterexample (`LeastElement`, from the
well-founded order of the numbers): a walk follows the links and stops at `NULL`
(`WalkFinds`), a sequence that does so is the walk (`Chained`), and a link written
elsewhere does not disturb it (`OtherLink`). The invariant has four parts: `Typed`, which
says what a thread has where it stands; `Lists`, that both stacks are finite chains
without a node twice and apart from each other and from what is unused; `Placed`, that a
thread holds its node alone and, before it puts it on the items, with its item in it;
`Copies`, that a copy is no newer than the top, and if the top has not changed the next
pointer that goes with it is still the link of the top.

### Blob

`Shared_proofs` proves, for any finite sets of blobs and addresses and any contents,
with threads that release at the same time or one after another (`BlobAssumption`),
that `BlobSpec` implies `NeverFreedInUse` and `CountsHolders`, and, where no blob is
assigned to itself, the action property `ContentKept`. The invariant joins
`BlobTypeOK`, `NeverFreedInUse` and `CountsHolders` with `CallsStand`: a call that
has read a count of zero stays the only holder, since nobody copies a blob that is
being changed, and a source is idle while it is copied. The count is compared with
the cardinality of a set of blobs, for which the lemmas cite `FiniteSetTheorems`.

Where blobs are used by one thread (`~Concurrent`), memory that no blob refers to
has been given back (`MemoryIsGivenBack`). Here the invariant adds `OneCall`: one
call is under way, and the count it has read is still the count, so that who
decrements is not the last. With two threads both may read a count above zero, and
the memory is lost (section 4).

### CacheDB

`CacheDB_proofs` proves, for any number of backends and of failures, that `Spec`
implies `LaunchComplete` (the parts `SchemaBeforeServing` and `LaunchRepairsData`),
the action property `CacheOnlyGrows`, and that inserts find their tables. The
invariant `Progress` says how far a launch has brought the database, whoever else
works on it: at statement `at[p]` the tables or, in a clean launch, the rows of the
statements before are there. It is inductive because nothing is ever deleted, which
is why the two theorems need each other. The step that is not obvious is an insert
that the constraints refuse: the row is then in the table already, since every row
is one of the test data, no two of which conflict (`Conflicts`).

### Plugins

`Shared_proofs` proves under `PluginsAssumption` (finitely many plug-in objects,
`NULL` is none of the values) that no pointer dangles and `m_references` counts the
objects of a library (`TypeOK /\ CountsObjects`), and that `Spec` implies
`ImplementsLibraries`. The invariant adds `Apart`: the object a thread works on is
its own and is empty between `releaseData` and the next plug-in. The count is
compared with the cardinality of the objects that point at the data (`OneSharerMore`,
`OneSharerLess`). Under the mapping a library is held by the objects whose data
names it, and every action is a step of `Libraries` or a stutter.

### PluginManager

`Shared_proofs` proves, for any threads, identifiers and plug-ins
(`ManagerAssumption` keeps the values apart), that `ManagerSpec` implies
`PluginObjectsLive`, which says, too, that `load` returns the object it has put under the
identifier as long as callers take turns (`UsesManaged`). However the calls mix,
`ThreadsStand` says what a thread has where it stands, `HandsApart` that an object which
is not managed yet is in the hands of one thread, and `EntriesLive`, which is part of the
property, that an entry has a living object of its own. The rest is what only careful
callers keep, `TurnsTaken` and `KeepsPlugin`: an identifier stays free until `load`
inserts, and keeps its object until the caller has used it; an object in a thread's hands
was made by the plug-in the thread or its identifier has, so that an entry always has an
object made by the plug-in it points to (`MadeByItsPlugin`) and the code of every object
is loaded (`KeepsCode`). A caller that removes or loads under the identifier of another's
clone breaks this, and the theorem does not claim it for such callers.

### ResourceHandler

`ResourceHandler_proofs` proves, for any set of the five resources, any reachable
table and any number of filters (`HandlerAssumption`), that `Spec` implies `TypeOK`
and the action properties `WholeTable`, `ViewCounts` and `LookupByIdExact`. The
invariant follows the rows of a statement: what has been shown and what is still to
come are together the table (`Listing`), or number the rows the filters let through,
with the first item that of a row among them (`Viewing`); between two statements
nothing is left of the last one (`Fresh`). `Listing` stays true while another backend
inserts, since an insert waits for the statement. That an identifier is looked up
exactly needs three facts about the handlers' tables, each by cases over the five
resources: an item shows under a key the column it filters (`KeysShown`), no two keys
filter the same column (`KeysApart`), and rows with one identifier are one row
(`IdOf`).

### TCPStream

`Web_proofs` proves, for buffers of any size that `StreamAssumption` admits (a
write buffer of two bytes or more, a read buffer longer than its put-back area), any
calls and a connection that may close at any time, that the peer receives what was
written, in that order, each byte once, and that nothing is lost as long as no write
has failed (`WritesArrive`); and, where nothing is put back after a read that failed,
`StreamsInOrder`. Both assume that a wait ends only with its signal
(`~Spurious`): without the assumption they are false, since the wait has no loop
(section 4). `StreamWaiting` says that the user sleeps exactly while the one operation it
has started is under way. `Behind` says where the bytes are that the peer does not
have: in the buffer, behind that in what `xsputn` still has to copy, and in order; the
buffer is not full between calls, so that `xsputn` never computes a negative room.
A write fails only on a closed connection, and every later one is then late and sends
nothing (`WriteSide`). `ReadSide` says that memory around `gptr` holds the bytes the
peer sent, also in front of it until a read fails: `underflow` has then moved the
bytes to be put back without moving the pointers.

### Scheduler

`Scheduler_proofs` proves for both schedulers, any number of threads and finitely
many users (`SchedulerAssumption`) that no thread of the pool is left once
`shutdown` has returned, whatever users do (`NoThreadIsLeft`). The invariant adds
`Counted` (`m_active_users` counts the users that have added themselves; one that is
adding itself is not counted twice) and `Stopping` (who stops the threads holds the
mutex, and the scheduler does not run). For orderly users, of whom none is inside
`addActiveUser` while another shuts down, `UsersHaveThreads` states
`ThreadsForUsers`; `Ordered` adds that who is about to be counted finds the scheduler
running. Without the assumption the claim is false (section 4).

### WebServer

`Web_proofs` proves `ServicesInOrder` for any number of controllers, connections,
resources and services (`WebServerAssumption`): if controllers take turns
(`Careful`), no request is in a service that is gone; as long as none was loaded while
the server listened (`orderly`), each is in one that is started and not stopped, also
after starts and stops that threw; and as long as none has thrown (`thrown`), a service is
stopped before it is destroyed. The invariant says that one controller is inside a
call (`OneAtATime`); that connections are open only from `start` until `stop` has waited for
the last of them, and who clears does not listen (`Quiet`); that the living services
are the managed ones and a resource is bound to the service managed for it, except
halfway through a `clear` (`Bound`); and that requests are in living services
(`InService`). `StartedWhileUp` says that the managed services are started while the
server is up or waits for its connections, if it is `orderly`, and that nothing else is as
long as nothing has thrown.

### HTTPAuth

`Web_proofs` proves, for any requests, users, cookies, expiration and delay
(`AuthAssumption`: `None` is no user, key, entry or answer, and times are natural
numbers), that `Spec` implies `SessionsAreOwn`, and, if no cookie is drawn twice,
the action property `SessionsEndInTime`. `Timely` relates the times: an entry's time is at most
`MaxDelay` behind its last use; when the cache was cleaned up last no entry had been
idle for more than the expiration; hence a request at its lookup has read a clock
that is at most twice the expiration ahead of any entry's last use. This includes
requests that read the clock, were overtaken by a cleanup, and look up later.
`Sessions` says that a cookie is sent to one user and none twice; that it is cached
for that user and never again after its logout, so that a late request finds
nothing; and that a request that passed with a user came with that user's cookie
before the logout. A cookie drawn twice breaks both: the second login inserts
nothing and the entry keeps the time and the user of the first.

### Only model-checked

* All liveness: `ClosingEnds`, `KeepsAccepting` and the properties of
  `threads_liveness`, under the fairness of section 3.
* `PionLockFreeQueue`, whose nodes start with the tag zero again (`KeepsTags` FALSE), with
  one producer, and its `clear`: with two producers it does not implement `Fifo` (section 4).
* The parsers, conversions and JSON (`MessagesParsed`, `EncodingsAgree`,
  `ReadsWhatIsWritten`): recursion over their input.
* `HTTPWriter`, `FileService`, `HTTPServer` and `ServiceConfig` have no proofs, so
  that `ReceiverGetsContent`, `FilesAsOnDisk`, `RequestsReachHandlers` and
  `ConfigDoesWhatItSays` are checked by the runs alone. The parts of `Accounted` are
  theorems, of the lock-free queues for boost's alone.
* The proofs leave out a wait of a stream that ends without its signal, and bytes
  that are put back after a failed read.

## 6. Not modelled

* The browser front end: responders, panes and views over SproutCore, which is not
  in the repository; its data source is a stub and it runs on fixtures.
* The derived test databases, which only hold texts of fixed data.
* SSL, the dates of `HTTPTypes`, hashes of passwords, first lines and cookies of
  messages, visitors of cajun, MIME types: they convert or forward and keep no state
  that a property would be about.
* Allocator pools, identifiers, logging, hash maps, process and admin rights, the
  sample services, `ringbuffer` and the simple `freelist`, which nothing here uses.
* Option parsing in `main`; SQLite, asio and the C++ library, which are external.

## 7. Plan

1. `RequestService`, `CacheDB`, `ResourceHandler`, their runs, and the safety
   proofs of the first (done).
2. The rest of pion-net and cajun, with abstract specifications of the queues, the
   stack and the libraries and the refinements; proofs for `LockedQueue` and `Blob`
   (done).
3. Theorems on the order of answers, `CacheDB`, `Plugins`, `Scheduler`, `WebServer`,
   `HTTPAuth`, the limit of the locked queue and the memory of blobs (done).
4. Further theorems about these components: for `Scheduler` that work is run only
   by threads of the pool, for `HTTPAuth` what remains true if a cookie is drawn
   twice, for `LockedQueue` what the list of idle consumers guarantees without
   spurious wake-ups.
5. Theorems about `ResourceHandler`, `PluginManager`, `TCPStream`, `LockFreeStack` and
   `LockFreeQueue` (done).
