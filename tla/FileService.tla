---------------------------- MODULE FileService ----------------------------
(***************************************************************************)
(* The web service that serves files (services/FileService.cpp), for one   *)
(* file: its cache, the scan at the start, the sender that delivers a file *)
(* in pieces, and the methods that change the file.  Several threads run   *)
(* requests; other programs, and other requests, change the file at any    *)
(* moment between two accesses to the disk.                                *)
(*                                                                         *)
(* Paths, MIME types and the wording of answers are left out; a target     *)
(* outside of the directory, that is a directory or whose directory does   *)
(* not exist is its own case.                                              *)
(***************************************************************************)
EXTENDS HTTPMessage, FiniteSets

CONSTANTS
    Threads,     \* threads that run requests
    Options,     \* the options a service may be configured with
    Requests,    \* the requests that come: records [method, target, version, body, conditional]
    Contents,    \* what other programs write to the file
    Failures,    \* other programs may also take away the right to read the file
    Coarse,      \* two changes may happen in the same second
    MaxTime,     \* bound: seconds
    MaxFiles,    \* bound: how often the file is created
    MaxLength    \* bound: its length

VARIABLES
    opt,       \* m_cache_setting, m_scan_setting, m_max_chunk_size, m_writable
    running,   \* between start() and stop()
    now,       \* the clock, in seconds
    inodes,    \* the files that were created under the name: content and time
    ino,       \* the one the name stands for, 0 for none
    readable,  \* it can be opened, for reading and for writing
    m_cache_map, \* the entry of the file: <<>> or <<DiskFile>>
    lock,      \* the threads that hold m_cache_mutex: {} or {t}
    job        \* what each thread does

vars == <<opt, running, now, inodes, ino, readable, m_cache_map, lock, job>>

disk == <<now, inodes, ino, readable>>

-----------------------------------------------------------------------------
(* DiskFile.                                                               *)

\* content is what the buffer holds, has whether there is one.
NoFile == [m_last_modified |-> 0, m_file_size |-> 0, has |-> FALSE, content |-> <<>>]

update(f) == [f EXCEPT !.m_last_modified = inodes[ino].mtime, !.m_file_size = Len(inodes[ino].content)]

\* read(): the buffer is new; what cannot be read of it stays as it was allocated.
ReadWorks(f) == ino # 0 /\ readable /\ Len(inodes[ino].content) >= f.m_file_size

\* Mutant: a buffer that is there is kept.
readOnce(f) ==
    IF f.has THEN f ELSE [f EXCEPT !.has = TRUE, !.content = inodes[ino].content]

read(f) ==
    [f EXCEPT !.has = TRUE,
        !.content = [i \in 1..f.m_file_size |->
            IF ino # 0 /\ readable /\ i <= Len(inodes[ino].content)
            THEN inodes[ino].content[i] ELSE "Undef"]]

\* The test of checkUpdated.
Unchanged(f) == f.m_last_modified = inodes[ino].mtime /\ f.m_file_size = Len(inodes[ino].content)

-----------------------------------------------------------------------------
(* start, stop and the options.                                            *)

\* A cache entry for the file, as addCacheEntry makes it: a placeholder, or the
\* file's content; none if it cannot be read.
scanned(o) ==
    IF o.m_scan_setting = 0 \/ ino = 0 THEN <<>>
    ELSE IF o.m_scan_setting = 1 THEN <<NoFile>>
    ELSE IF ReadWorks(update(NoFile)) THEN <<read(update(NoFile))>> ELSE <<>>

\* The constructor's settings.
DefaultOptions == [m_cache_setting |-> 1, m_scan_setting |-> 0, m_max_chunk_size |-> 0, m_writable |-> FALSE]

NoJob == [pc |-> "idle", request |-> <<>>, since |-> 0, file |-> NoFile, w |-> NewWriter(Message, FALSE),
          keepAlive |-> TRUE, stream |-> 0, m_bytes_sent |-> 0, m_file_bytes_to_send |-> 0,
          pending |-> <<>>, wire |-> <<>>, status |-> 0, calm |-> TRUE, known |-> FALSE]

\* Every other request learns, for the properties, that the file has changed or the
\* service was stopped; one that is finished is forgotten.
Stirred(j, others) ==
    [u \in Threads |-> IF u \notin others THEN j[u]
                       ELSE IF j[u].pc \in {"idle", "done"} THEN NoJob ELSE [j[u] EXCEPT !.calm = FALSE]]

\* setOption, before the service is started for the first time.
SetOption ==
    /\ ~running
    /\ \A t \in Threads : job[t] = NoJob
    /\ opt' \in Options
    /\ UNCHANGED <<running, disk, m_cache_map, lock, job>>

\* start(): scan settings 2 and 3 force caching.  insert() keeps an entry that is there.
Start ==
    /\ ~running
    /\ opt \in Options
    /\ lock = {}
    /\ running' = TRUE
    /\ opt' = IF opt.m_scan_setting > 1 /\ opt.m_cache_setting = 0
              THEN [opt EXCEPT !.m_cache_setting = 1] ELSE opt
    /\ m_cache_map' = IF m_cache_map = <<>> THEN scanned(opt') ELSE m_cache_map
    /\ UNCHANGED <<disk, lock, job>>

\* stop() clears the cache; requests may still be running.
Stop ==
    /\ running
    /\ lock = {}
    /\ running' = FALSE
    /\ m_cache_map' = <<>>
    /\ job' = Stirred(job, Threads)
    /\ UNCHANGED <<opt, disk, lock>>

-----------------------------------------------------------------------------
(* Requests.                                                               *)

To(t, pc) == [job[t] EXCEPT !.pc = pc]

\* An answer without the file's content is sent as a whole.
Answered(j, status) ==
    [NoJob EXCEPT !.pc = "done", !.request = j.request, !.status = status, !.keepAlive = j.keepAlive,
                  !.wire = j.wire, !.calm = j.calm, !.known = j.known]
Answer(t, status) == Answered(job[t], status)

\* The DiskFileSender of file f.
SendFile(t, f) ==
    [job[t] EXCEPT !.pc = "send", !.file = f, !.status = 200,
        !.w = ResponseWriterFor(job[t].request.version)]

\* What a GET or HEAD gets of a file whose size and time are known.
Respond(t, f) ==
    CASE f.m_last_modified = job[t].since -> Answer(t, 304)
      [] f.m_last_modified # job[t].since /\ job[t].request.method = "HEAD" -> Answer(t, 200)
      [] OTHER -> SendFile(t, f)

\* operator(): the checks before the method is looked at, and the methods that
\* need no disk.  since is the time in If-Modified-Since, 0 without that header; a
\* request that has it names the time the file has.  known is for the
\* properties: the file was there when the service was started.
Begin(t, r) ==
    LET uses == opt.m_cache_setting > 0 \/ opt.m_scan_setting > 0
        since == IF r.conditional THEN now ELSE 0
        b == [NoJob EXCEPT !.request = r, !.since = since, !.keepAlive = checkKeepAlive(r.version, ""),
                           !.known = m_cache_map # <<>>]
        At(pc) == [b EXCEPT !.pc = pc]
        Refused(status) == Answered(b, status)
    IN /\ running
       /\ job[t].pc \in {"idle", "done"}
       /\ job' = [job EXCEPT ![t] =
            CASE r.target = "unset" -> Refused(404)
              [] r.target \in {"outside", "directory"} -> Refused(403)
              [] r.target = "file" /\ r.method \in {"GET", "HEAD"} -> At(IF uses THEN "lookup" ELSE "exists")
              [] r.target = "nowhere" /\ r.method \in {"GET", "HEAD"} -> Refused(404)
              [] r.target \in {"file", "nowhere"} /\ r.method \in {"POST", "PUT", "DELETE"} ->
                   IF ~opt.m_writable THEN Refused(405)
                   ELSE IF r.target = "file" THEN At("modify") ELSE Refused(404)
              [] OTHER -> Refused(501)]
       /\ UNCHANGED <<opt, running, disk, m_cache_map, lock>>

\* The cache is searched under its mutex.
Lookup(t) ==
    /\ job[t].pc = "lookup"
    /\ lock = {}
    /\ IF m_cache_map = <<>>
       THEN /\ job' = [job EXCEPT ![t] = IF opt.m_scan_setting \in {1, 3} THEN Answer(t, 404) ELSE To(t, "exists")]
            /\ UNCHANGED lock
       ELSE lock' = {t} /\ job' = [job EXCEPT ![t] = To(t, "check")]
    /\ UNCHANGED <<opt, running, disk, m_cache_map>>

\* An exception of the file system, in HTTPServer's handler: the mutex is released.
Throw(t) ==
    /\ job' = [job EXCEPT ![t] = Answer(t, 500)]
    /\ lock' = lock \ {t}

\* An entry is there: it is used, brought up to date, or only names the file.
Check(t) ==
    LET e == Head(m_cache_map)
        cached == opt.m_cache_setting > 0
        first == cached /\ e.m_last_modified = 0
        stale == opt.m_cache_setting = 1 /\ ~first
        stats == ~cached \/ first \/ stale
    IN /\ job[t].pc = "check"
       /\ \/ stats /\ ino = 0 /\ Throw(t) /\ UNCHANGED m_cache_map
          \/ /\ ~cached /\ ino # 0
             /\ job' = [job EXCEPT ![t] = Respond(t, update(NoFile))]
             /\ lock' = {}
             /\ UNCHANGED m_cache_map
          \/ /\ first \/ (stale /\ ino # 0 /\ ~Unchanged(e))
             /\ ino # 0
             /\ m_cache_map' = <<update(e)>>
             /\ job' = [job EXCEPT ![t] = To(t, "fill")]
             /\ UNCHANGED lock
          \/ /\ cached /\ ~first /\ (stale => ino # 0 /\ Unchanged(e))
             /\ job' = [job EXCEPT ![t] = Respond(t, e)]
             /\ lock' = {}
             /\ UNCHANGED m_cache_map
       /\ UNCHANGED <<opt, running, disk>>

\* The file is read into the entry.
Fill(t) ==
    LET e == read(Head(m_cache_map)) IN
    /\ job[t].pc = "fill"
    /\ m_cache_map' = <<e>>
    /\ IF ReadWorks(e)
       THEN job' = [job EXCEPT ![t] = Respond(t, e)] /\ lock' = {}
       ELSE Throw(t)
    /\ UNCHANGED <<opt, running, disk>>

\* No entry: the file itself is looked at,
Exists(t) ==
    /\ job[t].pc = "exists"
    /\ job' = [job EXCEPT ![t] = IF ino = 0 THEN Answer(t, 404) ELSE To(t, "stat")]
    /\ UNCHANGED <<opt, running, disk, m_cache_map, lock>>

StatFile(t) ==
    LET f == update(NoFile)
        full == job[t].request.method = "GET" /\ f.m_last_modified # job[t].since
    IN /\ job[t].pc = "stat"
       /\ IF ino = 0 THEN Throw(t)
          ELSE /\ job' = [job EXCEPT ![t] =
                     IF full /\ opt.m_cache_setting # 0 THEN [To(t, "read") EXCEPT !.file = f] ELSE Respond(t, f)]
               /\ UNCHANGED lock
       /\ UNCHANGED <<opt, running, disk, m_cache_map>>

\* read,
ReadFile(t) ==
    /\ job[t].pc = "read"
    /\ IF ReadWorks(job[t].file)
       THEN job' = [job EXCEPT ![t] = [To(t, "insert") EXCEPT !.file = read(@)]] /\ UNCHANGED lock
       ELSE Throw(t)
    /\ UNCHANGED <<opt, running, disk, m_cache_map>>

\* and added to the cache, unless another request was faster.
Insert(t) ==
    /\ job[t].pc = "insert"
    /\ lock = {}
    /\ m_cache_map' = IF m_cache_map = <<>> THEN <<job[t].file>> ELSE m_cache_map
    /\ job' = [job EXCEPT ![t] = SendFile(t, job[t].file)]
    /\ UNCHANGED <<opt, running, disk, lock>>

-----------------------------------------------------------------------------
(* DiskFileSender.                                                         *)

\* The bytes of the next piece.
PieceLength(t) ==
    LET left == job[t].file.m_file_size - job[t].m_bytes_sent IN
    IF opt.m_max_chunk_size > 0 /\ left > opt.m_max_chunk_size THEN opt.m_max_chunk_size ELSE left

\* The stream is opened once and goes on reading what it opened.
StreamOf(t) == IF job[t].stream # 0 THEN job[t].stream ELSE IF readable THEN ino ELSE 0

\* The next piece is read, from the cached content or from the stream.
Piece(t) ==
    LET j == job[t]
        from == IF j.file.has THEN j.file.content ELSE inodes[StreamOf(t)].content
    IN SubSeq(from, j.m_bytes_sent + 1, j.m_bytes_sent + PieceLength(t))

PieceThere(t) ==
    \/ job[t].file.has
    \/ /\ StreamOf(t) # 0
       /\ Len(inodes[StreamOf(t)].content) >= job[t].m_bytes_sent + PieceLength(t)

\* sendMoreData with what the writer has, as chunks or as a whole.
Sending(t, w, keepAlive, final) ==
    [job[t] EXCEPT !.pc = "flush", !.keepAlive = keepAlive, !.stream = StreamOf(t),
        !.m_file_bytes_to_send = Len(w.buffers),
        !.pending = prepareWriteBuffers(w, keepAlive, final), !.w = Prepared(w, keepAlive)]

\* send(): an empty file, the whole file, a chunk or the last one of a series.  A
\* file that cannot be opened or has become too short is logged, and that is all.
SendPiece(t) ==
    LET j == job[t]
        n == PieceLength(t)
        w == writeNoCopy(j.w, Piece(t))
        last == j.m_bytes_sent + n >= j.file.m_file_size
        chunks == [w EXCEPT !.sending = TRUE]
    IN /\ j.pc = "send"
       /\ job' = [job EXCEPT ![t] =
            CASE n = 0 -> Sending(t, j.w, j.keepAlive, FALSE)
              [] n > 0 /\ ~PieceThere(t) -> To(t, "stuck")
              [] n > 0 /\ PieceThere(t) /\ last /\ j.m_bytes_sent = 0 -> Sending(t, w, j.keepAlive, FALSE)
              [] n > 0 /\ PieceThere(t) /\ last /\ j.m_bytes_sent > 0 -> Sending(t, chunks, j.keepAlive, TRUE)
              [] OTHER -> Sending(t, chunks, j.keepAlive /\ w.supports, FALSE)]
       /\ UNCHANGED <<opt, running, disk, m_cache_map, lock>>

\* handleWrite: the rest is sent, or the connection is finished.
HandleWrite(t) ==
    LET j == job[t]
        sent == j.m_bytes_sent + j.m_file_bytes_to_send
        s == [j EXCEPT !.wire = @ \o j.pending, !.pending = <<>>, !.m_bytes_sent = sent]
    IN /\ j.pc = "flush"
       /\ job' = [job EXCEPT ![t] = IF sent >= j.file.m_file_size THEN Answered(s, j.status)
                                    ELSE [s EXCEPT !.pc = "send", !.w = clear(@)]]
       /\ UNCHANGED <<opt, running, disk, m_cache_map, lock>>

HandleWriteError(t) ==
    /\ job[t].pc = "flush"
    /\ job' = [job EXCEPT ![t] = [Answer(t, 0) EXCEPT !.keepAlive = FALSE]]
    /\ UNCHANGED <<opt, running, disk, m_cache_map, lock>>

-----------------------------------------------------------------------------
(* The file changes.                                                       *)

\* A change sets the time of the file; unless changes may share a second, one passes.
Moment == IF Coarse THEN now ELSE now + 1

\* POST and PUT: whether the file exists decides between 201 and 204.
LookForWriting(t) ==
    /\ job[t].pc = "modify"
    /\ job[t].request.method \in {"POST", "PUT"}
    /\ job' = [job EXCEPT ![t] = [To(t, "open") EXCEPT !.status = IF ino = 0 THEN 201 ELSE 204]]
    /\ UNCHANGED <<opt, running, disk, m_cache_map, lock>>

\* The file is opened: created or, for PUT, emptied.
OpenForWriting(t) ==
    LET empty == [content |-> <<>>, mtime |-> Moment] IN
    /\ job[t].pc = "open"
    /\ ino # 0 => readable
    /\ Moment <= MaxTime
    /\ IF ino = 0 THEN /\ Len(inodes) < MaxFiles
                       /\ inodes' = Append(inodes, empty)
                       /\ ino' = Len(inodes')
       ELSE /\ inodes' = IF job[t].request.method = "PUT" THEN [inodes EXCEPT ![ino] = empty] ELSE inodes
            /\ UNCHANGED ino
    /\ now' = Moment
    /\ job' = Stirred([job EXCEPT ![t] = [To(t, "write") EXCEPT !.stream = ino']], Threads \ {t})
    /\ UNCHANGED <<opt, running, readable, m_cache_map, lock>>

\* It cannot be opened: what is written to the stream is lost, and nothing tells.
OpenFails(t) ==
    /\ job[t].pc = "open"
    /\ ino # 0 /\ ~readable
    /\ job' = [job EXCEPT ![t] = Answer(t, job[t].status)]
    /\ UNCHANGED <<opt, running, disk, m_cache_map, lock>>

\* The content is written where the stream is, and the stream is closed; the
\* answer is an error if the name is gone by now.
WriteContent(t) ==
    LET j == job[t]
        old == inodes[j.stream].content
        new == IF j.request.method = "POST" THEN old \o j.request.body
               ELSE j.request.body \o SubSeq(old, Len(j.request.body) + 1, Len(old))
    IN /\ j.pc = "write"
       /\ Moment <= MaxTime
       /\ Len(new) <= MaxLength
       /\ inodes' = [inodes EXCEPT ![j.stream] = [content |-> new, mtime |-> Moment]]
       /\ now' = Moment
       /\ job' = Stirred([job EXCEPT ![t] = Answer(t, IF ino = 0 THEN 500 ELSE j.status)], Threads \ {t})
       /\ UNCHANGED <<opt, running, ino, readable, m_cache_map, lock>>

\* DELETE: remove() may fail.
Delete(t) ==
    /\ job[t].pc = "modify"
    /\ job[t].request.method = "DELETE"
    /\ \/ ino = 0 /\ job' = [job EXCEPT ![t] = Answer(t, 404)] /\ UNCHANGED ino
       \/ ino # 0 /\ ino' = 0 /\ job' = Stirred([job EXCEPT ![t] = Answer(t, 204)], Threads \ {t})
       \/ ino # 0 /\ Failures /\ job' = [job EXCEPT ![t] = Answer(t, 500)] /\ UNCHANGED ino
    /\ UNCHANGED <<opt, running, now, inodes, readable, m_cache_map, lock>>

\* Another program writes the file, removes it or creates it.
OtherWrites(content) ==
    /\ Moment <= MaxTime
    /\ LET f == [content |-> content, mtime |-> Moment] IN
       IF ino # 0 THEN inodes' = [inodes EXCEPT ![ino] = f] /\ UNCHANGED ino
       ELSE /\ Len(inodes) < MaxFiles
            /\ inodes' = Append(inodes, f)
            /\ ino' = Len(inodes')
    /\ now' = Moment
    /\ job' = Stirred(job, Threads)
    /\ UNCHANGED <<opt, running, readable, m_cache_map, lock>>

OtherRemoves ==
    /\ ino # 0
    /\ ino' = 0
    /\ job' = Stirred(job, Threads)
    /\ UNCHANGED <<opt, running, now, inodes, readable, m_cache_map, lock>>

\* The right to read the file is taken away or given back: its time stays.
OtherChangesMode ==
    /\ Failures
    /\ readable' = ~readable
    /\ job' = Stirred(job, Threads)
    /\ UNCHANGED <<opt, running, now, inodes, ino, m_cache_map, lock>>

-----------------------------------------------------------------------------
Init ==
    /\ opt = DefaultOptions
    /\ running = FALSE
    /\ now = 1
    /\ \E c \in Contents : inodes = <<[content |-> c, mtime |-> 1]>>
    /\ ino \in {0, 1}
    /\ readable = TRUE
    /\ m_cache_map = <<>>
    /\ lock = {}
    /\ job = [t \in Threads |-> NoJob]

\* What the thread of a request does by itself.
Step(t) ==
    \/ Lookup(t)
    \/ Check(t)
    \/ Fill(t)
    \/ Exists(t)
    \/ StatFile(t)
    \/ ReadFile(t)
    \/ Insert(t)
    \/ SendPiece(t)
    \/ HandleWrite(t)
    \/ LookForWriting(t)
    \/ OpenForWriting(t)
    \/ OpenFails(t)
    \/ WriteContent(t)
    \/ Delete(t)

Next ==
    \/ SetOption
    \/ Start
    \/ Stop
    \/ \E t \in Threads :
         \/ \E r \in Requests : Begin(t, r)
         \/ Step(t)
         \/ HandleWriteError(t)
    \/ \E c \in Contents : OtherWrites(c)
    \/ OtherRemoves
    \/ OtherChangesMode

Spec == Init /\ [][Next]_vars

\* The threads of the scheduler run, and writes complete or fail.
FairSpec == Spec /\ \A t \in Threads : WF_vars(Step(t) \/ HandleWriteError(t))

-----------------------------------------------------------------------------
(* Properties.                                                             *)

\* Shapes of the cache, the mutex and the disk.
TypeOK ==
    /\ Len(m_cache_map) <= 1
    /\ lock \subseteq Threads /\ Cardinality(lock) <= 1
    /\ ino \in 0..Len(inodes)
    /\ \A t \in Threads : job[t].pc \in {"check", "fill"} <=> t \in lock

\* An entry that checkUpdated would take for current holds what the file holds:
\* reading a file between two changes, filling an entry twice or giving up half-way
\* never leaves old content under the new time.
EntryIsFile ==
    LET e == Head(m_cache_map) IN
    (m_cache_map # <<>> /\ ino # 0 /\ e.has /\ lock = {}
        /\ e.m_last_modified = inodes[ino].mtime /\ e.m_file_size = Len(inodes[ino].content)) => e.content = inodes[ino].content

\* The body of the answer, decoded by the framing of its headers.
Body(t) == Received(job[t].wire, FALSE, ~job[t].keepAlive).got

\* A request during which the file did not change is answered with the file as it is:
\* complete, however it was cut into chunks, from the cache or from the disk (setting 2
\* asks for old content); without content only if the file is gone or was not there
\* when settings 1 and 3 scanned; and what a PUT, POST or DELETE says is done is done
\* (where the right to write the file is missing, see PutStored).
AnswersWithFile ==
    \A t \in Threads :
        LET j == job[t]
            r == j.request
        IN (j.pc = "done" /\ j.calm /\ r.target = "file") =>
             CASE r.method = "GET" /\ j.status = 200 ->
                    opt.m_cache_setting = 2 \/ (ino # 0 /\ Body(t) = <<inodes[ino].content>>)
               [] r.method \in {"GET", "HEAD"} /\ j.status = 404 -> ino = 0 \/ ~j.known
               [] r.method \in {"GET", "HEAD"} /\ j.status = 500 -> ino = 0 \/ ~readable
               [] r.method = "PUT" /\ j.status \in {201, 204} -> ~readable \/ (ino # 0 /\ inodes[ino].content = r.body)
               [] r.method = "POST" /\ j.status \in {201, 204} -> ~readable \/ (ino # 0 /\ IsSuffix(r.body, inodes[ino].content))
               [] r.method = "DELETE" /\ j.status \in {204, 404} -> ino = 0
               [] OTHER -> TRUE

\* With scan settings 1 and 3 a file is served only if it was there at the start,
\* whatever is created later.
NoNewFiles ==
    \A t \in Threads :
        job[t].pc \in {"send", "flush", "insert", "read"} /\ job[t].calm /\ opt.m_scan_setting \in {1, 3} => job[t].known

\* FileService.hpp: "1 = cache files in memory when requested, check for any updates".
ServesUpdates ==
    \A t \in Threads :
        LET j == job[t] IN
        j.pc = "done" /\ j.calm /\ j.request.method = "GET" /\ j.status = 200 /\ opt.m_cache_setting = 1
            => ino # 0 /\ Body(t) = <<inodes[ino].content>>

\* FileServiceTests.cpp, checkResponseToPutRequestForDefaultFile: after a PUT that is
\* answered with 204 the file has the content of the request.
PutStored ==
    \A t \in Threads :
        LET j == job[t] IN
        j.pc = "done" /\ j.calm /\ j.request.method = "PUT" /\ j.status = 204
            => ino # 0 /\ inodes[ino].content = j.request.body

\* HTTPWriter.hpp, sendChunk: "Your callback function must end by calling one of
\* sendChunk() or sendFinalChunk()": a file that is being sent is sent to its end,
\* or its connection is finished.
SendingEnds ==
    \A t \in Threads : (job[t].pc = "send") ~> (job[t].pc = "done")
=============================================================================
