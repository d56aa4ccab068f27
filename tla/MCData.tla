------------------------------- MODULE MCData -------------------------------
(***************************************************************************)
(* Where the data of answers come from: the SQLite cache (CacheDB), the    *)
(* test database over the JSON library, and files.  They are explored side *)
(* by side, the first state saying which one is (part).                    *)
(***************************************************************************)
EXTENDS CacheDB, Integers, TLC

CONSTANTS Workers, NoResult

VARIABLES
    part, text, left, root, edits, doc, result, query,
    opt, running, now, inodes, ino, readable, m_cache_map, lock, job

textVars == <<text, left>>
documentVars == <<root, edits>>
queryVars == <<doc, result, query>>
fileVars == <<opt, running, now, inodes, ino, readable, m_cache_map, lock, job>>

J == INSTANCE JSON

-----------------------------------------------------------------------------
(* Texts: every one that begins like this and goes on with pieces *)

OpenObject == <<"{", "\"", "\"", ":", "1", ",">>

Grammar == INSTANCE JSONText WITH
    Starts <- {<<>>, OpenObject, Append(OpenObject, "\""), <<"[", "\"">>, <<"[", "[", "1", ",">>,
               <<"[", "{", "\"", "\"", ":">>},
    Pieces <- {<<c>> : c \in {"{", "}", "[", "]", ",", ":", "\"", "\\", "1", " "}}
                  \cup {<<"-", "1">>, J!NullText},
    MaxPieces <- 4

-----------------------------------------------------------------------------
(* Documents that a program builds *)

Building == INSTANCE JSONDocument WITH
    Names <- {<<>>, <<"a">>},
    Values <- {J!Null, J!Boolean(TRUE), J!Number(-12), J!Array(<<>>), J!Object(<<>>),
               J!String(<<"\"", "\\", "n">>), J!String(<<"LF", "\\">>)},
    MaxSize <- 2, MaxEdits <- 3

-----------------------------------------------------------------------------
(* Databases of up to three items *)

CONTENT == <<"content">>
ERROR == <<"error">>
Text(s) == J!String(<<s>>)
One(name, element) == J!Object(<<J!Member(<<name>>, element)>>)
Items == {One("id", Text("1")), One("id", Text("2")), One("id", J!Null), One("name", Text("1")), J!Null,
          J!Object(<<J!Member(<<"id">>, Text("1")), J!Member(<<"name">>, Text("2"))>>)}
File(items) == J!Write(J!Object(<<J!Member(CONTENT, J!Array(items)), J!Member(ERROR, J!Null)>>), 0)

Querying == INSTANCE TestDB WITH
    Source <- "movies", Others <- {"series"},
    Files <- {File(items) : items \in UNION {[1..n -> Items] : n \in 0..3}},
    Queries <- {<<"id">>, <<"name">>} \X {<<"1">>, <<"2">>}

-----------------------------------------------------------------------------
(* Files that are served *)

Opt(cache, scan, chunk, writable) ==
    [m_cache_setting |-> cache, m_scan_setting |-> scan, m_max_chunk_size |-> chunk, m_writable |-> writable]

Req(method, version) == [method |-> method, target |-> "file", version |-> version,
                         body |-> <<"p", "q">>, conditional |-> FALSE]

\* Every setting of the cache and of the scan.
Cache == INSTANCE FileService WITH
    Threads <- Workers, Options <- {Opt(c, s, 0, FALSE) : c \in 0..2, s \in 0..3},
    Requests <- {Req("GET", "1.1"), [Req("GET", "1.1") EXCEPT !.conditional = TRUE]},
    Contents <- {<<"a">>, <<"b">>}, Failures <- FALSE, Coarse <- FALSE, MaxTime <- 2, MaxFiles <- 1,
    MaxLength <- 4

\* Files in pieces, without a cache, and every method.
Chunks == INSTANCE FileService WITH
    Threads <- {"t"}, Options <- {Opt(0, 0, n, w) : n \in 0..2, w \in BOOLEAN},
    Requests <- {Req(m, "1.1") : m \in {"GET", "HEAD", "PUT", "POST", "DELETE", "TRACE"}}
        \cup {Req("GET", "1.0"), [Req("PUT", "1.1") EXCEPT !.target = "nowhere"]}
        \cup {[Req("GET", "1.1") EXCEPT !.target = x] : x \in {"unset", "outside", "nowhere"}},
    Contents <- {<<"a">>, <<"b", "c", "d">>}, Failures <- TRUE, Coarse <- FALSE, MaxTime <- 3,
    MaxFiles <- 2, MaxLength <- 5

\* A cached file that is written to.
Writes == INSTANCE FileService WITH
    Threads <- Workers, Options <- {Opt(1, 0, 0, TRUE)},
    Requests <- {Req(m, "1.1") : m \in {"GET", "PUT", "DELETE"}}, Contents <- {<<"a", "b">>},
    Failures <- FALSE, Coarse <- FALSE, MaxTime <- 3, MaxFiles <- 2, MaxLength <- 5

-----------------------------------------------------------------------------

SomeInit ==
    /\ part \in {"launch", "grammar", "building", "querying", "cache", "chunks", "writes"}
    /\ Init
    /\ Grammar!Init
    /\ part = "grammar" \/ text = <<>>
    /\ Building!Init
    /\ IF part = "querying" THEN Querying!Init
       ELSE doc = J!Object(<<>>) /\ result = NoResult /\ query = <<>>
    /\ CASE part = "cache" -> Cache!Init
         [] part = "chunks" -> Chunks!Init
         [] OTHER -> Writes!Init /\ (part # "writes" => ino = 0)

SomeNext ==
    \/ part = "launch" /\ Next /\ UNCHANGED <<textVars, documentVars, queryVars, fileVars>>
    \/ part = "grammar" /\ Grammar!Next /\ UNCHANGED <<vars, documentVars, queryVars, fileVars>>
    \/ part = "building" /\ Building!Next /\ UNCHANGED <<vars, textVars, queryVars, fileVars>>
    \/ part = "querying" /\ Querying!Next /\ UNCHANGED <<vars, textVars, documentVars, fileVars>>
    \/ /\ \/ part = "cache" /\ Cache!Next
          \/ part = "chunks" /\ Chunks!Next
          \/ part = "writes" /\ Writes!Next
       /\ UNCHANGED <<vars, textVars, documentVars, queryVars>>

SomeSpec == SomeInit /\ [][SomeNext /\ UNCHANGED part]_<<part, vars, textVars, documentVars, queryVars, fileVars>>

\* Backend processes are interchangeable, and so are threads.
Symmetry == Permutations(Backend) \cup Permutations(Workers)

-----------------------------------------------------------------------------

\* Reader takes exactly the texts of the grammar, with the names of each object different,
\* and reads what Writer writes as the same document; and a query of a document that was read
\* finds, without an error, every item whose key has the value, in their order, and no
\* other, and with an error only such items.
ReadsWhatIsWritten ==
    /\ part = "grammar" => Grammar!ReadsJSON
    /\ part = "building" => Building!RoundTrip
    /\ part = "querying" => Querying!CompleteOrError

\* A request during which the file did not change is answered with the file as it is,
\* from the cache or from the disk, and what a PUT, POST or DELETE says is done is done;
\* an entry that checkUpdated would take for current holds what the file holds; and under
\* the settings that forbid it no file is served that was not there at the start.
FilesAsOnDisk ==
    /\ part = "cache" => Cache!TypeOK /\ Cache!EntryIsFile /\ Cache!AnswersWithFile /\ Cache!NoNewFiles
    /\ part = "chunks" => Chunks!TypeOK /\ Chunks!AnswersWithFile
    /\ part = "writes" => Writes!TypeOK /\ Writes!EntryIsFile /\ Writes!AnswersWithFile
=============================================================================
