------------------------------ MODULE CacheDB -------------------------------
(***************************************************************************)
(* The launch of brainslug backends over one cache.db: FrontendServer's    *)
(* constructor opens the database, each resource handler creates its table *)
(* and inserts its test data, and only then is the port bound.  Processes  *)
(* may be killed between any two statements and started again, two may be  *)
(* started in the same directory, and a statement may fail (another        *)
(* process holds the file's lock, the disk is full).  Every statement      *)
(* commits by itself.                                                      *)
(***************************************************************************)
EXTENDS Naturals, Sequences, FiniteSets

CONSTANTS Backend,    \* backend processes sharing the working directory
          MaxFaults   \* bound: statements that fail for reasons outside the data

ASSUME CacheAssumption == MaxFaults \in Nat

VARIABLES
    tables,   \* tables that exist in cache.db
    rows,     \* rows in cache.db
    pc, at,   \* per process: the part of its launch it is in, the next statement of it
    clean,    \* processes of whose launch no insert failed for an outside reason
    faults    \* outside failures so far

vars == <<tables, rows, pc, at, clean, faults>>

-----------------------------------------------------------------------------
(* The statements.                                                         *)

\* The order in which FrontendServer's members are constructed, and initialised.
Tables == <<"movies", "moviesources", "tvshows", "seasons", "episodes">>

\* A row, reduced to its keys: owner is the movie of a source, or the show of a
\* season or an episode; 0 where the table has no such column.
Row(table, id, number, owner, season) ==
    [table |-> table, id |-> id, number |-> number, owner |-> owner, season |-> season]

MoviesTestData == <<Row("movies", 1, 0, 0, 0), Row("movies", 2, 0, 0, 0)>>

MovieSourcesTestData == <<Row("moviesources", 1, 0, 1, 0), Row("moviesources", 2, 0, 2, 0)>>

TVShowsTestData == <<Row("tvshows", 1, 0, 0, 0), Row("tvshows", 2, 0, 0, 0)>>

SeasonsTestData == <<Row("seasons", 1, 1, 1, 0), Row("seasons", 2, 2, 1, 0),
                     Row("seasons", 3, 3, 2, 0), Row("seasons", 4, 4, 2, 0)>>

EpisodesTestData == <<Row("episodes", 1, 1, 1, 1), Row("episodes", 2, 2, 1, 1),
                      Row("episodes", 3, 1, 2, 1), Row("episodes", 4, 1, 3, 2)>>

\* The inserts of the five initTestData, in the order of the constructor's body.
TestData == MoviesTestData \o MovieSourcesTestData \o TVShowsTestData
            \o SeasonsTestData \o EpisodesTestData

TestRows == {TestData[i] : i \in DOMAIN TestData}

\* The primary keys, and the unique constraints of seasons and episodes.  The
\* foreign keys are declared but SQLite does not enforce them by default.
Conflicts(r, q) ==
    /\ r.table = q.table
    /\ \/ r.id = q.id
       \/ /\ r.table \in {"seasons", "episodes"}
          /\ <<r.number, r.owner, r.season>> = <<q.number, q.owner, q.season>>

-----------------------------------------------------------------------------
(* A launch.                                                               *)

Step(p, part, n) == /\ pc' = [pc EXCEPT ![p] = part]
                    /\ at' = [at EXCEPT ![p] = n]

\* The process is gone; what it committed stays.
Gone(p) == Step(p, "off", 0)

Fault == faults < MaxFaults /\ faults' = faults + 1

\* main() and SQLiteDB's constructor.
Launch(p) ==
    /\ pc[p] = "off"
    /\ Step(p, "create", 1)
    /\ clean' = clean \cup {p}
    /\ UNCHANGED <<tables, rows, faults>>

\* Mutant: the table is created afresh.
CreateTableAfresh(p) ==
    LET t == Tables[at[p]] IN
    /\ pc[p] = "create"
    /\ tables' = tables \cup {t}
    /\ rows' = {r \in rows : r.table # t}
    /\ IF at[p] < Len(Tables) THEN Step(p, "create", at[p] + 1) ELSE Step(p, "seed", 1)
    /\ UNCHANGED <<clean, faults>>

\* "create table if not exists" in the constructor of the next handler.
CreateTable(p) ==
    /\ pc[p] = "create"
    /\ tables' = tables \cup {Tables[at[p]]}
    /\ IF at[p] < Len(Tables) THEN Step(p, "create", at[p] + 1) ELSE Step(p, "seed", 1)
    /\ UNCHANGED <<rows, clean, faults>>

\* The database cannot be opened or the statement fails: exit(1).
CreateTableFails(p) ==
    /\ pc[p] = "create"
    /\ Fault
    /\ Gone(p)
    /\ UNCHANGED <<tables, rows, clean>>

\* What follows an insert, whatever its outcome: initTestData ignores it.
NextInsert(p) ==
    IF at[p] < Len(TestData) THEN Step(p, "seed", at[p] + 1) ELSE Step(p, "bind", 0)

\* Mutant: a row that is there already means that everything is.
InsertStopsEarly(p) ==
    LET r == TestData[at[p]]
        there == \E q \in rows : Conflicts(r, q)
    IN /\ pc[p] = "seed"
       /\ r.table \in tables
       /\ rows' = IF there THEN rows ELSE rows \cup {r}
       /\ IF there THEN Step(p, "bind", 0) ELSE NextInsert(p)
       /\ UNCHANGED <<tables, clean, faults>>

\* The next insert.  A row with one of its keys makes it fail, which keeps what
\* an earlier launch or another process has inserted.
Insert(p) ==
    LET r == TestData[at[p]] IN
    /\ pc[p] = "seed"
    /\ r.table \in tables
    /\ rows' = IF \E q \in rows : Conflicts(r, q) THEN rows ELSE rows \cup {r}
    /\ NextInsert(p)
    /\ UNCHANGED <<tables, clean, faults>>

\* The insert fails for an outside reason, or because its table is missing.
InsertFails(p) ==
    /\ pc[p] = "seed"
    /\ IF TestData[at[p]].table \in tables THEN Fault ELSE UNCHANGED faults
    /\ clean' = clean \ {p}
    /\ NextInsert(p)
    /\ UNCHANGED <<tables, rows>>

\* FrontendServer::run binds the port that the command line names.
Bind(p) ==
    /\ pc[p] = "bind"
    /\ Step(p, "serve", 0)
    /\ UNCHANGED <<tables, rows, clean, faults>>

\* Another backend has that port: start() throws, startServices prints the
\* exception and main returns.
BindFails(p) ==
    /\ pc[p] = "bind"
    /\ \E q \in Backend : pc[q] = "serve"
    /\ Gone(p)
    /\ UNCHANGED <<tables, rows, clean, faults>>

\* The process is killed.
Crash(p) ==
    /\ pc[p] # "off"
    /\ Gone(p)
    /\ UNCHANGED <<tables, rows, clean, faults>>

Init ==
    /\ tables = {}
    /\ rows = {}
    /\ pc = [p \in Backend |-> "off"]
    /\ at = [p \in Backend |-> 0]
    /\ clean = {}
    /\ faults = 0

Next == \E p \in Backend :
    \/ Launch(p)
    \/ CreateTable(p)
    \/ CreateTableFails(p)
    \/ Insert(p)
    \/ InsertFails(p)
    \/ Bind(p)
    \/ BindFails(p)
    \/ Crash(p)

Spec == Init /\ [][Next]_vars

-----------------------------------------------------------------------------
(* Properties.                                                             *)

\* The types of the variables.
TypeOK ==
    /\ tables \subseteq {Tables[i] : i \in DOMAIN Tables}
    /\ rows \subseteq TestRows
    /\ pc \in [Backend -> {"off", "create", "seed", "bind", "serve"}]
    /\ at \in [Backend -> 0..Len(TestData)]
    /\ \A p \in Backend : /\ pc[p] = "create" => at[p] \in DOMAIN Tables
                          /\ pc[p] = "seed" => at[p] \in DOMAIN TestData
    /\ clean \subseteq Backend
    /\ faults \in 0..MaxFaults

\* A backend that accepts requests finds every table a handler's select names,
\* whatever failed, crashed or ran beside it while it was launched: a missing
\* table would leave that resource's requests without a response.
SchemaBeforeServing ==
    \A p \in Backend : pc[p] = "serve" => tables = {Tables[i] : i \in DOMAIN Tables}

\* A launch whose own inserts met no outside failure serves the complete data,
\* also after launches that were killed half way through theirs.
LaunchRepairsData ==
    \A p \in Backend : pc[p] = "serve" /\ p \in clean => rows = TestRows

\* A backend that accepts requests finds every table a handler's select names, and all of
\* the data if no insert of its launch failed for an outside reason, whatever failed,
\* crashed or ran beside it.
LaunchComplete == TypeOK /\ SchemaBeforeServing /\ LaunchRepairsData

\* No launch discards what is cached.
CacheOnlyGrows == [][rows \subseteq rows' /\ tables \subseteq tables']_vars

\* "An episode has a link to its season & tv show, which is redundant (link to
\* season would suffice)" (Frontend/.../models/episode.js:9): the show of an
\* episode is the show of its season.
EpisodeLinksAgree ==
    \A p \in Backend : pc[p] = "serve" /\ p \in clean =>
        \A e \in rows : e.table = "episodes" =>
            \E s \in rows : s.table = "seasons" /\ s.id = e.season /\ s.owner = e.owner

=============================================================================
