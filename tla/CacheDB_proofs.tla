--------------------------- MODULE CacheDB_proofs ---------------------------
(***************************************************************************)
(* Launches of any number of backends over one cache.db, killed, failing   *)
(* and mixed in any way: what a backend serves is complete, and no launch  *)
(* discards what is cached.                                                *)
(***************************************************************************)
EXTENDS CacheDB, TLAPS

AllTables == {Tables[i] : i \in DOMAIN Tables}

\* How far a launch that is at a place has brought the database, whoever else worked on
\* it: the handlers constructed so far have their tables, and the inserts of a launch
\* that is clean so far have left their rows.
Progress ==
    \A p \in Backend :
        /\ pc[p] = "create" => \A i \in 1..(at[p] - 1) : Tables[i] \in tables
        /\ pc[p] \in {"seed", "bind", "serve"} => AllTables \subseteq tables
        /\ pc[p] = "seed" /\ p \in clean => \A i \in 1..(at[p] - 1) : TestData[i] \in rows
        /\ pc[p] \in {"bind", "serve"} /\ p \in clean => TestRows \subseteq rows

Inv == TypeOK /\ Progress

-----------------------------------------------------------------------------
(* The statements.                                                         *)

LEMMA TableFacts == /\ Len(Tables) = 5
                    /\ DOMAIN Tables = 1..5
  BY DEF Tables

LEMMA TestDataIs ==
    /\ Len(TestData) = 14
    /\ DOMAIN TestData = 1..14
    /\ TestData[1] = Row("movies", 1, 0, 0, 0)
    /\ TestData[2] = Row("movies", 2, 0, 0, 0)
    /\ TestData[3] = Row("moviesources", 1, 0, 1, 0)
    /\ TestData[4] = Row("moviesources", 2, 0, 2, 0)
    /\ TestData[5] = Row("tvshows", 1, 0, 0, 0)
    /\ TestData[6] = Row("tvshows", 2, 0, 0, 0)
    /\ TestData[7] = Row("seasons", 1, 1, 1, 0)
    /\ TestData[8] = Row("seasons", 2, 2, 1, 0)
    /\ TestData[9] = Row("seasons", 3, 3, 2, 0)
    /\ TestData[10] = Row("seasons", 4, 4, 2, 0)
    /\ TestData[11] = Row("episodes", 1, 1, 1, 1)
    /\ TestData[12] = Row("episodes", 2, 2, 1, 1)
    /\ TestData[13] = Row("episodes", 3, 1, 2, 1)
    /\ TestData[14] = Row("episodes", 4, 1, 3, 2)
  BY DEF TestData, MoviesTestData, MovieSourcesTestData, TVShowsTestData, SeasonsTestData, EpisodesTestData

\* A test row is kept out only by itself: no two of them share a primary key or
\* violate a unique constraint.
LEMMA RowsApart == \A r, q \in TestRows : Conflicts(r, q) => r = q
  <1>0. \A i \in 1..14 : i \in {1, 2, 3, 4, 5, 6, 7, 8, 9, 10, 11, 12, 13, 14}
    OBVIOUS
  <1>1. \A i, j \in 1..14 : TestData[i].table = TestData[j].table /\ TestData[i].id = TestData[j].id => i = j
    <2>1. \A i \in 1..14 : TestData[i].id = IF i <= 2 THEN i ELSE IF i <= 4 THEN i - 2
                              ELSE IF i <= 6 THEN i - 4 ELSE IF i <= 10 THEN i - 6 ELSE i - 10
      BY <1>0, TestDataIs DEF Row
    <2>2. \A i \in 1..14 : TestData[i].table = IF i <= 2 THEN "movies" ELSE IF i <= 4 THEN "moviesources"
                              ELSE IF i <= 6 THEN "tvshows" ELSE IF i <= 10 THEN "seasons" ELSE "episodes"
      BY <1>0, TestDataIs DEF Row
    <2> QED BY <2>1, <2>2
  <1>2. \A i, j \in 7..10 : TestData[i].number = TestData[j].number => i = j
    BY TestDataIs DEF Row
  <1>3. \A i, j \in 11..14 : TestData[i].number = TestData[j].number /\ TestData[i].owner = TestData[j].owner => i = j
    BY TestDataIs DEF Row
  <1>4. \A i \in 1..14 : /\ TestData[i].table = "seasons" => i \in 7..10
                         /\ TestData[i].table = "episodes" => i \in 11..14
    BY <1>0, TestDataIs DEF Row
  <1>5. SUFFICES ASSUME NEW i \in 1..14, NEW j \in 1..14, Conflicts(TestData[i], TestData[j])
                 PROVE  i = j
    BY TestDataIs DEF TestRows
  <1>6. CASE TestData[i].id = TestData[j].id
    BY <1>1, <1>5, <1>6 DEF Conflicts
  <1>7. CASE TestData[i].id # TestData[j].id
    <2>1. /\ TestData[i].table = TestData[j].table
          /\ TestData[i].table \in {"seasons", "episodes"}
          /\ TestData[i].number = TestData[j].number
          /\ TestData[i].owner = TestData[j].owner
      BY <1>5, <1>7 DEF Conflicts
    <2>2. CASE TestData[i].table = "seasons"
      <3>1. i \in 7..10 /\ j \in 7..10
        BY <1>4, <2>1, <2>2
      <3> QED BY <1>2, <2>1, <3>1
    <2>3. CASE TestData[i].table = "episodes"
      <3>1. i \in 11..14 /\ j \in 11..14
        BY <1>4, <2>1, <2>3
      <3> QED BY <1>3, <2>1, <3>1
    <2> QED BY <2>1, <2>2, <2>3
  <1> QED BY <1>6, <1>7

LEMMA TablesOfRows == \A i \in 1..14 : TestData[i].table \in AllTables
  <1>1. AllTables = {"movies", "moviesources", "tvshows", "seasons", "episodes"}
    BY DEF AllTables, Tables
  <1> QED BY <1>1, TestDataIs DEF Row

-----------------------------------------------------------------------------
(* The steps of a launch.                                                  *)

LEMMA Initially == Init => Inv
  BY CacheAssumption, TestDataIs DEF Init, Inv, TypeOK, Progress

\* What no step undoes: tables and rows stay.
Grows == rows \subseteq rows' /\ tables \subseteq tables'

\* The other launches, when process p takes a step.
LEMMA OthersKeep ==
    ASSUME Inv, NEW p \in Backend, Grows,
           \A q \in Backend \ {p} : /\ pc'[q] = pc[q] /\ at'[q] = at[q]
                                    /\ (q \in clean') = (q \in clean)
    PROVE  \A q \in Backend \ {p} :
        /\ pc'[q] = "create" => \A i \in 1..(at'[q] - 1) : Tables[i] \in tables'
        /\ pc'[q] \in {"seed", "bind", "serve"} => AllTables \subseteq tables'
        /\ pc'[q] = "seed" /\ q \in clean' => \A i \in 1..(at'[q] - 1) : TestData[i] \in rows'
        /\ pc'[q] \in {"bind", "serve"} /\ q \in clean' => TestRows \subseteq rows'
  BY DEF Inv, Progress, Grows

\* A process that is gone promises nothing.
LEMMA GoneStep ==
    ASSUME Inv, NEW p \in Backend, Gone(p), faults' \in 0..MaxFaults, UNCHANGED <<tables, rows, clean>>
    PROVE  Inv' /\ Grows
  <1>1. TypeOK'
    BY TestDataIs DEF Inv, TypeOK, Gone, Step
  <1>2. Progress'
    BY DEF Inv, TypeOK, Progress, Gone, Step
  <1> QED BY <1>1, <1>2 DEF Inv, Grows

LEMMA LaunchStep == ASSUME Inv, NEW p \in Backend, Launch(p) PROVE Inv' /\ Grows
  <1>1. TypeOK'
    BY TestDataIs, TableFacts DEF Inv, TypeOK, Launch, Step
  <1>2. Progress'
    BY DEF Inv, TypeOK, Progress, Launch, Step
  <1> QED BY <1>1, <1>2 DEF Inv, Grows, Launch

LEMMA CreateTableStep == ASSUME Inv, NEW p \in Backend, CreateTable(p) PROVE Inv' /\ Grows
  <1>1. Grows
    BY DEF CreateTable, Grows
  <1>2. at[p] \in 1..5 /\ pc[p] = "create"
    BY TableFacts DEF Inv, TypeOK, CreateTable
  <1>3. TypeOK'
    BY <1>2, TestDataIs, TableFacts DEF Inv, TypeOK, CreateTable, Step
  <1>4. Progress'
    <2>1. \A q \in Backend \ {p} : pc'[q] = pc[q] /\ at'[q] = at[q] /\ (q \in clean') = (q \in clean)
      BY DEF Inv, TypeOK, CreateTable, Step
    <2>2. CASE at[p] < 5
      <3>1. pc'[p] = "create" /\ at'[p] = at[p] + 1
        BY <2>2, TableFacts DEF Inv, TypeOK, CreateTable, Step
      <3>2. \A i \in 1..at[p] : Tables[i] \in tables'
        BY <1>2 DEF Inv, Progress, CreateTable
      <3> QED BY <1>1, <1>2, <2>1, <3>1, <3>2, OthersKeep DEF Progress
    <2>3. CASE at[p] = 5
      <3>1. pc'[p] = "seed" /\ at'[p] = 1
        BY <2>3, TableFacts DEF Inv, TypeOK, CreateTable, Step
      <3>2. AllTables \subseteq tables'
        BY <1>2, <2>3, TableFacts DEF Inv, Progress, CreateTable, AllTables
      <3> QED BY <1>1, <2>1, <3>1, <3>2, OthersKeep DEF Progress
    <2> QED BY <1>2, <2>2, <2>3
  <1> QED BY <1>1, <1>3, <1>4 DEF Inv

\* An insert leaves its row in the database, whether it succeeds or meets a row with one
\* of its keys: the only such row is itself.
LEMMA RowIsThere ==
    ASSUME Inv, NEW p \in Backend, Insert(p)
    PROVE  at[p] \in 1..14 /\ rows' = rows \cup {TestData[at[p]]}
  <1>1. at[p] \in 1..14 /\ TestData[at[p]] \in TestRows
    BY TestDataIs DEF Inv, TypeOK, Insert, TestRows
  <1>2. \A q \in rows : q \in TestRows
    BY DEF Inv, TypeOK
  <1>3. (\E q \in rows : Conflicts(TestData[at[p]], q)) => TestData[at[p]] \in rows
    BY <1>1, <1>2, RowsApart
  <1> QED BY <1>1, <1>3 DEF Insert

\* What follows an insert.
LEMMA NextInsertStep ==
    ASSUME Inv, NEW p \in Backend, pc[p] = "seed", NextInsert(p), tables' = tables,
           clean' \subseteq clean, clean \subseteq clean' \cup {p},
           rows \subseteq rows', rows' \subseteq TestRows, faults' \in 0..MaxFaults,
           p \in clean' => TestData[at[p]] \in rows'
    PROVE  Inv' /\ Grows
  <1>1. Grows
    BY DEF Grows
  <1>2. at[p] \in 1..14
    BY TestDataIs DEF Inv, TypeOK
  <1>3. /\ pc' = [pc EXCEPT ![p] = IF at[p] < 14 THEN "seed" ELSE "bind"]
        /\ at' = [at EXCEPT ![p] = IF at[p] < 14 THEN at[p] + 1 ELSE 0]
    BY <1>2, TestDataIs DEF NextInsert, Step
  <1>4. TypeOK'
    BY <1>2, <1>3, TestDataIs DEF Inv, TypeOK
  <1>5. Progress'
    <2>1. \A q \in Backend \ {p} : pc'[q] = pc[q] /\ at'[q] = at[q] /\ (q \in clean') = (q \in clean)
      BY <1>3 DEF Inv, TypeOK
    <2>2. AllTables \subseteq tables'
      BY DEF Inv, Progress
    <2>3. p \in clean' => \A i \in 1..at[p] : TestData[i] \in rows'
      BY <1>2 DEF Inv, Progress
    <2>4. CASE at[p] < 14
      <3>1. pc'[p] = "seed" /\ at'[p] = at[p] + 1
        BY <1>3, <2>4 DEF Inv, TypeOK
      <3> QED BY <1>1, <1>2, <2>1, <2>2, <2>3, <3>1, OthersKeep DEF Progress
    <2>5. CASE at[p] = 14
      <3>1. pc'[p] = "bind"
        BY <1>3, <2>5 DEF Inv, TypeOK
      <3>2. p \in clean' => TestRows \subseteq rows'
        BY <2>3, <2>5, TestDataIs DEF TestRows
      <3> QED BY <1>1, <2>1, <2>2, <3>1, <3>2, OthersKeep DEF Progress
    <2> QED BY <1>2, <2>4, <2>5
  <1> QED BY <1>1, <1>4, <1>5 DEF Inv

LEMMA BindStep == ASSUME Inv, NEW p \in Backend, Bind(p) PROVE Inv' /\ Grows
  <1>1. TypeOK'
    BY TestDataIs DEF Inv, TypeOK, Bind, Step
  <1>2. Progress'
    BY DEF Inv, TypeOK, Progress, Bind, Step
  <1> QED BY <1>1, <1>2 DEF Inv, Grows, Bind

LEMMA NextStep == ASSUME Inv, Next PROVE Inv' /\ Grows
  <1>1. PICK p \in Backend : \/ Launch(p) \/ CreateTable(p) \/ CreateTableFails(p) \/ Insert(p)
                            \/ InsertFails(p) \/ Bind(p) \/ BindFails(p) \/ Crash(p)
    BY DEF Next
  <1>2. faults \in 0..MaxFaults /\ MaxFaults \in Nat /\ (Fault => faults' \in 0..MaxFaults)
    BY CacheAssumption DEF Inv, TypeOK, Fault
  <1>3. CASE CreateTableFails(p)
    BY <1>2, <1>3, GoneStep DEF CreateTableFails
  <1>4. CASE Insert(p)
    <2>1. /\ rows \subseteq rows' /\ rows' \subseteq TestRows
          /\ TestData[at[p]] \in rows'
      BY <1>4, RowIsThere, TestDataIs DEF Inv, TypeOK, TestRows
    <2> QED BY <1>2, <1>4, <2>1, NextInsertStep DEF Insert
  <1>5. CASE InsertFails(p)
    <2>1. faults' \in 0..MaxFaults
      BY <1>2, <1>5 DEF InsertFails
    <2> QED BY <1>5, <2>1, NextInsertStep DEF InsertFails, Inv, TypeOK
  <1>6. CASE BindFails(p)
    BY <1>2, <1>6, GoneStep DEF BindFails
  <1>7. CASE Crash(p)
    BY <1>2, <1>7, GoneStep DEF Crash
  <1> QED BY <1>1, <1>3, <1>4, <1>5, <1>6, <1>7, LaunchStep, CreateTableStep, BindStep

\* The launches keep the inductive invariant, and no step discards anything.
LEMMA Stuttering == ASSUME Inv, UNCHANGED vars PROVE Inv'
  BY DEF vars, Inv, TypeOK, Progress

\* A backend of src/Backend that accepts requests has every table its handlers select
\* from, and all of the test data if no insert of its launch failed for an outside
\* reason, for any number of backends and of failures, and whatever was killed between
\* two statements.
THEOREM LaunchIsComplete == Spec => []LaunchComplete
  <1>1. Inv /\ [Next]_vars => Inv'
    BY NextStep, Stuttering
  <1>2. Inv => LaunchComplete
    BY DEF Inv, LaunchComplete, TypeOK, Progress, SchemaBeforeServing, LaunchRepairsData, AllTables
  <1> QED BY Initially, <1>1, <1>2, PTL DEF Spec

\* No launch, and no failure of one, drops a table or deletes a row of cache.db.
THEOREM NothingIsDiscarded == Spec => CacheOnlyGrows
  <1>1. Inv /\ [Next]_vars => Inv'
    BY NextStep, Stuttering
  <1>2. Inv /\ [Next]_vars => [rows \subseteq rows' /\ tables \subseteq tables']_vars
    BY NextStep DEF Grows
  <1> QED BY Initially, <1>1, <1>2, PTL DEF Spec, CacheOnlyGrows

\* An insert always finds its table, because every handler of the process is constructed
\* before the first initTestData: inserts fail for outside reasons only.
THEOREM InsertsFindTheirTable ==
    Spec => [](\A p \in Backend : pc[p] = "seed" => TestData[at[p]].table \in tables)
  <1>1. Inv /\ [Next]_vars => Inv'
    BY NextStep, Stuttering
  <1>2. Inv => \A p \in Backend : pc[p] = "seed" => TestData[at[p]].table \in tables
    BY TestDataIs, TablesOfRows DEF Inv, TypeOK, Progress
  <1> QED BY Initially, <1>1, <1>2, PTL DEF Spec

=============================================================================
