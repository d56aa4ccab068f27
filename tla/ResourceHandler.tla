--------------------------- MODULE ResourceHandler --------------------------
(***************************************************************************)
(* What a resource handler answers: ResourceHandler::handle dispatches on  *)
(* the query, list and view run a select through SQLiteDB::execute, and    *)
(* the Lister turns its rows into the JSON document of the response.  A    *)
(* view steps its statement row by row and hands the callback pointers     *)
(* into SQLite's buffers.  Other backends may insert into the same cache   *)
(* between statements, and a statement may fail.                           *)
(***************************************************************************)
EXTENDS Naturals, Sequences, FiniteSets

CONSTANTS Served,      \* the resources requests are made of
          MaxFilters   \* bound: key=value pairs in a query beside list and view

\* The resources FrontendServer has handlers for.
Resources == {"movies", "movieSources", "tvshows", "seasons", "episodes"}

ASSUME HandlerAssumption == Served \subseteq Resources /\ MaxFilters \in Nat

VARIABLES
    resource,   \* the resource whose handler runs
    db,         \* the rows of its table
    query,      \* the parameters of the request
    phase,      \* idle, handle, exec (sqlite3_exec), step (the view's loop), or return
    sq,         \* the sanitized parameters: column -> value
    todo,       \* rows the view's statement has still to return
    colValues,  \* the row whose cells the vector colValues points at, if any
    content,    \* the Lister's array
    reply       \* the last response

vars == <<resource, db, query, phase, sq, todo, colValues, content, reply>>

-----------------------------------------------------------------------------
(* The five handlers.                                                      *)

\* sanitizeQueryParams: the column each accepted key stands for.  Keys are
\* compared exactly, so "ID" is not accepted.
MoviesKeys == [id |-> "movie_id", name |-> "movie_name",
               coverUrl |-> "movie_coverurl", imdbId |-> "movie_imdbid"]

MovieSourcesKeys == [id |-> "msrc_id", url |-> "msrc_url", movie |-> "movie_id"]

TVShowsKeys == [id |-> "show_id", coverUrl |-> "show_coverurl",
                name |-> "show_name", imdbId |-> "show_imdbid"]

SeasonsKeys == [id |-> "season_id", number |-> "season_number",
                coverUrl |-> "season_coverurl", tvShow |-> "tvshow_id"]

EpisodesKeys == [id |-> "episode_id", number |-> "episode_number",
                 tvShow |-> "tvshow_id", season |-> "season_id"]

KeyColumn == [movies |-> MoviesKeys, movieSources |-> MovieSourcesKeys,
              tvshows |-> TVShowsKeys, seasons |-> SeasonsKeys, episodes |-> EpisodesKeys]

\* viewStatement: the column each name of an item is selected from.
MoviesView == [id |-> "movie_id", name |-> "movie_name",
               imdbId |-> "movie_imdbid", coverUrl |-> "movie_coverurl"]

MovieSourcesView == [id |-> "msrc_id", url |-> "msrc_url", movie |-> "movie_id"]

TVShowsView == [id |-> "show_id", imdbId |-> "show_imdbid",
                name |-> "show_name", coverUrl |-> "show_coverurl"]

SeasonsView == [id |-> "season_id", number |-> "season_number",
                coverUrl |-> "season_coverurl", tvShow |-> "tvshow_id"]

EpisodesView == [id |-> "episode_id", name |-> "episode_name",
                 imdbId |-> "episode_imdbid", number |-> "episode_number",
                 season |-> "season_id", tvShow |-> "tvshow_id"]

Select == [movies |-> MoviesView, movieSources |-> MovieSourcesView,
           tvshows |-> TVShowsView, seasons |-> SeasonsView, episodes |-> EpisodesView]

\* A column that no insert names is null.
Null == "NULL"

\* The rows of initTestData, with long texts abbreviated and _ for a space.
MoviesRows ==
    {[movie_id |-> "1", movie_name |-> "Sex_and_the_City",
      movie_imdbid |-> "tt10000774", movie_coverurl |-> "poster1"],
     [movie_id |-> "2", movie_name |-> "Twilight",
      movie_imdbid |-> "tt1099212", movie_coverurl |-> "poster2"]}

MovieSourcesRows ==
    {[msrc_id |-> i, movie_id |-> i, msrc_url |-> "mov"] : i \in {"1", "2"}}

TVShowsRows ==
    {[show_id |-> "1", show_name |-> "Desperate_Housewives",
      show_imdbid |-> "tt0410975", show_coverurl |-> "art&1"],
     [show_id |-> "2", show_name |-> "Sex_and_the_City",
      show_imdbid |-> "tt0159206", show_coverurl |-> "art&2"]}

Season(i, number, cover, show) ==
    [season_id |-> i, season_number |-> number, season_coverurl |-> cover, tvshow_id |-> show]

SeasonsRows == {Season("1", "1", "art&2", "1"), Season("2", "2", "art&2", "1"),
                Season("3", "3", "art&3", "2"), Season("4", "4", "art&2", "2")}

Episode(i, number, name, show, season) ==
    [episode_id |-> i, episode_number |-> number, episode_name |-> name,
     tvshow_id |-> show, season_id |-> season, episode_imdbid |-> Null]

EpisodesRows == {Episode("1", "1", "Pilot", "1", "1"),
                 Episode("2", "2", "The_story_begins!", "1", "1"),
                 Episode("3", "1", "The_story_continues!", "2", "1"),
                 Episode("4", "1", "Pilot!", "3", "2")}

Rows == [movies |-> MoviesRows, movieSources |-> MovieSourcesRows,
         tvshows |-> TVShowsRows, seasons |-> SeasonsRows, episodes |-> EpisodesRows]

IntegerColumn == {"movie_id", "msrc_id", "show_id", "season_id", "season_number",
                  "tvshow_id", "episode_id", "episode_number"}

-----------------------------------------------------------------------------
(* Queries.                                                                *)

\* Texts a URL can only carry escaped.
Reserved == {"Sex_and_the_City", "Desperate_Housewives", "The_story_begins!",
             "The_story_continues!", "art&1", "art&2", "art&3"}

\* The texts in the table, and two more that are tried.
Cells == UNION {{r[c] : c \in DOMAIN r} : r \in Rows[resource]}
Texts == Cells \cup {"nowhere", "1"}

\* A value is the text it stands for and the form it arrives in: as it is,
\* escaped, or as a number with a leading zero.
Value == [text : Texts, form : {"plain", "escaped", "padded"}]

Written(text) == [text |-> text, form |-> IF text \in Reserved THEN "escaped" ELSE "plain"]

\* The values tried for a key: those of the test data, one in no row, and for an
\* integer a second way to write it.
Tried(k) ==
    LET c == KeyColumn[resource][k]
    IN {Written(r[c]) : r \in Rows[resource]} \cup {Written("nowhere")}
       \cup (IF c \in IntegerColumn THEN {[text |-> "1", form |-> "padded"]} ELSE {})

\* The pairs of a query: an unknown key, or keys with values tried for them.
Param ==
    {[key |-> "ID", value |-> Written("1")]}
    \cup UNION {{[key |-> k, value |-> v] : v \in Tried(k)} : k \in DOMAIN KeyColumn[resource]}

\* hasQuery ignores case: verbs are the ones it finds.  Where view is not the
\* only one, one pair shows that the pairs make no difference.
Query ==
    [verbs : SUBSET {"list", "view"}, params : {{}} \cup {{p} : p \in Param}]
    \cup {[verbs |-> {"view"}, params |-> {f[i] : i \in 1..MaxFilters}] :
             f \in [1..MaxFilters -> Param]}

\* The parameters sanitizeQueryParams keeps.
Accepted == {p \in query.params : p.key \in DOMAIN KeyColumn[resource]}

Column(p) == KeyColumn[resource][p.key]

\* Mutant: one of the keys gets the other's column.
SanitizedCrossed ==
    LET cols == {Column(p) : p \in Accepted}
    IN {f \in [cols -> {p.value : p \in Accepted}] :
           \A c \in cols : \E p \in Accepted : f[c] = p.value}

\* Its results.  Of a key given twice, the pair that comes first in the
\* dictionary's unspecified order is the one std::map::insert keeps.
Sanitized ==
    LET cols == {Column(p) : p \in Accepted}
    IN {f \in [cols -> {p.value : p \in Accepted}] :
           \A c \in cols : \E p \in Accepted : Column(p) = c /\ f[c] = p.value}

\* "column = ?" with a value bound as text: SQLite reads it as a number where the
\* column is an integer, and equality with null is never true.  Nothing has
\* undone the escapes of the URL.
CellMatches(c, cell, v) ==
    /\ cell # Null
    /\ cell = v.text
    /\ v.form \in IF c \in IntegerColumn THEN {"plain", "padded"} ELSE {"plain"}

\* Mutant: the conditions are joined by OR.
MatchesSome(r, s) == \E c \in DOMAIN s : CellMatches(c, r[c], s[c])

\* The where clause.
Matches(r, s) == \A c \in DOMAIN s : CellMatches(c, r[c], s[c])

-----------------------------------------------------------------------------
(* A request.                                                              *)

NoReply == [status |-> 0, content |-> <<>>]

NoQuery == [verbs |-> {}, params |-> {}]

NoParams == [c \in {} |-> Null]

\* What Lister::callback makes of the cells of row r.
Item(r) == [a \in DOMAIN Select[resource] |-> r[Select[resource][a]]]

\* What it makes of them when the vector still starts with the cells of an
\* earlier row.  A null pointer stays null.  The others point into buffers that
\* SQLite has reused or freed: they hold the old text, the new one, or neither.
\* Columns of one type share their fate.
StaleItem(old, r, ints, texts) ==
    [a \in DOMAIN Select[resource] |->
        LET c == Select[resource][a]
            fate == IF c \in IntegerColumn THEN ints ELSE texts
        IN IF old[c] = Null \/ fate = "old" THEN old[c]
           ELSE IF fate = "new" THEN r[c] ELSE "garbage"]

Fate == {"old", "new", "garbage"}

\* A request reaches the handler: HTTPServer calls handle.
Receive(q) ==
    /\ phase = "idle"
    /\ phase' = "handle"
    /\ query' = q
    /\ UNCHANGED <<resource, db, sq, todo, colValues, content, reply>>

\* Neither verb: 501.
Unrecognized ==
    /\ phase = "handle"
    /\ query.verbs = {}
    /\ reply' = [status |-> 501, content |-> <<>>]
    /\ phase' = "return"
    /\ UNCHANGED <<resource, db, query, sq, todo, colValues, content>>

\* Mutant: a view without an accepted parameter is stepped like any other.
ListStepped ==
    /\ phase = "handle"
    /\ \/ "list" \in query.verbs
       \/ "view" \in query.verbs /\ Accepted = {}
    /\ phase' = IF "list" \in query.verbs THEN "exec" ELSE "step"
    /\ sq' = NoParams
    /\ todo' = db
    /\ UNCHANGED <<resource, db, query, colValues, content, reply>>

\* list, also for a view without an accepted parameter: sqlite3_exec.
List ==
    /\ phase = "handle"
    /\ \/ "list" \in query.verbs
       \/ "view" \in query.verbs /\ Accepted = {}
    /\ phase' = "exec"
    /\ sq' = NoParams
    /\ todo' = db
    /\ UNCHANGED <<resource, db, query, colValues, content, reply>>

\* view: the statement is prepared, its parameters are bound.
View ==
    /\ phase = "handle"
    /\ query.verbs = {"view"}
    /\ Accepted # {}
    /\ sq' \in Sanitized
    /\ phase' = "step"
    /\ todo' = {r \in db : Matches(r, sq')}
    /\ colValues' = <<>>
    /\ UNCHANGED <<resource, db, query, content, reply>>

\* sqlite3_exec calls back with the cells of one row.  Without an ORDER BY the
\* rows come in any order.
ExecRow ==
    /\ phase = "exec"
    /\ \E r \in todo : /\ todo' = todo \ {r}
                       /\ content' = Append(content, Item(r))
    /\ UNCHANGED <<resource, db, query, phase, sq, colValues, reply>>

\* sqlite3_step returns the first row.
StepFirstRow ==
    /\ phase = "step"
    /\ colValues = <<>>
    /\ \E r \in todo : /\ todo' = todo \ {r}
                       /\ colValues' = <<r>>
                       /\ content' = Append(content, Item(r))
    /\ UNCHANGED <<resource, db, query, phase, sq, reply>>

\* A later row: its cells are pushed behind those of the first.
StepRow ==
    /\ phase = "step"
    /\ colValues # <<>>
    /\ \E r \in todo, ints, texts \in Fate :
          /\ todo' = todo \ {r}
          /\ content' = Append(content, StaleItem(colValues[1], r, ints, texts))
    /\ UNCHANGED <<resource, db, query, phase, sq, colValues, reply>>

\* SQLITE_DONE, or sqlite3_exec returns SQLITE_OK: finish() and the response.
Done ==
    /\ phase \in {"exec", "step"}
    /\ todo = {}
    /\ reply' = [status |-> 200, content |-> content]
    /\ phase' = "return"
    /\ UNCHANGED <<resource, db, query, sq, todo, colValues, content>>

\* The statement fails, say because another backend is writing: no response.
Fails ==
    /\ phase \in {"exec", "step"}
    /\ phase' = "return"
    /\ UNCHANGED <<resource, db, query, sq, todo, colValues, content, reply>>

\* Mutant: the array outlives its request.
ReturnKeeping ==
    /\ phase = "return"
    /\ phase' = "idle"
    /\ query' = NoQuery
    /\ sq' = NoParams
    /\ todo' = {}
    /\ colValues' = <<>>
    /\ reply' = NoReply
    /\ UNCHANGED <<resource, db, content>>

\* handle returns: the statement is finalized, the Lister is gone.
Return ==
    /\ phase = "return"
    /\ phase' = "idle"
    /\ query' = NoQuery
    /\ sq' = NoParams
    /\ todo' = {}
    /\ colValues' = <<>>
    /\ content' = <<>>
    /\ reply' = NoReply
    /\ UNCHANGED <<resource, db>>

\* Another backend that is being launched inserts a row.  It cannot commit while
\* a select holds the database's shared lock.
Insert(r) ==
    /\ phase \in {"idle", "handle", "return"}
    /\ db' = db \cup {r}
    /\ UNCHANGED <<resource, query, phase, sq, todo, colValues, content, reply>>

Init ==
    /\ resource \in Served
    /\ db = {}
    /\ query = NoQuery
    /\ phase = "idle"
    /\ sq = NoParams
    /\ todo = {}
    /\ colValues = <<>>
    /\ content = <<>>
    /\ reply = NoReply

Next ==
    \/ \E q \in Query : Receive(q)
    \/ Unrecognized
    \/ List
    \/ View
    \/ ExecRow
    \/ StepFirstRow
    \/ StepRow
    \/ Done
    \/ Fails
    \/ Return
    \/ \E r \in Rows[resource] \ db : Insert(r)

Spec == Init /\ [][Next]_vars

-----------------------------------------------------------------------------
(* Properties.  They read the request and the items of the response, not   *)
(* the columns and parameters in between.                                  *)

\* The types of the variables; a request's array never holds more items than
\* its statement has returned rows.
TypeOK ==
    /\ resource \in Served
    /\ db \subseteq Rows[resource]
    /\ todo \subseteq db
    /\ query.verbs \subseteq {"list", "view"}
    /\ \A p \in query.params : p.value \in Value
    /\ phase \in {"idle", "handle", "exec", "step", "return"}
    /\ \A c \in DOMAIN sq : sq[c] \in Value
    /\ Len(colValues) <= 1
    /\ Len(content) + Cardinality(todo) <= Cardinality(Rows[resource])
    /\ reply.status \in {0, 200, 501}

\* The step that sends a 200.
Answers == reply'.status = 200 /\ reply # reply'

Items(rs) == {Item(r) : r \in rs}

ShowsExactly(items, rs) == /\ Len(items) = Cardinality(rs)
                           /\ {items[i] : i \in DOMAIN items} = Items(rs)

Filtered == query.verbs = {"view"} /\ Accepted # {}

\* The filters of a view, as its client reads them: for each key one of the
\* values given for it.
Readings == {f \in [{p.key : p \in Accepted} -> {p.value : p \in Accepted}] :
                \A k \in DOMAIN f : [key |-> k, value |-> f[k]] \in Accepted}

\* The rows whose item shows under every key of f the value f has for it.
Wanted(f) ==
    {r \in db : \A k \in DOMAIN f : CellMatches(Select[resource][k], Item(r)[k], f[k])}

\* A list, and a view that names no accepted key, is answered with every row of
\* the table once, each with its own values ("no search params is the same as
\* listing everything", Backend/lib/ResourceHandler.cpp:100), whatever other
\* backends insert meanwhile.
WholeTable ==
    [][Answers /\ ~Filtered => ShowsExactly(reply'.content, db)]_vars

\* A filtered view is answered with as many items as there are rows that match
\* all its filters, and the first of them is such a row with its own values.
\* This is what remains true of a view of several rows.
ViewCounts ==
    [][Answers /\ Filtered =>
          \E f \in Readings :
              /\ Len(reply'.content) = Cardinality(Wanted(f))
              /\ reply'.content # <<>> => reply'.content[1] \in Items(Wanted(f))]_vars

\* A view by id, however the id is written and whatever else it filters by, is
\* answered with that one row or with nothing.
LookupByIdExact ==
    [][Answers /\ Filtered /\ (\E p \in Accepted : p.key = "id") =>
          \E f \in Readings : ShowsExactly(reply'.content, Wanted(f))]_vars

\* "same as the above method, but allows items to be filtered" (Backend/include/
\* DB.h:25; the method above returns "all items"): a view of several rows, too,
\* shows the values of the rows it matches.
ViewExact ==
    [][Answers /\ Filtered =>
          \E f \in Readings : ShowsExactly(reply'.content, Wanted(f))]_vars

\* "the second element being the value that the key must match" (Backend/include/
\* DB.h:27): a row is found by the value it shows, sent the way a URL sends it.
FoundByShownValue ==
    [][Answers /\ Filtered =>
          \E f \in Readings :
              Len(reply'.content) >=
                 Cardinality({r \in db : \A k \in DOMAIN f : Written(Item(r)[k]) = f[k]})]_vars

=============================================================================
