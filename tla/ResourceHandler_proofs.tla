----------------------- MODULE ResourceHandler_proofs -----------------------
(***************************************************************************)
(* Proofs about what a resource handler answers, for every served set of   *)
(* the five resources, every reachable table and any number of filters.    *)
(* The facts about the handlers' tables come first; the invariant follows  *)
(* the rows of a statement from the table to the response.                 *)
(***************************************************************************)
EXTENDS ResourceHandler, FiniteSetTheorems, TLAPS

-----------------------------------------------------------------------------
(* The tables of the five handlers *)

LEMMA RowsOf ==
    /\ Rows["movies"] = MoviesRows
    /\ Rows["movieSources"] = MovieSourcesRows
    /\ Rows["tvshows"] = TVShowsRows
    /\ Rows["seasons"] = SeasonsRows
    /\ Rows["episodes"] = EpisodesRows
  BY DEF Rows

LEMMA KeysOf ==
    /\ KeyColumn["movies"] = MoviesKeys
    /\ KeyColumn["movieSources"] = MovieSourcesKeys
    /\ KeyColumn["tvshows"] = TVShowsKeys
    /\ KeyColumn["seasons"] = SeasonsKeys
    /\ KeyColumn["episodes"] = EpisodesKeys
  BY DEF KeyColumn

LEMMA SelectOf ==
    /\ Select["movies"] = MoviesView
    /\ Select["movieSources"] = MovieSourcesView
    /\ Select["tvshows"] = TVShowsView
    /\ Select["seasons"] = SeasonsView
    /\ Select["episodes"] = EpisodesView
  BY DEF Select

\* An item shows under an accepted key the column the key stands for.
LEMMA KeysShown ==
    ASSUME NEW res \in Resources, NEW k \in DOMAIN KeyColumn[res]
    PROVE  k \in DOMAIN Select[res] /\ Select[res][k] = KeyColumn[res][k]
  <1>1. CASE res = "movies"
    BY <1>1, KeysOf, SelectOf DEF MoviesKeys, MoviesView
  <1>2. CASE res = "movieSources"
    BY <1>2, KeysOf, SelectOf DEF MovieSourcesKeys, MovieSourcesView
  <1>3. CASE res = "tvshows"
    BY <1>3, KeysOf, SelectOf DEF TVShowsKeys, TVShowsView
  <1>4. CASE res = "seasons"
    BY <1>4, KeysOf, SelectOf DEF SeasonsKeys, SeasonsView
  <1>5. CASE res = "episodes"
    BY <1>5, KeysOf, SelectOf DEF EpisodesKeys, EpisodesView
  <1> QED  BY <1>1, <1>2, <1>3, <1>4, <1>5 DEF Resources

\* No two keys stand for the same column.
LEMMA KeysApart ==
    ASSUME NEW res \in Resources,
           NEW j \in DOMAIN KeyColumn[res], NEW k \in DOMAIN KeyColumn[res],
           KeyColumn[res][j] = KeyColumn[res][k]
    PROVE  j = k
  <1>1. CASE res = "movies"
    BY <1>1, KeysOf DEF MoviesKeys
  <1>2. CASE res = "movieSources"
    BY <1>2, KeysOf DEF MovieSourcesKeys
  <1>3. CASE res = "tvshows"
    BY <1>3, KeysOf DEF TVShowsKeys
  <1>4. CASE res = "seasons"
    BY <1>4, KeysOf DEF SeasonsKeys
  <1>5. CASE res = "episodes"
    BY <1>5, KeysOf DEF EpisodesKeys
  <1> QED  BY <1>1, <1>2, <1>3, <1>4, <1>5 DEF Resources

\* No two rows have the same id.
LEMMA IdOf ==
    ASSUME NEW res \in Resources
    PROVE  /\ "id" \in DOMAIN KeyColumn[res]
           /\ \A r, s \in Rows[res] :
                r[KeyColumn[res]["id"]] = s[KeyColumn[res]["id"]] => r = s
  <1>1. CASE res = "movies"
    BY <1>1, KeysOf, RowsOf DEF MoviesKeys, MoviesRows
  <1>2. CASE res = "movieSources"
    BY <1>2, KeysOf, RowsOf DEF MovieSourcesKeys, MovieSourcesRows
  <1>3. CASE res = "tvshows"
    BY <1>3, KeysOf, RowsOf DEF TVShowsKeys, TVShowsRows
  <1>4. CASE res = "seasons"
    BY <1>4, KeysOf, RowsOf DEF SeasonsKeys, SeasonsRows, Season
  <1>5. CASE res = "episodes"
    BY <1>5, KeysOf, RowsOf DEF EpisodesKeys, EpisodesRows, Episode
  <1> QED  BY <1>1, <1>2, <1>3, <1>4, <1>5 DEF Resources

\* Every row has the columns that are selected.
LEMMA ColumnsThere ==
    ASSUME NEW res \in Resources, NEW r \in Rows[res], NEW a \in DOMAIN Select[res]
    PROVE  Select[res][a] \in DOMAIN r
  <1>1. CASE res = "movies"
    BY <1>1, SelectOf, RowsOf DEF MoviesView, MoviesRows
  <1>2. CASE res = "movieSources"
    BY <1>2, SelectOf, RowsOf DEF MovieSourcesView, MovieSourcesRows
  <1>3. CASE res = "tvshows"
    BY <1>3, SelectOf, RowsOf DEF TVShowsView, TVShowsRows
  <1>4. CASE res = "seasons"
    BY <1>4, SelectOf, RowsOf DEF SeasonsView, SeasonsRows, Season
  <1>5. CASE res = "episodes"
    BY <1>5, SelectOf, RowsOf DEF EpisodesView, EpisodesRows, Episode
  <1> QED  BY <1>1, <1>2, <1>3, <1>4, <1>5 DEF Resources

LEMMA PairFinite ==
    ASSUME NEW x, NEW y
    PROVE  IsFiniteSet({x, y})
  <1>1. IsFiniteSet({x}) /\ IsFiniteSet({y})
    BY FS_Singleton
  <1>2. IsFiniteSet({x} \cup {y})
    BY <1>1, FS_Union, Zenon
  <1>3. {x, y} = {x} \cup {y}
    OBVIOUS
  <1> QED  BY <1>2, <1>3, Zenon

LEMMA RowsFinite ==
    ASSUME NEW res \in Resources
    PROVE  IsFiniteSet(Rows[res])
  <1>1. IsFiniteSet(MoviesRows) /\ IsFiniteSet(TVShowsRows)
    BY PairFinite DEF MoviesRows, TVShowsRows
  <1>2. IsFiniteSet(MovieSourcesRows)
    <2>1. MovieSourcesRows = {[msrc_id |-> "1", movie_id |-> "1", msrc_url |-> "mov"],
                              [msrc_id |-> "2", movie_id |-> "2", msrc_url |-> "mov"]}
      BY DEF MovieSourcesRows
    <2> QED  BY <2>1, PairFinite
  <1>3. ASSUME NEW w, NEW x, NEW y, NEW z
        PROVE  IsFiniteSet({w, x, y, z})
    <2>1. {w, x, y, z} = {w, x} \cup {y, z}
      OBVIOUS
    <2>2. IsFiniteSet({w, x}) /\ IsFiniteSet({y, z})
      BY PairFinite
    <2>3. IsFiniteSet({w, x} \cup {y, z})
      BY <2>2, FS_Union, Zenon
    <2> QED  BY <2>1, <2>3, Zenon
  <1>4. IsFiniteSet(SeasonsRows) /\ IsFiniteSet(EpisodesRows)
    BY <1>3 DEF SeasonsRows, EpisodesRows
  <1> QED  BY <1>1, <1>2, <1>4, RowsOf DEF Resources

-----------------------------------------------------------------------------
(* The invariant *)

\* What an item may show, also of a row whose cells are gone.
Displayed == [DOMAIN Select[resource] -> Cells \cup {"garbage"}]

\* The types of the variables.
Typed ==
    /\ resource \in Served
    /\ db \subseteq Rows[resource]
    /\ todo \subseteq db
    /\ query.verbs \subseteq {"list", "view"}
    /\ query.params \subseteq Param
    /\ phase \in {"idle", "handle", "exec", "step", "return"}
    /\ \A c \in DOMAIN sq : sq[c] \in Value
    /\ colValues = <<>> \/ \E r \in db : colValues = <<r>>
    /\ content \in Seq(Displayed)
    /\ reply.status \in {0, 200, 501}

\* Between two statements nothing is left of the last one.
Fresh == phase \in {"idle", "handle"} => content = <<>> /\ todo = {} /\ colValues = <<>>

\* No statement returns more rows than the table can have.
Bounded == Len(content) + Cardinality(todo) <= Cardinality(Rows[resource])

Shown == {content[i] : i \in DOMAIN content}

\* A list goes through the table: every row is shown or still to come, none twice.
Listing ==
    phase = "exec" =>
        /\ ~Filtered
        /\ Len(content) + Cardinality(todo) = Cardinality(db)
        /\ Shown \cup Items(todo) = Items(db)

\* The rows the where clause lets through.
Matching == {r \in db : Matches(r, sq)}

\* A view goes through these; the first item is of the row it is made for.
Viewing ==
    phase = "step" =>
        /\ Filtered
        /\ sq \in Sanitized
        /\ todo \subseteq Matching
        /\ Len(content) + Cardinality(todo) = Cardinality(Matching)
        /\ colValues = <<>> <=> content = <<>>
        /\ content # <<>> => content[1] \in Items(Matching)

Inv == Typed /\ Fresh /\ Bounded /\ Listing /\ Viewing

-----------------------------------------------------------------------------
(* Facts about one state *)

LEMMA IsResource ==
    ASSUME Typed
    PROVE  resource \in Resources
  BY HandlerAssumption DEF Typed

\* A pair is a key with a value that may be tried.
LEMMA ParamFields ==
    ASSUME Typed, NEW p \in Param
    PROVE  p = [key |-> p.key, value |-> p.value] /\ p.value \in Value
  <1>1. ASSUME NEW t \in Texts
        PROVE  Written(t) \in Value
    BY <1>1 DEF Written, Value
  <1>2. "nowhere" \in Texts /\ "1" \in Texts /\ Cells \subseteq Texts
    BY DEF Texts
  <1>3. ASSUME NEW k \in DOMAIN KeyColumn[resource], NEW v \in Tried(k)
        PROVE  v \in Value
    <2>1. ASSUME NEW r \in Rows[resource]
          PROVE  r[KeyColumn[resource][k]] \in Cells
      <3>1. KeyColumn[resource][k] \in DOMAIN r
        BY <1>3, <2>1, IsResource, KeysShown, ColumnsThere
      <3> QED  BY <2>1, <3>1 DEF Cells
    <2>2. [text |-> "1", form |-> "padded"] \in Value
      BY <1>2 DEF Value
    <2> QED  BY <1>1, <1>2, <1>3, <2>1, <2>2 DEF Tried
  <1>4. CASE p = [key |-> "ID", value |-> Written("1")]
    BY <1>1, <1>2, <1>4
  <1>5. CASE \E k \in DOMAIN KeyColumn[resource] : \E v \in Tried(k) : p = [key |-> k, value |-> v]
    BY <1>3, <1>5
  <1>6. p \in UNION {{[key |-> k, value |-> v] : v \in Tried(k)} : k \in DOMAIN KeyColumn[resource]}
        \/ p = [key |-> "ID", value |-> Written("1")]
    BY Zenon DEF Param
  <1>7. ASSUME p \in UNION {{[key |-> k, value |-> v] : v \in Tried(k)} : k \in DOMAIN KeyColumn[resource]}
        PROVE  \E k \in DOMAIN KeyColumn[resource] : \E v \in Tried(k) : p = [key |-> k, value |-> v]
    BY <1>7, Zenon
  <1> QED  BY <1>4, <1>5, <1>6, <1>7, Zenon

LEMMA ItemDisplayed ==
    ASSUME Typed, NEW r \in Rows[resource]
    PROVE  Item(r) \in Displayed
  <1>1. \A a \in DOMAIN Select[resource] : r[Select[resource][a]] \in Cells
    BY IsResource, ColumnsThere DEF Cells
  <1> QED  BY <1>1 DEF Item, Displayed

LEMMA StaleItemDisplayed ==
    ASSUME Typed, NEW old \in Rows[resource], NEW r \in Rows[resource], NEW ints, NEW texts
    PROVE  StaleItem(old, r, ints, texts) \in Displayed
  <1>1. \A a \in DOMAIN Select[resource] :
            r[Select[resource][a]] \in Cells /\ old[Select[resource][a]] \in Cells
    BY IsResource, ColumnsThere DEF Cells
  <1> QED  BY <1>1 DEF StaleItem, Displayed

LEMMA Counting ==
    ASSUME Typed
    PROVE  /\ IsFiniteSet(Rows[resource]) /\ IsFiniteSet(db) /\ IsFiniteSet(todo)
           /\ Cardinality(todo) \in Nat /\ Cardinality(db) \in Nat /\ Len(content) \in Nat
           /\ Cardinality(Rows[resource]) \in Nat
           /\ \A S \in SUBSET Rows[resource] :
                 IsFiniteSet(S) /\ Cardinality(S) \in Nat /\ Cardinality(S) <= Cardinality(Rows[resource])
  <1>1. IsFiniteSet(Rows[resource])
    BY IsResource, RowsFinite
  <1>2. \A S \in SUBSET Rows[resource] : IsFiniteSet(S) /\ Cardinality(S) <= Cardinality(Rows[resource])
    BY <1>1, FS_Subset
  <1>3. db \in SUBSET Rows[resource] /\ todo \in SUBSET Rows[resource]
    BY DEF Typed
  <1>4. Len(content) \in Nat
    BY DEF Typed
  <1> QED  BY <1>1, <1>2, <1>3, <1>4, FS_CardinalityType

\* A row is taken from those still to come.
LEMMA TakeRow ==
    ASSUME Typed, NEW r \in todo
    PROVE  Cardinality(todo \ {r}) = Cardinality(todo) - 1 /\ Cardinality(todo) >= 1
  <1>1. IsFiniteSet(todo)
    BY Counting
  <1>2. Cardinality(todo \ {r}) = Cardinality(todo) - 1
    BY <1>1, FS_RemoveElement
  <1>3. IsFiniteSet(todo \ {r}) /\ Cardinality(todo \ {r}) \in Nat
    BY <1>1, FS_RemoveElement, FS_CardinalityType
  <1> QED  BY <1>2, <1>3, Counting

LEMMA Appended ==
    ASSUME NEW S, NEW s \in Seq(S), NEW e \in S
    PROVE  /\ Append(s, e) \in Seq(S)
           /\ Len(Append(s, e)) = Len(s) + 1
           /\ Append(s, e) # <<>>
           /\ {Append(s, e)[i] : i \in DOMAIN Append(s, e)} = {s[i] : i \in DOMAIN s} \cup {e}
           /\ Append(s, e)[1] = IF s = <<>> THEN e ELSE s[1]
  <1>1. /\ Append(s, e) \in Seq(S)
        /\ Len(Append(s, e)) = Len(s) + 1
        /\ Len(s) \in Nat
    OBVIOUS
  <1>2. DOMAIN s = 1..Len(s) /\ DOMAIN Append(s, e) = 1..(Len(s) + 1)
    BY <1>1
  <1>3. /\ \A i \in 1..Len(s) : Append(s, e)[i] = s[i]
        /\ Append(s, e)[Len(s) + 1] = e
    OBVIOUS
  <1>4. {Append(s, e)[i] : i \in DOMAIN Append(s, e)} = {s[i] : i \in DOMAIN s} \cup {e}
    <2>1. \A i \in 1..(Len(s) + 1) : i \in 1..Len(s) \/ i = Len(s) + 1
      BY <1>1
    <2>2. 1..Len(s) \subseteq 1..(Len(s) + 1) /\ Len(s) + 1 \in 1..(Len(s) + 1)
      BY <1>1
    <2> QED  BY <1>2, <1>3, <2>1, <2>2, Zenon
  <1>5. s = <<>> <=> Len(s) = 0
    OBVIOUS
  <1>6. Append(s, e)[1] = IF s = <<>> THEN e ELSE s[1]
    <2>1. CASE s = <<>>
      BY <1>3, <1>5, <2>1
    <2>2. CASE s # <<>>
      <3>1. 1 \in 1..Len(s)
        BY <1>1, <1>5, <2>2
      <3> QED  BY <1>3, <2>2, <3>1, Zenon
    <2> QED  BY <2>1, <2>2
  <1>7. Append(s, e) # <<>>
    BY <1>1
  <1> QED  BY <1>1, <1>4, <1>6, <1>7

\* What depends on the resource only.
LEMMA Steady ==
    ASSUME resource' = resource
    PROVE  /\ Param' = Param /\ Value' = Value /\ Displayed' = Displayed
           /\ \A rs : Items(rs)' = Items(rs)
  <1>1. Cells' = Cells /\ Texts' = Texts
    BY DEF Cells, Texts
  <1>2. Value' = Value /\ Displayed' = Displayed
    BY <1>1 DEF Value, Displayed
  <1>3. Param' = Param
    BY DEF Param, Tried
  <1>4. \A rs : Items(rs)' = Items(rs)
    BY DEF Items, Item
  <1> QED  BY <1>2, <1>3, <1>4

LEMMA Kept ==
    ASSUME resource' = resource, query' = query
    PROVE  Accepted' = Accepted /\ Filtered' = Filtered /\ Sanitized' = Sanitized
  <1>1. Accepted' = Accepted
    BY DEF Accepted
  <1>2. Filtered' = Filtered
    BY <1>1 DEF Filtered
  <1>3. Sanitized' = Sanitized
    BY <1>1 DEF Sanitized, Column
  <1> QED  BY <1>1, <1>2, <1>3

\* What sanitizeQueryParams keeps are values that may be tried.
LEMMA SanitizedValues ==
    ASSUME Typed, NEW f \in Sanitized, NEW c \in DOMAIN f
    PROVE  f[c] \in Value /\ \E p \in Accepted : Column(p) = c /\ f[c] = p.value
  <1>1. PICK p \in Accepted : Column(p) = c /\ f[c] = p.value
    BY DEF Sanitized
  <1>2. p \in Param
    BY DEF Accepted, Typed
  <1> QED  BY <1>1, <1>2, ParamFields

-----------------------------------------------------------------------------
(* The steps *)

LEMMA InitOK ==
    ASSUME Init
    PROVE  Inv
  <1>1. DOMAIN sq = {}
    BY DEF Init, NoParams
  <1>2. Typed
    BY <1>1 DEF Init, Typed, NoQuery, NoReply
  <1>3. Cardinality(todo) = 0
    BY FS_EmptySet DEF Init
  <1>4. Bounded
    BY <1>2, <1>3, Counting DEF Bounded, Init
  <1> QED  BY <1>2, <1>4 DEF Inv, Init, Fresh, Listing, Viewing

LEMMA StepReceive ==
    ASSUME Inv, NEW q \in Query, Receive(q)
    PROVE  Inv'
  <1> USE DEF Receive
  <1>1. q.verbs \subseteq {"list", "view"} /\ q.params \subseteq Param
    <2>1. CASE q \in [verbs : SUBSET {"list", "view"}, params : {{}} \cup {{p} : p \in Param}]
      BY <2>1
    <2>2. CASE \E f \in [1..MaxFilters -> Param] :
                  q = [verbs |-> {"view"}, params |-> {f[i] : i \in 1..MaxFilters}]
      BY <2>2
    <2> QED  BY <2>1, <2>2, Zenon DEF Query
  <1>2. Typed'
    BY <1>1, Steady DEF Inv, Typed
  <1>3. Fresh' /\ Bounded' /\ Listing' /\ Viewing'
    BY DEF Inv, Fresh, Bounded, Listing, Viewing
  <1> QED  BY <1>2, <1>3 DEF Inv

\* Steps that only end the statement, and the answer to no verb.
LEMMA StepEnd ==
    ASSUME Inv, phase' = "return", reply'.status \in {0, 200, 501},
           UNCHANGED <<resource, db, query, sq, todo, colValues, content>>
    PROVE  Inv'
  <1>1. Typed'
    BY Steady DEF Inv, Typed
  <1>2. Fresh' /\ Bounded' /\ Listing' /\ Viewing'
    BY DEF Inv, Fresh, Bounded, Listing, Viewing
  <1> QED  BY <1>1, <1>2 DEF Inv

LEMMA StepList ==
    ASSUME Inv, List
    PROVE  Inv'
  <1> USE DEF List
  <1>1. content = <<>> /\ content' = <<>> /\ colValues = <<>>
    BY DEF Inv, Fresh
  <1>2. DOMAIN sq' = {}
    BY DEF NoParams
  <1>3. Typed'
    BY <1>2, Steady DEF Inv, Typed
  <1>4. Len(content') = 0
    BY <1>1
  <1>5. Len(content') + Cardinality(todo') = Cardinality(db)
    BY <1>4, Counting DEF Inv
  <1>6. Bounded'
    BY <1>5, Counting DEF Bounded, Inv, Typed
  <1>7. Listing'
    <2>1. ~Filtered'
      BY Kept DEF Filtered
    <2>2. Shown' = {}
      BY <1>1 DEF Shown
    <2>3. (Shown \cup Items(todo))' = Items(db)'
      BY <2>2
    <2> QED  BY <1>5, <2>1, <2>3 DEF Listing
  <1> QED  BY <1>3, <1>6, <1>7 DEF Inv, Fresh, Viewing

LEMMA StepView ==
    ASSUME Inv, View
    PROVE  Inv'
  <1> USE DEF View
  <1>1. content = <<>> /\ content' = <<>>
    BY DEF Inv, Fresh
  <1>2. \A c \in DOMAIN sq' : sq'[c] \in Value
    BY SanitizedValues DEF Inv
  <1>3. todo' = Matching' /\ todo' \subseteq db
    BY DEF Matching
  <1>4. Typed'
    BY <1>2, <1>3, Steady DEF Inv, Typed
  <1>5. Len(content') = 0
    BY <1>1
  <1>6. Cardinality(todo') \in Nat /\ Cardinality(todo') <= Cardinality(Rows[resource])
    BY <1>3, Counting DEF Inv, Typed
  <1>7. Bounded'
    BY <1>5, <1>6 DEF Bounded
  <1>8. Viewing'
    <2>1. Filtered' /\ sq' \in Sanitized'
      BY Kept DEF Filtered
    <2>2. Cardinality(todo') = Cardinality(Matching')
      BY <1>3, Zenon
    <2>3. Len(content') + Cardinality(todo') = Cardinality(Matching')
      BY <1>5, <1>6, <2>2
    <2> QED  BY <1>1, <1>3, <2>1, <2>3 DEF Viewing
  <1> QED  BY <1>4, <1>7, <1>8 DEF Inv, Fresh, Listing

\* Another row: what the table and the array have to do with it.
LEMMA AnotherRow ==
    ASSUME Inv, NEW r \in todo, NEW e \in Displayed,
           todo' = todo \ {r}, content' = Append(content, e),
           UNCHANGED <<resource, db, query, phase, sq, reply>>,
           colValues' = colValues \/ colValues' = <<r>>
    PROVE  /\ Typed' /\ Bounded'
           /\ Len(content') + Cardinality(todo') = Len(content) + Cardinality(todo)
           /\ Shown' = Shown \cup {e}
           /\ content' # <<>> /\ content'[1] = IF content = <<>> THEN e ELSE content[1]
  <1>1. /\ content' \in Seq(Displayed)
        /\ Len(content') = Len(content) + 1
        /\ content' # <<>> /\ content'[1] = IF content = <<>> THEN e ELSE content[1]
        /\ Shown' = Shown \cup {e}
    BY Appended DEF Inv, Typed, Shown
  <1>2. Typed'
    BY <1>1, Steady DEF Inv, Typed
  <1>3. Len(content') + Cardinality(todo') = Len(content) + Cardinality(todo)
    <2>1. Cardinality(todo') = Cardinality(todo) - 1 /\ Cardinality(todo) \in Nat /\ Len(content) \in Nat
      BY TakeRow, Counting DEF Inv
    <2> QED  BY <1>1, <2>1
  <1>4. Bounded'
    BY <1>3 DEF Inv, Bounded
  <1> QED  BY <1>1, <1>2, <1>3, <1>4

LEMMA StepExecRow ==
    ASSUME Inv, ExecRow
    PROVE  Inv'
  <1> USE DEF ExecRow
  <1>1. PICK r \in todo : todo' = todo \ {r} /\ content' = Append(content, Item(r))
    OBVIOUS
  <1>2. Item(r) \in Displayed
    BY ItemDisplayed DEF Inv, Typed
  <1>3. /\ Typed' /\ Bounded'
        /\ Len(content') + Cardinality(todo') = Len(content) + Cardinality(todo)
        /\ Shown' = Shown \cup {Item(r)}
    BY <1>1, <1>2, AnotherRow
  <1>4. Listing'
    <2>1. ~Filtered'
      BY Kept DEF Inv, Listing
    <2>2. Items(todo) = Items(todo \ {r}) \cup {Item(r)}
      BY DEF Items
    <2>3. (Shown \cup Items(todo))' = Shown \cup {Item(r)} \cup Items(todo \ {r})
      BY <1>1, <1>3, Steady DEF Items, Item
    <2>4. Items(db)' = Items(db)
      BY DEF Items, Item
    <2>5. (Shown \cup Items(todo))' = Items(db)'
      BY <2>2, <2>3, <2>4 DEF Inv, Listing
    <2>6. Len(content') + Cardinality(todo') = Cardinality(db')
      BY <1>3 DEF Inv, Listing
    <2> QED  BY <2>1, <2>5, <2>6 DEF Listing
  <1> QED  BY <1>3, <1>4 DEF Inv, Fresh, Viewing

\* A row of a view: what is left of Viewing' is about the first item.
LEMMA ViewRow ==
    ASSUME Inv, phase = "step", NEW r \in todo, NEW e \in Displayed,
           todo' = todo \ {r}, content' = Append(content, e),
           UNCHANGED <<resource, db, query, phase, sq, reply>>,
           colValues' # <<>>, colValues' = colValues \/ colValues' = <<r>>,
           content = <<>> => e \in Items(Matching)
    PROVE  Inv'
  <1>1. /\ Typed' /\ Bounded'
        /\ Len(content') + Cardinality(todo') = Len(content) + Cardinality(todo)
        /\ content' # <<>> /\ content'[1] = IF content = <<>> THEN e ELSE content[1]
    BY AnotherRow
  <1>2. Filtered' /\ sq' \in Sanitized'
    BY Kept DEF Inv, Viewing
  <1>3. Matching' = Matching
    BY DEF Matching, Matches
  <1>4. Items(Matching)' = Items(Matching)
    BY <1>3 DEF Items, Item
  <1>5. content'[1] \in Items(Matching)
    BY <1>1 DEF Inv, Viewing
  <1>6. Cardinality(Matching)' = Cardinality(Matching)
    BY <1>3, Zenon
  <1>7. todo' \subseteq Matching'
    BY <1>3 DEF Inv, Viewing
  <1>8. Len(content') + Cardinality(todo') = Cardinality(Matching)'
    BY <1>1, <1>6 DEF Inv, Viewing
  <1>9. Viewing'
    BY <1>1, <1>2, <1>4, <1>5, <1>7, <1>8 DEF Viewing
  <1> QED  BY <1>1, <1>9 DEF Inv, Fresh, Listing

LEMMA StepStepFirstRow ==
    ASSUME Inv, StepFirstRow
    PROVE  Inv'
  <1> USE DEF StepFirstRow
  <1>1. PICK r \in todo : /\ todo' = todo \ {r} /\ colValues' = <<r>>
                          /\ content' = Append(content, Item(r))
    OBVIOUS
  <1>2. Item(r) \in Displayed
    BY ItemDisplayed DEF Inv, Typed
  <1>3. Item(r) \in Items(Matching)
    BY DEF Inv, Viewing, Items
  <1> QED  BY <1>1, <1>2, <1>3, ViewRow

LEMMA StepStepRow ==
    ASSUME Inv, StepRow
    PROVE  Inv'
  <1> USE DEF StepRow
  <1>1. PICK r \in todo, ints \in Fate, texts \in Fate :
            /\ todo' = todo \ {r}
            /\ content' = Append(content, StaleItem(colValues[1], r, ints, texts))
    OBVIOUS
  <1>2. PICK s \in db : colValues = <<s>>
    BY DEF Inv, Typed
  <1>3. colValues[1] \in Rows[resource] /\ r \in Rows[resource]
    BY <1>2 DEF Inv, Typed
  <1>4. StaleItem(colValues[1], r, ints, texts) \in Displayed
    BY <1>3, StaleItemDisplayed DEF Inv
  <1>5. content # <<>>
    BY DEF Inv, Viewing
  <1> QED  BY <1>1, <1>4, <1>5, ViewRow

LEMMA StepReturn ==
    ASSUME Inv, Return
    PROVE  Inv'
  <1> USE DEF Return
  <1>1. DOMAIN sq' = {}
    BY DEF NoParams
  <1>2. Typed'
    BY <1>1, Steady DEF Inv, Typed, NoQuery, NoReply
  <1>3. Cardinality(todo') = 0 /\ Len(content') = 0
    BY FS_EmptySet
  <1>4. Bounded'
    BY <1>3, Counting DEF Inv, Bounded
  <1> QED  BY <1>2, <1>4 DEF Inv, Fresh, Listing, Viewing

LEMMA StepInsert ==
    ASSUME Inv, NEW r \in Rows[resource] \ db, Insert(r)
    PROVE  Inv'
  <1> USE DEF Insert
  <1>1. Typed'
    BY Steady DEF Inv, Typed
  <1> QED  BY <1>1 DEF Inv, Fresh, Bounded, Listing, Viewing

LEMMA StepStutter ==
    ASSUME Inv, UNCHANGED vars
    PROVE  Inv'
  <1> USE DEF vars
  <1>1. Typed'
    BY Steady DEF Inv, Typed
  <1>2. Fresh' /\ Bounded'
    BY DEF Inv, Fresh, Bounded
  <1>3. Listing'
    BY Kept DEF Inv, Listing, Shown, Items, Item
  <1>4. Viewing'
    <2>1. Matching' = Matching
      BY DEF Matching, Matches
    <2>2. Items(Matching)' = Items(Matching) /\ Cardinality(Matching)' = Cardinality(Matching)
      BY <2>1 DEF Items, Item
    <2> QED  BY <2>1, <2>2, Kept DEF Inv, Viewing
  <1> QED  BY <1>1, <1>2, <1>3, <1>4 DEF Inv

LEMMA Inductive ==
    ASSUME Inv, [Next]_vars
    PROVE  Inv'
  <1>1. CASE \E q \in Query : Receive(q)
    BY <1>1, StepReceive
  <1>2. CASE Unrecognized \/ Done \/ Fails
    <2>1. reply.status \in {0, 200, 501}
      BY DEF Inv, Typed
    <2> QED  BY <1>2, <2>1, StepEnd DEF Unrecognized, Done, Fails
  <1>3. CASE List
    BY <1>3, StepList
  <1>4. CASE View
    BY <1>4, StepView
  <1>5. CASE ExecRow
    BY <1>5, StepExecRow
  <1>6. CASE StepFirstRow
    BY <1>6, StepStepFirstRow
  <1>7. CASE StepRow
    BY <1>7, StepStepRow
  <1>8. CASE Return
    BY <1>8, StepReturn
  <1>9. CASE \E r \in Rows[resource] \ db : Insert(r)
    BY <1>9, StepInsert
  <1>10. CASE UNCHANGED vars
    BY <1>10, StepStutter
  <1> QED  BY <1>1, <1>2, <1>3, <1>4, <1>5, <1>6, <1>7, <1>8, <1>9, <1>10 DEF Next

LEMMA AlwaysInv == Spec => []Inv
  <1>1. Init => Inv
    BY InitOK
  <1>2. Inv /\ [Next]_vars => Inv'
    BY Inductive
  <1> QED  BY <1>1, <1>2, PTL DEF Spec

-----------------------------------------------------------------------------
(* The theorems *)

\* Every variable keeps its type, and the array of a response never holds more
\* items than the statement has returned rows (Lister::callback), whichever
\* resources are served and however many filters a query has.
THEOREM Types == Spec => []TypeOK
  <1>1. ASSUME Inv
        PROVE  TypeOK
    <2>1. Len(colValues) <= 1
      <3>1. CASE colValues = <<>>
        BY <3>1
      <3>2. CASE \E r \in db : colValues = <<r>>
        BY <3>2
      <3> QED  BY <1>1, <3>1, <3>2 DEF Inv, Typed
    <2>2. \A p \in query.params : p.value \in Value
      BY <1>1, ParamFields DEF Inv, Typed
    <2> QED  BY <1>1, <2>1, <2>2 DEF Inv, Typed, Bounded, TypeOK
  <1> QED  BY <1>1, AlwaysInv, PTL

\* Only the end of a statement sends a 200.
LEMMA OnlyDone ==
    ASSUME Inv, [Next]_vars, Answers
    PROVE  Done
  BY DEF Next, vars, Answers, Receive, Unrecognized, List, View, ExecRow, StepFirstRow,
         StepRow, Fails, Return, Insert, NoReply

LEMMA Answered ==
    ASSUME Inv, [Next]_vars, Answers
    PROVE  /\ reply'.content = content /\ todo = {} /\ Cardinality(todo) = 0
           /\ Filtered => phase = "step"
           /\ ~Filtered => phase = "exec"
  <1>1. Done
    BY OnlyDone
  <1>2. reply'.content = content /\ todo = {}
    BY <1>1 DEF Done
  <1>3. Cardinality(todo) = 0
    BY <1>2, FS_EmptySet
  <1>4. phase \in {"exec", "step"}
    BY <1>1 DEF Done
  <1> QED  BY <1>2, <1>3, <1>4 DEF Inv, Listing, Viewing

\* A list, and a view without an accepted key, is answered with every row of the
\* table once (ResourceHandler::list, SQLiteDB::execute, Lister::callback).
THEOREM ListsAreWhole == Spec => WholeTable
  <1>1. ASSUME Inv, [Next]_vars, Answers, ~Filtered
        PROVE  ShowsExactly(reply'.content, db)
    <2>1. phase = "exec" /\ reply'.content = content /\ todo = {} /\ Cardinality(todo) = 0
      BY <1>1, Answered
    <2>2. Len(content) = Cardinality(db)
      BY <1>1, <2>1, Counting DEF Inv, Listing
    <2>3. Shown = Items(db)
      BY <1>1, <2>1 DEF Inv, Listing, Items
    <2> QED  BY <2>1, <2>2, <2>3 DEF ShowsExactly, Shown
  <1> QED  BY <1>1, AlwaysInv, PTL DEF Spec, WholeTable

\* The filters as the client reads them, put together from the bound parameters.
Reading == [k \in {p.key : p \in Accepted} |-> sq[KeyColumn[resource][k]]]

\* Each key of a view has one of the values given for it, and the where clause
\* lets through the rows whose item shows it.
LEMMA ReadingOK ==
    ASSUME Inv, sq \in Sanitized
    PROVE  Reading \in Readings /\ Wanted(Reading) = Matching
  <1> DEFINE Keys == {p.key : p \in Accepted}
  <1>1. resource \in Resources /\ Typed
    BY IsResource DEF Inv
  <1>2. DOMAIN sq = {KeyColumn[resource][k] : k \in Keys} /\ Keys \subseteq DOMAIN KeyColumn[resource]
    BY DEF Sanitized, Column, Accepted
  <1>3. ASSUME NEW k \in Keys
        PROVE  \E p \in Accepted : p.key = k /\ sq[KeyColumn[resource][k]] = p.value
    <2>1. KeyColumn[resource][k] \in DOMAIN sq
      BY <1>2, <1>3
    <2>2. PICK p \in Accepted : /\ Column(p) = KeyColumn[resource][k]
                                /\ sq[KeyColumn[resource][k]] = p.value
      BY <1>1, <2>1, SanitizedValues
    <2>3. p.key \in DOMAIN KeyColumn[resource] /\ k \in DOMAIN KeyColumn[resource]
      BY <1>2, <1>3 DEF Accepted
    <2>4. p.key = k
      BY <1>1, <2>2, <2>3, KeysApart DEF Column
    <2> QED  BY <2>2, <2>4
  <1>4. Reading \in Readings
    <2>1. Reading \in [Keys -> {p.value : p \in Accepted}]
      BY <1>3 DEF Reading
    <2>2. ASSUME NEW k \in Keys
          PROVE  [key |-> k, value |-> Reading[k]] \in Accepted
      <3>1. PICK p \in Accepted : p.key = k /\ sq[KeyColumn[resource][k]] = p.value
        BY <1>3, <2>2
      <3>2. p = [key |-> p.key, value |-> p.value]
        BY <1>1, ParamFields DEF Accepted, Typed
      <3> QED  BY <2>2, <3>1, <3>2 DEF Reading
    <2>3. \A k \in DOMAIN Reading : [key |-> k, value |-> Reading[k]] \in Accepted
      BY <2>2 DEF Reading
    <2> QED  BY <2>1, <2>3 DEF Readings
  <1>5. ASSUME NEW r \in db
        PROVE  (\A k \in Keys : CellMatches(Select[resource][k], Item(r)[k], Reading[k]))
               <=> Matches(r, sq)
    <2>1. ASSUME NEW k \in Keys
          PROVE  CellMatches(Select[resource][k], Item(r)[k], Reading[k])
                 <=> CellMatches(KeyColumn[resource][k], r[KeyColumn[resource][k]],
                                 sq[KeyColumn[resource][k]])
      <3>1. k \in DOMAIN Select[resource] /\ Select[resource][k] = KeyColumn[resource][k]
        BY <1>1, <1>2, <2>1, KeysShown
      <3>2. Item(r)[k] = r[KeyColumn[resource][k]]
        BY <3>1 DEF Item
      <3>3. Reading[k] = sq[KeyColumn[resource][k]]
        BY <2>1 DEF Reading
      <3> QED  BY <3>1, <3>2, <3>3
    <2>2. Matches(r, sq) <=>
             \A k \in Keys : CellMatches(KeyColumn[resource][k], r[KeyColumn[resource][k]],
                                         sq[KeyColumn[resource][k]])
      BY <1>2, Zenon DEF Matches
    <2> QED  BY <2>1, <2>2, Zenon
  <1>6. DOMAIN Reading = Keys
    BY DEF Reading
  <1>7. Wanted(Reading) = Matching
    BY <1>5, <1>6, Zenon DEF Wanted, Matching
  <1> QED  BY <1>4, <1>7

\* A view has as many items as rows match all its filters, and the first of
\* them is a row's own (SQLiteDB::execute's loop, where colValues is never
\* emptied).
THEOREM ViewsCount == Spec => ViewCounts
  <1>1. ASSUME Inv, [Next]_vars, Answers, Filtered
        PROVE  \E f \in Readings :
                  /\ Len(reply'.content) = Cardinality(Wanted(f))
                  /\ reply'.content # <<>> => reply'.content[1] \in Items(Wanted(f))
    <2>1. phase = "step" /\ reply'.content = content /\ Cardinality(todo) = 0
      BY <1>1, Answered
    <2>2. Len(content) = Cardinality(Matching)
      BY <1>1, <2>1, Counting DEF Inv, Viewing
    <2>3. content # <<>> => content[1] \in Items(Matching)
      BY <1>1, <2>1 DEF Inv, Viewing
    <2>4. Reading \in Readings /\ Wanted(Reading) = Matching
      BY <1>1, <2>1, ReadingOK DEF Inv, Viewing
    <2> QED  BY <2>1, <2>2, <2>3, <2>4
  <1> QED  BY <1>1, AlwaysInv, PTL DEF Spec, ViewCounts

\* A view by id, whatever else it filters by, is answered with exactly the rows
\* it asks for: there is at most one, so the pointers left over from an earlier
\* row (colValues) never reach the response.
THEOREM IdsAreExact == Spec => LookupByIdExact
  <1>1. ASSUME Inv, [Next]_vars, Answers, Filtered, \E p \in Accepted : p.key = "id"
        PROVE  \E f \in Readings : ShowsExactly(reply'.content, Wanted(f))
    <2> DEFINE c == KeyColumn[resource]["id"]
    <2>1. phase = "step" /\ reply'.content = content /\ Cardinality(todo) = 0
      BY <1>1, Answered
    <2>2. Len(content) = Cardinality(Matching)
      BY <1>1, <2>1, Counting DEF Inv, Viewing
    <2>3. content # <<>> => content[1] \in Items(Matching)
      BY <1>1, <2>1 DEF Inv, Viewing
    <2>4. Reading \in Readings /\ Wanted(Reading) = Matching
      BY <1>1, <2>1, ReadingOK DEF Inv, Viewing
    <2>5. c \in DOMAIN sq
      <3>1. sq \in Sanitized
        BY <1>1, <2>1 DEF Inv, Viewing
      <3> QED  BY <1>1, <3>1 DEF Sanitized, Column
    <2>6. ASSUME NEW r \in Matching, NEW s \in Matching
          PROVE  r = s
      <3>1. r[c] = s[c]
        BY <2>5, <2>6 DEF Matching, Matches, CellMatches
      <3>2. r \in Rows[resource] /\ s \in Rows[resource]
        BY <1>1 DEF Matching, Inv, Typed
      <3> QED  BY <1>1, <3>1, <3>2, IsResource, IdOf DEF Inv
    <2>7. content \in Seq(Displayed)
      BY <1>1 DEF Inv, Typed
    <2>8. CASE Matching = {}
      <3>1. Len(content) = 0
        BY <2>2, <2>8, FS_EmptySet
      <3>2. content = <<>>
        BY <2>7, <3>1
      <3>3. ShowsExactly(content, Matching)
        BY <2>2, <2>8, <3>2 DEF ShowsExactly, Items
      <3> QED  BY <2>1, <2>4, <3>3
    <2>9. CASE Matching # {}
      <3>1. PICK r \in Matching : Matching = {r}
        BY <2>6, <2>9
      <3>2. Len(content) = 1
        BY <2>2, <3>1, FS_Singleton
      <3>3. DOMAIN content = {1} /\ content # <<>>
        BY <2>7, <3>2
      <3>4. Items(Matching) = {Item(r)}
        BY <3>1 DEF Items
      <3>5. ShowsExactly(content, Matching)
        BY <2>2, <2>3, <3>3, <3>4 DEF ShowsExactly
      <3> QED  BY <2>1, <2>4, <3>5
    <2> QED  BY <2>8, <2>9
  <1> QED  BY <1>1, AlwaysInv, PTL DEF Spec, LookupByIdExact
=============================================================================
