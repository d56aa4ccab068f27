------------------------------- MODULE MCWeb -------------------------------
(***************************************************************************)
(* The parts of a web server around its connections: authentication, the   *)
(* search for a handler, the life of the services, the configuration file, *)
(* and streams over connections.  They are independent and explored side   *)
(* by side, the first state saying which one is (part).                    *)
(***************************************************************************)
EXTENDS HTTPAuth, WebServer, TCPStream, TLC

VARIABLES
    part,
    handlers, m_redirects,
    p, read, files, before, services, m_auth, outcome

handlerVars == <<handlers, m_redirects>>
configVars == <<p, read, files, before, services, m_auth, outcome>>

-----------------------------------------------------------------------------
(* Resources: sequences of characters, of which 1 is the slash *)

a == <<1, 2>>
Short == {<<1, 2>>, <<1, 2, 1>>, <<1, 2, 1, 2>>, <<1, 2, 0>>, <<1, 2, 2>>, <<>>}

\* Paths that begin with the slash: of up to three characters, one below the slash, the
\* slash and one above, and some of four.
Lists == INSTANCE AuthResources WITH
    Paths <- {<<>>, <<1, 2, 1, 2>>, <<1, 2, 0, 2>>, <<1, 2, 2, 1>>}
                \cup {<<1>> \o w : w \in UNION {[1..n -> 0..2] : n \in 0..2}},
    MaxResources <- 2

\* The sessions of the cookie scheme: cookies are named like the credentials of the basic
\* scheme, so that both have the same keys.
LoginPath == <<1, 3>>
LogoutPath == <<1, 4>>
SessionPaths == {a, LoginPath, LogoutPath}
TwoKeys == {"u"} \X {"w1", "w2"}

\* The basic scheme, whose users and lists change meanwhile.
Basic == INSTANCE HTTPAuth WITH
    Paths <- {a}, Users <- {"u"}, Cookies <- {}, Scheme <- "basic", Changing <- TRUE, MaxTime <- 3

\* What the proofs about these components assume of their constants.
ASSUME SessionAssumption == AuthAssumption /\ Basic!AuthAssumption
ASSUME ServerAssumption == WebServerAssumption /\ StreamAssumption

Protected == INSTANCE HTTPServer WITH
    Paths <- Short \ {<<1, 2, 2>>}, MaxResources <- 1, MaxHandlers <- 2, MaxRedirections <- 2, MAX_REDIRECTS <- 10,
    m_resources <- handlers

\* Siblings below one resource, for the search.
Search == INSTANCE HTTPServer WITH
    Paths <- Short \cup {a \o <<1, 3>>, a \o <<1, 0>>, <<1, 0>>, a \o <<0>> \o a},
    MaxResources <- 0, MaxHandlers <- 5, MaxRedirections <- 0, MAX_REDIRECTS <- 10,
    m_resources <- handlers

\* Enough for circles and for chains longer than the limit.
Redirects == INSTANCE HTTPServer WITH
    Paths <- {<<>>, a, a \o a, <<1, 3>>, <<1, 3, 1>>}, MaxResources <- 0, MaxHandlers <- 1,
    MaxRedirections <- 3, MAX_REDIRECTS <- 2, m_resources <- handlers

-----------------------------------------------------------------------------
(* Configuration files and streams *)

Line(tokens, command, name, value) ==
    [tokens |-> tokens, means |-> [command |-> command, name |-> name, value |-> value]]

Wrong(tokens) == Line(tokens, "wrong", <<>>, <<>>)

\* One or two lines of each command, comments, blank lines, and lines that are wrong in
\* each of the ways the state machine tells.
Lines ==
    { Line(<<"path", " ", "/dir">>, "path", <<>>, <<"/dir">>),
      Line(<<"auth", " ", "basic">>, "auth", <<>>, <<"basic">>),
      Line(<<"auth", " ", " ", "cookie">>, "auth", <<>>, <<"cookie">>),
      Line(<<"restrict", " ", "/a">>, "restrict", <<>>, <<"/a">>),
      Line(<<"user", " ", "u", " ", "pass", " ", "#">>, "user", <<"u">>, <<"pass", " ", "#">>),
      Line(<<"service", " ", "/a", " ", "Echo">>, "service", <<"/a">>, <<"Echo">>),
      Line(<<"service", " ", " ", "/b", " ", "Echo">>, "service", <<"/b">>, <<"Echo">>),
      Line(<<"option", " ", "/a", " ", "k=v">>, "option", <<"/a">>, <<"k=v">>),
      Line(<<"#", " ", "service">>, "none", <<>>, <<>>),
      Line(<<>>, "none", <<>>, <<>>),
      Wrong(<<"auth", " ">>), Wrong(<<" ", "auth">>), Wrong(<<"unknown", " ", "x">>),
      Wrong(<<"service", " ", "/c">>), Wrong(<<"user", " ">>), Wrong(<<"auth", " ", "unknown">>),
      Wrong(<<"service", " ", "/d", " ", "unknown">>), Wrong(<<"option", " ", "/a", " ", "novalue">>) }

\* Two files, one after the other, and a file whose last line has no end.
Files == INSTANCE ServiceConfig WITH
    Plugins <- {<<"Echo">>}, Options <- {<<"k=v">>}, MaxLines <- 3, MaxFiles <- 1, Unended <- FALSE

Right == INSTANCE ServiceConfig WITH
    Plugins <- {<<"Echo">>}, Options <- {<<"k=v">>}, MaxLines <- 3, MaxFiles <- 0, Unended <- TRUE

\* The extended stream is written to; this one is read from.
ReadStream == INSTANCE TCPStream WITH
    WRITE_BUFFER_SIZE <- 3, PUT_BACK_MAX <- 3, READ_BUFFER_SIZE <- 6, MaxGiven <- 2, MaxSent <- 8,
    MaxCall <- 4

-----------------------------------------------------------------------------

SomeInit ==
    /\ part \in {"lists", "basic", "cookie", "protected", "search", "redirects",
                  "services", "files", "right", "writing", "reading"}
    /\ IF part = "cookie" THEN Init ELSE Basic!Init
    /\ handlers = {} /\ m_redirects = [r \in {} |-> r]
    /\ ServerInit
    /\ Files!Init
    /\ IF part = "reading" THEN ReadStream!StreamInit ELSE StreamInit

SomeNext ==
    \/ /\ part = "lists" /\ Lists!ResourcesNext
       /\ Admin
       /\ UNCHANGED <<m_users, handlerVars, serverVars, configVars, streamVars>>
    \/ /\ \/ part = "basic" /\ Basic!Next
          \/ part = "cookie" /\ Next
       /\ UNCHANGED <<handlerVars, serverVars, configVars, streamVars>>
    \/ /\ \/ part = "protected" /\ Protected!Next
          \/ part = "search" /\ Search!Next
          \/ part = "redirects" /\ Redirects!Next
       /\ Admin
       /\ UNCHANGED <<m_users, serverVars, configVars, streamVars>>
    \/ /\ part = "services" /\ ServerNext
       /\ UNCHANGED <<vars, handlerVars, configVars, streamVars>>
    \/ /\ \/ part = "files" /\ Files!Next
          \/ part = "right" /\ Right!Next
       /\ UNCHANGED <<vars, handlerVars, serverVars, streamVars>>
    \/ /\ \/ part = "writing" /\ StreamNext
          \/ part = "reading" /\ ReadStream!StreamNext
       /\ UNCHANGED <<vars, handlerVars, serverVars, configVars>>

SomeVars == <<part, vars, handlerVars, serverVars, configVars, streamVars>>

SomeSpec == SomeInit /\ [][SomeNext /\ UNCHANGED part]_SomeVars

\* Threads of the program are interchangeable, and so are requests or connections.
Symmetry == Permutations(Controllers) \cup Permutations(Requests)

-----------------------------------------------------------------------------

\* A request goes to the handler of the nearest resource above the one it asks for, unless
\* its redirections are too many; a path is restricted exactly when it lies below a
\* restricted resource and not below a permitted one, part by part; and no detour of
\* redirections leads to the handler of a restricted resource without authentication.
RequestsReachHandlers ==
    /\ part = "search" => Search!NearestHandler
    /\ part = "redirects" => Redirects!StopsOnlyCircles
    /\ part = "lists" => Lists!RestrictedByParts
    /\ part = "protected" => Protected!RestrictedHandlersRefuse

\* A configuration file that loads without an exception does what its lines mean, and one
\* whose lines all mean something, in an order that makes sense, is not refused.
ConfigDoesWhatItSays ==
    /\ part = "files" => Files!LoadsWhatIsMeant
    /\ part = "right" => Right!LoadsWhatIsRight
=============================================================================
