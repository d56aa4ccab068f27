--------------------------- MODULE ServiceConfig ---------------------------
(***************************************************************************)
(* The configuration file of a web server (WebServer::loadServiceConfig in *)
(* net/src/WebServer.cpp), read by a state machine that carries commands,  *)
(* resources and values from character to character.                       *)
(*                                                                         *)
(* Resources are written without a slash at the end.                      *)
(* The characters are grouped into tokens: the space, the end of a line,   *)
(* the character # and the words between them.  A line of Lines comes with *)
(* what its author means by it, which the properties compare with what the *)
(* state machine does.                                                     *)
(***************************************************************************)
EXTENDS Sequences, SequencesExt, FiniteSets, Integers

CONSTANTS
    Lines,     \* records: the tokens of a line, and what it means
    Plugins,   \* values that name a plug-in loadService() can load
    Options,   \* values of the form name=value that a service accepts
    MaxLines,  \* bound: lines in a file
    MaxFiles,  \* bound: files loaded
    Unended,   \* the last line of a file may lack its end
    NULL

Space   == " "
Newline == "\n"
Hash    == "#"

Commands == {"path", "auth", "restrict", "user", "service", "option"}

\* Words of letters only; the others begin with or contain something else.
isalpha(w) == w \in Commands \cup {"Echo", "basic", "cookie", "unknown"}

VARIABLES
    p,         \* the variables of loadServiceConfig()
    read,      \* the lines of the file read so far
    files,     \* the number of files loaded
    before,    \* the server before the file: its services and m_auth
    services,  \* services[i]: resource, plug-in and options
    m_auth,    \* the authentication of the server, or NULL
    outcome    \* of the file: being read, loaded, or an exception

vars == <<p, read, files, before, services, m_auth, outcome>>

NewParser == [parse_state |-> "PARSE_NEWLINE", command |-> NULL, resource |-> <<>>,
              username |-> <<>>, value |-> <<>>, auth_ptr |-> NULL, services |-> {},
              thrown |-> FALSE]

Throw(q) == [q EXCEPT !.thrown = TRUE]

Go(q, state) == [q EXCEPT !.parse_state = state]

-----------------------------------------------------------------------------
(* What a finished line does *)

\* Mutant: a second auth line keeps the restrictions of the first.
newAuthKept(q) ==
    IF q.value \notin {<<"basic">>, <<"cookie">>} THEN Throw(q)
    ELSE IF q.auth_ptr # NULL THEN [q EXCEPT !.auth_ptr.kind = q.value]
    ELSE [q EXCEPT !.auth_ptr = [kind |-> q.value, users |-> {}, restricts |-> {}]]

newAuth(q) ==
    IF q.value \in {<<"basic">>, <<"cookie">>}
    THEN [q EXCEPT !.auth_ptr = [kind |-> q.value, users |-> {}, restricts |-> {}]]
    ELSE Throw(q)

addRestrict(q) ==
    IF q.auth_ptr = NULL THEN Throw(q) ELSE [q EXCEPT !.auth_ptr.restricts = @ \cup {q.value}]

\* A user that is there already keeps its password.
addUser(q) ==
    IF q.auth_ptr = NULL THEN Throw(q)
    ELSE IF \E u \in q.auth_ptr.users : u.name = q.username THEN q
    ELSE [q EXCEPT !.auth_ptr.users = @ \cup {[name |-> q.username, password |-> q.value]}]

loadService(q) ==
    IF q.value \notin Plugins \/ \E s \in q.services : s.resource = q.resource THEN Throw(q)
    ELSE [q EXCEPT !.services = @ \cup {[resource |-> q.resource, plugin |-> q.value,
                                         options |-> {}]}]

setServiceOption(q) ==
    IF q.value \notin Options \/ ~ \E s \in q.services : s.resource = q.resource THEN Throw(q)
    ELSE [q EXCEPT !.services =
            {IF s.resource = q.resource THEN [s EXCEPT !.options = @ \cup {q.value}] ELSE s : s \in @}]

\* addPluginDirectory() logs a directory that is not there, and goes on.
Execute(q) ==
    CASE q.command = "path"     -> q
      [] q.command = "auth"     -> newAuth(q)
      [] q.command = "restrict" -> addRestrict(q)
      [] q.command = "user"     -> addUser(q)
      [] q.command = "service"  -> loadService(q)
      [] q.command = "option"   -> setServiceOption(q)

-----------------------------------------------------------------------------
(* The state machine *)

atNewline(q, c) ==
    CASE c = Hash    -> Go(q, "PARSE_COMMENT")
      [] c = Newline -> q
      [] isalpha(c)  -> [Go(q, "PARSE_COMMAND") EXCEPT !.command = c]
      [] OTHER       -> Throw(q)

inCommand(q, c) ==
    IF c # Space THEN Throw(q)
    ELSE CASE q.command \in {"path", "auth", "restrict"} ->
                  [Go(q, "PARSE_VALUE") EXCEPT !.value = <<>>]
           [] q.command \in {"service", "option"} -> [Go(q, "PARSE_RESOURCE") EXCEPT !.resource = <<>>]
           [] q.command = "user" -> [Go(q, "PARSE_USERNAME") EXCEPT !.username = <<>>]
           [] OTHER -> Throw(q)

inResource(q, c) ==
    CASE c = Space   -> IF q.resource = <<>> THEN q
                        ELSE [Go(q, "PARSE_VALUE") EXCEPT !.value = <<>>]
      [] c = Newline -> Throw(q)
      [] OTHER       -> [q EXCEPT !.resource = Append(@, c)]

inUsername(q, c) ==
    CASE c = Space   -> IF q.username = <<>> THEN q
                        ELSE [Go(q, "PARSE_VALUE") EXCEPT !.value = <<>>]
      [] c = Newline -> Throw(q)
      [] OTHER       -> [q EXCEPT !.username = Append(@, c)]

inValue(q, c) ==
    CASE c = Newline -> IF q.value = <<>> THEN Throw(q)
                        ELSE [Go(Execute(q), "PARSE_NEWLINE") EXCEPT !.command = NULL]
      [] c = Space   -> IF q.value = <<>> THEN q ELSE [q EXCEPT !.value = Append(@, c)]
      [] OTHER       -> [q EXCEPT !.value = Append(@, c)]

Parse(q, c) ==
    IF q.thrown THEN q
    ELSE CASE q.parse_state = "PARSE_NEWLINE"  -> atNewline(q, c)
           [] q.parse_state = "PARSE_COMMAND"  -> inCommand(q, c)
           [] q.parse_state = "PARSE_RESOURCE" -> inResource(q, c)
           [] q.parse_state = "PARSE_USERNAME" -> inUsername(q, c)
           [] q.parse_state = "PARSE_VALUE"    -> inValue(q, c)
           [] q.parse_state = "PARSE_COMMENT"  -> IF c = Newline THEN Go(q, "PARSE_NEWLINE") ELSE q

-----------------------------------------------------------------------------

Init ==
    /\ p = NewParser
    /\ read = <<>>
    /\ files = 0
    /\ services = {}
    /\ m_auth = NULL
    /\ before = [services |-> {}, auth |-> NULL]
    /\ outcome = "reading"

\* The next line; a service is loaded, and an option set, as the line ends.
ReadLine(line, ended) ==
    LET q == FoldLeft(Parse, p, line.tokens \o (IF ended THEN <<Newline>> ELSE <<>>))
    IN /\ outcome = "reading"
       /\ Len(read) < MaxLines
       /\ p' = q
       /\ read' = Append(read, line)
       /\ services' = q.services
       /\ outcome' = IF q.thrown THEN "exception" ELSE IF ended THEN "reading" ELSE "loaded"
       /\ m_auth' = IF q.thrown \/ ended THEN m_auth ELSE q.auth_ptr
       /\ UNCHANGED <<files, before>>

EndOfFile ==
    /\ outcome = "reading"
    /\ m_auth' = p.auth_ptr
    /\ outcome' = "loaded"
    /\ UNCHANGED <<p, read, files, before, services>>

LoadServiceConfig ==
    /\ outcome # "reading"
    /\ files < MaxFiles
    /\ files' = files + 1
    /\ p' = [NewParser EXCEPT !.services = services]
    /\ read' = <<>>
    /\ before' = [services |-> services, auth |-> m_auth]
    /\ outcome' = "reading"
    /\ UNCHANGED <<services, m_auth>>

\* Every file has been read.
Done == outcome # "reading" /\ files = MaxFiles /\ UNCHANGED vars

Next ==
    \/ \E line \in Lines : ReadLine(line, TRUE) \/ (Unended /\ ReadLine(line, FALSE))
    \/ EndOfFile
    \/ LoadServiceConfig
    \/ Done

Spec == Init /\ [][Next]_vars

-----------------------------------------------------------------------------
(* Properties *)

Meant(command) == {i \in DOMAIN read : read[i].means.command = command}

LastAuth == CHOOSE i \in Meant("auth") : \A j \in Meant("auth") : j <= i

\* A file that loads without an exception does what its lines mean, however
\* comments, blank lines and lines of other commands surround them: every
\* service line has its service with the options of the option lines, and
\* the server is left with the authentication of the last auth line, the
\* restrictions and users after it, or none (loadServiceConfig).
LoadsWhatIsMeant ==
    outcome = "loaded" =>
        /\ {[r |-> s.resource, v |-> s.plugin] : s \in services}
             = {[r |-> s.resource, v |-> s.plugin] : s \in before.services}
                   \cup {[r |-> read[i].means.name, v |-> read[i].means.value] : i \in Meant("service")}
        /\ \A i \in Meant("option") :
             \E s \in services : s.resource = read[i].means.name /\ read[i].means.value \in s.options
        /\ IF Meant("auth") = {} THEN m_auth = NULL
           ELSE /\ m_auth # NULL
                /\ m_auth.kind = read[LastAuth].means.value
                /\ m_auth.restricts = {read[i].means.value :
                                         i \in {k \in Meant("restrict") : k > LastAuth}}
                /\ {u.name : u \in m_auth.users} = {read[i].means.name :
                                         i \in {k \in Meant("user") : k > LastAuth}}

\* A file whose lines all mean something, in an order that makes sense, is
\* not refused.
LoadsWhatIsRight ==
    (/\ outcome = "exception"
     /\ \A i \in DOMAIN read : read[i].means.command # "wrong"
     /\ \A i \in Meant("restrict") \cup Meant("user") : \E j \in Meant("auth") : j < i
     /\ \A i \in Meant("option") :
          \/ \E s \in before.services : s.resource = read[i].means.name
          \/ \E j \in Meant("service") : j < i /\ read[j].means.name = read[i].means.name)
    => \E i \in Meant("service") :
          \/ \E s \in before.services : s.resource = read[i].means.name
          \/ \E j \in Meant("service") : j < i /\ read[j].means.name = read[i].means.name
=============================================================================
