--------------------------- MODULE PluginManager ---------------------------
(***************************************************************************)
(* The collection of plug-in objects of a server                           *)
(* (common/include/pion/PluginManager.hpp): objects by identifier, each    *)
(* with a pointer to the plug-in whose code made it.  The pointers of the  *)
(* entries, those of load() and those callers got from getLibPtr() share   *)
(* plug-ins as Libraries says.                                             *)
(*                                                                         *)
(* A step is one critical section of m_plugin_mutex, or the code between   *)
(* two of them: load() looks for the identifier before it takes the mutex, *)
(* and run() and getStatistic() for one identifier call the object after   *)
(* they have let the mutex go.                                             *)
(***************************************************************************)
EXTENDS Integers, FiniteSets

CONSTANTS
    Clients,      \* threads that use the manager
    Identifiers,  \* identifiers of plug-in objects
    Pointers,     \* pointers to plug-ins that callers keep
    Types,        \* plug-ins that can be opened
    MaxObjects,   \* bound: objects made in a behaviour
    Absent

\* Absent is none of the things it stands in for, threads, identifiers and pointers are
\* different things, and no plug-in is the program.
ManagerAssumption ==
    /\ MaxObjects \in Nat
    /\ Absent \notin Types /\ Absent \notin Identifiers /\ Absent \notin 1..MaxObjects /\ Absent # "program"
    /\ Clients \cap Identifiers = {} /\ Pointers \cap (Clients \cup Identifiers) = {}
    /\ "program" \notin Types

Program == "program"  \* the maker of an object that no plug-in made

VARIABLES
    careful,  \* callers keep out of the way of each other
    managed,  \* m_plugin_map: the object under each identifier, or Absent
    maker,    \* maker[o]: what made object o
    alive,    \* the objects that have been made and not destroyed
    holds,    \* the plug-in of each entry, of load() in each thread, and of each kept pointer
    inUse,    \* the plug-ins whose library is loaded
    where,    \* where each thread stands
    id,       \* the identifier in its call
    obj       \* the object in its hands

managerVars == <<careful, managed, maker, alive, holds, inUse, where, id, obj>>

Lib == INSTANCE Libraries WITH
    Handles <- Clients \cup Identifiers \cup Pointers, Names <- Types, Closed <- Absent, loaded <- inUse

ObjectNumbers == 1..MaxObjects

ManagerInit ==
    /\ careful \in BOOLEAN
    /\ managed = [i \in Identifiers |-> Absent]
    /\ maker = [o \in {} |-> Absent]
    /\ alive = {}
    /\ Lib!Init
    /\ where = [t \in Clients |-> "out"]
    /\ id = [t \in Clients |-> Absent]
    /\ obj = [t \in Clients |-> Absent]

\* Thread t goes on at place p with identifier i and object o.
At(t, p, i, o) ==
    /\ where' = [where EXCEPT ![t] = p]
    /\ id' = [id EXCEPT ![t] = i]
    /\ obj' = [obj EXCEPT ![t] = o]

Returns(t) == At(t, "out", Absent, Absent)

\* The number of the next object, and its construction by m.
NextObject == Cardinality(DOMAIN maker) + 1

New(m) ==
    /\ NextObject \in ObjectNumbers
    /\ maker' = [p \in DOMAIN maker \cup {NextObject} |-> IF p = NextObject THEN m ELSE maker[p]]
    /\ alive' = alive \cup {NextObject}

\* Callers that keep out of the way: no other thread works on identifier i.
Alone(t, i) == careful => \A s \in Clients \ {t} : id[s] # i

-----------------------------------------------------------------------------
(* load() *)

\* The identifier is looked for without the mutex.
Load(t, i) ==
    /\ where[t] = "out"
    /\ Alone(t, i)
    /\ managed[i] = Absent
    /\ At(t, "open", i, Absent)
    /\ UNCHANGED <<managed, maker, alive, holds, inUse>>

OpenLibrary(t) ==
    /\ where[t] = "open"
    /\ \/ \E n \in Types : Lib!Take(t, n) /\ At(t, "create", id[t], Absent)
       \/ Returns(t) /\ UNCHANGED <<holds, inUse>>
    /\ UNCHANGED <<managed, maker, alive>>

CreateObject(t) ==
    /\ where[t] = "create"
    /\ New(holds[t])
    /\ At(t, "insert", id[t], NextObject)
    /\ UNCHANGED <<managed, holds, inUse>>

\* The constructor throws; the pointer to the plug-in goes out of scope.
CreateFails(t) ==
    /\ where[t] = "create"
    /\ Lib!Drop(t)
    /\ Returns(t)
    /\ UNCHANGED <<managed, maker, alive>>

\* Mutant: the entry goes without the pointer to the plug-in.
InsertLoadedBare(t) ==
    /\ where[t] = "insert"
    /\ managed' = IF managed[id[t]] = Absent
                       THEN [managed EXCEPT ![id[t]] = obj[t]] ELSE managed
    /\ holds' = [holds EXCEPT ![t] = Absent]
    /\ inUse' = inUse \cap Lib!Held(holds')
    /\ At(t, "use", id[t], obj[t])
    /\ UNCHANGED <<maker, alive>>

\* The entry copies the thread's pointer, which then goes out of scope; an
\* identifier that has been taken meanwhile keeps what it has.
InsertLoaded(t) ==
    /\ where[t] = "insert"
    /\ \/ /\ managed[id[t]] = Absent
          /\ managed' = [managed EXCEPT ![id[t]] = obj[t]]
          /\ holds' = [holds EXCEPT ![id[t]] = holds[t], ![t] = Absent]
       \/ /\ managed[id[t]] # Absent
          /\ UNCHANGED managed
          /\ holds' = [holds EXCEPT ![t] = Absent]
    /\ inUse' = inUse \cap Lib!Held(holds')
    /\ At(t, "use", id[t], obj[t])
    /\ UNCHANGED <<maker, alive>>

-----------------------------------------------------------------------------
(* The other operations *)

\* The caller makes an object of its own; insert() drops it if the
\* identifier is taken.
Add(t, i) ==
    /\ where[t] = "out"
    /\ Alone(t, i)
    /\ careful => managed[i] = Absent
    /\ New(Program)
    /\ managed' = [managed EXCEPT ![i] = IF @ = Absent THEN NextObject ELSE @]
    /\ UNCHANGED <<holds, inUse, where, id, obj>>

Remove(t, i) ==
    /\ where[t] = "out"
    /\ Alone(t, i)
    /\ managed[i] # Absent
    /\ alive' = alive \ {managed[i]}
    /\ managed' = [managed EXCEPT ![i] = Absent]
    /\ Lib!Drop(i)
    /\ UNCHANGED <<maker, where, id, obj>>

ClearPlugins(t) ==
    /\ where[t] = "out"
    /\ \A i \in Identifiers : Alone(t, i)
    /\ alive' = alive \ {managed[i] : i \in Identifiers}
    /\ managed' = [i \in Identifiers |-> Absent]
    /\ holds' = [x \in DOMAIN holds |-> IF x \in Identifiers THEN Absent ELSE holds[x]]
    /\ inUse' = inUse \cap Lib!Held(holds')
    /\ UNCHANGED <<maker, where, id, obj>>

\* getLibPtr(), for a caller that wants the library to stay.
GetLibPtr(q, i) ==
    /\ Lib!Copy(q, i)
    /\ UNCHANGED <<managed, maker, alive, where, id, obj>>

DropLibPtr(q) ==
    /\ holds[q] # Absent
    /\ Lib!Drop(q)
    /\ UNCHANGED <<managed, maker, alive, where, id, obj>>

\* clone() makes an object of the plug-in that the entry has now; an object
\* without a plug-in cannot be cloned.
Clone(t, i) ==
    /\ where[t] = "out"
    /\ Alone(t, i)
    /\ managed[i] # Absent /\ holds[i] # Absent
    /\ New(holds[i])
    /\ At(t, "cloned", i, NextObject)
    /\ UNCHANGED <<managed, holds, inUse>>

\* replace() by a clone of whatever the identifier has then; the entry keeps
\* its pointer to the plug-in.
Replace(t) ==
    /\ where[t] = "cloned"
    /\ managed[id[t]] # Absent
    /\ alive' = alive \ {managed[id[t]]}
    /\ managed' = [managed EXCEPT ![id[t]] = obj[t]]
    /\ Returns(t)
    /\ UNCHANGED <<maker, holds, inUse>>

\* The caller destroys its clone.
Discard(t) ==
    /\ where[t] = "cloned"
    /\ alive' = alive \ {obj[t]}
    /\ Returns(t)
    /\ UNCHANGED <<managed, maker, holds, inUse>>

\* get() and find(), the first half of run() and getStatistic() for one
\* identifier.
Get(t, i) ==
    /\ where[t] = "out"
    /\ Alone(t, i)
    /\ managed[i] # Absent
    /\ At(t, "use", i, managed[i])
    /\ UNCHANGED <<managed, maker, alive, holds, inUse>>

\* The caller's function is called with the object.
Use(t) ==
    /\ where[t] = "use"
    /\ Returns(t)
    /\ UNCHANGED <<managed, maker, alive, holds, inUse>>

ManagerNext ==
    /\ \/ \E t \in Clients :
            \/ OpenLibrary(t) \/ CreateObject(t) \/ CreateFails(t) \/ InsertLoaded(t)
            \/ ClearPlugins(t) \/ Replace(t) \/ Discard(t) \/ Use(t)
            \/ \E i \in Identifiers : Load(t, i) \/ Add(t, i) \/ Remove(t, i) \/ Clone(t, i) \/ Get(t, i)
       \/ \E q \in Pointers : DropLibPtr(q) \/ \E i \in Identifiers : GetLibPtr(q, i)
    /\ UNCHANGED careful

ManagerSpec == ManagerInit /\ [][ManagerNext]_managerVars

-----------------------------------------------------------------------------
(* Properties *)

\* A caller's function gets an object that exists, between get() and the call too (run(),
\* getStatistic(), load()).
UsesLiving == \A t \in Clients : where[t] = "use" => obj[t] \in alive

\* It is still the object under the identifier; load() returns what it has put there.
UsesManaged == \A t \in Clients : where[t] = "use" => managed[id[t]] = obj[t]

\* The code of every object that exists is loaded: a clone, too, outlives no plug-in.
KeepsCode == \A o \in alive : maker[o] = Program \/ maker[o] \in Lib!Held(holds)

\* Every object is managed or in the hands of a thread: none is lost by
\* load(), add(), replace(), remove() or clear().
NothingLost ==
    \A o \in alive :
        \/ \E i \in Identifiers : managed[i] = o
        \/ \E t \in Clients : obj[t] = o /\ where[t] # "use"

\* The object of an entry was made by the plug-in the entry points to: remove(), replace()
\* and clear() destroy it with the code that made it.
MadeByItsPlugin ==
    \A i \in Identifiers : managed[i] # Absent =>
        maker[managed[i]] = IF holds[i] = Absent THEN Program ELSE holds[i]

\* An entry has an object that exists, of its own: none is destroyed twice.
EntriesLive ==
    \A i \in Identifiers : managed[i] # Absent =>
        managed[i] \in alive /\ \A j \in Identifiers \ {i} : managed[j] # managed[i]

\* As long as callers take turns none uses an object that is gone or no longer managed, no
\* code goes before the objects it made, no object is lost, and each is destroyed by the
\* plug-in that made it; and even if they do not, none is destroyed twice
\* (PluginManager::load, add, replace, clone, remove, clear, run).
PluginObjectsLive ==
    /\ careful => UsesLiving /\ UsesManaged /\ KeepsCode /\ NothingLost /\ MadeByItsPlugin
    /\ EntriesLive
=============================================================================
