------------------------------ MODULE Plugins ------------------------------
(***************************************************************************)
(* Plug-in libraries (common/src/PionPlugin.cpp): PionPlugin objects that  *)
(* refer to plug-ins share one PionPluginData per plug-in name.  It counts *)
(* them, and the object that lets go last closes the shared library, takes *)
(* the data out of the static map and deletes it.                          *)
(*                                                                         *)
(* A thread works on one object at a time, and two threads never change    *)
(* the same object at once; the object a copy is taken from may be in the  *)
(* hands of another thread.  Each step below holds m_plugin_mutex.  A      *)
(* plug-in is known by its name, which is all the code tells plug-ins      *)
(* apart by.                                                               *)
(***************************************************************************)
EXTENDS Integers, FiniteSets

CONSTANTS
    Callers,      \* threads that use plug-ins
    Handles,      \* PionPlugin objects
    Names,        \* names of plug-ins
    DataAddresses, \* where a PionPluginData may be allocated
    Directories,  \* directories that exist
    FilesIn,      \* FilesIn[d]: the plug-ins with a library in directory d
    Here,         \* the working directory, looked at first
    StaticallyLinked, \* the plug-ins that may be linked into the program
    Quality,      \* Quality[n]: the library of n is "good", "unloadable" or lacks a
                  \* symbol, "noCreate" or "noDestroy"
    Nil

Calls ==
    [op : {"openFile", "openStaticLinked"}, x : Handles, n : Names]
    \cup [op : {"grabData"}, x : Handles, p : Handles]
    \cup [op : {"close"}, x : Handles]

VARIABLES
    heap,                \* heap[a]: the PionPluginData at a, or Nil
    m_plugin_map,        \* m_plugin_map[n]: where the data of n is, or Nil
    m_plugin_data,       \* m_plugin_data[x]: what object x points to
    m_plugin_dirs,       \* the directories that are searched
    m_entry_points,      \* the plug-ins linked into the program
    loaded,              \* loaded[n]: dlopen() minus dlclose() calls for n
    phase,               \* phase[t]: where thread t stands in its call
    call                 \* call[t]: the call

pluginVars == <<heap, m_plugin_map, m_plugin_data, m_plugin_dirs, m_entry_points, loaded,
          phase, call>>

PionPluginData == [m_plugin_name : Names, m_lib_handle : BOOLEAN, m_references : Nat]

\* Objects are finitely many, Nil is none of the things it stands in for, and only
\* plug-ins that have a name are linked into the program.
PluginsAssumption ==
    /\ IsFiniteSet(Handles)
    /\ Nil \notin DataAddresses
    /\ Nil \notin Names
    /\ Nil \notin PionPluginData
    /\ Nil \notin Calls
    /\ StaticallyLinked \subseteq Names

PluginsInit ==
    /\ heap = [a \in DataAddresses |-> Nil]
    /\ m_plugin_map = [n \in Names |-> Nil]
    /\ m_plugin_data = [x \in Handles |-> Nil]
    /\ m_plugin_dirs = {}
    /\ m_entry_points = {}
    /\ loaded = [n \in Names |-> 0]
    /\ phase = [t \in Callers |-> "out"]
    /\ call = [t \in Callers |-> Nil]

-----------------------------------------------------------------------------
(* Where plug-ins are looked for *)

AddPluginDirectory(d) ==
    /\ m_plugin_dirs' = m_plugin_dirs \cup {d}
    /\ UNCHANGED <<heap, m_plugin_map, m_plugin_data, m_entry_points, loaded, phase, call>>

ResetPluginDirectories ==
    /\ m_plugin_dirs' = {}
    /\ UNCHANGED <<heap, m_plugin_map, m_plugin_data, m_entry_points, loaded, phase, call>>

AddStaticEntryPoint(n) ==
    /\ m_entry_points' = m_entry_points \cup {n}
    /\ UNCHANGED <<heap, m_plugin_map, m_plugin_data, m_plugin_dirs, loaded, phase, call>>

findFile(n) == \E d \in {Here} \cup m_plugin_dirs : n \in FilesIn[d]

-----------------------------------------------------------------------------
(* The calls.  open() of a plug-in whose file is not found throws and      *)
(* leaves the object alone; findStaticEntryPoint() comes before            *)
(* openStaticLinked().                                                     *)

Enter(t, c) ==
    /\ phase[t] = "out"
    /\ \A s \in Callers : phase[s] # "out" => call[s].x # c.x
    /\ phase' = [phase EXCEPT ![t] = "release"]
    /\ call' = [call EXCEPT ![t] = c]
    /\ UNCHANGED <<heap, m_plugin_map, m_plugin_data, m_plugin_dirs, m_entry_points, loaded>>

Open(t, x, n) == findFile(n) /\ Enter(t, [op |-> "openFile", x |-> x, n |-> n])

OpenStaticLinked(t, x, n) ==
    n \in m_entry_points /\ Enter(t, [op |-> "openStaticLinked", x |-> x, n |-> n])

GrabData(t, x, p) == Enter(t, [op |-> "grabData", x |-> x, p |-> p])

Close(t, x) == Enter(t, [op |-> "close", x |-> x])

Return(t) ==
    /\ phase' = [phase EXCEPT ![t] = "out"]
    /\ call' = [call EXCEPT ![t] = Nil]
    /\ UNCHANGED <<m_plugin_dirs, m_entry_points>>

\* The object is let go; all calls but close() go on to take another plug-in.
Released(t) ==
    \/ call[t].op = "close" /\ Return(t)
    \/ /\ call[t].op # "close"
       /\ phase' = [phase EXCEPT ![t] = "take"]
       /\ UNCHANGED <<m_plugin_dirs, m_entry_points, call>>

\* dlclose(); a plug-in linked into the program has no handle to close.
closeDynamicLibrary(a) ==
    IF heap[a].m_lib_handle THEN [loaded EXCEPT ![heap[a].m_plugin_name] = @ - 1] ELSE loaded

isLastReference(a) == heap[a].m_references = 1

ReleaseData(t) ==
    LET x == call[t].x
        a == m_plugin_data[x]
    IN /\ phase[t] = "release"
       /\ Released(t)
       /\ m_plugin_data' = [m_plugin_data EXCEPT ![x] = Nil]
       /\ \/ /\ a = Nil
             /\ UNCHANGED <<heap, m_plugin_map, loaded>>
          \/ /\ a # Nil
             /\ ~isLastReference(a)
             /\ heap' = [heap EXCEPT ![a].m_references = @ - 1]
             /\ UNCHANGED <<m_plugin_map, loaded>>
          \/ /\ a # Nil
             /\ isLastReference(a)
             /\ loaded' = closeDynamicLibrary(a)
             /\ m_plugin_map' = [m_plugin_map EXCEPT ![heap[a].m_plugin_name] = Nil]
             /\ heap' = [heap EXCEPT ![a] = Nil]

\* The object joins those that share the data at a.
Share(t, a) ==
    /\ heap' = [heap EXCEPT ![a].m_references = @ + 1]
    /\ m_plugin_data' = [m_plugin_data EXCEPT ![call[t].x] = a]
    /\ UNCHANGED <<m_plugin_map, loaded>>
    /\ Return(t)

\* New data at a, entered into the map, with its first reference.
Insert(t, n, lib) ==
    \E a \in DataAddresses :
        /\ heap[a] = Nil
        /\ heap' = [heap EXCEPT ![a] = [m_plugin_name |-> n, m_lib_handle |-> lib,
                                        m_references |-> 1]]
        /\ m_plugin_map' = [m_plugin_map EXCEPT ![n] = a]
        /\ m_plugin_data' = [m_plugin_data EXCEPT ![call[t].x] = a]
        /\ Return(t)

Throw(t) == Return(t) /\ UNCHANGED <<heap, m_plugin_map, m_plugin_data>>

\* Mutant: a library without the symbols is left open.
openPluginUnclosed(t, n) ==
    \/ /\ Quality[n] = "unloadable"
       /\ UNCHANGED loaded
       /\ Throw(t)
    \/ /\ Quality[n] \in {"noCreate", "noDestroy"}
       /\ loaded' = [loaded EXCEPT ![n] = @ + 1]
       /\ Throw(t)
    \/ /\ Quality[n] = "good"
       /\ loaded' = [loaded EXCEPT ![n] = @ + 1]
       /\ Insert(t, n, TRUE)

\* loadDynamicLibrary(), then the symbols; a library without them is closed.
openPlugin(t, n) ==
    \/ /\ Quality[n] # "good"
       /\ UNCHANGED loaded
       /\ Throw(t)
    \/ /\ Quality[n] = "good"
       /\ loaded' = [loaded EXCEPT ![n] = @ + 1]
       /\ Insert(t, n, TRUE)

OpenFile(t) ==
    LET n == call[t].n
    IN /\ phase[t] = "take" /\ call[t].op = "openFile"
       /\ \/ m_plugin_map[n] # Nil /\ Share(t, m_plugin_map[n])
          \/ m_plugin_map[n] = Nil /\ openPlugin(t, n)

TakeStaticLinked(t) ==
    LET n == call[t].n
    IN /\ phase[t] = "take" /\ call[t].op = "openStaticLinked"
       /\ \/ m_plugin_map[n] # Nil /\ Share(t, m_plugin_map[n])
          \/ m_plugin_map[n] = Nil /\ UNCHANGED loaded /\ Insert(t, n, FALSE)

TakeData(t) ==
    LET a == m_plugin_data[call[t].p]
    IN /\ phase[t] = "take" /\ call[t].op = "grabData"
       /\ \/ a # Nil /\ Share(t, a)
          \/ a = Nil /\ UNCHANGED loaded /\ Throw(t)

PluginsNext ==
    \/ \E t \in Callers, x \in Handles :
        \/ \E n \in Names : Open(t, x, n) \/ OpenStaticLinked(t, x, n)
        \/ \E p \in Handles : GrabData(t, x, p)
        \/ Close(t, x)
    \/ \E t \in Callers : ReleaseData(t) \/ OpenFile(t) \/ TakeStaticLinked(t) \/ TakeData(t)
    \/ \E d \in Directories : AddPluginDirectory(d)
    \/ ResetPluginDirectories
    \/ \E n \in StaticallyLinked : AddStaticEntryPoint(n)

PluginsSpec == PluginsInit /\ [][PluginsNext]_pluginVars

-----------------------------------------------------------------------------
(* Properties *)

\* The state is well formed; no pointer of an object or of the map dangles.
PluginsTypeOK ==
    /\ heap \in [DataAddresses -> PionPluginData \cup {Nil}]
    /\ m_plugin_map \in [Names -> {a \in DataAddresses : heap[a] # Nil} \cup {Nil}]
    /\ m_plugin_data \in [Handles -> {a \in DataAddresses : heap[a] # Nil} \cup {Nil}]
    /\ m_plugin_dirs \subseteq Directories
    /\ m_entry_points \subseteq Names
    /\ loaded \in [Names -> Nat]
    /\ phase \in [Callers -> {"out", "release", "take"}]
    /\ call \in [Callers -> Calls \cup {Nil}]
    /\ \A t \in Callers : phase[t] # "out" => call[t] # Nil

Sharers(a) == {x \in Handles : m_plugin_data[x] = a}

\* m_references counts the objects that share the data, the data is the one
\* the map has for its name, and the shared library is open exactly once
\* while the data exists (releaseData: "it SHOULD always find a match").
CountsObjects ==
    /\ \A a \in DataAddresses :
        heap[a] # Nil =>
            /\ heap[a].m_references = Cardinality(Sharers(a))
            /\ Sharers(a) # {}
            /\ m_plugin_map[heap[a].m_plugin_name] = a
    /\ \A n \in Names :
        /\ m_plugin_map[n] # Nil => heap[m_plugin_map[n]].m_plugin_name = n
        /\ loaded[n] = IF m_plugin_map[n] # Nil /\ heap[m_plugin_map[n]].m_lib_handle
                       THEN 1 ELSE 0

Libs == INSTANCE Libraries WITH
    Closed <- Nil,
    holds <- [x \in Handles |-> IF m_plugin_data[x] = Nil THEN Nil
                                ELSE heap[m_plugin_data[x]].m_plugin_name],
    loaded <- {n \in Names : loaded[n] > 0}

\* Objects share plug-ins as Libraries says: a library is loaded with its
\* first object and stays until the last lets go, however openFile(),
\* openStaticLinked(), grabData() and releaseData() of several threads mix.
ImplementsLibraries == Libs!Spec
=============================================================================
