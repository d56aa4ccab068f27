\* The model values of callers, items and contents stand for the clients, identifiers and
\* plug-ins of the manager, too.
SPECIFICATION SomeSpec
CONSTANTS
    Producers = {p1, p2}
    Consumers = {c1}
    Pollers = {x1}
    Items = {a, b}
    MaxSize = 1
    MaxPushes = 3
    Stoppable = {c1}
    Resettable = {c1}
    Spurious = TRUE
    NoItem = NoItem
    NoOne = NoOne
    Objects = {o1, o2, o3}
    Addresses = {a1, a2}
    Contents = {d1, d2}
    Concurrent = TRUE
    SelfAssign = FALSE
    NULL = NULL
    Callers = {t1, t2}
    Handles = {"x1", "x2"}
    Names = {"Echo", "File", "Broken"}
    DataAddresses = {1, 2}
    Directories = {"here", "services"}
    FilesIn <- FilesOnDisk
    Here = "here"
    StaticallyLinked = {"Echo"}
    Quality <- Symbols
    Nil = Nil
    Clients = {t1, t2}
    Identifiers = {a, b}
    Pointers = {l1}
    Types = {d1, d2}
    MaxObjects = 3
    Absent = Absent
SYMMETRY Symmetry
INVARIANTS NeverFreedInUse Accounted PluginObjectsLive
PROPERTIES ImplementsFifo ContentKept LockFreeImplementsFifo ImplementsLifo ImplementsLibraries
