SPECIFICATION SomeSpec
CONSTANTS
    Users = {"u1", "u2"}
    Admins = {"u2"}
    Joiners = {"u1"}
    MaxThreads = 2
    OneToOne = FALSE
    Orderly = TRUE
    Chains = TRUE
    MaxStarts = 1
    NoOne = "nobody"
INVARIANT ThreadsForUsers
PROPERTIES WorkIsDone CallsReturn ItemsTaken CloseReleases
