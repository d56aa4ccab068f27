SPECIFICATION SomeSpec
CONSTANTS
    Requests = {c1, c2}
    Paths <- SessionPaths
    MaxResources = 1
    Users = {u, v}
    Passwords = {"w1", "w2"}
    Cookies <- TwoKeys
    Scheme = "cookie"
    Login <- LoginPath
    Logout <- LogoutPath
    Redirect <- a
    NoRedirect = TRUE
    Expiration = 1
    Changing = FALSE
    RacyRandom = FALSE
    MaxTime = 2
    MaxDelay = 1
    Controllers = {t1, t2}
    Connections = {c1, c2}
    Resources = {1, 2, 3}
    MaxServices = 5
    Careful = TRUE
    WRITE_BUFFER_SIZE = 4
    PUT_BACK_MAX = 2
    READ_BUFFER_SIZE = 5
    MaxGiven = 9
    MaxSent = 1
    MaxCall = 8
    Spurious = FALSE
    UngetAfterFailure = FALSE
    None = None
    NULL = NULL
SYMMETRY Symmetry
INVARIANTS RequestsReachHandlers SessionsAreOwn ServicesInOrder ConfigDoesWhatItSays
    StreamsInOrder
PROPERTY SessionsEndInTime
