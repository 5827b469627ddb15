CONSTANTS
    NotAUrl = NotAUrl
    NoPort = NoPort
    NoPage = NoPage
    MaxSegments = 5
    ConfigFiles <- McConfigFiles
    NoConfig = NoConfig
    DefaultConfig <- McDefaults
    Served <- McServed
    HomeLinks <- McHomeLinks
    Typed <- McTyped
    Numbers = {1, 2, 3, 65538}
    Garbage <- McGarbage
    Faults = {"open", "request", "write"}
    NOS_NAV_MAX = 2
    NOS_MAX_LINKS = 2
    MaxRedirects = 1
    Word = 65536
    MaxVisits = 3
    MaxBookmarks = 1
SPECIFICATION Spec
CHECK_DEADLOCK FALSE
INVARIANTS TypeOK LinksOfPage
PROPERTIES BackRetraces FollowsDots
