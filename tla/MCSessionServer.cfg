SPECIFICATION FairSpec
CONSTANTS
    Sids = {s1, s2}
    NoSid = NoSid
    Timeout = 2
    PerMs = 2
    Limit = 2
    MaxAge = 4
INVARIANTS TypeOK NoPrematureEnd WatchedExactly
PROPERTIES ImplementsLease SilentSessionEnds
