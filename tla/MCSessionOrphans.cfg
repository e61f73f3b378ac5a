SPECIFICATION Spec
CONSTANTS
    Sids = {s1}
    NoSid = NoSid
    Timeout = 1
    PerMs = 1
    Limit = 1
    MaxAge = 1
INVARIANTS ClosedOwnsNothing
