SPECIFICATION FairSpec
CONSTANTS
    Sids = {s1, s2}
    NoSid = NoSid
    Grace = 5
    MaxAge = 5
    Interval = 2
    MaxLost = 1
    MaxConnects = 2
INVARIANTS TypeOK KeepsSession
PROPERTIES SessionNodesGo
