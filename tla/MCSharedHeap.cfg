SPECIFICATION Spec
CONSTANTS
    Ids = {a, b}
    Keys = {0}
    Cap = 2
    IoThreads = {io1, io2}
    UdpThread = udp
INVARIANTS MapFindsPosition
