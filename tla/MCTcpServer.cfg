SPECIFICATION FairSpec
CONSTANTS
    Conns = {1, 2, 3}
    Fds = {1, 2}
    Nil = Nil
    Main = main
    io1 = io1
    io2 = io2
    IoLoops <- MCIoLoops
    MaxUnread = 1
INVARIANTS TypeOK IndexMatchesEpoll NoDanglingChannel OnlyCalledOnce
PROPERTIES ImplementsLife LeftIsFreed
CHECK_DEADLOCK FALSE
