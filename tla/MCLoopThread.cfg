SPECIFICATION ThreadFairSpec
CONSTANTS
    Callers = {owner, c1, c2}
    Owner = owner
    LoopThread = loop
    Channels = {ch}
    Wakeup = wakeup
    Functors = {f1, f2, f3}
    NoFunctor = NoFunctor
INVARIANTS ThreadTypeOK NoLostWakeup
PROPERTIES ImplementsExecutor EveryFunctorRuns QuitStops ThreadLife
CHECK_DEADLOCK FALSE
