SPECIFICATION Spec
CONSTANTS
    Sessions = {s1, s2}
    NoOwner = NoOwner
    a = a
    b = b
    e = e
    Names = {e, a, b}
    EmptyName = e
    Data <- MCData
    DummyData <- MCDummyData
    RootData <- MCRootData
    NodeTypes = {"PERSISTENT", "EPHEMERAL"}
    Dummy = Dummy
    RootNode = RootNode
    Nil = Nil
    Nodes = {Dummy, RootNode, n1, n2, n3}
    RawPaths <- MCRawPaths
VIEW Graph
SYMMETRY Symmetry
INVARIANTS TypeOK RootStays TreeLinks SessionMapExact
PROPERTIES EndRemovesOwned ImplementsStore
