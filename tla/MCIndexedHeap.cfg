SPECIFICATION Spec
CONSTANTS
    Ids = {a, b, c, d, e, f}
    Keys <- MCKeys
    Cap = 6
VIEW Heap
SYMMETRY Symmetry
INVARIANTS TypeOK IndexExact HeapOrdered
PROPERTIES ImplementsMap
