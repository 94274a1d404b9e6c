CONSTANTS
    Nodes = {n1, n2, n3}
    Users = {u1}
    Root = Root
    Writers = {w1, w2, w3}
SYMMETRY Symmetry
SPECIFICATION Spec
INVARIANTS
    Acyclic
    ParentsCapable
    HomesLive
PROPERTIES
    ImplementsTree
CHECK_DEADLOCK FALSE
