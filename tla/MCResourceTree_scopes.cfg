CONSTANTS
    Nodes = {n1, n2, n3, n4}
    NoNode = NoNode
    Txs = {t1, t2}
    MaxRequests = 2
SPECIFICATION Spec
INVARIANT ScopesIncludeDescendants
SYMMETRY MCSymmetry
CHECK_DEADLOCK FALSE
