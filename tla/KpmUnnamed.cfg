\* Two External I/O nodes that the user gave no name.
CONSTANTS
    d1 = d1
    d2 = d2
    d3 = d3
    a = a
    b = b
    None = none
    Slots = {1, 2, 3, 4, 5, 6}
    MaxEdits = 2
    MaxPages = 1
    Designs = {d1, d2}
    Started = {d1}
    Import = {}
    Wired = {d1}
    Nodes <- TwoNodes
    Named = {}
    Wirings <- FewWirings
SPECIFICATION Spec
INVARIANT ExposedOpposite
CHECK_DEADLOCK FALSE
