\* A page that is loaded again, twice.
CONSTANTS
    d1 = d1
    d2 = d2
    d3 = d3
    a = a
    b = b
    None = none
    Slots = {1, 2, 3, 4, 5, 6}
    MaxEdits = 2
    MaxPages = 3
    Designs = {d1, d2}
    Started = {none}
    Import = {}
    Wired = {}
    Nodes <- TwoNodes
    Named = {}
    Wirings <- FewWirings
SPECIFICATION Spec
INVARIANT RefreshKeepsEdits
CHECK_DEADLOCK FALSE
