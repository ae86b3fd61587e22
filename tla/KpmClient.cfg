\* A session with one reload, one import and two edits, or one in which the connections of
\* two named External I/O nodes change.
CONSTANTS
    d1 = d1
    d2 = d2
    d3 = d3
    a = a
    b = b
    None = none
    Slots = {1, 2, 3, 4, 5, 6}
    MaxEdits = 2
    MaxPages = 2
    Designs = {d1, d2, d3}
    Started = {d1, d3, none}
    Import = {d2}
    Wired = {d3}
    Nodes <- TwoNodes
    Named = {a, b}
    Wirings <- FewWirings
SPECIFICATION Spec
INVARIANTS TypeOK QuietIsSaved SpecFitsGraph CalmRefreshKeepsEdits ExposedOpposite
PROPERTIES SavesInOrder Settles
CHECK_DEADLOCK FALSE
