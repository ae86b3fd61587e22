\* With a server of its own and without, both kinds of child processes.
CONSTANTS
    UseServer = {TRUE, FALSE}
    Preserve = {TRUE, FALSE}
SPECIFICATION Spec
INVARIANTS TypeOK NoServerLeft ServerFirst
PROPERTIES ErrorsEnd ServerGoneEnds
CHECK_DEADLOCK FALSE
