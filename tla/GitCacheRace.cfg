\* Two processes and nobody who cleans: the race for one key.
CONSTANTS
    Procs = {p1, p2}
    Cleaners = {}
    Keys = {k1}
    Tmps = {t1, t2}
    Git = git
    Files = {f1}
    Root = root_
    Missing = missing
    NoDir = nodir
    NoTmp = notmp
SPECIFICATION Spec
SYMMETRY Symmetry
INVARIANT ReturnsTheClone
