\* Two processes, a cleaner, one key, two temporary names.
CONSTANTS
    Procs = {p1, p2}
    Cleaners = {c1}
    Keys = {k1}
    Tmps = {t1, t2}
    Git = git
    Files = {f1}
    Root = root_
    Missing = missing
    NoDir = nodir
    NoTmp = notmp
SPECIFICATION Spec
SYMMETRY Symmetry
INVARIANTS TypeOK PublishedComplete ServedComplete NoLitter
PROPERTIES PublishedStays ImplementsCloneCache
