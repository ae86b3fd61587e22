\* Two instances, two names of domains.
CONSTANTS
    c1 = c1
    c2 = c2
    None = none
    Comps <- TwoComps
    Clocks = {"ck", "ck2"}
    Resets = {"r", "q"}
    Names = {"default", "other"}
    Default = "default"
    Mentioned = {"other"}
    Modules <- TheModules
    ResetDoms <- TheResetDoms
    Links <- TheLinks
SPECIFICATION Spec
INVARIANT SameSynchronicity
CHECK_DEADLOCK FALSE
