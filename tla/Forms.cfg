CONSTANTS
    Buses <- MCBuses
    Known <- MCKnown
    Specified <- MCSpecified
    Tied <- MCTied
    Uses <- MCUses
    Numerals <- MCNumerals
    Raising <- MCRaising
    Decimal <- MCDecimal
    Integral <- MCIntegral
    Chosen <- MCChosen
    OldFlows <- MCOldFlows
    MaxEdits = 2
SPECIFICATION Spec
CHECK_DEADLOCK FALSE
INVARIANT TypeOK
INVARIANT ShownIsKept
INVARIANT ParsedAsConnected
INVARIANT RefusedForAReason
INVARIANT SavedIsRead
INVARIANT SvJoins
