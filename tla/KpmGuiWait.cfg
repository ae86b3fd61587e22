\* A server of its own.
CONSTANTS
    UseServer = {TRUE}
    Preserve = {FALSE}
SPECIFICATION Spec
PROPERTY WaitEndsWithEvent
CHECK_DEADLOCK FALSE
