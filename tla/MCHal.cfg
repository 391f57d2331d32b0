\* Calls of msleep and eink_wait under the timer; keys pressed and released
\* while they are polled, with failing transfers.
SPECIFICATION HalSpec
CONSTANTS
    Max = 12
    Delays = {0, 3}
    Timeout = 3
    Keys = {2, 31}
    Depth = 2
    Capacity = 4
    MaxEvents = 4
    MaxFailures = 2
INVARIANTS
    HalTypeOK
    Punctual
    InOrder
PROPERTIES
    Returns
    Settles
\* The program may hang in a transfer.
CHECK_DEADLOCK FALSE
