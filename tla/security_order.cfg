\* A security middleware that calls next() without awaiting it.
CONSTANTS
    MaxMiddlewares = 0
    MaxGuards = 0
    MaxSecurities = 2
    MaxDispatches = 1
    MaxActs = 0
    Detaches = {TRUE, FALSE}
SPECIFICATION Spec
INVARIANTS
    SecurityBeforeController
CHECK_DEADLOCK FALSE
