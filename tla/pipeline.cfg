\* A request of every shape: two middlewares that may do two things each, a
\* guard, two security middlewares.  The request ends.
CONSTANTS
    MaxMiddlewares = 2
    MaxGuards = 1
    MaxSecurities = 2
    MaxDispatches = 2
    MaxActs = 2
    Detaches = {TRUE, FALSE}
SPECIFICATION FairSpec
INVARIANTS
    TypeOK
    AnsweredOnce
    ControllerAfterChecks
PROPERTIES
    EveryRequestAnswered
CHECK_DEADLOCK FALSE
