\* Two completers, three registrars, one waiter.
\* One download's life is finite: everybody returns and nothing is left to do.
CONSTANTS
    c1 = c1  c2 = c2  r1 = r1  r2 = r2  r3 = r3  w1 = w1
    NoThread = NoThread
    Completers <- MCCompleters
    Registrars <- MCRegistrars
    Waiters <- MCWaiters
SPECIFICATION FairSpec
INVARIANTS ReapAfterExactlyOneCall QuiescentWhenReapable
PROPERTIES ImplementsOneShot AcceptedIsCalled SleeperReturns
CHECK_DEADLOCK FALSE
