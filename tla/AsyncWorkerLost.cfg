\* The run AsyncWorker with a worker that nobody destroys, asked whether every
\* unit added is processed.
\* The worker may sleep when nothing is left to add.
CONSTANTS
    u1 = u1  u2 = u2  u3 = u3
    None = None
    Items <- MCItems
    Urgent <- MCUrgent
SPECIFICATION LivingSpec
PROPERTY AddedIsProcessed
CHECK_DEADLOCK FALSE
