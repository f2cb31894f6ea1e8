\* Three units, one added at the front.
\* The worker may exit, or sleep when nothing is left to add.
CONSTANTS
    u1 = u1  u2 = u2  u3 = u3
    None = None
    Items <- MCItems
    Urgent <- MCUrgent
SPECIFICATION FairSpec
INVARIANT OnePlace
PROPERTIES ImplementsWorkQueue NextNotifyRecovers AwakeWorkerDrains
CHECK_DEADLOCK FALSE
