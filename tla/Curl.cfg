\* CHECK_DEADLOCK is off: a deleted transfer does nothing more.
CONSTANTS Sizes = {0, 1, 3}
          Modes <- AllModes
SPECIFICATION ServedSpec
INVARIANTS DownloadedIsWhole CancelInTimeWins NoLeftovers OneTrueSignal
PROPERTY TransferCompletes
CHECK_DEADLOCK FALSE
