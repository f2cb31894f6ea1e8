CONSTANT Sources <- BothSources
SPECIFICATION FairSpec
INVARIANTS TypeOK ManagerUsesLive
PROPERTIES CancelRemoves WholeCompletes
CHECK_DEADLOCK FALSE
