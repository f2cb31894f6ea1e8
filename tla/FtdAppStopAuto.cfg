\* Shutting down while a download that removes itself finishes.
CONSTANTS
    d1 = d1  d2 = d2  d3 = d3  id1 = id1
    Main = Main  Deferred = Deferred  None = None  NoUuid = NoUuid
    Downloads <- Two
    UuidOf <- Uuids
    RawUrlOf <- Urls
    UrlOf <- Urls
    Plans <- StopWithPolicy
SPECIFICATION FairSpec
PROPERTY ShutDownReturns
CHECK_DEADLOCK FALSE
