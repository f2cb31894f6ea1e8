\* Two cancels of one download.
CONSTANTS
    d1 = d1  d2 = d2  d3 = d3  id1 = id1
    Main = Main  Deferred = Deferred  None = None  NoUuid = NoUuid
    Downloads <- Two
    UuidOf <- Uuids
    RawUrlOf <- Urls
    UrlOf <- Urls
    Plans <- CancelTwice
SPECIFICATION Spec
INVARIANT NoUseAfterFree
CHECK_DEADLOCK FALSE
