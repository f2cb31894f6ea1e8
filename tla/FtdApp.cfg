\* One remover per download at most: a client, its policy, or the shutdown.
\* The last request may have been served: nothing is left to do then.
CONSTANTS
    d1 = d1  d2 = d2  d3 = d3  id1 = id1
    Main = Main  Deferred = Deferred  None = None  NoUuid = NoUuid
    Downloads <- Three
    UuidOf <- Uuids
    RawUrlOf <- Urls
    UrlOf <- Urls
    Plans <- OneRemover
SPECIFICATION FairSpec
INVARIANTS TypeOK NoUseAfterFree NoOrphans NoDuplicateUrl
PROPERTIES ImplementsDownloadList AskedIsRemoved MainReturns
CHECK_DEADLOCK FALSE
