\* Users may put nothing any more and the daemon stay down, but never for good.
CONSTANTS
    own = own  plain = plain  hidden = hidden   t1 = t1  t2 = t2
    Garbage = Garbage
    Files <- TheFiles
    Own <- TheOwn
    Hidden <- TheHidden
    Homeless <- TheHidden
    Torrents <- TheTorrents
    MayHold <- Held
SPECIFICATION FairSpec
INVARIANTS TypeOK SurvivesCrash
PROPERTIES UsersFilesStay OwnFilesStay RestartResumes NewFileStarts CancelForgets
