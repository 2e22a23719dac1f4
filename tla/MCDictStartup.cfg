SPECIFICATION FairSpec
CONSTANTS
    offer_bid_ratio = offer_bid_ratio
    common_dict = common_dict
    no_file = no_file
    reloadable = reloadable
    ratio_txt = ratio_txt
    r1 = r1
    Null = Null
    NoPath = NoPath
    Dict <- RepoDict
    Handers <- RepoHanders
    PathOf <- RepoPathOf
    InitOK <- RepoInitOK
    Path <- MCPath
    Obj <- MCObj
    Reader <- MCReader
    Kinds <- AllKinds
    Deltas <- OneSecond
    Jitter = 0
    MaxWrite = 1
    Period = 2
    Retain = 1
    GetWindow = 1
CHECK_DEADLOCK FALSE
INVARIANTS ArgsOutliveLoaders ReadersSeeWholeDicts MissingFileIsHarmless
PROPERTY StartupEnds
