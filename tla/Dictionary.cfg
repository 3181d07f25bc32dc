SPECIFICATION Spec
CONSTANTS
    main = main
    suggest = suggest
    w1 = w1
    none = none
    Threads <- CallingThreads
    Main <- main
    Words <- TypedWords
    NoWord <- none
    MaxQueue = 2
    MaxSource = 1
    MaxCrashes = 1
INVARIANTS TypeOK ReadersHaveDictionary OneReload MemoryCoversFile
PROPERTIES PendingWritesFlushed SavedWordsStay ReloadEnds CallsReturn
