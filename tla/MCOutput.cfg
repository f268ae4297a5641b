SPECIFICATION FairSpec
CONSTANTS
    IntLimit = 128
    Addresses = 16777216
    Junk = {0, 1}
    Sources <- MCSources
    Sizes = 8
    BinWords = 20
    LineWords = 2
INVARIANTS
    TypeOK
    EmbeddedReadsBack
    P56ReadsBack
    LodConverts
    ImageKept
    SymbolsListed
PROPERTIES
    Converts
CHECK_DEADLOCK FALSE
