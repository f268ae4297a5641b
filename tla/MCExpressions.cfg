SPECIFICATION Spec
CONSTANTS
    LongBits = 13
    IntBits = 7
    WordBits = 5
    CharBits = 2
    LongFractBits = 11
    Leftovers = {0, 5}
    Names = {"a", "b", "c", "d", "e"}
    NoName = "none"
    NameLen <- MCNameLen
    MAX_DESC = 2
    HASH_SIZE = 2
    hash <- MCHash
    StrBufBlockSize = 8
    Programs <- MCPrograms
INVARIANTS
    TypeOK
    ChainsExact
    StringsApart
    ReadsExact
    PassesAgree
    DcReadsBack
    ConditionsExact
PROPERTIES
    Refines
CHECK_DEADLOCK FALSE
