SPECIFICATION Spec
CONSTANTS
    Main = Main
    fileF = fileF
    fileG = fileG
    macM = macM
    macN = macN
    missing = missing
    Missing = {missing}
    Files <- MCFiles
    Macros = {macM, macN}
    TOKENS_BLOCK = 6
    MAX_INCLUDES_NESTED = 3
    Garbage <- MCGarbage
    Sources <- MCSources
INVARIANTS
    TypeOK
    FetchExact
    LinesParsed
    ReportsExact
CHECK_DEADLOCK FALSE
