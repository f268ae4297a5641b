SPECIFICATION Spec
CONSTANTS
    Org = Org
    Dc = Dc
    Here <- MCHere
    Statements <- MCStatements
    Programs <- MCPrograms
INVARIANTS
    TypeOK
    SizesAgree
    WordsApart
    WarningsExact
CHECK_DEADLOCK FALSE
