SPECIFICATION Spec
CONSTANTS
    XidStart <- XidLetters
    XidContinue <- XidLetters
    Inputs <- MCInputs
    I64Max = 87
    MaxExp = 22
    MaxPieces = 3
INVARIANTS TypeOK PositionCounts ScansWhatIsWritten WrittenReadsBack
PROPERTIES ScanEnds StringsReadBack
