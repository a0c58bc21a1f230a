CONSTANTS
    Mask = 128
    TypeFlag = 512
    DisableFlag = 2048
    Word = 4096
    SecondsMod = 512
    SecondsPerBlock = 60
    Cases <- MCTooLong
    Witnesses <- MCNoWitnesses
    Sequences <- MCSequences
SPECIFICATION Spec
INVARIANT
    NotReclaimedEarly
CHECK_DEADLOCK FALSE
