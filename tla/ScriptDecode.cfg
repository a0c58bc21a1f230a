CONSTANTS
    Mask = 128
    TypeFlag = 512
    DisableFlag = 2048
    Word = 4096
    SecondsMod = 512
    SecondsPerBlock = 60
    Cases <- MCOpcodes
    Witnesses <- MCNoWitnesses
    Sequences <- MCSequences
SPECIFICATION Spec
INVARIANT
    LeavesDecode
CHECK_DEADLOCK FALSE
