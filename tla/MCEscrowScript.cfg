CONSTANTS
    Mask = 128
    TypeFlag = 512
    DisableFlag = 2048
    Word = 4096
    SecondsMod = 512
    SecondsPerBlock = 60
    Cases <- MCCases
    Witnesses <- MCWitnesses
    Sequences <- MCSequences
SPECIFICATION Spec
INVARIANTS
    IndInv
    SpentByConsent
    LeavesDecode
    EntitledInv
PROPERTY
    EntitledIsPaid
CHECK_DEADLOCK FALSE
