CONSTANTS
    Hrps <- MCHrps
    Programs <- MCPrograms
    Foreign <- MCForeign
    Typos <- MCTypos
    Wrap = 4194304
SPECIFICATION Spec
INVARIANTS
    EncodingIsRead
    MistakeIsRefused
    AcceptedIsCanonical
CHECK_DEADLOCK FALSE
