SPECIFICATION Spec
CONSTANT Situations <- MCSituations
INVARIANTS
    LoopIsOrdering
    LastResortComesLast
    OnlySurplusFirstLoses
CHECK_DEADLOCK FALSE
