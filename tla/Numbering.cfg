SPECIFICATION Spec
CONSTANTS
    Creators = {c1, c2, c3}
    Deleters = {d1, d2}
    PoolSize = 6
    StartSizes = {0, 3}
    NaN = NaN
    NoDash = NoDash
    KeyParts = {NoDash, NaN, 0, 4}
CHECK_DEADLOCK FALSE
INVARIANTS NumbersConsecutive NextNumberFree DashAllowsTwo
PROPERTIES EveryCreateEnds
