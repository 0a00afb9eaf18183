\* The trimming of line 435 against spec.md 4.4.
CONSTANTS
    Bytes <- MC_Bytes
    MaxLen = 2
    Preamble <- MC_Preamble
    Magic <- MC_Magic
    RamdiskBytes <- MC_RamdiskBytes
    CharIsSigned = FALSE
    Missing = Missing
SPECIFICATION Spec
INVARIANT ConfigIsTrimmedConcatenation
