\* Checksum on an x86_64 host, where char is signed.
CONSTANTS
    Bytes <- MC_Bytes
    MaxLen = 2
    Preamble <- MC_Preamble
    Magic <- MC_Magic
    RamdiskBytes <- MC_RamdiskBytes
    CharIsSigned = TRUE
    Missing = Missing
SPECIFICATION Spec
INVARIANT ChecksumMatchesBootloader
