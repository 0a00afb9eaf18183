\* Trailer layout and checksum on a host whose char is unsigned (arm64).
CONSTANTS
    Bytes <- MC_Bytes
    MaxLen = 2
    Preamble <- MC_Preamble
    Magic <- MC_Magic
    RamdiskBytes <- MC_RamdiskBytes
    CharIsSigned = FALSE
    Missing = Missing
SPECIFICATION Spec
INVARIANT BootloaderFindsBootconfig
INVARIANT ChecksumMatchesBootloader
