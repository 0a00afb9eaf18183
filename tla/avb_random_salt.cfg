\* avbtool add_hash_footer without --salt draws a fresh salt each time.
CONSTANTS
    ModuleRamdisks = {}
    NoRamdisk = NoRamdisk
    EmptyRamdisk = EmptyRamdisk
    Salts = {S1, S2}
    NoSalt = NoSalt
    Faults = {}
    MaxRuns = 3
    Absent = Absent
SPECIFICATION Spec
PROPERTY StableInputsKeepFile
