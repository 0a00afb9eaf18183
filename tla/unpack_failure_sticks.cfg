\* A failed unpack_bootimg leaves the sentinel behind.
CONSTANTS
    ModuleRamdisks = {}
    NoRamdisk = NoRamdisk
    EmptyRamdisk = EmptyRamdisk
    Salts = {S1}
    NoSalt = NoSalt
    Faults = {"unpack_fail"}
    MaxRuns = 3
    Absent = Absent
SPECIFICATION Spec
INVARIANT FailuresDoNotPersist
