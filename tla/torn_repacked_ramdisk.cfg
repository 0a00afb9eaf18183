\* A repacked ramdisk written part-way is reused by later invocations.
CONSTANTS
    ModuleRamdisks = {}
    NoRamdisk = NoRamdisk
    EmptyRamdisk = EmptyRamdisk
    Salts = {S1}
    NoSalt = NoSalt
    Faults = {"torn_write"}
    MaxRuns = 3
    Absent = Absent
SPECIFICATION Spec
INVARIANT SuccessMeansCurrent
