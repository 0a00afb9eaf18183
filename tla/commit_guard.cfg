\* The committed image under every failure the pipeline can meet:
\* tool failures, kills, failed unpacks and torn ramdisk writes, with a
\* kernel-modules ramdisk and the empty one.
CONSTANTS
    ModuleRamdisks = {M1}
    NoRamdisk = NoRamdisk
    EmptyRamdisk = EmptyRamdisk
    Salts = {S1}
    NoSalt = NoSalt
    Faults = {"tool_fail", "unpack_fail", "torn_write"}
    MaxRuns = 4
    Absent = Absent
SPECIFICATION Spec
PROPERTY CommitRefinesCommittedImage
PROPERTY CommitsOwnBuild
