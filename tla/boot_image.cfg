\* Every boot image over small command lines and os_version values, two
\* RepackBootImage invocations with a kernel each, and tool failures.
CONSTANTS
    Cmdlines <- MC_Cmdlines
    OsVersions <- MC_OsVersions
    Kernels = {K1, K2}
    Faults = {"tool_fail"}
    MaxRuns = 2
    Absent = Absent
SPECIFICATION Spec
INVARIANT VersionFollowsDump
INVARIANT NoTempDirLeft
INVARIANT CmdlinePreserved
PROPERTY CommitRefinesCommittedImage
