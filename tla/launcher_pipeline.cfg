\* launch_cvd with two instances, a report and an output each larger than
\* a pipe's buffer, and children that may fail at any point; before them,
\* the metrics prompt over every flag value, config answer and stdin of up
\* to two characters (three with the flag's).
CONSTANTS
    NumInstances = 2
    PipeCap = 1
    ReportLen = 2
    OutputLen = 2
    RunFileDiscovery = TRUE
    CanFail = TRUE
    Chars = {"y", "N", "nl", "cr", "nul", "x"}
    FlagValues = {"Y", "n", "x"}
    MaxInput = 2
    NoFlag = NoFlag
    NoChar = NoChar
SPECIFICATION Spec
INVARIANT RunnersGetWholeConfig
INVARIANT ExitStatusReflectsChildren
INVARIANT AnswerMatchesInput
PROPERTY LauncherTerminates
PROPERTY PromptReturns
