------------------------------ MODULE Launcher ------------------------------
(***************************************************************************)
(* launch_cvd (src/host/commands/start/main.cc, main and its helpers):     *)
(* after the metrics prompt (MetricsPrompt, line 387), the launcher starts assemble_cvd with the file report on its stdin      *)
(* and its stdout on a pipe, reads that output to EOF, waits for it, and   *)
(* then starts one run_cvd per instance, feeding each the assembler's      *)
(* output through a pipe of its own, and finally waits for every runner.   *)
(*                                                                         *)
(* Pipes are bounded buffers of chunks whose ends are held by processes;   *)
(* a read end without writers gives EOF once drained, a write end without  *)
(* readers gives EPIPE.  assemble_cvd and run_cvd are not in this          *)
(* repository: they are the environment, modelled by the contract the     *)
(* launcher relies on (each reads its stdin to EOF first) and by failing   *)
(* at any point, which closes every pipe end they hold.                    *)
(***************************************************************************)
EXTENDS Naturals, FiniteSets

CONSTANTS
    NumInstances,     \* |instance_nums|, at least 1 (CHECK at line 427)
    PipeCap,          \* chunks a pipe buffers before write() blocks
    ReportLen,        \* chunks of the file report WriteFiles sends
    OutputLen,        \* chunks assemble_cvd writes to its stdout
    RunFileDiscovery, \* FLAGS_run_file_discovery (should_generate_report)
    CanFail,          \* whether assemble_cvd and run_cvd may fail
    Chars, FlagValues, MaxInput, NoFlag, NoChar   \* as in MetricsPrompt

ASSUME NumInstances \in Nat \ {0}
ASSUME PipeCap \in Nat \ {0}
ASSUME ReportLen \in Nat /\ OutputLen \in Nat
ASSUME RunFileDiscovery \in BOOLEAN /\ CanFail \in BOOLEAN

Instances == 1..NumInstances
\* Processes and pipes are named by tagged pairs.
LaunchCvd == <<"launch_cvd", 0>>
AssembleCvd == <<"assemble_cvd", 0>>
RunCvd(i) == <<"run_cvd", i>>
Procs == {LaunchCvd, AssembleCvd} \cup {RunCvd(i) : i \in Instances}
ReportPipe == <<"report", 0>>       \* launcher_report -> assembler_stdin
OutPipe == <<"out", 0>>             \* assembler_stdout -> ..._capture
StdinPipe(i) == <<"stdin", i>>      \* runner_stdin_in -> runner_stdin_out
PipeIds == {ReportPipe, OutPipe} \cup {StdinPipe(i) : i \in Instances}

VARIABLES
    lpc,        \* launcher: where main() is
    lcur,       \* launcher: index into instance_nums / runners
    written,    \* launcher: chunks of the current WriteAll already written
    output,     \* launcher: chunks of assembler_output read so far
    runFailure, \* launcher: run_cvd_failure
    exitCode,   \* launcher: "none" while running, then main's outcome
    buf,        \* pipe -> chunks buffered
    wr,         \* pipe -> processes holding its write end
    rd,         \* pipe -> processes holding its read end
    apc,        \* assemble_cvd: "none", "read", "write", "exited"
    awrote,     \* assemble_cvd: chunks written to its stdout
    astatus,    \* assemble_cvd: exit status
    rpc,        \* run_cvd i: "none", "read", "run", "exited"
    rread,      \* run_cvd i: chunks read from its stdin
    rstatus,    \* run_cvd i: exit status
    useMetrics, config, typed, stdin, ch, mpc, answer   \* MetricsPrompt's

lvars == <<lpc, lcur, written, output, runFailure, exitCode>>
pvars == <<buf, wr, rd>>
avars == <<apc, awrote, astatus>>
rvars == <<rpc, rread, rstatus>>
mvars == <<useMetrics, config, typed, stdin, ch, mpc, answer>>
pipeline == <<lvars, pvars, avars, rvars>>  \* what the children's steps change
vars == <<pipeline, mvars>>

MP == INSTANCE MetricsPrompt

Status == {"none", "ok", "failed", "aborted"}

Init ==
    /\ lpc = "args" /\ lcur = 1 /\ written = 0 /\ output = 0
    /\ runFailure = FALSE /\ exitCode = "none"
    /\ buf = [p \in PipeIds |-> 0]
    /\ wr = [p \in PipeIds |-> {}]
    /\ rd = [p \in PipeIds |-> {}]
    /\ apc = "none" /\ awrote = 0 /\ astatus = "none"
    /\ rpc = [i \in Instances |-> "none"]
    /\ rread = [i \in Instances |-> 0]
    /\ rstatus = [i \in Instances |-> "none"]
    /\ MP!Init

-----------------------------------------------------------------------------
(* Pipe helpers.                                                           *)

CanWrite(p) == rd[p] # {} /\ buf[p] < PipeCap
Put(p) == buf' = [buf EXCEPT ![p] = @ + 1]
Take(p) == buf' = [buf EXCEPT ![p] = @ - 1]
AtEOF(p) == buf[p] = 0 /\ wr[p] = {}

\* Process proc exits: the kernel closes every pipe end it holds.
CloseAll(proc) ==
    /\ wr' = [p \in PipeIds |-> wr[p] \ {proc}]
    /\ rd' = [p \in PipeIds |-> rd[p] \ {proc}]

\* main() returns (or aborts) with code.
LauncherExits(code) ==
    /\ lpc' = "exited" /\ exitCode' = code
    /\ CloseAll(LaunchCvd)

-----------------------------------------------------------------------------
(***************************************************************************)
(* Lines 395-402 and 442-444 with StartAssembler (122-134): the two pipes  *)
(* are made, assemble_cvd gets the report's read end as stdin (when there  *)
(* is a report; otherwise it inherits the launcher's own stdin) and the    *)
(* out pipe's write end as stdout.  Both are std::move-d into the Command, *)
(* so the launcher's copies are closed when StartAssembler returns.        *)
(***************************************************************************)
StartAssembler ==
    /\ lpc = "start"
    /\ wr' = [wr EXCEPT ![OutPipe] = {AssembleCvd},
                        ![ReportPipe] = IF RunFileDiscovery THEN {LaunchCvd} ELSE {}]
    /\ rd' = [rd EXCEPT ![OutPipe] = {LaunchCvd},
                        ![ReportPipe] = IF RunFileDiscovery THEN {AssembleCvd} ELSE {}]
    /\ apc' = IF RunFileDiscovery THEN "read" ELSE "write"
    /\ lpc' = IF RunFileDiscovery THEN "report" ELSE "read"
    /\ UNCHANGED <<lcur, written, output, runFailure, exitCode, buf,
                   awrote, astatus, rvars>>

(***************************************************************************)
(* Lines 387-388: ValidateMetricsConfirmation runs to completion before   *)
(* any pipe is made; each step is one of MetricsPrompt's.                 *)
(***************************************************************************)
(***************************************************************************)
(* Lines 342-357: --system_image_dir is consumed from a copy of the        *)
(* arguments; a parse error returns -1 before anything else runs.  The     *)
(* value only becomes an assemble_cvd argument, which no property tells    *)
(* apart.                                                                  *)
(***************************************************************************)
ExtractSystemImageDir ==
    /\ lpc = "args"
    /\ \/ lpc' = "metrics" /\ UNCHANGED <<exitCode, wr, rd>>
       \/ CanFail /\ LauncherExits("failed")
    /\ UNCHANGED <<lcur, written, output, runFailure, buf, avars, rvars>>

AskMetrics ==
    /\ lpc = "metrics"
    /\ MP!ValidateMetricsConfirmation \/ MP!MetricsLoop
    /\ lpc' = IF mpc' = "done" THEN "start" ELSE "metrics"
    /\ UNCHANGED <<lcur, written, output, runFailure, exitCode, pvars,
                   avars, rvars>>

(***************************************************************************)
(* main's checks before any child starts: a bad --system_image_dir        *)
(* (351-354, return -1), no instance numbers (404-409, abort), a previous *)
(* config whose --use_overlay differs (411-425, CHECK) or an empty        *)
(* instance list (427, CHECK).  Which flags and config trigger them is    *)
(* left open; only CanFail decides whether they may.                      *)
(***************************************************************************)
SetupChecksFail ==
    /\ CanFail
    /\ lpc = "start"
    /\ LauncherExits("aborted")
    /\ UNCHANGED <<lcur, written, output, runFailure, buf, avars, rvars>>

(***************************************************************************)
(* WriteFiles (146-157, called at 447): WriteAll of the report, blocking   *)
(* while the pipe is full; EPIPE is LOG(FATAL); the write end, moved into  *)
(* WriteFiles, is closed when it returns.                                  *)
(***************************************************************************)
\* Mutation: the launcher keeps its copy of the report pipe's write end.
WriteFilesKeepingReportOpen ==
    /\ lpc = "report"
    /\ \/ /\ written < ReportLen /\ CanWrite(ReportPipe)
          /\ Put(ReportPipe) /\ written' = written + 1
          /\ UNCHANGED <<lpc, exitCode, wr, rd>>
       \/ /\ written = ReportLen
          /\ lpc' = "read" /\ written' = 0
          /\ UNCHANGED <<exitCode, buf, wr, rd>>
       \/ /\ written < ReportLen /\ rd[ReportPipe] = {}
          /\ LauncherExits("aborted")
          /\ UNCHANGED <<written, buf>>
    /\ UNCHANGED <<lcur, output, runFailure, avars, rvars>>

WriteFiles ==
    /\ lpc = "report"
    /\ \/ /\ written < ReportLen /\ CanWrite(ReportPipe)
          /\ Put(ReportPipe) /\ written' = written + 1
          /\ UNCHANGED <<lpc, exitCode, wr, rd>>
       \/ /\ written = ReportLen
          /\ wr' = [wr EXCEPT ![ReportPipe] = @ \ {LaunchCvd}]
          /\ lpc' = "read" /\ written' = 0
          /\ UNCHANGED <<exitCode, buf, rd>>
       \/ /\ written < ReportLen /\ rd[ReportPipe] = {}
          /\ LauncherExits("aborted")
          /\ UNCHANGED <<written, buf>>
    /\ UNCHANGED <<lcur, output, runFailure, avars, rvars>>

(***************************************************************************)
(* ReadAll(assembler_stdout_capture, &assembler_output) (450-455): reads   *)
(* until read() returns 0, i.e. the pipe is drained and has no writer.     *)
(***************************************************************************)
\* Mutation: a read that finds the pipe empty is taken for the end.
ReadAssemblerOutputUntilEmpty ==
    /\ lpc = "read"
    /\ \/ /\ buf[OutPipe] > 0
          /\ Take(OutPipe) /\ output' = output + 1
          /\ UNCHANGED lpc
       \/ /\ buf[OutPipe] = 0
          /\ lpc' = "wait_asm"
          /\ UNCHANGED <<buf, output>>
    /\ UNCHANGED <<lcur, written, runFailure, exitCode, wr, rd, avars, rvars>>

ReadAssemblerOutput ==
    /\ lpc = "read"
    /\ \/ /\ buf[OutPipe] > 0
          /\ Take(OutPipe) /\ output' = output + 1
          /\ UNCHANGED lpc
       \/ /\ AtEOF(OutPipe)
          /\ lpc' = "wait_asm"
          /\ UNCHANGED <<buf, output>>
    /\ UNCHANGED <<lcur, written, runFailure, exitCode, wr, rd, avars, rvars>>

\* assemble_proc.Wait() (457-463): a failed assembler's status is returned.
WaitAssembler ==
    /\ lpc = "wait_asm"
    /\ apc = "exited"
    /\ \/ /\ astatus = "ok"
          /\ lpc' = "runner" /\ lcur' = 1
          /\ UNCHANGED <<exitCode, wr, rd>>
       \/ /\ astatus # "ok"
          /\ LauncherExits("failed")
          /\ UNCHANGED lcur
    /\ UNCHANGED <<written, output, runFailure, buf, avars, rvars>>

(***************************************************************************)
(* One iteration of the loop of 466-481, first half: a pipe is made and    *)
(* run_cvd started with its read end (moved in, so the launcher keeps only *)
(* the write end runner_stdin_in).                                         *)
(***************************************************************************)
StartRunner ==
    /\ lpc = "runner"
    /\ wr' = [wr EXCEPT ![StdinPipe(lcur)] = {LaunchCvd}]
    /\ rd' = [rd EXCEPT ![StdinPipe(lcur)] = {RunCvd(lcur)}]
    /\ rpc' = [rpc EXCEPT ![lcur] = "read"]
    /\ lpc' = "write_runner" /\ written' = 0
    /\ UNCHANGED <<lcur, output, runFailure, exitCode, buf, avars,
                   rread, rstatus>>

(***************************************************************************)
(* Second half: WriteAll(runner_stdin_in, assembler_output); on failure    *)
(* `return -1` (or SIGPIPE, which the launcher does not ignore, kills it). *)
(* runner_stdin_in goes out of scope at the end of the iteration, which    *)
(* closes it and gives run_cvd its EOF.                                    *)
(***************************************************************************)
WriteRunnerStdin ==
    /\ lpc = "write_runner"
    /\ \/ /\ written < output /\ CanWrite(StdinPipe(lcur))
          /\ Put(StdinPipe(lcur)) /\ written' = written + 1
          /\ UNCHANGED <<lpc, lcur, exitCode, wr, rd>>
       \/ /\ written = output
          /\ wr' = [wr EXCEPT ![StdinPipe(lcur)] = @ \ {LaunchCvd}]
          /\ lpc' = IF lcur = NumInstances THEN "wait_runners" ELSE "runner"
          /\ lcur' = IF lcur = NumInstances THEN 1 ELSE lcur + 1
          /\ UNCHANGED <<written, exitCode, rd, buf>>
       \/ /\ written < output /\ rd[StdinPipe(lcur)] = {}
          /\ \E code \in {"failed", "aborted"} : LauncherExits(code)
          /\ UNCHANGED <<written, lcur, buf>>
    /\ UNCHANGED <<output, runFailure, avars, rvars>>

(***************************************************************************)
(* The wait loop of 483-493: runners are waited for in start order; any    *)
(* non-zero status makes main return -1.                                   *)
(***************************************************************************)
\* Mutation: the failure flag overwritten by each runner's status.
WaitRunnersLastWins ==
    /\ lpc = "wait_runners"
    /\ rpc[lcur] = "exited"
    /\ runFailure' = (rstatus[lcur] # "ok")
    /\ IF lcur = NumInstances
       THEN LauncherExits(IF runFailure' THEN "failed" ELSE "ok")
            /\ UNCHANGED lcur
       ELSE lcur' = lcur + 1 /\ UNCHANGED <<lpc, exitCode, wr, rd>>
    /\ UNCHANGED <<written, output, buf, avars, rvars>>

WaitRunners ==
    /\ lpc = "wait_runners"
    /\ rpc[lcur] = "exited"
    /\ runFailure' = (runFailure \/ rstatus[lcur] # "ok")
    /\ IF lcur = NumInstances
       THEN LauncherExits(IF runFailure' THEN "failed" ELSE "ok")
            /\ UNCHANGED lcur
       ELSE lcur' = lcur + 1 /\ UNCHANGED <<lpc, exitCode, wr, rd>>
    /\ UNCHANGED <<written, output, buf, avars, rvars>>

-----------------------------------------------------------------------------
(***************************************************************************)
(* The environment.  assemble_cvd reads its stdin to EOF when it is the    *)
(* report pipe, then prints its output and exits; run_cvd reads its stdin  *)
(* to EOF, then runs the device and exits.  Either may fail at any point,  *)
(* closing every pipe end it holds.  (assemble_cvd never meets a closed   *)
(* stdout: the launcher holds its read end until it has read to EOF.)      *)
(***************************************************************************)
AssemblerRead ==
    /\ apc = "read"
    /\ \/ buf[ReportPipe] > 0 /\ Take(ReportPipe) /\ UNCHANGED apc
       \/ AtEOF(ReportPipe) /\ apc' = "write" /\ UNCHANGED buf
    /\ UNCHANGED <<awrote, astatus, wr, rd, lvars, rvars>>

AssemblerExits(status) ==
    /\ apc' = "exited" /\ astatus' = status
    /\ CloseAll(AssembleCvd)

AssemblerWrite ==
    /\ apc = "write"
    /\ \/ /\ awrote < OutputLen /\ CanWrite(OutPipe)
          /\ Put(OutPipe) /\ awrote' = awrote + 1
          /\ UNCHANGED <<apc, astatus, wr, rd>>
       \/ /\ awrote = OutputLen
          /\ AssemblerExits("ok") /\ UNCHANGED <<buf, awrote>>
    /\ UNCHANGED <<lvars, rvars>>

AssemblerFails ==
    /\ CanFail
    /\ apc \in {"read", "write"}
    /\ AssemblerExits("failed")
    /\ UNCHANGED <<buf, awrote, lvars, rvars>>

RunnerExits(i, status) ==
    /\ rpc' = [rpc EXCEPT ![i] = "exited"]
    /\ rstatus' = [rstatus EXCEPT ![i] = status]
    /\ CloseAll(RunCvd(i))

RunnerRead(i) ==
    /\ rpc[i] = "read"
    /\ \/ /\ buf[StdinPipe(i)] > 0 /\ Take(StdinPipe(i))
          /\ rread' = [rread EXCEPT ![i] = @ + 1]
          /\ UNCHANGED rpc
       \/ /\ AtEOF(StdinPipe(i))
          /\ rpc' = [rpc EXCEPT ![i] = "run"]
          /\ UNCHANGED <<buf, rread>>
    /\ UNCHANGED <<rstatus, wr, rd, lvars, avars>>

RunnerFinishes(i) ==
    /\ rpc[i] = "run"
    /\ \E status \in IF CanFail THEN {"ok", "failed"} ELSE {"ok"} :
          RunnerExits(i, status)
    /\ UNCHANGED <<buf, rread, lvars, avars>>

RunnerFails(i) ==
    /\ CanFail
    /\ rpc[i] = "read"
    /\ RunnerExits(i, "failed")
    /\ UNCHANGED <<buf, rread, lvars, avars>>

\* Every process has exited (or was never started).
Terminated ==
    /\ lpc = "exited"
    /\ apc \in {"none", "exited"}
    /\ \A i \in Instances : rpc[i] \in {"none", "exited"}
    /\ UNCHANGED vars

LauncherNext ==
    \/ AskMetrics
    \/ /\ UNCHANGED mvars
       /\ \/ ExtractSystemImageDir \/ SetupChecksFail \/ StartAssembler \/ WriteFiles
          \/ ReadAssemblerOutput \/ WaitAssembler
          \/ StartRunner \/ WriteRunnerStdin \/ WaitRunners

EnvironmentNext ==
    /\ UNCHANGED mvars
    /\ \/ AssemblerRead \/ AssemblerWrite \/ AssemblerFails
       \/ \E i \in Instances : RunnerRead(i) \/ RunnerFinishes(i) \/ RunnerFails(i)

Next == LauncherNext \/ EnvironmentNext \/ Terminated

(***************************************************************************)
(* Fairness: the launcher and the children it waits for are never starved *)
(* (each is a process of its own and the kernel schedules it), and a       *)
(* run_cvd eventually ends (it daemonizes or the device is stopped).       *)
(* Failures are possible, never forced.                                    *)
(***************************************************************************)
Fairness ==
    /\ WF_vars(LauncherNext)
    /\ WF_pipeline(AssemblerRead) /\ WF_pipeline(AssemblerWrite)
    /\ \A i \in Instances :
          WF_pipeline(RunnerRead(i)) /\ WF_pipeline(RunnerFinishes(i))

Spec == Init /\ [][Next]_vars /\ Fairness

-----------------------------------------------------------------------------
TypeOK ==
    /\ lpc \in {"args", "metrics", "start", "report", "read", "wait_asm", "runner",
                "write_runner", "wait_runners", "exited"}
    /\ lcur \in Instances
    /\ written \in 0..(ReportLen + OutputLen)
    /\ output \in 0..OutputLen
    /\ runFailure \in BOOLEAN
    /\ exitCode \in Status
    /\ buf \in [PipeIds -> 0..PipeCap]
    /\ wr \in [PipeIds -> SUBSET Procs]
    /\ rd \in [PipeIds -> SUBSET Procs]
    /\ apc \in {"none", "read", "write", "exited"}
    /\ awrote \in 0..OutputLen
    /\ astatus \in Status
    /\ rpc \in [Instances -> {"none", "read", "run", "exited"}]
    /\ rread \in [Instances -> 0..OutputLen]
    /\ rstatus \in [Instances -> Status]

(***************************************************************************)
(* Every run_cvd that gets past reading its stdin has received the whole   *)
(* output of an assemble_cvd that succeeded: the launcher hands over       *)
(* assembler_output only once ReadAll saw EOF and Wait saw status 0.       *)
(***************************************************************************)
RunnersGetWholeConfig ==
    \A i \in Instances :
        rpc[i] = "run" => astatus = "ok" /\ rread[i] = awrote

(***************************************************************************)
(* main returns 0 only if assemble_cvd and every run_cvd it started        *)
(* exited with 0 (lines 457-463 and 483-493).                              *)
(***************************************************************************)
ExitStatusReflectsChildren ==
    exitCode = "ok" =>
        /\ astatus = "ok"
        /\ \A i \in Instances : rstatus[i] = "ok"

(***************************************************************************)
(* launch_cvd always returns: no ordering of pipe writes, reads, waits and *)
(* child failures leaves it, assemble_cvd and run_cvd waiting on each      *)
(* other (the comment at lines 440-441).                                   *)
(***************************************************************************)
LauncherTerminates == <>(lpc = "exited")

(***************************************************************************)
(* The metrics prompt, as part of main: the answer stored is the one the   *)
(* flag, a previous config or the user gave, and once main reaches the    *)
(* prompt it returns, so the pipeline starts.                              *)
(***************************************************************************)
AnswerMatchesInput == MP!AnswerMatchesInput

PromptReturns == (lpc = "metrics") ~> (mpc = "done")

====
