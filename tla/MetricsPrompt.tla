---------------------------- MODULE MetricsPrompt ----------------------------
(***************************************************************************)
(* ValidateMetricsConfirmation (src/host/commands/start/main.cc 159-223),  *)
(* called by main at 387-388: the answer comes from the flag, else from a  *)
(* previous config, else from stdin, read one character at a time until a *)
(* y/n answer or EOF.  Characters are named tokens: "nl", "cr" and "nul"   *)
(* stand for '\n', '\r' and '\0'; NoChar is the char -1 set when there is  *)
(* neither a flag nor a config answer.                                     *)
(***************************************************************************)
EXTENDS Naturals, Sequences, SequencesExt

CONSTANTS
    Chars,          \* characters a user or a pipe may send
    FlagValues,     \* first characters of --report_anonymous_usage_stats
    MaxInput,       \* characters on stdin before EOF
    NoFlag,         \* the flag is ""
    NoChar          \* char ch = -1

ASSUME NoFlag \notin Chars /\ NoChar \notin Chars

\* tolower (line 219; also 182) on the characters considered.
ToLower(c) == CASE c = "Y" -> "y" [] c = "N" -> "n" [] OTHER -> c

\* CuttlefishConfig::enable_metrics() of an existing config, or none.
ConfigAnswers == {"none", "kYes", "kNo", "kUnknown"}

VARIABLES
    useMetrics,  \* first character of use_metrics, or NoFlag
    config,      \* what a previous launch's config says
    typed,       \* everything stdin will deliver, for the reference
    stdin,       \* what stdin has not delivered yet
    ch,
    mpc,         \* "start", "loop", "done"
    answer       \* the returned string

vars == <<useMetrics, config, typed, stdin, ch, mpc, answer>>

Init ==
    /\ useMetrics \in FlagValues \cup {NoFlag}
    /\ config \in ConfigAnswers
    /\ typed \in BoundedSeq(Chars, MaxInput)
    /\ stdin = typed
    /\ ch = NoChar
    /\ mpc = "start"
    /\ answer = ""

(***************************************************************************)
(* Lines 160-182: an empty flag takes the config's yes or no; ch is the    *)
(* lowered first character, or -1.  The notice printed is left out.        *)
(***************************************************************************)
ValidateMetricsConfirmation ==
    /\ mpc = "start"
    /\ LET um == CASE useMetrics = NoFlag /\ config = "kYes" -> "y"
                   [] useMetrics = NoFlag /\ config = "kNo" -> "n"
                   [] OTHER -> useMetrics
       IN ch' = IF um = NoFlag THEN NoChar ELSE ToLower(um)
    /\ mpc' = "loop"
    /\ UNCHANGED <<useMetrics, config, typed, stdin, answer>>

\* Mutation: the character read is not lowered.
MetricsLoopWithoutToLower ==
    /\ mpc = "loop"
    /\ \/ /\ ch \in {"nul", "cr", "nl", "y"}
          /\ answer' = "y" /\ mpc' = "done"
          /\ UNCHANGED <<ch, stdin>>
       \/ /\ ch = "n"
          /\ answer' = "n" /\ mpc' = "done"
          /\ UNCHANGED <<ch, stdin>>
       \/ /\ ch \notin {"nul", "cr", "nl", "y", "n"}
          /\ IF stdin = <<>>
             THEN ch' = "n" /\ UNCHANGED stdin
             ELSE ch' = Head(stdin) /\ stdin' = Tail(stdin)
          /\ UNCHANGED <<answer, mpc>>
    /\ UNCHANGED <<useMetrics, config, typed>>

\* Mutation: the EOF test of lines 215-218 left out (std::cin.get leaves
\* ch as it was).
MetricsLoopIgnoringEof ==
    /\ mpc = "loop"
    /\ \/ /\ ch \in {"nul", "cr", "nl", "y"}
          /\ answer' = "y" /\ mpc' = "done"
          /\ UNCHANGED <<ch, stdin>>
       \/ /\ ch = "n"
          /\ answer' = "n" /\ mpc' = "done"
          /\ UNCHANGED <<ch, stdin>>
       \/ /\ ch \notin {"nul", "cr", "nl", "y", "n"}
          /\ IF stdin = <<>>
             THEN UNCHANGED <<ch, stdin>>
             ELSE ch' = ToLower(Head(stdin)) /\ stdin' = Tail(stdin)
          /\ UNCHANGED <<answer, mpc>>
    /\ UNCHANGED <<useMetrics, config, typed>>

(***************************************************************************)
(* One pass of the for(;;) switch (200-221): 0, '\r', '\n' and 'y' accept, *)
(* 'n' refuses; anything else (after a reminder) and -1 read the next      *)
(* character, lowered, with EOF read as 'n'.                               *)
(***************************************************************************)
MetricsLoop ==
    /\ mpc = "loop"
    /\ \/ /\ ch \in {"nul", "cr", "nl", "y"}
          /\ answer' = "y" /\ mpc' = "done"
          /\ UNCHANGED <<ch, stdin>>
       \/ /\ ch = "n"
          /\ answer' = "n" /\ mpc' = "done"
          /\ UNCHANGED <<ch, stdin>>
       \/ /\ ch \notin {"nul", "cr", "nl", "y", "n"}
          /\ IF stdin = <<>>
             THEN ch' = "n" /\ UNCHANGED stdin
             ELSE ch' = ToLower(Head(stdin)) /\ stdin' = Tail(stdin)
          /\ UNCHANGED <<answer, mpc>>
    /\ UNCHANGED <<useMetrics, config, typed>>

Done == mpc = "done" /\ UNCHANGED vars

Next == ValidateMetricsConfirmation \/ MetricsLoop \/ Done

\* A single thread running a loop that blocks only on stdin.
Spec == Init /\ [][Next]_vars /\ WF_vars(Next)

-----------------------------------------------------------------------------
(***************************************************************************)
(* The reference: the prompt says "(Y/n)" and the comment at 214 says a    *)
(* missing tty means 'n'.  The answer is the first character, of the flag  *)
(* and then of stdin, that is y/Y, n/N or an empty line, with EOF as no;   *)
(* an empty flag defers to a previous config's yes or no.                  *)
(***************************************************************************)
RECURSIVE FirstAnswer(_)
FirstAnswer(s) ==
    CASE s = <<>> -> "n"
      [] ToLower(Head(s)) \in {"y", "nl", "cr", "nul"} -> "y"
      [] ToLower(Head(s)) = "n" -> "n"
      [] OTHER -> FirstAnswer(Tail(s))

ExpectedAnswer ==
    CASE useMetrics = NoFlag /\ config = "kYes" -> "y"
      [] useMetrics = NoFlag /\ config = "kNo" -> "n"
      [] useMetrics = NoFlag -> FirstAnswer(typed)
      [] OTHER -> FirstAnswer(<<useMetrics>> \o typed)

(***************************************************************************)
(* The answer stored in FLAGS_report_anonymous_usage_stats is the one the  *)
(* flag, the config or the user gave.                                      *)
(***************************************************************************)
AnswerMatchesInput ==
    mpc = "done" => answer = ExpectedAnswer

\* The prompt loop always returns, whatever stdin delivers before EOF.
PromptReturns == <>(mpc = "done")

====
