----------------------------- MODULE LaunchArgs -----------------------------
(***************************************************************************)
(* launch_cvd's rewriting of boolean flags before gflags sees them         *)
(* (src/host/commands/start/main.cc: IsBoolArg 276-311, FormatBoolString   *)
(* 313-321, OverrideBoolArg 323-335, and main's copy into argv, 364-368).  *)
(*                                                                         *)
(* An argument is a sequence of tokens, each standing for a substring:     *)
(* "-" a dash, "no" the letters n,o, a flag name, or "=true" an = sign    *)
(* and a value.  BoolFlagNames is the abstraction of kBoolFlags.          *)
(***************************************************************************)
EXTENDS Naturals, Sequences, SequencesExt

CONSTANTS
    Tokens,         \* the substrings arguments are made of
    BoolFlagNames,  \* kBoolFlags, each a sequence of name tokens
    ValueTokens,    \* the tokens that contain '='
    MaxArgLen,      \* tokens per argument
    MaxArgs         \* arguments per command line

ASSUME {"-", "no"} \subseteq Tokens
ASSUME {"=true", "=false"} \subseteq ValueTokens
ASSUME BoolFlagNames \subseteq Seq(Tokens \ ({"-", "no"} \cup ValueTokens))

Args == BoundedSeq(Tokens, MaxArgLen)

\* "=true" and "=false", the values FormatBoolString appends.
TrueTok == "=true"
FalseTok == "=false"

VARIABLES
    cmdline,    \* argv[1..argc-1] as given
    args,       \* the std::vector<std::string> args being rewritten
    index,      \* OverrideBoolArg's loop index (1-based)
    overrided,  \* OverrideBoolArg's result so far
    argv,       \* what gflags will parse
    pc

vars == <<cmdline, args, index, overrided, argv, pc>>

-----------------------------------------------------------------------------
\* android::base::ConsumePrefix(&s, t) for a one-token prefix.
ConsumePrefix(s, t) == IF s # <<>> /\ Head(s) = t THEN Tail(s) ELSE s

NotBool == [is_bool_flag |-> FALSE, bool_flag_value |-> FALSE, name |-> <<>>]

\* Mutation: the optional second dash (line 285) not consumed.
IsBoolArgSingleDash(argument) ==
    LET name == Tail(argument)
    IN CASE argument = <<>> \/ Head(argument) # "-" -> NotBool
         [] \E i \in DOMAIN name : name[i] \in ValueTokens -> NotBool
         [] name \in BoolFlagNames ->
                [is_bool_flag |-> TRUE, bool_flag_value |-> TRUE, name |-> name]
         [] name # <<>> /\ Head(name) = "no" /\ Tail(name) \in BoolFlagNames ->
                [is_bool_flag |-> TRUE, bool_flag_value |-> FALSE, name |-> Tail(name)]
         [] OTHER -> NotBool

(***************************************************************************)
(* IsBoolArg: "-" required, a second "-" optional, no '=' anywhere, then   *)
(* the name itself, or "no" and the name, must be in kBoolFlags.           *)
(***************************************************************************)
IsBoolArg(argument) ==
    LET name == ConsumePrefix(Tail(argument), "-")
    IN CASE argument = <<>> \/ Head(argument) # "-" -> NotBool
         [] \E i \in DOMAIN name : name[i] \in ValueTokens -> NotBool
         [] name \in BoolFlagNames ->
                [is_bool_flag |-> TRUE, bool_flag_value |-> TRUE, name |-> name]
         [] name # <<>> /\ Head(name) = "no" /\ Tail(name) \in BoolFlagNames ->
                [is_bool_flag |-> TRUE, bool_flag_value |-> FALSE, name |-> Tail(name)]
         [] OTHER -> NotBool

FormatBoolString(name_str, value) ==
    <<"-", "-">> \o name_str \o <<IF value THEN TrueTok ELSE FalseTok>>

-----------------------------------------------------------------------------
Init ==
    /\ cmdline \in BoundedSeq(Args, MaxArgs)
    /\ args = cmdline
    /\ index = 1
    /\ overrided = FALSE
    /\ argv = cmdline
    /\ pc = "override"

\* One iteration of OverrideBoolArg's loop (325-333), or its end.
OverrideBoolArg ==
    /\ pc = "override"
    /\ \/ /\ index <= Len(args)
          /\ LET value == IsBoolArg(args[index])
             IN IF value.is_bool_flag
                THEN /\ args' = [args EXCEPT ![index] =
                                   FormatBoolString(value.name, value.bool_flag_value)]
                     /\ overrided' = TRUE
                ELSE UNCHANGED <<args, overrided>>
          /\ index' = index + 1
          /\ UNCHANGED pc
       \/ /\ index > Len(args)
          /\ pc' = "argv"
          /\ UNCHANGED <<args, index, overrided>>
    /\ UNCHANGED <<cmdline, argv>>

\* Lines 364-368: argv[i] points at args[i-1] only if something changed.
CopyIntoArgv ==
    /\ pc = "argv"
    /\ argv' = IF overrided THEN args ELSE argv
    /\ pc' = "done"
    /\ UNCHANGED <<cmdline, args, index, overrided>>

Done == pc = "done" /\ UNCHANGED vars

Next == OverrideBoolArg \/ CopyIntoArgv \/ Done

Spec == Init /\ [][Next]_vars

-----------------------------------------------------------------------------
(***************************************************************************)
(* The forms the comment at lines 277-280 names: -flag, --flag, -noflag,   *)
(* --noflag for a flag of kBoolFlags; every other argument is left as it  *)
(* is.  The comment keeps the dashes (-flag=true); FormatBoolString       *)
(* (313-321) always writes two, which gflags reads the same way, so the   *)
(* expected form is --flag=true or --flag=false.                           *)
(***************************************************************************)
Documented(a) ==
    IF \E f \in BoolFlagNames, d \in {<<"-">>, <<"-", "-">>} :
          a \in {d \o f, d \o <<"no">> \o f}
    THEN LET f == CHOOSE f \in BoolFlagNames :
                    \E d \in {<<"-">>, <<"-", "-">>} : a \in {d \o f, d \o <<"no">> \o f}
         IN FormatBoolString(f, \E d \in {<<"-">>, <<"-", "-">>} : a = d \o f)
    ELSE a

(***************************************************************************)
(* When the rewrite is over, gflags parses exactly the command line with   *)
(* the documented forms converted, argument for argument.                  *)
(***************************************************************************)
RewritesExactlyDocumentedForms ==
    pc = "done" =>
        /\ Len(argv) = Len(cmdline)
        /\ \A i \in DOMAIN cmdline : argv[i] = Documented(cmdline[i])

====
