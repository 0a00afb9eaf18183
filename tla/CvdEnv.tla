------------------------------- MODULE CvdEnv -------------------------------
(***************************************************************************)
(* cvd_env (src/host/commands/cvd_env/main.cc): a command names an         *)
(* instance, a subcommand (ls, call, type) and arguments; a service is     *)
(* named by any suffix of its full name, and resolved by `grpc_cli ls` on  *)
(* every gRPC server socket of the instance (GetServerAddress), then on    *)
(* the chosen server (GetFullServiceName).                                 *)
(*                                                                         *)
(* Service names are sequences of tokens, each a piece of the name         *)
(* (e.g. <<"a", ".", "Test", "Echo">> for "a.TestEcho"), so that EndsWith  *)
(* is IsSuffix and a suffix may start inside a word.  The servers'         *)
(* services do not change while cvd_env runs.                              *)
(***************************************************************************)
EXTENDS Naturals, Sequences, SequencesExt, FiniteSets

CONSTANTS
    ServerList,     \* the sockets of grpc_socket_path, in directory order
    ServiceNames,   \* full service names servers may offer
    Reflection,     \* grpc.reflection.v1alpha.ServerReflection
    GivenNames,     \* service names a user may type
    Method,         \* a method name argument
    Proto,          \* a text-format proto argument
    Commands,       \* "ls", "call", "type" and an unsupported one
    MaxArgs         \* positional arguments considered

Servers == ToSet(ServerList)
Words == GivenNames \cup {Method, Proto}

VARIABLES
    fleet,          \* server -> the services `grpc_cli ls` lists
    receiverFound,  \* the receiver names an instance of the config
    cmd,
    args,           \* the positional arguments (those not starting with '-')
    issued,         \* the grpc_cli commands run for output, in order
    result,         \* "none", "ok" or "error"
    pc

vars == <<fleet, receiverFound, cmd, args, issued, result, pc>>

Init ==
    /\ fleet \in [Servers -> {S \cup {Reflection} : S \in SUBSET ServiceNames}]
    /\ receiverFound \in BOOLEAN
    /\ cmd \in Commands
    /\ args \in {s \in BoundedSeq(Words, MaxArgs) :
                   s # <<>> => s[1] \in GivenNames}
    /\ issued = <<>>
    /\ result = "none"
    /\ pc = "main"

-----------------------------------------------------------------------------
\* GetServiceList (78-94): `grpc_cli ls`, minus the reflection service.
GetServiceList(server) == fleet[server] \ {Reflection}

Matches(server, name) == {s \in GetServiceList(server) : IsSuffix(name, s)}

\* GetServerAddress (96-113): the servers with a matching service.
GetServerAddress(name) ==
    LET candidates == SelectSeq(ServerList, LAMBDA s : Matches(s, name) # {})
    IN IF Len(candidates) = 1 THEN [ok |-> TRUE, value |-> candidates[1]]
       ELSE [ok |-> FALSE, value |-> Head(ServerList)]

\* Mutation: the ambiguity check of line 125 dropped.
GetFullServiceNameFirstMatch(server, name) ==
    IF Matches(server, name) # {}
    THEN [ok |-> TRUE, value |-> CHOOSE s \in Matches(server, name) : TRUE]
    ELSE [ok |-> FALSE, value |-> name]

\* GetFullServiceName (115-128): the one matching service of the server.
GetFullServiceName(server, name) ==
    IF Cardinality(Matches(server, name)) = 1
    THEN [ok |-> TRUE, value |-> CHOOSE s \in Matches(server, name) : TRUE]
    ELSE [ok |-> FALSE, value |-> name]

\* GetFullMethodName (130-136): full_service_name + "/" + method_name.
GetFullMethodName(server, name, method) ==
    LET svc == GetFullServiceName(server, name)
    IN [ok |-> svc.ok, value |-> <<svc.value, method>>]

-----------------------------------------------------------------------------
(***************************************************************************)
(* CvdEnvMain (216-267): argc >= 3, a config, the receiver instance, then  *)
(* the command map.  An error is returned through CHECK(ret.ok()).         *)
(***************************************************************************)
CvdEnvMain ==
    /\ pc = "main"
    /\ IF receiverFound /\ cmd \in {"ls", "call", "type"}
       THEN pc' = cmd /\ UNCHANGED result
       ELSE pc' = "done" /\ result' = "error"
    /\ UNCHANGED <<fleet, receiverFound, cmd, args, issued>>

Fail == pc' = "done" /\ result' = "error" /\ UNCHANGED issued

Succeed(cmds) == pc' = "done" /\ result' = "ok" /\ issued' = cmds

(***************************************************************************)
(* HandleLsCmd (138-177): with no argument, `ls` every server; with a      *)
(* service, `ls` its server and full name; with a method too, its full     *)
(* method name.                                                            *)
(***************************************************************************)
HandleLsCmd ==
    /\ pc = "ls"
    /\ CASE Len(args) >= 3 -> Fail
         [] Len(args) = 0 ->
              Succeed([i \in DOMAIN ServerList |-> <<"ls", ServerList[i]>>])
         [] OTHER ->
              LET addr == GetServerAddress(args[1])
                  target == IF Len(args) = 2
                            THEN GetFullMethodName(addr.value, args[1], args[2])
                            ELSE GetFullServiceName(addr.value, args[1])
              IN IF addr.ok /\ target.ok
                 THEN Succeed(<<<<"ls", addr.value, target.value>>>>)
                 ELSE Fail
    /\ UNCHANGED <<fleet, receiverFound, cmd, args>>

\* HandleCallCmd (187-214): exactly service, method and proto.
HandleCallCmd ==
    /\ pc = "call"
    /\ IF Len(args) = 3
       THEN LET addr == GetServerAddress(args[1])
                target == GetFullMethodName(addr.value, args[1], args[2])
            IN IF addr.ok /\ target.ok
               THEN Succeed(<<<<"call", addr.value, target.value, args[3]>>>>)
               ELSE Fail
       ELSE Fail
    /\ UNCHANGED <<fleet, receiverFound, cmd, args>>

\* HandleTypeCmd (179-185): not implemented, succeeds doing nothing.
HandleTypeCmd ==
    /\ pc = "type"
    /\ Succeed(<<>>)
    /\ UNCHANGED <<fleet, receiverFound, cmd, args>>

Done == pc = "done" /\ UNCHANGED vars

Next == CvdEnvMain \/ HandleLsCmd \/ HandleCallCmd \/ HandleTypeCmd \/ Done

Spec == Init /\ [][Next]_vars

-----------------------------------------------------------------------------
\* The (server, service) pairs a typed name may mean, across the instance.
Meanings(name) ==
    {<<s, svc>> \in Servers \X ServiceNames :
        svc \in GetServiceList(s) /\ IsSuffix(name, svc)}

\* The grpc_cli command a subcommand runs once the name means pair m.
Resolved(m) ==
    CASE cmd = "call" -> <<"call", m[1], <<m[2], args[2]>>, args[3]>>
      [] Len(args) = 2 -> <<"ls", m[1], <<m[2], args[2]>>>>
      [] OTHER -> <<"ls", m[1], m[2]>>

(***************************************************************************)
(* A `call`, or an `ls` of a service or method, runs its grpc_cli command *)
(* exactly when the typed service name means one service of one server of *)
(* the instance, and then on that server with that service's full name:   *)
(* the two ambiguity checks (110 and 125) and the reflection filter (87)  *)
(* together never let a name two services end with reach a server, nor    *)
(* refuse a unique one.                                                    *)
(***************************************************************************)
ResolvesUniqueService ==
    (/\ pc = "done" /\ receiverFound
     /\ \/ cmd = "call" /\ Len(args) = 3
        \/ cmd = "ls" /\ Len(args) \in {1, 2}) =>
        IF Cardinality(Meanings(args[1])) = 1
        THEN issued = <<Resolved(CHOOSE m \in Meanings(args[1]) : TRUE)>>
        ELSE result = "error" /\ issued = <<>>

====
