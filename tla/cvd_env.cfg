\* Two servers offering any of three services, every subcommand with up
\* to three positional arguments.
CONSTANTS
    ServerList <- MC_ServerList
    ServiceNames <- MC_ServiceNames
    Reflection <- MC_Reflection
    GivenNames <- MC_GivenNames
    Method = Method
    Proto = Proto
    Commands = {"ls", "call", "type", "bogus"}
    MaxArgs = 3
SPECIFICATION Spec
INVARIANT ResolvesUniqueService
