\* Every command line of up to two arguments of up to four tokens (--nodaemon is four).
CONSTANTS
    Tokens <- MC_Tokens
    BoolFlagNames <- MC_BoolFlagNames
    ValueTokens <- MC_ValueTokens
    MaxArgLen = 4
    MaxArgs = 2
SPECIFICATION Spec
INVARIANT RewritesExactlyDocumentedForms
