---------------------------- MODULE MC_LaunchArgs ----------------------------
EXTENDS LaunchArgs

\* "daemon" stands for a name of kBoolFlags, "other" for any other flag.
MC_Tokens == {"-", "no", "daemon", "other", "=true"}
MC_BoolFlagNames == {<<"daemon">>}
MC_ValueTokens == {"=true", "=false"}

====
