----------------------------- MODULE MC_BootImage -----------------------------
EXTENDS BootImage

\* Command lines of up to two tokens, the empty one included.
MC_Cmdlines == BoundedSeq({"a=b", "c"}, 2)

\* Every value of up to three characters over digits and '.', bare or in
\* quotes, the placeholder None, and a word that is no version.
MC_OsVersions ==
    LET bare == BoundedSeq({"1", "0", "."}, 3)
    IN bare \cup {<<"'">> \o v \o <<"'">> : v \in bare} \cup {<<"None">>, <<"abc">>}

====
