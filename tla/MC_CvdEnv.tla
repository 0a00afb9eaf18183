------------------------------ MODULE MC_CvdEnv ------------------------------
EXTENDS CvdEnv

\* "a.Echo" and "b.Echo" share a last component; "a.TestEcho" ends with
\* "Echo" inside a word.
MC_ServiceNames == {<<"a", ".", "Echo">>, <<"b", ".", "Echo">>,
                    <<"a", ".", "Test", "Echo">>}
MC_Reflection == <<"grpc", ".", "reflection">>
MC_GivenNames == {<<"Echo">>, <<"a", ".", "Echo">>, <<"Test", "Echo">>,
                  <<"reflection">>}
MC_ServerList == <<"s1", "s2">>

====
