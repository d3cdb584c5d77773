----------------------------- MODULE MCServer104 -----------------------------
(***************************************************************************)
(* Instances of Server104 for TLC.                                         *)
(***************************************************************************)
EXTENDS Server104, TLC

CONSTANTS s1, s2, s3

\* A main and a standby master of one group.
MCPair == {s1, s2}
MCOne  == {s1}
MCSplit == {s1, s3}

\* Two fixed groups: s1 and s2 connect from an address the second group names,
\* s3 from one no group names, which the catch-all takes.
MCTriple  == {s1, s2, s3}
MCClients == <<{}, {"a", "b"}>>
MCAddress == [s \in Session |-> IF s = s3 THEN "c" ELSE IF s = s1 THEN "a" ELSE "b"]

\* s1 and s2 belong to the same group and are alike otherwise.
Alike == Permutations({s1, s2})

\* The server is not closed and its listener does not end.  Either only keeps
\* sessions from being accepted or tells them to end, which they may do anyway, so
\* that no state of the sessions, groups and broadcasts is left out.
ServesOn == ~closed /\ \A l \in Listener : listening[l]
==============================================================================
