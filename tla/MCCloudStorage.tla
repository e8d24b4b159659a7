-------------------------- MODULE MCCloudStorage --------------------------
(* TLC instances of CloudStorage. *)
EXTENDS CloudStorage, TLC

CONSTANTS s1, s2

TwoSessions == {s1, s2}

Root == <<0>>
\* A directory with a file or directory in it, and one beside it.
TwoLevels == {<<>>, <<1>>, <<1, 2>>, <<3>>}

\* One session uses everything, the other what changes the bucket.
Everything == [s \in TwoSessions |-> IF s = s1 THEN Commands ELSE {"PUT", "MKD", "DELE", "RMD"}]
=============================================================================
