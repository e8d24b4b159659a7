----------------------------- MODULE MCServer -----------------------------
(* TLC instances of Server. *)
EXTENDS Server

CONSTANTS s1, s2, s3

ThreeSessions == {s1, s2, s3}
OneBlockable == {s1}
=============================================================================
