--------------------------- MODULE MCFailedLogins ---------------------------
(* TLC instances of FailedLogins. *)
EXTENDS FailedLogins

CONSTANTS u1, ip1, t1, t2

OneUser == {u1}
OneIp == {ip1}
OneTask  == {t1}
TwoTasks == {t1, t2}
=============================================================================
