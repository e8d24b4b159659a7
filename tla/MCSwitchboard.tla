--------------------------- MODULE MCSwitchboard ---------------------------
(* TLC instances of Switchboard. *)
EXTENDS Switchboard, TLC

CONSTANTS s1, s2, ip1, ip2

OneSession == {s1}
TwoSessions == {s1, s2}
OneSource == {ip1}
TwoSources == {ip1, ip2}
Symmetry == Permutations(TwoSessions) \union Permutations(TwoSources)
=============================================================================
