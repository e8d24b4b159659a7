--------------------------- MODULE MCControlChan ---------------------------
(* TLC instances of ControlChan. *)
EXTENDS ControlChan, TLC

CONSTANTS c1, c2, j1, j2, root, sub

OneConn == {c1}
TwoConns == {c1, c2}
OneJob == {j1}
TwoJobs == {j1, j2}
OneDir == {root}
TwoDirs == {root, sub}

\* Representatives of the commands with like handlers, to keep interleavings few.
Mixed == {"PASV", "RETR", "LIST", "ABOR", "CWD", "REST", "PROT", "QUIT"}
Piped == {"PASV", "PORT", "RETR", "LIST", "ABOR", "CWD", "DELE", "PROT", "QUIT"}

\* The two commands that the disagreement with the comment of QUIT takes.
TaskThenQuit == {"DELE", "QUIT"}

\* Sound where no liveness property is checked.
Symmetry == Permutations(TwoConns) \union Permutations(TwoJobs)
=============================================================================
