------------------------------ MODULE MCLogin ------------------------------
(* TLC instances of Login. *)
EXTENDS Login, TLC

CONSTANTS anonymous, bob, t1, t2, w1

TwoUsers == {anonymous, bob}
OnlyBob == {bob}
TwoTasks == {t1, t2}
OneWorker == {w1}

Cfg(tls, control, data, mode) ==
  [tls |-> tls, control |-> control, data |-> data, mode |-> mode]

Open == Cfg(FALSE, "None", "None", "PassiveOnly")
ForAccounts == Cfg(TRUE, "Accounts", "Accounts", "ActiveAndPassive")
ForAll == Cfg(TRUE, "All", "All", "ActiveOnly")

\* Each requirement of FTPS, with the commands that it is about.
Servers == {Open, ForAccounts, ForAll}

Logins == [cmd : {"USER"}, user : TwoUsers] \union [cmd : {"PASS"}, right : BOOLEAN]
StartTls == [cmd : {"AUTH"}, param : {"TLS"}]
OpenClient == Logins \union [cmd : {"DELE", "PASV", "PORT", "QUIT"}]
AccountsClient == Logins \union StartTls \union [cmd : {"PASV"}]
AllClient ==
  [cmd : {"USER"}, user : OnlyBob] \union [cmd : {"PASS"}, right : {TRUE}] \union StartTls
    \union [cmd : {"PROT"}, param : {"P", "C"}] \union [cmd : {"PASV", "PORT", "CCC"}]
Clients ==
  [c \in Servers |-> CASE c = Open -> OpenClient
                      [] c = ForAccounts -> AccountsClient
                      [] c = ForAll -> AllClient]

Symmetry == Permutations(TwoTasks)
=============================================================================
