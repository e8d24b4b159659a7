---------------------------- MODULE MCJsonFile ----------------------------
EXTENDS JsonFile

CONSTANTS eve, santa, clara, wrong, cn1, cn2, ip1, ip2

TwoUsers == {eve, santa}
TwoPasswords == {clara, wrong}
TwoNames == {cn1, cn2}
TwoIps == {ip1, ip2}

\* The accounts of one user: a password, stored either way, or none; a certificate
\* with a name, any certificate or none; one range, an empty one or none.
Accounts ==
  {c \in [stored : {"plain", "pbkdf2"}, password : {clara, None},
          client_cert : {cn1, Any, None}, allowed_ip_ranges : {None, {}, {ip1}}] :
     c.stored = "pbkdf2" => c.password # None}
Of(c, valid) == [username |-> eve, creds |-> c, valid |-> valid]
OneEntry == {<<Of(c, valid)>> : c \in Accounts, valid \in BOOLEAN}

\* A second entry for the user replaces the first.
SomeFiles ==
  OneEntry \union {<<Of(c, TRUE), Of(d, TRUE)>> : c, d \in {a \in Accounts : a.stored = "plain"}}
=============================================================================
