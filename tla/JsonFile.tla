----------------------------- MODULE JsonFile -----------------------------
(***************************************************************************)
(* The authenticator that takes its accounts from a JSON file, and how     *)
(* USER and PASS use it: an account may ask for a password, a client       *)
(* certificate or both, and may be bound to ranges of addresses.  USER     *)
(* decides by cert_auth_sufficient whether to ask for a password at all,   *)
(* and the certificate may come with an upgrade to TLS at any time.        *)
(*                                                                         *)
(* Authentication is one step here; Login is about the tasks of several    *)
(* PASS commands, FailedLogins about the policy that counts failures.      *)
(***************************************************************************)
EXTENDS Naturals, Sequences

CONSTANTS
  Users,
  Passwords,
  Names,         \* what allowed_cn may be
  Ips,           \* IPv4 addresses
  Ipv6,          \* an address of the other kind
  Any,           \* client_cert without allowed_cn
  None,          \* an option that is not set
  Unreadable,    \* a certificate that cannot be parsed
  Files          \* contents of the file: sequences of entries

VARIABLES
  file,             \* the entries, fixed
  source,           \* the address of the peer, fixed
  credentials_map,  \* what the authenticator has loaded
  session,          \* the fields of Session that matter here
  answer            \* the last answer of the authenticator and what it was asked

vars == <<file, source, credentials_map, session, answer>>

-----------------------------------------------------------------------------
Options(S) == S \union {None}

\* valid: the salt, the key and the ranges can be decoded.
UserCreds ==
  [stored : {"plain", "pbkdf2"}, password : Options(Passwords),
   client_cert : Options(Names \union {Any}), allowed_ip_ranges : Options(SUBSET Ips)]
Entry == [username : Users, creds : UserCreds, valid : BOOLEAN]

\* A certificate is known by the names that its subject contains.
Certs == (SUBSET Names) \union {Unreadable}

ASSUME JsonFileAssumption ==
  /\ Files \subseteq Seq(Entry)
  /\ Any \notin Names
  /\ None \notin Passwords \union Names \union {Any}
  /\ \A c \in Certs : c # None
  /\ \A r \in SUBSET Ips : r # None
  /\ \A names \in SUBSET Names : names # Unreadable
  /\ Ipv6 \notin Ips

NoAnswer == [result |-> "none"]
Init ==
  /\ file \in Files
  /\ source \in Ips \union {Ipv6}
  /\ credentials_map = <<>>
  /\ session = [state |-> "starting", username |-> None, cert_chain |-> None]
  /\ answer = NoAnswer

-----------------------------------------------------------------------------
(* JsonFileAuthenticator.                                                  *)

\* from_file and from_json: of several entries for a user the last one stands.
\* One bad entry, or a file that cannot be read, and there is no server.
EntriesOf(u) == {i \in DOMAIN file : file[i].username = u}
LastOf(u) == CHOOSE i \in EntriesOf(u) : \A j \in EntriesOf(u) : j <= i
from_json ==
  /\ session.state = "starting"
  /\ \A i \in DOMAIN file : file[i].valid
  /\ credentials_map' = [u \in {file[i].username : i \in DOMAIN file} |-> file[LastOf(u)].creds]
  /\ session' = [session EXCEPT !.state = "New"]
  /\ UNCHANGED <<file, source, answer>>

check_password(given, actual) == actual.password # None /\ given = actual.password

\* Addresses of the other kind are in no range.
ip_ok(actual) == actual.allowed_ip_ranges = None \/ source \in actual.allowed_ip_ranges

verify_cn(cert, cn) == cert # Unreadable /\ cn \in cert

\* "skip" where the code has None.
cn_check_result(cert, actual) ==
  CASE actual.client_cert = None -> "skip"
    [] actual.client_cert # None /\ cert = None -> "CnDisallowed"
    [] actual.client_cert = Any /\ cert # None -> "ok"
    [] OTHER -> IF verify_cn(cert, actual.client_cert) THEN "ok"
                ELSE IF cert = Unreadable THEN "ImplPropagated" ELSE "CnDisallowed"

pass_check_result(given, actual) ==
  CASE given = None -> "skip"
    [] OTHER -> IF check_password(given, actual) THEN "ok" ELSE "BadPassword"

\* A check that fails is reported before the address is, the password first; one
\* of the two checks must have been made.
authenticate(u, given, cert) ==
  IF u \notin DOMAIN credentials_map THEN "BadUser"
  ELSE LET actual == credentials_map[u]
           pass == pass_check_result(given, actual)
           cn == cn_check_result(cert, actual)
       IN  CASE pass = "skip" /\ cn = "skip" -> "BadPassword"
             [] pass = "BadPassword" -> "BadPassword"
             [] pass # "BadPassword" /\ cn \notin {"ok", "skip"} -> cn
             [] OTHER -> IF ip_ok(actual) THEN "ok" ELSE "IpDisallowed"

\* Mutant of cert_auth_sufficient: that there is a password is overlooked.
CertIsEnough(u) ==
  u \in DOMAIN credentials_map /\ credentials_map[u].client_cert # None

cert_auth_sufficient(u) ==
  /\ u \in DOMAIN credentials_map
  /\ credentials_map[u].stored = "plain" /\ credentials_map[u].password = None
  /\ credentials_map[u].client_cert # None

-----------------------------------------------------------------------------
(* The session.                                                            *)

\* The upgrade to TLS may bring a certificate, a later one another.
Upgrade(cert) ==
  /\ session.state # "starting"
  /\ session' = [session EXCEPT !.cert_chain = cert]
  /\ UNCHANGED <<file, source, credentials_map, answer>>

\* The authenticator is asked, and the session goes to WaitCmd or back to New.
Ask(u, given) ==
  LET result == authenticate(u, given, session.cert_chain)
  IN  /\ answer' = [result |-> result, user |-> u, given |-> given, cert |-> session.cert_chain]
      /\ session' = [session EXCEPT !.state = IF result = "ok" THEN "WaitCmd" ELSE "New",
                                    !.username = IF result = "ok" THEN u ELSE @]

User(u) ==
  /\ session.state = "New"
  /\ IF session.cert_chain # None /\ cert_auth_sufficient(u)
     THEN Ask(u, None)
     ELSE /\ session' = [session EXCEPT !.username = u, !.state = "WaitPass"]
          /\ UNCHANGED answer
  /\ UNCHANGED <<file, source, credentials_map>>

Pass(given) ==
  /\ session.state = "WaitPass"
  /\ Ask(session.username, given)
  /\ UNCHANGED <<file, source, credentials_map>>

Next ==
  \/ from_json
  \/ \E cert \in Certs : Upgrade(cert)
  \/ \E u \in Users : User(u)
  \/ \E given \in Passwords : Pass(given)

Spec == Init /\ [][Next]_vars

-----------------------------------------------------------------------------
(***************************************************************************)
(* What the file asks of a client.  "Eve needs to present a valid client   *)
(* certificate with a CN matching [...] and then also needs to provide the *)
(* correct password.  Freddie just needs to present a valid certificate    *)
(* [...] No password is required for him."                                 *)
(***************************************************************************)
RightCredentials(u, given, cert) ==
  \E i \in DOMAIN file :
    LET asked == file[i].creds
    IN  /\ file[i].username = u
        /\ \A j \in DOMAIN file : j > i => file[j].username # u
        /\ given = asked.password
        /\ asked.client_cert # None => cert # None
        /\ asked.client_cert \in Names => cert # Unreadable /\ asked.client_cert \in cert
        /\ asked.password = None => asked.client_cert # None
RightAddress(u) ==
  \A i \in DOMAIN file :
    LET ranges == file[i].creds.allowed_ip_ranges
        stands == \A j \in DOMAIN file : j > i => file[j].username # u
    IN  file[i].username = u /\ stands /\ ranges # None => source \in ranges

(***************************************************************************)
(* Whatever the order of USER, PASS and upgrades to TLS, the authenticator *)
(* lets in exactly those who have given all that the user's last entry in  *)
(* the file asks for, with the certificate of that moment: also through    *)
(* USER alone, for which no password is asked.  And it is the address that *)
(* is refused only where nothing else is wrong.                            *)
(***************************************************************************)
AccessExact ==
  answer.result # "none" =>
    LET right == RightCredentials(answer.user, answer.given, answer.cert)
    IN  /\ (answer.result = "ok") <=> (right /\ RightAddress(answer.user))
        /\ (answer.result = "IpDisallowed") <=> (right /\ ~RightAddress(answer.user))
=============================================================================
