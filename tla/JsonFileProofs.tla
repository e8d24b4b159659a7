-------------------------- MODULE JsonFileProofs --------------------------
(***************************************************************************)
(* The JSON authenticator lets in exactly those whom the file describes,   *)
(* for every file, every set of users, names and addresses.  The decision  *)
(* is taken in two places, cert_auth_sufficient at USER and authenticate   *)
(* later, on a map that keeps one entry of each user; the property is      *)
(* about the entries of the file.                                          *)
(***************************************************************************)
EXTENDS JsonFile, TLAPS, WellFoundedInduction

\* The fields of the session.
SessionOK ==
  session \in [state : {"starting", "New", "WaitPass", "WaitCmd"},
               username : Options(Users), cert_chain : Options(Certs)]

\* Entry i is the last one for the user.
Stands(u, i) ==
  /\ i \in DOMAIN file /\ file[i].username = u
  /\ \A j \in DOMAIN file : file[j].username = u => j <= i

\* Once the server runs, the map holds the last entry of each user.
Loaded ==
  session.state # "starting" =>
    /\ \A i \in DOMAIN file : file[i].username \in DOMAIN credentials_map
    /\ \A u \in DOMAIN credentials_map :
         \E i \in DOMAIN file : Stands(u, i) /\ credentials_map[u] = file[i].creds

Inv == file \in Seq(Entry) /\ SessionOK /\ Loaded /\ AccessExact

\* A set of indices has a greatest one.
LEMMA HasLast ==
  ASSUME NEW n \in Nat, NEW T \in SUBSET (1..n), T # {}
  PROVE  \E i \in T : \A j \in T : j <= i
  <1> DEFINE less == {ss \in Nat \X Nat : ss[1] < ss[2]}
             U == {n - i : i \in T}
  <1>1. IsWellFoundedOn(less, Nat)
    BY NatLessThanWellFounded, Zenon DEF OpToRel
  <1>2. U \subseteq Nat /\ U # {}
    <2>1. PICK i \in T : TRUE
      OBVIOUS
    <2>2. n - i \in U
      OBVIOUS
    <2>3. \A x \in T : n - x \in Nat
      OBVIOUS
    <2> QED  BY <2>2, <2>3
  <1>3. \A x, y \in Nat : x < y => <<x, y>> \in less
    OBVIOUS
  <1> HIDE DEF less, U
  <1>4. PICK x \in U : \A y \in U : ~(<<y, x>> \in less)
    BY <1>1, <1>2, WFMin
  <1>5. \A y \in U : ~(y < x)
    BY <1>2, <1>3, <1>4
  <1>6. PICK i \in T : x = n - i
    BY DEF U
  <1>7. \A j \in T : ~(n - j < n - i)
    BY <1>5, <1>6 DEF U
  <1> QED  BY <1>7

\* LastOf picks the user's last entry.
LEMMA LastIs ==
  ASSUME file \in Seq(Entry), NEW k \in DOMAIN file
  PROVE  Stands(file[k].username, LastOf(file[k].username))
  <1> DEFINE u == file[k].username
  <1>1. EntriesOf(u) \in SUBSET (1..Len(file)) /\ Len(file) \in Nat /\ EntriesOf(u) # {}
    BY DEF EntriesOf
  <1>2. \E i \in EntriesOf(u) : \A j \in EntriesOf(u) : j <= i
    BY <1>1, HasLast
  <1>3. LastOf(u) \in EntriesOf(u) /\ \A j \in EntriesOf(u) : j <= LastOf(u)
    BY <1>2 DEF LastOf
  <1> QED  BY <1>3 DEF EntriesOf, Stands

\* What the last entry asks for, which is what RightCredentials is about.
Suffices(asked, given, cert) ==
  /\ given = asked.password
  /\ asked.client_cert # None => cert # None
  /\ asked.client_cert \in Names => cert # Unreadable /\ asked.client_cert \in cert
  /\ asked.password = None => asked.client_cert # None

\* The entry that stands decides.
LEMMA LastDecides ==
  ASSUME file \in Seq(Entry), NEW u, NEW i, Stands(u, i), NEW given, NEW cert
  PROVE  /\ RightCredentials(u, given, cert) <=> Suffices(file[i].creds, given, cert)
         /\ RightAddress(u) <=> ip_ok(file[i].creds)
  <1>1. DOMAIN file \subseteq Nat
    OBVIOUS
  <1>2. \A k \in DOMAIN file :
          (file[k].username = u /\ \A j \in DOMAIN file : j > k => file[j].username # u)
            <=> (k = i)
    BY <1>1 DEF Stands
  <1>3. RightCredentials(u, given, cert) <=> Suffices(file[i].creds, given, cert)
    BY <1>2 DEF RightCredentials, Suffices, Stands
  <1>4. RightAddress(u) <=> ip_ok(file[i].creds)
    BY <1>2 DEF RightAddress, ip_ok, Stands
  <1> QED  BY <1>3, <1>4

\* authenticate, asked with a password, or without one where USER does so.
LEMMA Authenticates ==
  ASSUME NEW u, NEW given \in Passwords \union {None}, NEW cert \in Certs \union {None},
         u \in DOMAIN credentials_map, credentials_map[u] \in UserCreds,
         given = None => cert_auth_sufficient(u) /\ cert # None
  PROVE  LET actual == credentials_map[u]
             right == Suffices(actual, given, cert)
         IN  /\ (authenticate(u, given, cert) = "ok") <=> (right /\ ip_ok(actual))
             /\ (authenticate(u, given, cert) = "IpDisallowed") <=> (right /\ ~ip_ok(actual))
  <1> DEFINE actual == credentials_map[u]
             pass == pass_check_result(given, actual)
             cn == cn_check_result(cert, actual)
  <1>1. /\ None \notin Passwords /\ None \notin Names /\ Any \notin Names /\ None # Any
        /\ Unreadable # None
    BY JsonFileAssumption DEF Certs
  <1>2. actual.client_cert \in Names \union {Any, None} /\ actual.password \in Passwords \union {None}
    BY DEF UserCreds, Options
  <1>3. /\ given = None => pass = "skip" /\ actual.password = None /\ actual.client_cert # None
                           /\ cert # None
        /\ given # None => pass = IF given = actual.password THEN "ok" ELSE "BadPassword"
    BY <1>1 DEF pass_check_result, check_password, cert_auth_sufficient
  <1>4. /\ actual.client_cert = None => cn = "skip"
        /\ actual.client_cert # None /\ cert = None => cn = "CnDisallowed"
        /\ actual.client_cert = Any /\ cert # None => cn = "ok"
        /\ actual.client_cert \in Names /\ cert # None =>
             IF cert # Unreadable /\ actual.client_cert \in cert THEN cn = "ok"
             ELSE cn \in {"ImplPropagated", "CnDisallowed"}
    BY <1>1, <1>2 DEF cn_check_result, verify_cn
  <1>5. authenticate(u, given, cert) =
          CASE pass = "skip" /\ cn = "skip" -> "BadPassword"
            [] pass = "BadPassword" -> "BadPassword"
            [] pass # "BadPassword" /\ cn \notin {"ok", "skip"} -> cn
            [] OTHER -> IF ip_ok(actual) THEN "ok" ELSE "IpDisallowed"
    BY DEF authenticate
  <1> HIDE DEF pass, cn, actual
  <1>6. Suffices(actual, given, cert) <=>
          pass \in {"ok", "skip"} /\ cn \in {"ok", "skip"} /\ ~(pass = "skip" /\ cn = "skip")
    BY <1>1, <1>2, <1>3, <1>4 DEF Suffices
  <1>7. cn \in {"ok", "skip", "ImplPropagated", "CnDisallowed"}
        /\ pass \in {"ok", "skip", "BadPassword"}
    BY <1>2, <1>3, <1>4
  <1>8. /\ (authenticate(u, given, cert) = "ok") <=> (Suffices(actual, given, cert) /\ ip_ok(actual))
        /\ (authenticate(u, given, cert) = "IpDisallowed")
             <=> (Suffices(actual, given, cert) /\ ~ip_ok(actual))
    BY <1>5, <1>6, <1>7
  <1> QED  BY <1>8 DEF actual

-----------------------------------------------------------------------------
(* The steps.                                                              *)

\* Before the file is loaded nobody has been answered.
LEMMA InitInv == Init => Inv
  BY JsonFileAssumption DEF Init, Inv, SessionOK, Options, Loaded, AccessExact, NoAnswer

\* The authenticator's answer to USER or PASS is what the file says.
LEMMA AskExact ==
  ASSUME Inv, session.state # "starting", UNCHANGED <<file, source, credentials_map>>,
         NEW u \in Options(Users), NEW given \in Passwords \union {None}, Ask(u, given),
         given = None => cert_auth_sufficient(u) /\ session.cert_chain # None
  PROVE  Inv'
  <1> DEFINE cert == session.cert_chain
             result == authenticate(u, given, cert)
  <1>1. file \in Seq(Entry) /\ Loaded /\ cert \in Certs \union {None}
    BY DEF Inv, SessionOK, Options
  <1>2. answer' = [result |-> result, user |-> u, given |-> given, cert |-> cert]
    BY DEF Ask
  <1>3. /\ (result = "ok") <=> (RightCredentials(u, given, cert) /\ RightAddress(u))
        /\ (result = "IpDisallowed") <=> (RightCredentials(u, given, cert) /\ ~RightAddress(u))
    <2>1. CASE u \notin DOMAIN credentials_map
      <3>1. result = "BadUser"
        BY <2>1 DEF authenticate
      <3>2. ~RightCredentials(u, given, cert)
        BY <1>1, <2>1 DEF Loaded, RightCredentials
      <3> QED  BY <3>1, <3>2
    <2>2. CASE u \in DOMAIN credentials_map
      <3> DEFINE actual == credentials_map[u]
      <3>1. PICK i \in DOMAIN file : Stands(u, i) /\ actual = file[i].creds
        BY <1>1, <2>2 DEF Loaded
      <3>2. file[i] \in Entry
        BY <1>1
      <3>3. actual \in UserCreds
        BY <3>1, <3>2 DEF Entry
      <3>4. /\ RightCredentials(u, given, cert) <=> Suffices(actual, given, cert)
            /\ RightAddress(u) <=> ip_ok(actual)
        BY <1>1, <3>1, LastDecides
      <3>5. /\ (result = "ok") <=> (Suffices(actual, given, cert) /\ ip_ok(actual))
            /\ (result = "IpDisallowed") <=> (Suffices(actual, given, cert) /\ ~ip_ok(actual))
        BY <1>1, <2>2, <3>3, Authenticates
      <3> QED  BY <3>4, <3>5
    <2> QED  BY <2>1, <2>2
  <1>4. AccessExact'
    BY <1>2, <1>3 DEF AccessExact, RightCredentials, RightAddress
  <1>5. SessionOK' /\ session'.state # "starting"
    <2> DEFINE state == IF result = "ok" THEN "WaitCmd" ELSE "New"
               username == IF result = "ok" THEN u ELSE session.username
    <2>1. state \in {"WaitCmd", "New"} /\ username \in Options(Users)
      BY DEF Inv, SessionOK
    <2>2. session' = [session EXCEPT !.state = state, !.username = username]
      BY DEF Ask
    <2> HIDE DEF state, username
    <2> QED  BY <2>1, <2>2 DEF Inv, SessionOK
  <1>6. Loaded'
    BY DEF Inv, Loaded, Stands
  <1> QED  BY <1>1, <1>4, <1>5, <1>6 DEF Inv

\* What was answered stays right: the file and the address do not change.
LEMMA AnswerKept ==
  ASSUME Inv, UNCHANGED <<file, source, answer>> PROVE AccessExact'
  BY DEF Inv, AccessExact, RightCredentials, RightAddress

\* Every step keeps the invariant.
LEMMA StepInv == Inv /\ [Next]_vars => Inv'
  <1> SUFFICES ASSUME Inv, [Next]_vars PROVE Inv'  OBVIOUS
  <1>1. CASE UNCHANGED vars
    BY <1>1, AnswerKept DEF vars, Inv, SessionOK, Loaded, Stands
  <1>2. CASE from_json
    <2>1. file' = file /\ file \in Seq(Entry)
          /\ credentials_map' =
               [u \in {file[i].username : i \in DOMAIN file} |-> file[LastOf(u)].creds]
      BY <1>2 DEF from_json, Inv
    <2>2. \A k \in DOMAIN file : Stands(file[k].username, LastOf(file[k].username))
      BY <2>1, LastIs
    <2>3. Loaded'
      BY <2>1, <2>2 DEF Loaded, Stands
    <2>4. SessionOK'
      BY <1>2 DEF from_json, Inv, SessionOK
    <2> QED  BY <1>2, <2>1, <2>3, <2>4, AnswerKept DEF from_json, Inv
  <1>3. ASSUME NEW cert \in Certs, Upgrade(cert) PROVE Inv'
    <2>1. SessionOK' /\ session'.state = session.state
      BY <1>3 DEF Upgrade, Inv, SessionOK, Options
    <2>2. Loaded'
      BY <1>3, <2>1 DEF Upgrade, Inv, Loaded, Stands
    <2> QED  BY <1>3, <2>1, <2>2, AnswerKept DEF Upgrade, Inv
  <1>4. ASSUME NEW u \in Users, User(u) PROVE Inv'
    <2>1. session.state = "New" /\ UNCHANGED <<file, source, credentials_map>>
      BY <1>4 DEF User
    <2>2. CASE session.cert_chain # None /\ cert_auth_sufficient(u)
      BY <1>4, <2>1, <2>2, AskExact DEF User, Options
    <2>3. CASE ~(session.cert_chain # None /\ cert_auth_sufficient(u))
      <3>1. session' = [session EXCEPT !.username = u, !.state = "WaitPass"] /\ answer' = answer
        BY <1>4, <2>3 DEF User
      <3>2. SessionOK'
        BY <3>1 DEF Inv, SessionOK, Options
      <3>3. Loaded'
        BY <2>1 DEF Inv, Loaded, Stands
      <3> QED  BY <2>1, <3>1, <3>2, <3>3, AnswerKept DEF Inv
    <2> QED  BY <2>2, <2>3
  <1>5. ASSUME NEW given \in Passwords, Pass(given) PROVE Inv'
    <2>1. given # None
      BY JsonFileAssumption
    <2>2. session.username \in Options(Users)
      BY DEF Inv, SessionOK
    <2> QED  BY <1>5, <2>1, <2>2, AskExact DEF Pass
  <1> QED  BY <1>1, <1>2, <1>3, <1>4, <1>5 DEF Next

\* For every file, the authenticator lets in exactly those who have given all that
\* the user's last entry asks for, through PASS or through USER alone.
THEOREM ExactAccess == Spec => []AccessExact
  <1>1. Inv => AccessExact
    BY DEF Inv
  <1> QED  BY <1>1, InitInv, StepInv, PTL DEF Spec
=============================================================================
