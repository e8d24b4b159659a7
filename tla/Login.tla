------------------------------- MODULE Login -------------------------------
(***************************************************************************)
(* How a control connection gets from New to WaitCmd and back: USER, PASS  *)
(* and the authentication tasks it leaves running, AUTH and the upgrade of *)
(* the connection to TLS, and the middlewares that every command passes    *)
(* before its handler (FTPS enforcement, authentication, active or passive *)
(* mode) or that every message passes (presence notifications).            *)
(*                                                                         *)
(* The client may send commands without waiting for replies.  Only the     *)
(* control loop writes state, username, cmd_tls and data_tls, so that the  *)
(* lock taken by a middleware and the handler's own are merged.            *)
(***************************************************************************)
EXTENDS Integers, Sequences, FiniteSets

CONSTANTS
  Users, Anonymous,  \* user names; the one for which FTPS may be optional
  NoUser,            \* None for a user name
  CertUsers,         \* users whose certificate is enough (cert_auth_sufficient)
  AuthTasks,         \* authentication tasks that may run at once (bound)
  Workers,           \* tasks of storage commands and data connections (bound)
  Configs,           \* server configurations, see ConfigRecord
  Requests,          \* the commands a client of each configuration sends
  MaxBuffered        \* bound: commands read and not yet taken by the loop

VARIABLES
  config,    \* the options of the server, fixed
  session,   \* the part of the Session record that this module is about
  loop,      \* "open", "stuck" in a send to itself, or "closed"
  buf,       \* commands of the client that the codec has read
  chan,      \* the control_msg channel
  upgrade,   \* a task spawned by AUTH TLS is still to send its message
  task,      \* the tasks spawned by PASS
  worker,    \* tasks that hold a clone of the storage back-end, or will
  presence,  \* the last presence event, and the user it named
  proven,    \* history: users accepted by the authenticator
  overlap    \* history: two login attempts were outstanding at once

vars == <<config, session, loop, buf, chan, upgrade, task, worker, presence,
          proven, overlap>>
ghosts == <<proven, overlap>>

-----------------------------------------------------------------------------
Required == {"None", "Accounts", "All"}
ConfigRecord ==
  [tls : BOOLEAN,           \* ftps_config is On
   control : Required,      \* ftps_required_control_chan
   data : Required,         \* ftps_required_data_chan
   mode : {"ActiveOnly", "PassiveOnly", "ActiveAndPassive"}]

\* HELP, FEAT, NOOP and OPTS UTF8 go under NOOP; DELE stands for the commands
\* that need a login and leave a task with a clone of the storage behind.
Request ==
  [cmd : {"USER"}, user : Users] \union [cmd : {"PASS"}, right : BOOLEAN]
    \union [cmd : {"AUTH", "PROT"}, param : {"TLS", "SSL", "P", "C", "S"}]
    \union [cmd : {"PBSZ", "CCC", "NOOP", "PASV", "PORT", "DELE", "QUIT"}]

AuthMessages == {"AuthSuccess", "AuthFailed"}
Message ==
  [msg : AuthMessages, user : Users]
    \union [msg : {"SecureControlChannel", "CommandChannelReply", "ExitControlLoop"}]

ASSUME LoginAssumption ==
  /\ Anonymous \in Users
  /\ NoUser \notin Users
  /\ CertUsers \subseteq Users
  /\ Configs \subseteq ConfigRecord
  /\ Requests \in [Configs -> SUBSET Request]
  /\ MaxBuffered \in Nat

SessionRecord ==
  [state : {"New", "WaitPass", "WaitCmd"}, username : Users \union {NoUser},
   user : Users \union {NoUser}, root : Users \union {NoUser},
   cmd_tls : BOOLEAN, data_tls : BOOLEAN, cert_chain : BOOLEAN]

IdleTask == [pc |-> "idle", user |-> NoUser, right |-> FALSE]
TaskRecord ==
  {IdleTask} \union
  [pc : {"authenticate", "enter", "AuthSuccess", "AuthFailed"}, user : Users, right : BOOLEAN]

IdleWorker == [pc |-> "idle", user |-> NoUser, tls |-> FALSE]
WorkerRecord ==
  [pc : {"idle", "accept", "data", "job"}, user : Users \union {NoUser}, tls : BOOLEAN]

(***************************************************************************)
(* The values the variables take.                                          *)
(***************************************************************************)
TypeOK ==
  /\ config \in ConfigRecord
  /\ session \in SessionRecord
  /\ loop \in {"open", "stuck", "closed"}
  /\ buf \in Seq([req : Request, tls : BOOLEAN])
  /\ chan \in Seq(Message) /\ Len(chan) <= 1
  /\ upgrade \in BOOLEAN
  /\ task \in [AuthTasks -> TaskRecord]
  /\ worker \in [Workers -> WorkerRecord]
  /\ presence \in [event : {"none", "LoggedIn", "LoggedOut"}, user : Users \union {NoUser}]
  /\ proven \subseteq Users
  /\ overlap \in BOOLEAN

\* Session::new and the channel of capacity 1; root is the user that the storage
\* back-end was entered for.
Init ==
  /\ config \in Configs
  /\ session = [state |-> "New", username |-> NoUser, user |-> NoUser, root |-> NoUser,
                cmd_tls |-> FALSE, data_tls |-> FALSE, cert_chain |-> FALSE]
  /\ loop = "open"
  /\ buf = <<>> /\ chan = <<>> /\ upgrade = FALSE
  /\ task = [t \in AuthTasks |-> IdleTask]
  /\ worker = [w \in Workers |-> IdleWorker]
  /\ presence = [event |-> "none", user |-> NoUser]
  /\ proven = {}
  /\ overlap = FALSE

-----------------------------------------------------------------------------
(* The client and the socket.                                              *)

\* A command waits in the codec's buffer while the loop deals with messages.
\* That matters only while the upgrade to TLS is pending: at other times the
\* command might as well have arrived later (see Receive).
Buffer(req) ==
  /\ loop = "open"
  /\ upgrade \/ chan = <<[msg |-> "SecureControlChannel"]>>
  /\ Len(buf) < MaxBuffered
  /\ buf' = Append(buf, [req |-> req, tls |-> session.cmd_tls])
  /\ UNCHANGED <<config, upgrade, session, loop, chan, task, worker, presence, ghosts>>

-----------------------------------------------------------------------------
(* The middlewares, from the outermost inwards: "next", "refuse" (a 5xx    *)
(* reply) or "error" (the connection is closed).                           *)

FtpsDataChanEnforcer(req) ==
  CASE config.data = "All" /\ req.cmd = "PASV" ->
         IF session.data_tls THEN "next" ELSE "refuse"
    [] config.data = "Accounts" /\ req.cmd = "PASV" ->
         CASE session.username = NoUser -> "error"
           [] session.cmd_tls \/ session.username = Anonymous -> "next"
           [] OTHER -> "refuse"
    [] OTHER -> "next"

\* Mutant of FtpsControlChanEnforcer: the requirement for accounts is forgotten.
ForgetsAccounts(req) ==
  IF config.control = "All" /\ req.cmd \in {"USER", "PASS"} /\ ~session.cmd_tls
  THEN "refuse" ELSE "next"

FtpsControlChanEnforcer(req) ==
  CASE config.control = "All" /\ req.cmd = "CCC" -> "refuse"
    [] config.control = "All" /\ req.cmd \in {"USER", "PASS"} ->
         IF session.cmd_tls THEN "next" ELSE "refuse"
    [] config.control = "Accounts" /\ ~session.cmd_tls /\ req.cmd = "USER" ->
         IF req.user = Anonymous THEN "next" ELSE "refuse"
    [] config.control = "Accounts" /\ ~session.cmd_tls /\ req.cmd = "PASS" ->
         CASE session.username = NoUser -> "error"
           [] session.username = Anonymous -> "next"
           [] OTHER -> "refuse"
    [] OTHER -> "next"

Exempt == {"USER", "PASS", "AUTH", "PROT", "PBSZ", "NOOP", "QUIT"}
AuthMiddleware(req) ==
  IF req.cmd \in Exempt \/ session.state = "WaitCmd" THEN "next" ELSE "refuse"

ActivePassiveEnforcer(req) ==
  IF \/ config.mode = "PassiveOnly" /\ req.cmd = "PORT"
     \/ config.mode = "ActiveOnly" /\ req.cmd = "PASV"
  THEN "refuse" ELSE "next"

\* The first verdict other than "next" stands.
Verdict(req) ==
  CASE FtpsDataChanEnforcer(req) # "next" -> FtpsDataChanEnforcer(req)
    [] FtpsControlChanEnforcer(req) # "next" -> FtpsControlChanEnforcer(req)
    [] AuthMiddleware(req) # "next" -> AuthMiddleware(req)
    [] OTHER -> ActivePassiveEnforcer(req)

\* The middlewares let a command through to its handler.
Handle(req, cmd) == req.cmd = cmd /\ Verdict(req) = "next"

\* A middleware refuses the command, or it has no effect here.
Refused(req) ==
  /\ \/ Verdict(req) = "refuse"
     \/ Verdict(req) = "next" /\ req.cmd \in {"PBSZ", "CCC", "NOOP"}
  /\ UNCHANGED <<config, upgrade, session, loop, chan, task, worker, presence, ghosts>>

\* An error of the chain closes the connection, and nobody is notified.
ChainError(req) ==
  /\ Verdict(req) = "error"
  /\ loop' = "closed"
  /\ UNCHANGED <<config, upgrade, session, chan, task, worker, presence, ghosts>>

-----------------------------------------------------------------------------
(* USER and PASS.                                                          *)

\* Arc::get_mut: nobody else holds a clone of the storage back-end.
StorageIsOurs == \A w \in Workers : worker[w].pc \notin {"data", "job"}

\* enter() and the user details, under one lock.
Enter(u) == session' = [session EXCEPT !.user = u, !.root = u]

\* A certificate is enough: the authenticator decides within the handler.  It
\* may refuse, as may enter(); while a task uses the storage nobody gets in.
UserByCert(req) ==
  /\ Handle(req, "USER")
  /\ session.state = "New" /\ session.cert_chain /\ req.user \in CertUsers
  /\ \/ /\ proven' = proven \union {req.user}
        /\ \/ /\ StorageIsOurs
              /\ session' = [session EXCEPT !.username = req.user, !.state = "WaitCmd",
                                            !.user = req.user, !.root = req.user]
           \/ UNCHANGED session
     \/ UNCHANGED <<session, proven>>
  /\ UNCHANGED <<config, upgrade, loop, chan, task, worker, presence, overlap>>

\* Mutant of UserNeedsPassword: the user name is not kept.
ForgetsUsername(req) ==
  /\ Handle(req, "USER")
  /\ session.state = "New" /\ ~(session.cert_chain /\ req.user \in CertUsers)
  /\ session' = [session EXCEPT !.state = "WaitPass"]
  /\ UNCHANGED <<config, upgrade, loop, chan, task, worker, presence, ghosts>>

UserNeedsPassword(req) ==
  /\ Handle(req, "USER")
  /\ session.state = "New" /\ ~(session.cert_chain /\ req.user \in CertUsers)
  /\ session' = [session EXCEPT !.username = req.user, !.state = "WaitPass"]
  /\ UNCHANGED <<config, upgrade, loop, chan, task, worker, presence, ghosts>>

\* "Please create a new connection to switch user"
UserOutOfOrder(req) ==
  /\ Handle(req, "USER")
  /\ session.state # "New"
  /\ UNCHANGED <<config, upgrade, session, loop, chan, task, worker, presence, ghosts>>

Outstanding ==
  \/ \E t \in AuthTasks : task[t].pc # "idle"
  \/ \E i \in 1..Len(chan) : chan[i].msg \in AuthMessages

\* PASS leaves the verdict to a task, with the user name of this moment.
PassSpawns(req) ==
  /\ Handle(req, "PASS")
  /\ session.state = "WaitPass"
  /\ \E t \in AuthTasks :
       /\ task[t].pc = "idle"
       /\ task' = [task EXCEPT ![t] = [pc |-> "authenticate", user |-> session.username,
                                       right |-> req.right]]
  /\ overlap' = (overlap \/ Outstanding)
  /\ UNCHANGED <<config, upgrade, session, loop, chan, worker, presence, proven>>

PassOutOfOrder(req) ==
  /\ Handle(req, "PASS")
  /\ session.state # "WaitPass"
  /\ UNCHANGED <<config, upgrade, session, loop, chan, task, worker, presence, ghosts>>

\* Mutant of Authenticate: only a locked account is refused.
AcceptsAnyone(t) ==
  /\ task[t].pc = "authenticate"
  /\ \E pc \in {"enter", "AuthFailed"} :
       task' = [task EXCEPT ![t] = [pc |-> pc, user |-> task[t].user, right |-> FALSE]]
  /\ proven' = IF task[t].right THEN proven \union {task[t].user} ELSE proven
  /\ UNCHANGED <<config, upgrade, session, loop, buf, chan, worker, presence, overlap>>

\* A right password may still fail: the account is disabled or locked out.
Authenticate(t) ==
  /\ task[t].pc = "authenticate"
  /\ \/ /\ task[t].right
        /\ proven' = proven \union {task[t].user}
        /\ \E pc \in {"enter", "AuthFailed"} :
             task' = [task EXCEPT ![t] = [pc |-> pc, user |-> task[t].user, right |-> FALSE]]
     \/ /\ ~task[t].right
        /\ task' = [task EXCEPT ![t].pc = "AuthFailed"]
        /\ UNCHANGED proven
  /\ UNCHANGED <<config, upgrade, session, loop, buf, chan, worker, presence, overlap>>

\* Mutant of EnterSession: the back-end is entered while others use it.
EnterShared(t) ==
  /\ task[t].pc = "enter"
  /\ Enter(task[t].user)
  /\ task' = [task EXCEPT ![t].pc = "AuthSuccess"]
  /\ UNCHANGED <<config, upgrade, loop, buf, chan, worker, presence, ghosts>>

\* The task takes the session lock to enter the storage back-end.
EnterSession(t) ==
  /\ task[t].pc = "enter"
  /\ \/ /\ StorageIsOurs
        /\ Enter(task[t].user)
        /\ task' = [task EXCEPT ![t].pc = "AuthSuccess"]
     \/ /\ task' = [task EXCEPT ![t].pc = "AuthFailed"]     \* get_mut or enter() fails
        /\ UNCHANGED session
  /\ UNCHANGED <<config, upgrade, loop, buf, chan, worker, presence, ghosts>>

\* A task sends to the channel, which has room for one message.
Send(m) == chan = <<>> /\ chan' = <<m>>

Report(t) ==
  /\ task[t].pc \in AuthMessages
  /\ Send([msg |-> task[t].pc, user |-> task[t].user])
  /\ task' = [task EXCEPT ![t] = IdleTask]
  /\ UNCHANGED <<config, upgrade, session, loop, buf, worker, presence, ghosts>>

-----------------------------------------------------------------------------
(* Messages, as notify.rs and handle_internal_msg treat them.              *)

Take(msg) ==
  /\ loop = "open"
  /\ chan # <<>>
  /\ Head(chan).msg = msg
  /\ chan' = Tail(chan)

\* Mutant of AuthSuccess: the event names whoever gave a user name last.
AnnouncesUsername ==
  /\ Take("AuthSuccess")
  /\ presence' = [event |-> "LoggedIn", user |-> session.username]
  /\ session' = [session EXCEPT !.state = "WaitCmd"]
  /\ UNCHANGED <<config, upgrade, loop, buf, task, worker, ghosts>>

AuthSuccess ==
  /\ Take("AuthSuccess")
  /\ presence' = [event |-> "LoggedIn", user |-> Head(chan).user]
  /\ session' = [session EXCEPT !.state = "WaitCmd"]
  /\ UNCHANGED <<config, upgrade, loop, buf, task, worker, ghosts>>

AuthFailed ==
  /\ Take("AuthFailed")
  /\ session' = [session EXCEPT !.state = "New"]
  /\ UNCHANGED <<config, upgrade, loop, buf, task, worker, presence, ghosts>>

CommandChannelReply ==
  /\ Take("CommandChannelReply")
  /\ UNCHANGED <<config, upgrade, session, loop, buf, task, worker, presence, ghosts>>

\* QUIT, a closed connection and the shutdown signal all end in ExitControlLoop.
Exit ==
  /\ loop' = "closed"
  /\ presence' = [presence EXCEPT !.event = "LoggedOut"]
  /\ UNCHANGED <<config, upgrade, session, buf, task, worker, ghosts>>

ExitControlLoop == Take("ExitControlLoop") /\ Exit
ConnectionClosed == loop = "open" /\ Exit /\ UNCHANGED chan

\* The idle timeout and a reply that cannot be written close it without an event.
Dropped ==
  /\ loop = "open"
  /\ loop' = "closed"
  /\ UNCHANGED <<config, upgrade, session, buf, chan, task, worker, presence, ghosts>>

\* Mutant of SecureControlChannel: the read buffer survives the handshake.
KeepsBuffer ==
  /\ Take("SecureControlChannel")
  /\ \E cert \in {session.cert_chain, TRUE} :
       session' = [session EXCEPT !.cmd_tls = TRUE, !.cert_chain = cert]
  /\ UNCHANGED <<config, upgrade, loop, buf, task, worker, presence, ghosts>>

(***************************************************************************)
(* The upgrade.  The old codec goes with what it has read; plaintext still *)
(* in the socket spoils the handshake, which closes the connection.  The   *)
(* middlewares see the message last, and cmd_tls is set.                   *)
(***************************************************************************)
SecureControlChannel ==
  /\ Take("SecureControlChannel")
  /\ \/ /\ \E cert \in {session.cert_chain, TRUE} :
             session' = [session EXCEPT !.cmd_tls = TRUE, !.cert_chain = cert]
        /\ buf' = <<>>
        /\ UNCHANGED loop
     \/ /\ loop' = "closed"
        /\ UNCHANGED <<session, buf>>
  /\ UNCHANGED <<config, upgrade, task, worker, presence, ghosts>>

-----------------------------------------------------------------------------
(* The other commands that this module is about.                           *)

\* AUTH TLS replies at once and leaves the message to a task (bound: one such task).
AuthTls(req) ==
  /\ Handle(req, "AUTH")
  /\ ~upgrade
  /\ upgrade' = (config.tls /\ req.param = "TLS")
  /\ UNCHANGED <<config, session, loop, chan, task, worker, presence, ghosts>>

SendUpgrade ==
  /\ upgrade
  /\ Send([msg |-> "SecureControlChannel"])
  /\ upgrade' = FALSE
  /\ UNCHANGED <<config, session, loop, buf, task, worker, presence, ghosts>>

Prot(req) ==
  /\ Handle(req, "PROT")
  /\ session' = IF config.tls /\ req.param \in {"P", "C"}
                THEN [session EXCEPT !.data_tls = (req.param = "P")]
                ELSE session
  /\ UNCHANGED <<config, upgrade, loop, chan, task, worker, presence, ghosts>>

\* QUIT sends to the loop's own channel; a full one is never emptied again.
Quit(req) ==
  /\ Handle(req, "QUIT")
  /\ IF chan = <<>>
     THEN chan' = <<[msg |-> "ExitControlLoop"]>> /\ UNCHANGED loop
     ELSE loop' = "stuck" /\ UNCHANGED chan
  /\ UNCHANGED <<config, upgrade, session, task, worker, presence, ghosts>>

\* A task clones the user and the storage of the session.
Working(pc) == [pc |-> pc, user |-> session.user, tls |-> session.data_tls]
Assign(w, pc) == worker[w].pc = "idle" /\ worker' = [worker EXCEPT ![w] = Working(pc)]

Dele(req) ==
  /\ Handle(req, "DELE")
  /\ \E w \in Workers : Assign(w, "job")
  /\ UNCHANGED <<config, upgrade, session, loop, chan, task, presence, ghosts>>

Port(req) ==
  /\ Handle(req, "PORT")
  /\ \E w \in Workers : Assign(w, "data")
  /\ UNCHANGED <<config, upgrade, session, loop, chan, task, presence, ghosts>>

Pasv(req) ==
  /\ Handle(req, "PASV")
  /\ \E w \in Workers :
       /\ worker[w].pc = "idle"
       /\ worker' = [worker EXCEPT ![w].pc = "accept"]
  /\ UNCHANGED <<config, upgrade, session, loop, chan, task, presence, ghosts>>

\* spawn_processing reads the session when the client connects.
Accept(w) ==
  /\ worker[w].pc = "accept"
  /\ worker' = [worker EXCEPT ![w] = Working("data")]
  /\ UNCHANGED <<config, upgrade, session, loop, buf, chan, task, presence, ghosts>>

\* The client does not connect in time, or the data connection is done.
DataDone(w) ==
  /\ worker[w].pc \in {"accept", "data"}
  /\ worker' = [worker EXCEPT ![w] = IdleWorker]
  /\ UNCHANGED <<config, upgrade, session, loop, buf, chan, task, presence, ghosts>>

JobDone(w) ==
  /\ worker[w].pc = "job"
  /\ Send([msg |-> "CommandChannelReply"])
  /\ worker' = [worker EXCEPT ![w] = IdleWorker]
  /\ UNCHANGED <<config, upgrade, session, loop, buf, task, presence, ghosts>>

-----------------------------------------------------------------------------
Command(req) ==
  \/ Refused(req) \/ ChainError(req)
  \/ UserByCert(req) \/ UserNeedsPassword(req) \/ UserOutOfOrder(req)
  \/ PassSpawns(req) \/ PassOutOfOrder(req)
  \/ AuthTls(req) \/ Prot(req) \/ Quit(req) \/ Dele(req) \/ Port(req) \/ Pasv(req)

\* The loop takes the next command, from the buffer or fresh from the socket.
TakeBuffered ==
  /\ loop = "open"
  /\ buf # <<>>
  /\ Command(Head(buf).req)
  /\ buf' = Tail(buf)
Receive(req) ==
  /\ loop = "open"
  /\ buf = <<>>
  /\ Command(req)
  /\ UNCHANGED buf

TakeMessage ==
  \/ AuthSuccess \/ AuthFailed \/ CommandChannelReply \/ ExitControlLoop
  \/ SecureControlChannel

TaskStep(t) == Authenticate(t) \/ EnterSession(t) \/ Report(t)
WorkerStep(w) == Accept(w) \/ DataDone(w) \/ JobDone(w)

\* Late tasks of a closed connection change nothing that anybody sees.
Over == loop # "open" /\ UNCHANGED vars

Next ==
  \/ \E req \in Requests[config] : Receive(req) \/ Buffer(req)
  \/ TakeBuffered \/ TakeMessage \/ ConnectionClosed \/ Dropped
  \/ /\ loop # "closed"
     /\ \/ SendUpgrade
        \/ \E t \in AuthTasks : TaskStep(t)
        \/ \E w \in Workers : WorkerStep(w)
  \/ Over

Spec == Init /\ [][Next]_vars

-----------------------------------------------------------------------------
(***************************************************************************)
(* Who commands run for, as the abstract specification sees it.            *)
(***************************************************************************)
Active == IF loop = "open" /\ session.state = "WaitCmd" THEN {session.user} ELSE {}

Promise == INSTANCE Access WITH active <- Active

(***************************************************************************)
(* The login keeps its promise (Access): whatever the order in which late  *)
(* results of earlier attempts arrive, commands run only for users proven  *)
(* on this connection, and only overlapping attempts change the user of a  *)
(* session that is logged in.                                              *)
(***************************************************************************)
KeepsPromise == Promise!Spec

(***************************************************************************)
(* Where FTPS is required on the control channel nobody is logged in over  *)
(* a plain connection, except the anonymous user if accounts only need it. *)
(* The check is made when USER and PASS arrive, the session changes when   *)
(* the authentication task is done.                                        *)
(***************************************************************************)
LoginEncrypted ==
  Active # {} /\ ~session.cmd_tls =>
    \/ config.control = "None"
    \/ config.control = "Accounts" /\ Active = {Anonymous}

(***************************************************************************)
(* No command that was sent in the clear is handled once the connection is *)
(* encrypted, however commands were buffered around AUTH TLS.              *)
(***************************************************************************)
NothingInjected ==
  session.cmd_tls => \A i \in 1..Len(buf) : buf[i].tls

(***************************************************************************)
(* A task works on the storage back-end as it was entered for its own      *)
(* user, also when logins fail, succeed or change while it runs.           *)
(***************************************************************************)
WorkersConfined ==
  \A w \in Workers : worker[w].pc \in {"data", "job"} => worker[w].user = session.root

(***************************************************************************)
(* A LoggedIn event names a user who has proven who he is on this          *)
(* connection.                                                             *)
(***************************************************************************)
PresenceTruthful == presence.event = "LoggedIn" => presence.user \in proven
=============================================================================
