---------------------------- MODULE LoginProofs ----------------------------
(***************************************************************************)
(* Login implements Access for any users, configurations, clients and      *)
(* number of authentication tasks and workers.                             *)
(*                                                                         *)
(* A task's user is proven before the task enters the storage, and the     *)
(* session's user is always some task's (UserProven, TasksProven).  A late *)
(* AuthSuccess finds a user in the session (UserEntered).  As long as no   *)
(* two attempts overlap, one that is under way keeps the session in        *)
(* WaitPass, so that it cannot change who is logged in (OneAttempt).       *)
(***************************************************************************)
EXTENDS Login, SequenceTheorems, TLAPS

\* The type of what a step of the loop, other than its buffer, may change.
RestOK ==
  /\ config \in Configs
  /\ session \in SessionRecord
  /\ loop \in {"open", "stuck", "closed"}
  /\ chan \in Seq(Message) /\ Len(chan) <= 1
  /\ upgrade \in BOOLEAN
  /\ task \in [AuthTasks -> TaskRecord]
  /\ worker \in [Workers -> WorkerRecord]
  /\ presence \in [event : {"none", "LoggedIn", "LoggedOut"}, user : Users \union {NoUser}]
  /\ proven \subseteq Users
  /\ overlap \in BOOLEAN

BufOK == buf \in Seq([req : Request, tls : BOOLEAN])

Reported(kinds) == chan # <<>> /\ Head(chan).msg \in kinds

UsernameKnown == session.state = "WaitPass" => session.username # NoUser
UserProven == session.user = NoUser \/ session.user \in proven
TasksProven == \A t \in AuthTasks : task[t].pc \in {"enter", "AuthSuccess"} => task[t].user \in proven
MessageProven == Reported({"AuthSuccess"}) => Head(chan).user \in proven
UserEntered ==
  /\ session.state = "WaitCmd" => session.user # NoUser
  /\ \A t \in AuthTasks : task[t].pc = "AuthSuccess" => session.user # NoUser
  /\ Reported({"AuthSuccess"}) => session.user # NoUser
OneAttempt ==
  ~overlap =>
    /\ \A t \in AuthTasks : task[t].pc # "idle" =>
         /\ session.state = "WaitPass"
         /\ ~Reported(AuthMessages)
         /\ \A u \in AuthTasks : task[u].pc # "idle" => u = t
    /\ Reported(AuthMessages) => session.state = "WaitPass"

Facts ==
  /\ UsernameKnown /\ UserProven /\ TasksProven /\ MessageProven
  /\ UserEntered /\ OneAttempt
  /\ presence.event = "LoggedIn" => presence.user \in proven

Inv == RestOK /\ BufOK /\ Facts

\* What Access allows in one step.
Allowed == [Promise!Next]_(Promise!accessVars)

\* What every step that does not change the buffer has to show.
Good == RestOK' /\ Facts' /\ Allowed

\* The invariant holds of a new session.
LEMMA InitInv == Init => Inv /\ Promise!Init
  <1> SUFFICES ASSUME Init PROVE Inv /\ Promise!Init
    OBVIOUS
  <1> USE LoginAssumption DEF Init
  <1>1. RestOK
    <2>1. session \in SessionRecord
      BY DEF SessionRecord
    <2>2. task \in [AuthTasks -> TaskRecord] /\ worker \in [Workers -> WorkerRecord]
      BY DEF TaskRecord, IdleTask, WorkerRecord, IdleWorker
    <2>3. chan \in Seq(Message) /\ Len(chan) <= 1
      OBVIOUS
    <2> QED  BY <2>1, <2>2, <2>3 DEF RestOK
  <1>2. BufOK
    BY DEF BufOK
  <1>3. Facts
    BY DEF Facts, UsernameKnown, UserProven, TasksProven, MessageProven, UserEntered,
           OneAttempt, Reported, IdleTask
  <1>4. Promise!Init
    BY DEF Promise!Init, Active
  <1> QED  BY <1>1, <1>2, <1>3, <1>4 DEF Inv

-----------------------------------------------------------------------------
(* Steps that leave the login alone.                                       *)

\* A step that changes no session, task, message or event grants nothing.
LEMMA NothingGranted ==
  ASSUME Inv, UNCHANGED <<session, task, chan, presence, proven, overlap>>,
         loop' = loop \/ loop' \in {"stuck", "closed"}
  PROVE  Facts' /\ Allowed
  <1>1. Facts'
    BY DEF Inv, Facts, UsernameKnown, UserProven, TasksProven, MessageProven, UserEntered,
           OneAttempt, Reported
  <1>2. Active' = Active \/ Active' = {}
    BY DEF Active
  <1>3. Allowed
    BY <1>2 DEF Allowed, Promise!Next, Promise!Revoke, Promise!accessVars
  <1> QED  BY <1>1, <1>3

\* The type of the messages that tasks send.
LEMMA MessageTypes ==
  /\ \A u \in Users, k \in AuthMessages : [msg |-> k, user |-> u] \in Message
  /\ [msg |-> "SecureControlChannel"] \in Message
  /\ [msg |-> "CommandChannelReply"] \in Message
  /\ [msg |-> "ExitControlLoop"] \in Message
  /\ \A m \in Message : m.msg \in AuthMessages => m.user \in Users
  BY DEF Message, AuthMessages

\* A message that is no report of a login changes what is in the channel only.
LEMMA OtherMessage ==
  ASSUME Inv, NEW m \in Message, Send(m), m.msg \notin AuthMessages,
         UNCHANGED <<session, task, presence, proven, overlap, loop>>
  PROVE  Facts' /\ Allowed /\ chan' \in Seq(Message) /\ Len(chan') <= 1
  <1>1. chan' = <<m>> /\ Head(chan') = m
    BY DEF Send
  <1>2. chan' \in Seq(Message) /\ Len(chan') <= 1
    BY <1>1
  <1>3. \A k : Reported(k)' <=> m.msg \in k
    BY <1>1 DEF Reported
  <1>4. ~Reported({"AuthSuccess"})' /\ ~Reported(AuthMessages)'
    BY <1>3 DEF AuthMessages
  <1>5. Facts'
    BY <1>4 DEF Inv, Facts, UsernameKnown, UserProven, TasksProven, MessageProven, UserEntered,
           OneAttempt
  <1>6. Allowed
    BY DEF Allowed, Active, Promise!accessVars
  <1> QED  BY <1>2, <1>5, <1>6

\* A message leaves the channel, which is then empty.
LEMMA TakeEmpties ==
  ASSUME Inv, NEW k, Take(k)
  PROVE  /\ chan' = <<>> /\ chan' \in Seq(Message) /\ Len(chan') <= 1
         /\ \A s : ~Reported(s)'
         /\ Head(chan) \in Message /\ Reported({k})
  <1>1. chan \in Seq(Message) /\ Len(chan) <= 1 /\ chan # <<>>
    BY DEF Inv, RestOK, Take
  <1>2. chan' = Tail(chan) /\ Head(chan) \in Message /\ Head(chan).msg = k
    BY <1>1 DEF Take
  <1>3. Len(chan) = 1
    <2>1. Len(chan) \in Nat /\ Len(chan) # 0
      BY <1>1, EmptySeq
    <2>2. \A n \in Nat : n # 0 /\ n <= 1 => n = 1
      OBVIOUS
    <2> QED  BY <1>1, <2>1, <2>2
  <1>4. chan' = <<>>
    BY <1>1, <1>2, <1>3
  <1>5. chan' \in Seq(Message) /\ Len(chan') <= 1
    BY <1>4
  <1> QED  BY <1>1, <1>2, <1>4, <1>5 DEF Reported

-----------------------------------------------------------------------------
(* USER and PASS.                                                          *)

LEMMA UserSteps ==
  ASSUME Inv, NEW req \in Request, loop = "open",
         UserByCert(req) \/ UserNeedsPassword(req) \/ UserOutOfOrder(req)
  PROVE  Good
  <1> USE LoginAssumption
  <1>u. ASSUME req.cmd = "USER" PROVE req.user \in Users
    BY <1>u DEF Request
  <1>1. CASE UserByCert(req)
    <2>1. req.user \in Users /\ session.state = "New"
      BY <1>1, <1>u DEF UserByCert, Handle
    <2>2. CASE session' = session
      <3>1. proven' = proven \union {req.user} \/ proven' = proven
        BY <1>1, <2>2 DEF UserByCert
      <3>2. UNCHANGED <<config, upgrade, loop, chan, task, worker, presence, overlap>>
        BY <1>1 DEF UserByCert
      <3>3. RestOK'
        BY <2>1, <2>2, <3>1, <3>2 DEF Inv, RestOK
      <3>4. Facts'
        BY <2>2, <3>1, <3>2 DEF Inv, Facts, UsernameKnown, UserProven, TasksProven,
              MessageProven, UserEntered, OneAttempt, Reported
      <3>5. Active' = Active
        BY <2>2, <3>2 DEF Active
      <3>6. Allowed
        BY <2>1, <3>1, <3>2, <3>5 DEF Allowed, Promise!Next, Promise!Prove, Promise!accessVars
      <3> QED  BY <3>3, <3>4, <3>6 DEF Good
    <2>3. CASE session' = [session EXCEPT !.username = req.user, !.state = "WaitCmd",
                                          !.user = req.user, !.root = req.user]
      <3>1. session \in SessionRecord
        BY DEF Inv, RestOK
      <3>2. /\ session' \in SessionRecord /\ session'.state = "WaitCmd"
            /\ session'.user = req.user
        BY <2>1, <2>3, <3>1 DEF SessionRecord
      <3>3. proven' = proven \union {req.user}
        BY <1>1, <2>1, <3>2 DEF UserByCert
      <3>4. UNCHANGED <<config, upgrade, loop, chan, task, worker, presence, overlap>>
        BY <1>1 DEF UserByCert
      <3>5. RestOK'
        BY <2>1, <3>2, <3>3, <3>4 DEF Inv, RestOK
      <3>6. OneAttempt'
        BY <2>1, <3>4 DEF Inv, Facts, OneAttempt, Reported
      <3>7. Facts'
        BY <2>1, <3>2, <3>3, <3>4, <3>6 DEF Inv, Facts, UsernameKnown, UserProven, TasksProven,
              MessageProven, UserEntered, Reported
      <3>8. Active = {} /\ Active' = {req.user}
        BY <2>1, <3>2, <3>4 DEF Active
      <3>9. Allowed
        BY <2>1, <3>3, <3>4, <3>8 DEF Allowed, Promise!Next, Promise!Prove
      <3> QED  BY <3>5, <3>7, <3>9 DEF Good
    <2> QED  BY <1>1, <2>2, <2>3 DEF UserByCert
  <1>2. CASE UserNeedsPassword(req)
    <2>1. req.user \in Users /\ session.state = "New"
      BY <1>2, <1>u DEF UserNeedsPassword, Handle
    <2>2. session \in SessionRecord
      BY DEF Inv, RestOK
    <2>3. /\ session' \in SessionRecord /\ session'.state = "WaitPass"
          /\ session'.username = req.user /\ session'.user = session.user
      BY <1>2, <2>1, <2>2 DEF UserNeedsPassword, SessionRecord
    <2>4. UNCHANGED <<config, upgrade, loop, chan, task, worker, presence, proven, overlap>>
      BY <1>2 DEF UserNeedsPassword, ghosts
    <2>5. RestOK'
      BY <2>3, <2>4 DEF Inv, RestOK
    <2>6. OneAttempt'
      BY <2>1, <2>4 DEF Inv, Facts, OneAttempt, Reported
    <2>7. Facts'
      BY <2>1, <2>3, <2>4, <2>6 DEF Inv, Facts, UsernameKnown, UserProven, TasksProven,
            MessageProven, UserEntered, Reported
    <2>8. Active' = Active
      BY <2>1, <2>3 DEF Active
    <2>9. Allowed
      BY <2>4, <2>8 DEF Allowed, Promise!accessVars
    <2> QED  BY <2>5, <2>7, <2>9 DEF Good
  <1>3. CASE UserOutOfOrder(req)
    <2>1. UNCHANGED <<config, upgrade, session, loop, chan, task, worker, presence, proven, overlap>>
      BY <1>3 DEF UserOutOfOrder, ghosts
    <2>2. RestOK'
      BY <2>1 DEF Inv, RestOK
    <2> QED  BY <2>1, <2>2, NothingGranted DEF Good
  <1> QED  BY <1>1, <1>2, <1>3

LEMMA PassSteps ==
  ASSUME Inv, NEW req \in Request, loop = "open", PassSpawns(req) \/ PassOutOfOrder(req)
  PROVE  Good
  <1> USE LoginAssumption
  <1>1. CASE PassSpawns(req)
    <2>1. req.right \in BOOLEAN /\ session.state = "WaitPass"
      BY <1>1 DEF PassSpawns, Handle, Request
    <2>2. session.username \in Users
      BY <2>1 DEF Inv, RestOK, SessionRecord, Facts, UsernameKnown
    <2>3. PICK t \in AuthTasks :
            /\ task[t].pc = "idle"
            /\ task' = [task EXCEPT ![t] = [pc |-> "authenticate", user |-> session.username,
                                            right |-> req.right]]
      BY <1>1 DEF PassSpawns
    <2>4. overlap' = (overlap \/ Outstanding)
      BY <1>1 DEF PassSpawns
    <2>5. UNCHANGED <<config, upgrade, session, loop, chan, worker, presence, proven>>
      BY <1>1 DEF PassSpawns
    <2> DEFINE r == [pc |-> "authenticate", user |-> session.username, right |-> req.right]
    <2>6. r \in TaskRecord /\ r.pc = "authenticate"
      BY <2>1, <2>2 DEF TaskRecord
    <2> HIDE DEF r
    <2>7. task' = [task EXCEPT ![t] = r]
      BY <2>3 DEF r
    <2>8. /\ task' \in [AuthTasks -> TaskRecord] /\ task'[t] = r
          /\ \A u \in AuthTasks \ {t} : task'[u] = task[u]
      BY <2>6, <2>7 DEF Inv, RestOK
    <2>9. overlap' \in BOOLEAN
      BY <2>4 DEF Inv, RestOK, Outstanding
    <2>10. RestOK'
      BY <2>5, <2>8, <2>9 DEF Inv, RestOK
    <2>11. ~overlap' => /\ ~overlap /\ ~Reported(AuthMessages)
                        /\ \A u \in AuthTasks : task[u].pc = "idle"
      <3>1. ~Outstanding => \A u \in AuthTasks : task[u].pc = "idle"
        BY DEF Outstanding
      <3>2. ~Outstanding => ~Reported(AuthMessages)
        BY DEF Outstanding, Reported, Inv, RestOK
      <3> QED  BY <2>4, <3>1, <3>2 DEF Inv, RestOK
    <2>12. OneAttempt'
      BY <2>1, <2>5, <2>8, <2>11 DEF OneAttempt, Reported
    <2>13. Facts'
      BY <2>1, <2>5, <2>6, <2>8, <2>12 DEF Inv, Facts, UsernameKnown, UserProven, TasksProven,
            MessageProven, UserEntered, Reported
    <2>14. Active' = Active
      BY <2>5 DEF Active
    <2>15. Allowed
      <3>1. overlap' = TRUE \/ overlap' = overlap
        BY <2>4, <2>9 DEF Inv, RestOK
      <3> QED  BY <2>5, <2>14, <3>1 DEF Allowed, Promise!Next, Promise!Overlap, Promise!accessVars
    <2> QED  BY <2>10, <2>13, <2>15 DEF Good
  <1>2. CASE PassOutOfOrder(req)
    <2>1. UNCHANGED <<config, upgrade, session, loop, chan, task, worker, presence, proven, overlap>>
      BY <1>2 DEF PassOutOfOrder, ghosts
    <2>2. RestOK'
      BY <2>1 DEF Inv, RestOK
    <2> QED  BY <2>1, <2>2, NothingGranted DEF Good
  <1> QED  BY <1>1, <1>2

-----------------------------------------------------------------------------
(* The authentication tasks.                                               *)

\* A task moves on.
LEMMA MoveTask ==
  ASSUME Inv, NEW t \in AuthTasks, task[t].pc # "idle",
         NEW pc \in {"authenticate", "enter", "AuthSuccess", "AuthFailed"}, NEW right \in BOOLEAN,
         task' = [task EXCEPT ![t] = [pc |-> pc, user |-> task[t].user, right |-> right]]
  PROVE  /\ task' \in [AuthTasks -> TaskRecord]
         /\ task'[t].pc = pc /\ task'[t].user = task[t].user /\ task[t].user \in Users
         /\ \A u \in AuthTasks \ {t} : task'[u] = task[u]
         /\ \A u \in AuthTasks : task'[u].pc # "idle" <=> task[u].pc # "idle"
  <1>1. task[t] \in TaskRecord /\ task[t] # IdleTask
    BY DEF Inv, RestOK, IdleTask
  <1>2. task[t].user \in Users
    BY <1>1 DEF TaskRecord
  <1> DEFINE r == [pc |-> pc, user |-> task[t].user, right |-> right]
  <1>3. r \in TaskRecord /\ r.pc = pc /\ r.user = task[t].user
    BY <1>2 DEF TaskRecord
  <1> HIDE DEF r
  <1>4. task' = [task EXCEPT ![t] = r]
    BY DEF r
  <1>5. /\ task' \in [AuthTasks -> TaskRecord] /\ task'[t] = r
        /\ \A u \in AuthTasks \ {t} : task'[u] = task[u]
    BY <1>3, <1>4 DEF Inv, RestOK
  <1> QED  BY <1>2, <1>3, <1>5

\* The fields that a task's step does not name stay as they are.
LEMMA TaskExcept ==
  ASSUME Inv, NEW t \in AuthTasks, task[t].pc # "idle", NEW pc
  PROVE  /\ [task EXCEPT ![t].pc = pc]
              = [task EXCEPT ![t] = [pc |-> pc, user |-> task[t].user, right |-> task[t].right]]
         /\ task[t].right \in BOOLEAN
  <1>1. task[t] \in TaskRecord /\ task[t] # IdleTask
    BY DEF Inv, RestOK, IdleTask
  <1>2. task[t] \in [pc : {"authenticate", "enter", "AuthSuccess", "AuthFailed"},
                     user : Users, right : BOOLEAN]
    BY <1>1 DEF TaskRecord
  <1>3. [task[t] EXCEPT !.pc = pc] = [pc |-> pc, user |-> task[t].user, right |-> task[t].right]
    BY <1>2
  <1> QED  BY <1>2, <1>3 DEF Inv, RestOK

LEMMA AuthenticateStep ==
  ASSUME Inv, NEW t \in AuthTasks, Authenticate(t)
  PROVE  Good
  <1>1. task[t].pc = "authenticate"
    BY DEF Authenticate
  <1>2. UNCHANGED <<config, upgrade, session, loop, chan, worker, presence, overlap>>
    BY DEF Authenticate
  <1>3. ASSUME NEW pc \in {"enter", "AuthFailed"}, NEW right \in BOOLEAN,
               proven' = proven \/ proven' = proven \union {task[t].user},
               pc = "enter" => task[t].user \in proven',
               task' = [task EXCEPT ![t] = [pc |-> pc, user |-> task[t].user, right |-> right]]
        PROVE  Good
    <2>1. /\ task' \in [AuthTasks -> TaskRecord]
          /\ task'[t].pc = pc /\ task'[t].user = task[t].user /\ task[t].user \in Users
          /\ \A u \in AuthTasks \ {t} : task'[u] = task[u]
          /\ \A u \in AuthTasks : task'[u].pc # "idle" <=> task[u].pc # "idle"
      BY <1>1, <1>3, MoveTask
    <2>2. RestOK'
      BY <1>2, <1>3, <2>1 DEF Inv, RestOK
    <2>3. OneAttempt'
      BY <1>2, <2>1 DEF Inv, Facts, OneAttempt, Reported
    <2>4. TasksProven'
      BY <1>3, <2>1 DEF Inv, Facts, TasksProven
    <2>5. Facts'
      BY <1>2, <1>3, <2>1, <2>3, <2>4 DEF Inv, Facts, UsernameKnown, UserProven, MessageProven,
            UserEntered, Reported
    <2>6. Active' = Active
      BY <1>2 DEF Active
    <2>7. Allowed
      BY <1>2, <1>3, <2>1, <2>6 DEF Allowed, Promise!Next, Promise!Prove, Promise!accessVars
    <2> QED  BY <2>2, <2>5, <2>7 DEF Good
  <1>4. CASE task[t].right /\ proven' = proven \union {task[t].user}
    <2>1. PICK pc \in {"enter", "AuthFailed"} : 
            task' = [task EXCEPT ![t] = [pc |-> pc, user |-> task[t].user, right |-> FALSE]]
      BY <1>4 DEF Authenticate
    <2>2. task[t].user \in proven'
      BY <1>4
    <2> QED  BY <1>3, <1>4, <2>1, <2>2
  <1>5. CASE ~task[t].right
    <2>1. task' = [task EXCEPT ![t].pc = "AuthFailed"] /\ proven' = proven
      BY <1>5 DEF Authenticate
    <2>2. /\ task' = [task EXCEPT ![t] = [pc |-> "AuthFailed", user |-> task[t].user,
                                           right |-> task[t].right]]
          /\ task[t].right \in BOOLEAN
      BY <1>1, <2>1, TaskExcept
    <2> QED  BY <1>3, <2>1, <2>2
  <1> QED  BY <1>4, <1>5 DEF Authenticate

LEMMA EnterStep ==
  ASSUME Inv, NEW t \in AuthTasks, EnterSession(t)
  PROVE  Good
  <1>1. task[t].pc = "enter" /\ task[t].user \in proven
    BY DEF EnterSession, Inv, Facts, TasksProven
  <1>2. UNCHANGED <<config, upgrade, loop, chan, worker, presence, proven, overlap>>
    BY DEF EnterSession, ghosts
  <1>3. task[t].right \in BOOLEAN
    BY <1>1, TaskExcept
  <1>4. CASE Enter(task[t].user) /\ task' = [task EXCEPT ![t].pc = "AuthSuccess"]
    <2>1. task' = [task EXCEPT ![t] = [pc |-> "AuthSuccess", user |-> task[t].user,
                                       right |-> task[t].right]]
      BY <1>1, <1>4, TaskExcept
    <2>2. /\ task' \in [AuthTasks -> TaskRecord]
          /\ task'[t].pc = "AuthSuccess" /\ task'[t].user = task[t].user /\ task[t].user \in Users
          /\ \A u \in AuthTasks \ {t} : task'[u] = task[u]
          /\ \A u \in AuthTasks : task'[u].pc # "idle" <=> task[u].pc # "idle"
      BY <1>1, <1>3, <2>1, MoveTask
    <2>3. /\ session' \in SessionRecord /\ session'.state = session.state
          /\ session'.username = session.username /\ session'.user = task[t].user
      BY <1>4, <2>2 DEF Enter, Inv, RestOK, SessionRecord
    <2>4. RestOK'
      BY <1>2, <2>2, <2>3 DEF Inv, RestOK
    <2>5. OneAttempt'
      BY <1>2, <2>2, <2>3 DEF Inv, Facts, OneAttempt, Reported
    <2>6. session'.user # NoUser
      BY <2>2, <2>3, LoginAssumption
    <2>7. Facts'
      BY <1>1, <1>2, <2>2, <2>3, <2>5, <2>6 DEF Inv, Facts, UsernameKnown, UserProven, TasksProven,
            MessageProven, UserEntered, Reported
    <2>8. Active' = Active \/ (overlap /\ Active' = {task[t].user})
      BY <1>1, <1>2, <2>3 DEF Active, Inv, Facts, OneAttempt
    <2>9. Allowed
      BY <1>1, <1>2, <2>2, <2>8 DEF Allowed, Promise!Next, Promise!Grant, Promise!accessVars
    <2> QED  BY <2>4, <2>7, <2>9 DEF Good
  <1>5. CASE session' = session /\ task' = [task EXCEPT ![t].pc = "AuthFailed"]
    <2>1. task' = [task EXCEPT ![t] = [pc |-> "AuthFailed", user |-> task[t].user,
                                       right |-> task[t].right]]
      BY <1>1, <1>5, TaskExcept
    <2>2. /\ task' \in [AuthTasks -> TaskRecord] /\ task'[t].pc = "AuthFailed"
          /\ \A u \in AuthTasks \ {t} : task'[u] = task[u]
          /\ \A u \in AuthTasks : task'[u].pc # "idle" <=> task[u].pc # "idle"
      BY <1>1, <1>3, <2>1, MoveTask
    <2>3. RestOK'
      BY <1>2, <1>5, <2>2 DEF Inv, RestOK
    <2>4. OneAttempt'
      BY <1>2, <1>5, <2>2 DEF Inv, Facts, OneAttempt, Reported
    <2>5. Facts'
      BY <1>2, <1>5, <2>2, <2>4 DEF Inv, Facts, UsernameKnown, UserProven, TasksProven,
            MessageProven, UserEntered, Reported
    <2>6. Allowed
      BY <1>2, <1>5 DEF Allowed, Active, Promise!accessVars
    <2> QED  BY <2>3, <2>5, <2>6 DEF Good
  <1> QED  BY <1>4, <1>5 DEF EnterSession

LEMMA ReportStep ==
  ASSUME Inv, NEW t \in AuthTasks, Report(t)
  PROVE  Good
  <1>1. task[t].pc \in AuthMessages /\ task[t].pc # "idle"
    BY DEF Report, AuthMessages
  <1>2. UNCHANGED <<config, upgrade, session, loop, worker, presence, proven, overlap>>
    BY DEF Report, ghosts
  <1>3. task[t] \in TaskRecord /\ task[t] # IdleTask
    BY <1>1 DEF Inv, RestOK, IdleTask
  <1>4. task[t].user \in Users
    BY <1>3 DEF TaskRecord
  <1> DEFINE m == [msg |-> task[t].pc, user |-> task[t].user]
  <1>5. m \in Message /\ m.msg = task[t].pc /\ m.user = task[t].user
    BY <1>1, <1>4, MessageTypes
  <1>6. chan' = <<m>>
    BY DEF Report, Send
  <1> HIDE DEF m
  <1>7. chan' \in Seq(Message) /\ Len(chan') <= 1 /\ Head(chan') = m /\ chan' # <<>>
    BY <1>5, <1>6
  <1>8. \A k : Reported(k)' <=> task[t].pc \in k
    BY <1>5, <1>7 DEF Reported
  <1>9. /\ task' \in [AuthTasks -> TaskRecord] /\ task'[t].pc = "idle"
        /\ \A u \in AuthTasks \ {t} : task'[u] = task[u]
    <2>1. IdleTask \in TaskRecord /\ IdleTask.pc = "idle"
      BY DEF IdleTask, TaskRecord
    <2>2. task' = [task EXCEPT ![t] = IdleTask]
      BY DEF Report
    <2> QED  BY <2>1, <2>2 DEF Inv, RestOK
  <1>10. RestOK'
    BY <1>2, <1>7, <1>9 DEF Inv, RestOK
  <1>11. OneAttempt'
    BY <1>1, <1>2, <1>8, <1>9 DEF Inv, Facts, OneAttempt
  <1>12. TasksProven' /\ MessageProven' /\ UserEntered'
    <2>1. TasksProven'
      BY <1>2, <1>9 DEF Inv, Facts, TasksProven
    <2>2. MessageProven'
      BY <1>2, <1>5, <1>7, <1>8 DEF Inv, Facts, TasksProven, MessageProven
    <2>3. UserEntered'
      BY <1>2, <1>8, <1>9 DEF Inv, Facts, UserEntered
    <2> QED  BY <2>1, <2>2, <2>3
  <1>13. Facts'
    BY <1>2, <1>11, <1>12 DEF Inv, Facts, UsernameKnown, UserProven
  <1>14. Allowed
    BY <1>2 DEF Allowed, Active, Promise!accessVars
  <1> QED  BY <1>10, <1>13, <1>14 DEF Good

-----------------------------------------------------------------------------
(* Messages to the control loop.                                           *)

LEMMA AuthMessageSteps ==
  ASSUME Inv, AuthSuccess \/ AuthFailed
  PROVE  Good
  <1> USE LoginAssumption
  <1>1. CASE AuthSuccess
    <2>1. /\ chan' = <<>> /\ chan' \in Seq(Message) /\ Len(chan') <= 1
          /\ \A k : ~Reported(k)'
          /\ Head(chan) \in Message /\ Reported({"AuthSuccess"})
      BY <1>1, TakeEmpties DEF AuthSuccess
    <2>2. UNCHANGED <<config, upgrade, loop, task, worker, proven, overlap>> /\ loop = "open"
      BY <1>1 DEF AuthSuccess, ghosts, Take
    <2>3. Head(chan).user \in Users /\ Head(chan).user \in proven
      <3>1. Head(chan).msg \in AuthMessages
        BY <2>1 DEF Reported, AuthMessages
      <3> QED  BY <2>1, <3>1, MessageTypes DEF Inv, Facts, MessageProven
    <2>4. session.user # NoUser /\ session.user \in proven /\ proven \subseteq Users
      BY <2>1 DEF Inv, RestOK, Facts, UserEntered, UserProven
    <2>5. /\ session' \in SessionRecord /\ session'.state = "WaitCmd"
          /\ session'.user = session.user
      BY <1>1 DEF AuthSuccess, Inv, RestOK, SessionRecord
    <2>6. presence' = [event |-> "LoggedIn", user |-> Head(chan).user]
      BY <1>1 DEF AuthSuccess
    <2>7. RestOK'
      BY <2>1, <2>2, <2>3, <2>5, <2>6 DEF Inv, RestOK
    <2>8. OneAttempt'
      <3>1. ~overlap => \A t \in AuthTasks : task[t].pc = "idle"
        BY <2>1 DEF Inv, Facts, OneAttempt, Reported, AuthMessages
      <3> QED  BY <2>1, <2>2, <3>1 DEF OneAttempt
    <2>9. Facts'
      BY <2>1, <2>2, <2>3, <2>4, <2>5, <2>6, <2>8 DEF Inv, Facts, UsernameKnown, UserProven,
            TasksProven, MessageProven, UserEntered
    <2>10. Active' = {session.user} /\ (Active = {} \/ Active = Active')
      BY <2>2, <2>5 DEF Active
    <2>11. Allowed
      BY <2>2, <2>4, <2>10 DEF Allowed, Promise!Next, Promise!Grant, Promise!accessVars
    <2> QED  BY <2>7, <2>9, <2>11 DEF Good
  <1>2. CASE AuthFailed
    <2>1. /\ chan' = <<>> /\ chan' \in Seq(Message) /\ Len(chan') <= 1
          /\ \A k : ~Reported(k)'
          /\ Reported({"AuthFailed"})
      BY <1>2, TakeEmpties DEF AuthFailed
    <2>2. UNCHANGED <<config, upgrade, loop, task, worker, presence, proven, overlap>>
      BY <1>2 DEF AuthFailed, ghosts
    <2>3. /\ session' \in SessionRecord /\ session'.state = "New"
          /\ session'.user = session.user
      BY <1>2 DEF AuthFailed, Inv, RestOK, SessionRecord
    <2>4. RestOK'
      BY <2>1, <2>2, <2>3 DEF Inv, RestOK
    <2>5. OneAttempt'
      <3>1. ~overlap => \A t \in AuthTasks : task[t].pc = "idle"
        BY <2>1 DEF Inv, Facts, OneAttempt, Reported, AuthMessages
      <3> QED  BY <2>1, <2>2, <3>1 DEF OneAttempt
    <2>6. Facts'
      BY <2>1, <2>2, <2>3, <2>5 DEF Inv, Facts, UsernameKnown, UserProven, TasksProven,
            MessageProven, UserEntered
    <2>7. Active' = {}
      BY <2>3 DEF Active
    <2>8. Allowed
      BY <2>2, <2>7 DEF Allowed, Promise!Next, Promise!Revoke
    <2> QED  BY <2>4, <2>6, <2>8 DEF Good
  <1> QED  BY <1>1, <1>2

\* A message that is no report of a login is taken from the channel.
LEMMA OtherTaken ==
  ASSUME Inv, \/ Take("CommandChannelReply") \/ Take("ExitControlLoop")
              \/ Take("SecureControlChannel"),
         UNCHANGED <<task, proven, overlap>>,
         presence' = presence \/ presence' = [presence EXCEPT !.event = "LoggedOut"],
         session'.state = session.state, session'.user = session.user,
         session'.username = session.username,
         loop' = loop \/ loop' = "closed"
  PROVE  Facts' /\ Allowed /\ chan' \in Seq(Message) /\ Len(chan') <= 1
  <1>1. chan' \in Seq(Message) /\ Len(chan') <= 1 /\ \A k : ~Reported(k)'
    BY TakeEmpties
  <1>2. presence'.event = "LoggedIn" => presence' = presence
    BY DEF Inv, RestOK
  <1>3. OneAttempt'
    BY <1>1 DEF Inv, Facts, OneAttempt
  <1>4. Facts'
    BY <1>1, <1>2, <1>3 DEF Inv, Facts, UsernameKnown, UserProven, TasksProven, MessageProven,
          UserEntered
  <1>5. Active' = Active \/ Active' = {}
    BY DEF Active
  <1>6. Allowed
    BY <1>5 DEF Allowed, Promise!Next, Promise!Revoke, Promise!accessVars
  <1> QED  BY <1>1, <1>4, <1>6

LEMMA MessageSteps ==
  ASSUME Inv, TakeMessage
  PROVE  Good
  <1>1. CASE CommandChannelReply
    <2>1. UNCHANGED <<config, upgrade, session, loop, task, worker, presence, proven, overlap>>
      BY <1>1 DEF CommandChannelReply, ghosts
    <2>2. Facts' /\ Allowed /\ chan' \in Seq(Message) /\ Len(chan') <= 1
      BY <1>1, <2>1, OtherTaken DEF CommandChannelReply
    <2> QED  BY <2>1, <2>2 DEF Good, Inv, RestOK
  <1>2. CASE ExitControlLoop
    <2>1. /\ UNCHANGED <<config, upgrade, session, task, worker, proven, overlap>>
          /\ loop' = "closed" /\ presence' = [presence EXCEPT !.event = "LoggedOut"]
      BY <1>2 DEF ExitControlLoop, Exit, ghosts
    <2>2. Facts' /\ Allowed /\ chan' \in Seq(Message) /\ Len(chan') <= 1
      BY <1>2, <2>1, OtherTaken DEF ExitControlLoop
    <2>3. presence' \in [event : {"none", "LoggedIn", "LoggedOut"}, user : Users \union {NoUser}]
      BY <2>1 DEF Inv, RestOK
    <2> QED  BY <2>1, <2>2, <2>3 DEF Good, Inv, RestOK
  <1>3. CASE SecureControlChannel
    <2>1. /\ UNCHANGED <<config, upgrade, task, worker, presence, proven, overlap>>
          /\ loop' = loop \/ loop' = "closed"
      BY <1>3 DEF SecureControlChannel, ghosts
    <2>2. /\ session' \in SessionRecord /\ session'.state = session.state
          /\ session'.user = session.user /\ session'.username = session.username
      <3>1. session \in SessionRecord
        BY DEF Inv, RestOK
      <3>2. CASE session' = session
        BY <3>1, <3>2
      <3>3. ASSUME NEW cert \in {session.cert_chain, TRUE},
                   session' = [session EXCEPT !.cmd_tls = TRUE, !.cert_chain = cert]
            PROVE  /\ session' \in SessionRecord /\ session'.state = session.state
                   /\ session'.user = session.user /\ session'.username = session.username
        <4>1. cert \in BOOLEAN
          BY <3>1 DEF SessionRecord
        <4> QED  BY <3>1, <3>3, <4>1 DEF SessionRecord
      <3> QED  BY <1>3, <3>2, <3>3 DEF SecureControlChannel
    <2>3. Facts' /\ Allowed /\ chan' \in Seq(Message) /\ Len(chan') <= 1
      BY <1>3, <2>1, <2>2, OtherTaken DEF SecureControlChannel
    <2> QED  BY <2>1, <2>2, <2>3 DEF Good, Inv, RestOK
  <1> QED  BY <1>1, <1>2, <1>3, AuthMessageSteps DEF TakeMessage

\* Without a message the loop ends too.
LEMMA ClosingSteps ==
  ASSUME Inv, ConnectionClosed \/ Dropped
  PROVE  Good
  <1>1. UNCHANGED <<config, upgrade, session, chan, task, worker, proven, overlap>> /\ loop' = "closed"
    BY DEF ConnectionClosed, Exit, Dropped, ghosts
  <1>2. /\ presence' \in [event : {"none", "LoggedIn", "LoggedOut"}, user : Users \union {NoUser}]
        /\ presence'.event = "LoggedIn" => presence' = presence
    BY DEF ConnectionClosed, Exit, Dropped, Inv, RestOK
  <1>3. RestOK'
    BY <1>1, <1>2 DEF Inv, RestOK
  <1>4. Facts'
    BY <1>1, <1>2 DEF Inv, Facts, UsernameKnown, UserProven, TasksProven, MessageProven,
          UserEntered, OneAttempt, Reported
  <1>5. Active' = {}
    BY <1>1 DEF Active
  <1>6. Allowed
    BY <1>1, <1>5 DEF Allowed, Promise!Next, Promise!Revoke
  <1> QED  BY <1>3, <1>4, <1>6 DEF Good

-----------------------------------------------------------------------------
(* The other commands, and the tasks they leave behind.                    *)

\* A worker is given something to do, or is done.
LEMMA WorkerTypes ==
  ASSUME Inv
  PROVE  /\ IdleWorker \in WorkerRecord
         /\ \A pc \in {"data", "job"} : Working(pc) \in WorkerRecord
         /\ \A w \in Workers : [worker EXCEPT ![w].pc = "accept"] \in [Workers -> WorkerRecord]
         /\ \A w \in Workers, r \in WorkerRecord : [worker EXCEPT ![w] = r] \in [Workers -> WorkerRecord]
  <1>1. IdleWorker \in WorkerRecord
    BY DEF IdleWorker, WorkerRecord
  <1>2. session \in SessionRecord /\ worker \in [Workers -> WorkerRecord]
    BY DEF Inv, RestOK
  <1>3. session.user \in Users \union {NoUser} /\ session.data_tls \in BOOLEAN
    BY <1>2 DEF SessionRecord
  <1>4. \A pc \in {"data", "job"} : Working(pc) \in WorkerRecord
    BY <1>3 DEF Working, WorkerRecord
  <1>5. ASSUME NEW w \in Workers
        PROVE  [worker EXCEPT ![w].pc = "accept"] \in [Workers -> WorkerRecord]
    <2>1. [worker[w] EXCEPT !.pc = "accept"] \in WorkerRecord
      BY <1>2 DEF WorkerRecord
    <2> QED  BY <1>2, <2>1
  <1> QED  BY <1>1, <1>2, <1>4, <1>5

LEMMA WorkerCommands ==
  ASSUME Inv, NEW req \in Request, Dele(req) \/ Port(req) \/ Pasv(req)
  PROVE  Good
  <1>1. UNCHANGED <<config, upgrade, session, loop, chan, task, presence, proven, overlap>>
    BY DEF Dele, Port, Pasv, ghosts
  <1>2. worker' \in [Workers -> WorkerRecord]
    <2>1. CASE Dele(req)
      BY <2>1, WorkerTypes DEF Dele, Assign
    <2>2. CASE Port(req)
      BY <2>2, WorkerTypes DEF Port, Assign
    <2>3. CASE Pasv(req)
      BY <2>3, WorkerTypes DEF Pasv
    <2> QED  BY <2>1, <2>2, <2>3
  <1>3. RestOK'
    BY <1>1, <1>2 DEF Inv, RestOK
  <1> QED  BY <1>1, <1>3, NothingGranted DEF Good

LEMMA WorkerSteps ==
  ASSUME Inv, NEW w \in Workers, WorkerStep(w)
  PROVE  Good
  <1>1. CASE Accept(w) \/ DataDone(w)
    <2>1. UNCHANGED <<config, upgrade, session, loop, chan, task, presence, proven, overlap>>
      BY <1>1 DEF Accept, DataDone, ghosts
    <2>2. worker' \in [Workers -> WorkerRecord]
      BY <1>1, WorkerTypes DEF Accept, DataDone
    <2>3. RestOK'
      BY <2>1, <2>2 DEF Inv, RestOK
    <2> QED  BY <2>1, <2>3, NothingGranted DEF Good
  <1>2. CASE JobDone(w)
    <2>1. UNCHANGED <<config, upgrade, session, loop, task, presence, proven, overlap>>
      BY <1>2 DEF JobDone, ghosts
    <2>2. worker' \in [Workers -> WorkerRecord]
      BY <1>2, WorkerTypes DEF JobDone
    <2>3. [msg |-> "CommandChannelReply"].msg \notin AuthMessages
      BY DEF AuthMessages
    <2>4. Facts' /\ Allowed /\ chan' \in Seq(Message) /\ Len(chan') <= 1
      BY <1>2, <2>1, <2>3, OtherMessage, MessageTypes DEF JobDone
    <2>5. RestOK'
      BY <2>1, <2>2, <2>4 DEF Inv, RestOK
    <2> QED  BY <2>4, <2>5 DEF Good
  <1> QED  BY <1>1, <1>2 DEF WorkerStep

LEMMA UpgradeStep ==
  ASSUME Inv, SendUpgrade
  PROVE  Good
  <1>1. UNCHANGED <<config, session, loop, task, worker, presence, proven, overlap>> /\ upgrade' = FALSE
    BY DEF SendUpgrade, ghosts
  <1>2. [msg |-> "SecureControlChannel"].msg \notin AuthMessages
    BY DEF AuthMessages
  <1>3. Facts' /\ Allowed /\ chan' \in Seq(Message) /\ Len(chan') <= 1
    BY <1>1, <1>2, OtherMessage, MessageTypes DEF SendUpgrade
  <1>4. RestOK'
    BY <1>1, <1>3 DEF Inv, RestOK
  <1> QED  BY <1>3, <1>4 DEF Good

\* AUTH, PROT, QUIT and commands that are refused.
LEMMA PlainCommands ==
  ASSUME Inv, NEW req \in Request, loop = "open",
         Refused(req) \/ ChainError(req) \/ AuthTls(req) \/ Prot(req) \/ Quit(req)
  PROVE  Good
  <1>1. CASE Refused(req) \/ ChainError(req) \/ AuthTls(req)
    <2>1. /\ UNCHANGED <<config, session, chan, task, worker, presence, proven, overlap>>
          /\ loop' = loop \/ loop' = "closed"
      BY <1>1 DEF Refused, ChainError, AuthTls, ghosts
    <2>2. upgrade' \in BOOLEAN
      BY <1>1 DEF Refused, ChainError, AuthTls, Inv, RestOK
    <2>3. RestOK'
      BY <2>1, <2>2 DEF Inv, RestOK
    <2> QED  BY <2>1, <2>3, NothingGranted DEF Good
  <1>2. CASE Prot(req)
    <2>1. UNCHANGED <<config, upgrade, loop, chan, task, worker, presence, proven, overlap>>
      BY <1>2 DEF Prot, ghosts
    <2>2. /\ session' \in SessionRecord /\ session'.state = session.state
          /\ session'.user = session.user /\ session'.username = session.username
      <3>1. session \in SessionRecord
        BY DEF Inv, RestOK
      <3>2. (req.param = "P") \in BOOLEAN
        OBVIOUS
      <3> QED  BY <1>2, <3>1, <3>2 DEF Prot, SessionRecord
    <2>3. RestOK'
      BY <2>1, <2>2 DEF Inv, RestOK
    <2>4. Facts'
      BY <2>1, <2>2 DEF Inv, Facts, UsernameKnown, UserProven, TasksProven, MessageProven,
            UserEntered, OneAttempt, Reported
    <2>5. Allowed
      BY <2>1, <2>2 DEF Allowed, Active, Promise!accessVars
    <2> QED  BY <2>3, <2>4, <2>5 DEF Good
  <1>3. CASE Quit(req)
    <2>1. UNCHANGED <<config, upgrade, session, task, worker, presence, proven, overlap>>
      BY <1>3 DEF Quit, ghosts
    <2>2. CASE chan = <<>>
      <3>1. Send([msg |-> "ExitControlLoop"]) /\ loop' = loop
        BY <1>3, <2>2 DEF Quit, Send
      <3>2. [msg |-> "ExitControlLoop"].msg \notin AuthMessages
        BY DEF AuthMessages
      <3>3. Facts' /\ Allowed /\ chan' \in Seq(Message) /\ Len(chan') <= 1
        BY <2>1, <3>1, <3>2, OtherMessage, MessageTypes
      <3>4. RestOK'
        BY <2>1, <3>1, <3>3 DEF Inv, RestOK
      <3> QED  BY <3>3, <3>4 DEF Good
    <2>3. CASE chan # <<>>
      <3>1. loop' = "stuck" /\ chan' = chan
        BY <1>3, <2>3 DEF Quit
      <3>2. RestOK'
        BY <2>1, <3>1 DEF Inv, RestOK
      <3> QED  BY <2>1, <3>1, <3>2, NothingGranted DEF Good
    <2> QED  BY <2>2, <2>3
  <1> QED  BY <1>1, <1>2, <1>3

LEMMA CommandSteps ==
  ASSUME Inv, NEW req \in Request, loop = "open", Command(req)
  PROVE  Good
  BY UserSteps, PassSteps, PlainCommands, WorkerCommands DEF Command

-----------------------------------------------------------------------------
(* The whole.                                                              *)

LEMMA TaskSteps ==
  ASSUME Inv, NEW t \in AuthTasks, TaskStep(t)
  PROVE  Good
  BY AuthenticateStep, EnterStep, ReportStep DEF TaskStep

\* A step leaves the buffer alone, empties it, takes its first element, or adds
\* one that was sent as the connection is now.
LEMMA BufferChanges ==
  ASSUME [Next]_vars
  PROVE  \/ buf' = buf \/ buf' = <<>> \/ (buf # <<>> /\ buf' = Tail(buf))
         \/ \E req \in Requests[config] : buf' = Append(buf, [req |-> req, tls |-> session.cmd_tls])
  <1>1. ASSUME NEW req, Receive(req) PROVE buf' = buf
    BY <1>1 DEF Receive
  <1>2. TakeMessage => buf' = buf \/ buf' = <<>>
    BY DEF TakeMessage, AuthSuccess, AuthFailed, CommandChannelReply, ExitControlLoop, Exit,
           SecureControlChannel
  <1>3. ASSUME NEW t, TaskStep(t) PROVE buf' = buf
    BY <1>3 DEF TaskStep, Authenticate, EnterSession, Report
  <1>4. ASSUME NEW w, WorkerStep(w) PROVE buf' = buf
    BY <1>4 DEF WorkerStep, Accept, DataDone, JobDone
  <1>5. (ConnectionClosed \/ Dropped \/ SendUpgrade \/ Over \/ UNCHANGED vars) => buf' = buf
    BY DEF ConnectionClosed, Exit, Dropped, SendUpgrade, Over, vars
  <1>6. TakeBuffered => buf # <<>> /\ buf' = Tail(buf)
    BY DEF TakeBuffered
  <1>7. ASSUME NEW req, Buffer(req)
        PROVE  buf' = Append(buf, [req |-> req, tls |-> session.cmd_tls])
    BY <1>7 DEF Buffer
  <1> QED  BY <1>1, <1>2, <1>3, <1>4, <1>5, <1>6, <1>7 DEF Next

\* The buffer holds commands of the client only.
LEMMA BufferSteps ==
  ASSUME Inv, [Next]_vars
  PROVE  BufOK'
  <1> DEFINE B == [req : Request, tls : BOOLEAN]
  <1>1. buf \in Seq(B) /\ <<>> \in Seq(B)
    BY DEF Inv, BufOK
  <1>2. \A req \in Requests[config] : [req |-> req, tls |-> session.cmd_tls] \in B
    BY LoginAssumption DEF Inv, RestOK, SessionRecord
  <1>3. buf' \in Seq(B)
    <2> HIDE DEF B
    <2>1. buf # <<>> => Tail(buf) \in Seq(B)
      BY <1>1
    <2>2. \A r \in B : Append(buf, r) \in Seq(B)
      BY <1>1
    <2> QED  BY <1>1, <1>2, <2>1, <2>2, BufferChanges
  <1> QED  BY <1>3 DEF BufOK

\* Every step preserves the invariant, and Access allows it.
LEMMA StepInv ==
  ASSUME Inv, [Next]_vars
  PROVE  Inv' /\ Allowed
  <1>1. \A req \in Requests[config] : req \in Request
    BY LoginAssumption DEF Inv, RestOK
  <1>2. ASSUME NEW req \in Requests[config], Receive(req) PROVE Good
    BY <1>1, <1>2, CommandSteps DEF Receive
  <1>3. ASSUME NEW req \in Requests[config], Buffer(req) PROVE Good
    <2>1. UNCHANGED <<config, upgrade, session, loop, chan, task, worker, presence, proven, overlap>>
      BY <1>3 DEF Buffer, ghosts
    <2>2. RestOK'
      BY <2>1 DEF Inv, RestOK
    <2> QED  BY <2>1, <2>2, NothingGranted DEF Good
  <1>4. ASSUME TakeBuffered PROVE Good
    <2> DEFINE B == [req : Request, tls : BOOLEAN]
    <2>1. buf \in Seq(B) /\ buf # <<>> /\ loop = "open" /\ Command(Head(buf).req)
      BY <1>4 DEF TakeBuffered, Inv, BufOK
    <2>2. Head(buf) \in B
      <3> HIDE DEF B
      <3> QED  BY <2>1
    <2>3. Head(buf).req \in Request
      BY <2>2
    <2> QED  BY <2>1, <2>3, CommandSteps
  <1>5. ASSUME Over \/ UNCHANGED vars PROVE Good
    <2>1. UNCHANGED <<config, upgrade, session, loop, chan, task, worker, presence, proven, overlap>>
      BY <1>5 DEF Over, vars
    <2>2. RestOK'
      BY <2>1 DEF Inv, RestOK
    <2> QED  BY <2>1, <2>2, NothingGranted DEF Good
  <1>6. Good
    BY <1>2, <1>3, <1>4, <1>5, MessageSteps, ClosingSteps, UpgradeStep, TaskSteps, WorkerSteps DEF Next
  <1> QED  BY <1>6, BufferSteps DEF Good, Inv

\* Session, tasks, channel and buffers keep their types for any clients.
THEOREM TypeCorrect == Spec => []TypeOK
  <1>1. Inv => TypeOK
    BY LoginAssumption DEF Inv, RestOK, BufOK, TypeOK
  <1> QED  BY <1>1, InitInv, StepInv, PTL DEF Spec

\* USER, PASS and the tasks they leave keep the promise of Access, in whatever
\* order the results of authentication tasks arrive.
THEOREM Implements == Spec => KeepsPromise
  BY InitInv, StepInv, PTL DEF Spec, KeepsPromise, Promise!Spec, Allowed

\* A LoggedIn event names a proven user.
THEOREM EventsTruthful == Spec => []PresenceTruthful
  <1>1. Inv => PresenceTruthful
    BY DEF Inv, Facts, PresenceTruthful
  <1> QED  BY <1>1, InitInv, StepInv, PTL DEF Spec

-----------------------------------------------------------------------------
(* Who may log in over a plain connection, and for whom tasks work.        *)

\* A step, seen without the buffer that commands come from.
Step ==
  \/ \E req \in Request : Command(req) \/ Buffer(req)
  \/ TakeMessage \/ ConnectionClosed \/ Dropped \/ SendUpgrade
  \/ \E t \in AuthTasks : TaskStep(t)
  \/ \E w \in Workers : WorkerStep(w)
  \/ UNCHANGED vars

LEMMA StepCases ==
  ASSUME Inv, [Next]_vars
  PROVE  Step
  <1>1. \A req \in Requests[config] : req \in Request
    BY LoginAssumption DEF Inv, RestOK
  <1>2. TakeBuffered => \E req \in Request : Command(req)
    <2> SUFFICES ASSUME TakeBuffered PROVE \E req \in Request : Command(req)
      OBVIOUS
    <2> DEFINE B == [req : Request, tls : BOOLEAN]
    <2>1. buf \in Seq(B) /\ buf # <<>> /\ Command(Head(buf).req)
      BY DEF TakeBuffered, Inv, BufOK
    <2>2. Head(buf) \in B
      <3> HIDE DEF B
      <3> QED  BY <2>1
    <2>3. Head(buf).req \in Request
      BY <2>2
    <2> QED  BY <2>1, <2>3
  <1>3. \A req : Receive(req) => Command(req)
    BY DEF Receive
  <1> QED  BY <1>1, <1>2, <1>3 DEF Next, Step, Over

\* Nobody has proven himself over a plain connection who must not.
Plain ==
  ~session.cmd_tls =>
    /\ ~session.cert_chain
    /\ config.control = "All" =>
         /\ session.state = "New"
         /\ \A t \in AuthTasks : task[t].pc = "idle"
         /\ ~Reported(AuthMessages)
    /\ config.control = "Accounts" =>
         /\ session.user \in {NoUser, Anonymous}
         /\ \A t \in AuthTasks : task[t].pc # "idle" => task[t].user = Anonymous

\* The storage was entered for the session's user, and tasks work for him.
Confined == session.root = session.user /\ WorkersConfined

\* A command that reaches its handler has passed the check of the control channel.
LEMMA Enforced ==
  ASSUME NEW req, NEW cmd, Handle(req, cmd)
  PROVE  req.cmd = cmd /\ FtpsControlChanEnforcer(req) = "next"
  BY DEF Handle, Verdict

LEMMA PlainCommand ==
  ASSUME Inv, Plain, NEW req \in Request, Command(req)
  PROVE  Plain'
  <1> SUFFICES ASSUME ~session'.cmd_tls PROVE Plain'
    BY DEF Plain
  <1>s. session \in SessionRecord
    BY DEF Inv, RestOK
  <1>1. CASE UserByCert(req)
    <2>1. session' = session
      BY <1>1, <1>s DEF UserByCert, Plain, SessionRecord
    <2>2. UNCHANGED <<config, task, chan>>
      BY <1>1 DEF UserByCert
    <2> QED  BY <2>1, <2>2 DEF Plain, Reported
  <1>2. CASE UserNeedsPassword(req)
    <2>1. /\ session'.cmd_tls = session.cmd_tls /\ session'.cert_chain = session.cert_chain
          /\ session'.user = session.user
      BY <1>2, <1>s DEF UserNeedsPassword, SessionRecord
    <2>2. UNCHANGED <<config, task, chan>>
      BY <1>2 DEF UserNeedsPassword
    <2>3. config.control # "All"
      <3>1. req.cmd = "USER" /\ FtpsControlChanEnforcer(req) = "next"
        BY <1>2, Enforced DEF UserNeedsPassword
      <3> QED  BY <2>1, <3>1 DEF FtpsControlChanEnforcer
    <2> QED  BY <2>1, <2>2, <2>3 DEF Plain, Reported
  <1>3. CASE PassSpawns(req)
    <2>1. UNCHANGED <<config, session, chan>>
      BY <1>3 DEF PassSpawns
    <2>2. req.cmd = "PASS" /\ FtpsControlChanEnforcer(req) = "next"
      BY <1>3, Enforced DEF PassSpawns
    <2>3. /\ config.control # "All"
          /\ config.control = "Accounts" => session.username = Anonymous
      BY <2>1, <2>2 DEF FtpsControlChanEnforcer
    <2>4. \A t \in AuthTasks : task'[t] = task[t] \/ task'[t].user = session.username
      BY <1>3 DEF PassSpawns, Inv, RestOK
    <2> QED  BY <2>1, <2>3, <2>4 DEF Plain, Reported
  <1>4. CASE Prot(req)
    <2>1. /\ session'.cmd_tls = session.cmd_tls /\ session'.cert_chain = session.cert_chain
          /\ session'.user = session.user /\ session'.state = session.state
      BY <1>4, <1>s DEF Prot, SessionRecord
    <2>2. UNCHANGED <<config, task, chan>>
      BY <1>4 DEF Prot
    <2> QED  BY <2>1, <2>2 DEF Plain, Reported
  <1>5. CASE Quit(req)
    <2>1. UNCHANGED <<config, session, task>>
      BY <1>5 DEF Quit
    <2>2. Reported(AuthMessages)' => Reported(AuthMessages)
      <3>1. chan' = chan \/ chan' = <<[msg |-> "ExitControlLoop"]>>
        BY <1>5 DEF Quit
      <3>2. [msg |-> "ExitControlLoop"].msg \notin AuthMessages
        BY DEF AuthMessages
      <3> QED  BY <3>1, <3>2 DEF Reported
    <2> QED  BY <2>1, <2>2 DEF Plain
  <1>6. CASE \/ Refused(req) \/ ChainError(req) \/ UserOutOfOrder(req) \/ PassOutOfOrder(req)
             \/ AuthTls(req) \/ Dele(req) \/ Port(req) \/ Pasv(req)
    <2>1. UNCHANGED <<config, session, task, chan>>
      BY <1>6 DEF Refused, ChainError, UserOutOfOrder, PassOutOfOrder, AuthTls, Dele, Port, Pasv
    <2> QED  BY <2>1 DEF Plain, Reported
  <1> QED  BY <1>1, <1>2, <1>3, <1>4, <1>5, <1>6 DEF Command

LEMMA PlainTask ==
  ASSUME Inv, Plain, NEW t \in AuthTasks, TaskStep(t)
  PROVE  Plain'
  <1>s. session \in SessionRecord
    BY DEF Inv, RestOK
  <1>t. task[t].pc # "idle"
    BY DEF TaskStep, Authenticate, EnterSession, Report, AuthMessages
  <1>1. UNCHANGED config
    BY DEF TaskStep, Authenticate, EnterSession, Report
  <1>2. /\ session'.cmd_tls = session.cmd_tls /\ session'.cert_chain = session.cert_chain
        /\ session'.state = session.state
        /\ session'.user \in {session.user, task[t].user}
    BY <1>s DEF TaskStep, Authenticate, EnterSession, Report, Enter, SessionRecord
  <1>3. \A u \in AuthTasks : task'[u] = task[u] \/ (u = t /\ (task'[u].pc = "idle" \/ task'[u].user = task[u].user))
    <2>1. CASE Report(t)
      BY <2>1 DEF Report, Inv, RestOK, IdleTask
    <2>2. CASE Authenticate(t) \/ EnterSession(t)
      <3>1. \E pc, r : task' = [task EXCEPT ![t] = [pc |-> pc, user |-> task[t].user, right |-> r]]
        <4>1. \/ \E pc : task' = [task EXCEPT ![t].pc = pc]
              \/ \E pc : task' = [task EXCEPT ![t] = [pc |-> pc, user |-> task[t].user, right |-> FALSE]]
          BY <2>2 DEF Authenticate, EnterSession
        <4>2. ASSUME NEW pc, task' = [task EXCEPT ![t].pc = pc]
              PROVE  task' = [task EXCEPT ![t] = [pc |-> pc, user |-> task[t].user,
                                                  right |-> task[t].right]]
          BY <1>t, <4>2, TaskExcept
        <4> QED  BY <4>1, <4>2
      <3> QED  BY <3>1 DEF Inv, RestOK
    <2> QED  BY <2>1, <2>2 DEF TaskStep
  <1>4. ~session.cmd_tls => config.control # "All"
    BY <1>t DEF Plain
  <1> QED  BY <1>1, <1>2, <1>3, <1>4, <1>t DEF Plain

LEMMA PlainOther ==
  ASSUME Inv, Plain,
         \/ TakeMessage \/ ConnectionClosed \/ Dropped \/ SendUpgrade \/ UNCHANGED vars
         \/ \E req \in Request : Buffer(req)
         \/ \E w \in Workers : WorkerStep(w)
  PROVE  Plain'
  <1>s. session \in SessionRecord
    BY DEF Inv, RestOK
  <1>1. ASSUME Reported(AuthMessages)' => Reported(AuthMessages), UNCHANGED <<config, session, task>>
        PROVE  Plain'
    BY <1>1 DEF Plain
  <1>2. CASE TakeMessage
    <2>1. ~Reported(AuthMessages)'
      BY <1>2, TakeEmpties DEF TakeMessage, AuthSuccess, AuthFailed, CommandChannelReply,
            ExitControlLoop, SecureControlChannel
    <2>2. UNCHANGED <<config, task>>
      BY <1>2 DEF TakeMessage, AuthSuccess, AuthFailed, CommandChannelReply, ExitControlLoop,
            Exit, SecureControlChannel
    <2>3. CASE SecureControlChannel
      <3>1. session' = session \/ session'.cmd_tls
        BY <2>3, <1>s DEF SecureControlChannel, SessionRecord
      <3> QED  BY <2>1, <2>2, <3>1 DEF Plain
    <2>4. CASE AuthSuccess
      <3>1. /\ session'.cmd_tls = session.cmd_tls /\ session'.cert_chain = session.cert_chain
            /\ session'.user = session.user
        BY <2>4, <1>s DEF AuthSuccess, SessionRecord
      <3>2. Reported(AuthMessages)
        BY <2>4 DEF AuthSuccess, Take, Reported, AuthMessages
      <3> QED  BY <2>1, <2>2, <3>1, <3>2 DEF Plain
    <2>5. CASE AuthFailed
      <3>1. /\ session'.cmd_tls = session.cmd_tls /\ session'.cert_chain = session.cert_chain
            /\ session'.user = session.user /\ session'.state = "New"
        BY <2>5, <1>s DEF AuthFailed, SessionRecord
      <3> QED  BY <2>1, <2>2, <3>1 DEF Plain
    <2>6. CASE CommandChannelReply \/ ExitControlLoop
      <3>1. session' = session
        BY <2>6 DEF CommandChannelReply, ExitControlLoop, Exit
      <3> QED  BY <1>1, <2>1, <2>2, <3>1
    <2> QED  BY <1>2, <2>3, <2>4, <2>5, <2>6 DEF TakeMessage
  <1>3. CASE SendUpgrade \/ \E w \in Workers : JobDone(w)
    <2>1. \E m \in {"SecureControlChannel", "CommandChannelReply"} : chan' = <<[msg |-> m]>>
      BY <1>3 DEF SendUpgrade, JobDone, Send
    <2>2. ~Reported(AuthMessages)'
      BY <2>1 DEF Reported, AuthMessages
    <2> QED  BY <1>1, <1>3, <2>2 DEF SendUpgrade, JobDone
  <1>4. CASE \/ ConnectionClosed \/ Dropped \/ UNCHANGED vars
             \/ \E req \in Request : Buffer(req)
             \/ \E w \in Workers : Accept(w) \/ DataDone(w)
    <2>1. UNCHANGED <<config, session, task, chan>>
      BY <1>4 DEF ConnectionClosed, Exit, Dropped, vars, Buffer, Accept, DataDone
    <2> QED  BY <1>1, <2>1 DEF Reported
  <1> QED  BY <1>2, <1>3, <1>4 DEF WorkerStep

\* Where FTPS is required nobody is logged in over a plain connection.
THEOREM Encrypted == Spec => []LoginEncrypted
  <1>1. Init => Plain
    BY DEF Init, Plain, IdleTask, Reported
  <1>2. Inv /\ Plain /\ [Next]_vars => Plain'
    BY StepCases, PlainCommand, PlainTask, PlainOther DEF Step
  <1>3. Inv /\ Plain => LoginEncrypted
    <2> SUFFICES ASSUME Inv, Plain, Active # {}, ~session.cmd_tls, config.control # "None"
                 PROVE  config.control = "Accounts" /\ Active = {Anonymous}
      BY DEF LoginEncrypted
    <2>1. session.state = "WaitCmd" /\ Active = {session.user}
      BY DEF Active
    <2>2. session.user # NoUser
      BY <2>1 DEF Inv, Facts, UserEntered
    <2>3. config.control \in {"Accounts", "All"}
      BY LoginAssumption DEF Inv, RestOK, ConfigRecord, Required
    <2> QED  BY <2>1, <2>2, <2>3 DEF Plain
  <1> QED  BY <1>1, <1>2, <1>3, InitInv, StepInv, PTL DEF Spec

LEMMA ConfinedStep ==
  ASSUME Inv, Confined, Step
  PROVE  Confined'
  <1>s. session \in SessionRecord /\ worker \in [Workers -> WorkerRecord]
    BY DEF Inv, RestOK
  <1>1. ASSUME session'.root = session.root, session'.user = session.user, worker' = worker
        PROVE  Confined'
    BY <1>1 DEF Confined, WorkersConfined
  <1>2. ASSUME StorageIsOurs, worker' = worker, session'.root = session'.user
        PROVE  Confined'
    BY <1>2 DEF Confined, WorkersConfined, StorageIsOurs
  <1>3. ASSUME session' = session, NEW w \in Workers, NEW r,
               worker' = [worker EXCEPT ![w] = r],
               r.pc \in {"data", "job"} => r.user = session.user
        PROVE  Confined'
    BY <1>s, <1>3 DEF Confined, WorkersConfined
  <1>w. \A pc : Working(pc).user = session.user /\ IdleWorker.pc = "idle"
    BY DEF Working, IdleWorker
  <1>4. ASSUME NEW req \in Request, Command(req) PROVE Confined'
    <2>1. CASE UserByCert(req)
      <3>1. worker' = worker
        BY <2>1 DEF UserByCert
      <3>2. session' = session \/ (StorageIsOurs /\ session'.root = session'.user)
        <4>1. \/ session' = session
              \/ /\ StorageIsOurs
                 /\ session' = [session EXCEPT !.username = req.user, !.state = "WaitCmd",
                                               !.user = req.user, !.root = req.user]
          BY <2>1 DEF UserByCert
        <4>2. ASSUME session' = [session EXCEPT !.username = req.user, !.state = "WaitCmd",
                                                !.user = req.user, !.root = req.user]
              PROVE  session'.root = req.user /\ session'.user = req.user
          BY <1>s, <4>2 DEF SessionRecord
        <4> QED  BY <4>1, <4>2
      <3> QED  BY <1>1, <1>2, <3>1, <3>2
    <2>2. CASE UserNeedsPassword(req) \/ Prot(req)
      <3>1. worker' = worker /\ session'.root = session.root /\ session'.user = session.user
        BY <2>2, <1>s DEF UserNeedsPassword, Prot, SessionRecord
      <3> QED  BY <1>1, <3>1
    <2>3. CASE Dele(req)
      BY <2>3, <1>3, <1>w DEF Dele, Assign
    <2>4. CASE Port(req)
      BY <2>4, <1>3, <1>w DEF Port, Assign
    <2>5. CASE Pasv(req)
      <3>1. PICK w \in Workers : worker' = [worker EXCEPT ![w].pc = "accept"]
        BY <2>5 DEF Pasv
      <3>2. session' = session
        BY <2>5 DEF Pasv
      <3>3. [worker[w] EXCEPT !.pc = "accept"].pc = "accept"
        BY <1>s DEF WorkerRecord
      <3>4. worker' = [worker EXCEPT ![w] = [worker[w] EXCEPT !.pc = "accept"]]
        BY <3>1
      <3> QED  BY <1>3, <3>2, <3>3, <3>4
    <2>6. CASE \/ Refused(req) \/ ChainError(req) \/ UserOutOfOrder(req) \/ PassOutOfOrder(req)
               \/ PassSpawns(req) \/ AuthTls(req) \/ Quit(req)
      <3>1. UNCHANGED <<session, worker>>
        BY <2>6 DEF Refused, ChainError, UserOutOfOrder, PassOutOfOrder, PassSpawns, AuthTls, Quit
      <3> QED  BY <1>1, <3>1
    <2> QED  BY <1>4, <2>1, <2>2, <2>3, <2>4, <2>5, <2>6 DEF Command
  <1>5. CASE TakeMessage
    <2>1. worker' = worker
      BY <1>5 DEF TakeMessage, AuthSuccess, AuthFailed, CommandChannelReply, ExitControlLoop,
            Exit, SecureControlChannel
    <2>2. session'.root = session.root /\ session'.user = session.user
      BY <1>5, <1>s DEF TakeMessage, AuthSuccess, AuthFailed, CommandChannelReply, ExitControlLoop,
            Exit, SecureControlChannel, SessionRecord
    <2> QED  BY <1>1, <2>1, <2>2
  <1>6. ASSUME NEW t \in AuthTasks, TaskStep(t) PROVE Confined'
    <2>1. worker' = worker
      BY <1>6 DEF TaskStep, Authenticate, EnterSession, Report
    <2>2. session' = session \/ (StorageIsOurs /\ session'.root = session'.user)
      BY <1>6, <1>s DEF TaskStep, Authenticate, EnterSession, Report, Enter, SessionRecord
    <2> QED  BY <1>1, <1>2, <2>1, <2>2
  <1>7. ASSUME NEW w \in Workers, WorkerStep(w) PROVE Confined'
    <2>1. session' = session /\ \E r \in {Working("data"), IdleWorker} : worker' = [worker EXCEPT ![w] = r]
      BY <1>7 DEF WorkerStep, Accept, DataDone, JobDone
    <2> QED  BY <1>3, <1>w, <2>1
  <1>8. CASE \/ ConnectionClosed \/ Dropped \/ SendUpgrade \/ UNCHANGED vars
             \/ \E req \in Request : Buffer(req)
    <2>1. UNCHANGED <<session, worker>>
      BY <1>8 DEF ConnectionClosed, Exit, Dropped, SendUpgrade, vars, Buffer
    <2> QED  BY <1>1, <2>1
  <1> QED  BY <1>4, <1>5, <1>6, <1>7, <1>8 DEF Step

\* A task works on the storage as it was entered for its own user.
THEOREM WorkersKeepUser == Spec => []WorkersConfined
  <1>1. Init => Confined
    BY DEF Init, Confined, WorkersConfined, IdleWorker
  <1>2. Inv /\ Confined /\ [Next]_vars => Confined'
    BY StepCases, ConfinedStep
  <1>3. Confined => WorkersConfined
    BY DEF Confined
  <1> QED  BY <1>1, <1>2, <1>3, InitInv, StepInv, PTL DEF Spec

-----------------------------------------------------------------------------
(* What is in the buffer when the connection becomes encrypted.            *)

\* Only the upgrade changes cmd_tls, and it empties the buffer.
LEMMA UpgradeOnly ==
  ASSUME Inv, Step
  PROVE  session'.cmd_tls = session.cmd_tls \/ buf' = <<>>
  <1>s. session \in SessionRecord
    BY DEF Inv, RestOK
  <1>1. ASSUME NEW req \in Request, Command(req) PROVE session'.cmd_tls = session.cmd_tls
    <2>1. CASE UserByCert(req)
      <3>1. \/ session' = session
            \/ session' = [session EXCEPT !.username = req.user, !.state = "WaitCmd",
                                          !.user = req.user, !.root = req.user]
        BY <2>1 DEF UserByCert
      <3> QED  BY <1>s, <3>1 DEF SessionRecord
    <2>2. CASE UserNeedsPassword(req) \/ Prot(req)
      BY <2>2, <1>s DEF UserNeedsPassword, Prot, SessionRecord
    <2>3. CASE \/ Refused(req) \/ ChainError(req) \/ UserOutOfOrder(req) \/ PassOutOfOrder(req)
               \/ PassSpawns(req) \/ AuthTls(req) \/ Quit(req) \/ Dele(req) \/ Port(req) \/ Pasv(req)
      BY <2>3 DEF Refused, ChainError, UserOutOfOrder, PassOutOfOrder, PassSpawns, AuthTls, Quit,
            Dele, Port, Pasv
    <2> QED  BY <1>1, <2>1, <2>2, <2>3 DEF Command
  <1>2. ASSUME TakeMessage PROVE session'.cmd_tls = session.cmd_tls \/ buf' = <<>>
    BY <1>2, <1>s DEF TakeMessage, AuthSuccess, AuthFailed, CommandChannelReply, ExitControlLoop,
          Exit, SecureControlChannel, SessionRecord
  <1>3. ASSUME NEW t \in AuthTasks, TaskStep(t) PROVE session'.cmd_tls = session.cmd_tls
    BY <1>3, <1>s DEF TaskStep, Authenticate, EnterSession, Report, Enter, SessionRecord
  <1>4. ASSUME NEW w \in Workers, WorkerStep(w) PROVE session' = session
    BY <1>4 DEF WorkerStep, Accept, DataDone, JobDone
  <1>5. (ConnectionClosed \/ Dropped \/ SendUpgrade \/ UNCHANGED vars) => session' = session
    BY DEF ConnectionClosed, Exit, Dropped, SendUpgrade, vars
  <1>6. ASSUME NEW req \in Request, Buffer(req) PROVE session' = session
    BY <1>6 DEF Buffer
  <1> QED  BY <1>1, <1>2, <1>3, <1>4, <1>5, <1>6 DEF Step

\* No command sent in the clear is handled on an encrypted connection.
THEOREM NotInjected == Spec => []NothingInjected
  <1>1. Init => NothingInjected
    BY DEF Init, NothingInjected
  <1>2. ASSUME Inv, NothingInjected, [Next]_vars PROVE NothingInjected'
    <2> DEFINE B == [req : Request, tls : BOOLEAN]
    <2>0. buf \in Seq(B)
      BY <1>2 DEF Inv, BufOK
    <2>1. session'.cmd_tls = session.cmd_tls \/ buf' = <<>>
      BY <1>2, StepCases, UpgradeOnly
    <2>2. CASE buf' = <<>>
      BY <2>2 DEF NothingInjected
    <2>3. CASE session'.cmd_tls = session.cmd_tls /\ buf' = buf
      BY <1>2, <2>3 DEF NothingInjected
    <2>4. CASE session'.cmd_tls = session.cmd_tls /\ buf # <<>> /\ buf' = Tail(buf)
      <3> HIDE DEF B
      <3>1. Len(buf') = Len(buf) - 1 /\ \A i \in 1..Len(buf') : i + 1 \in 1..Len(buf) /\ buf'[i] = buf[i + 1]
        BY <2>0, <2>4
      <3> QED  BY <1>2, <2>4, <3>1 DEF NothingInjected
    <2>5. ASSUME NEW r \in B, r.tls = session.cmd_tls, buf' = Append(buf, r),
                 session'.cmd_tls = session.cmd_tls
          PROVE  NothingInjected'
      <3> HIDE DEF B
      <3>1. \A i \in 1..Len(buf') : (i \in 1..Len(buf) /\ buf'[i] = buf[i]) \/ buf'[i] = r
        BY <2>0, <2>5
      <3> QED  BY <1>2, <2>5, <3>1 DEF NothingInjected
    <2>6. \A req \in Requests[config] :
            /\ [req |-> req, tls |-> session.cmd_tls] \in B
            /\ [req |-> req, tls |-> session.cmd_tls].tls = session.cmd_tls
      BY <1>2, LoginAssumption DEF Inv, RestOK, SessionRecord
    <2> HIDE DEF B
    <2> QED  BY <1>2, <2>1, <2>2, <2>3, <2>4, <2>5, <2>6, BufferChanges
  <1> QED  BY <1>1, <1>2, InitInv, StepInv, PTL DEF Spec
=============================================================================
