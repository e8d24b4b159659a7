------------------------------ MODULE Session ------------------------------
(***************************************************************************)
(* The state that the tasks of one FTP session share: the Session record   *)
(* behind its mutex, the channel to the control loop, and the channel      *)
(* pairs between control loop and data connections.  DataChan and          *)
(* ControlChan add the actions of the tasks.                               *)
(*                                                                         *)
(* The session is a logged-in one (state = WaitCmd), without FTPS          *)
(* enforcement and without the proxy protocol.                             *)
(***************************************************************************)
EXTENDS Integers, Sequences, FiniteSets

CONSTANTS
  Conns,          \* data connections, each with the channel pair made for it
  NoConn,         \* None where a channel end is expected
  Jobs,           \* storage tasks that may run at once (bound)
  Dirs, Root,     \* working directories
  TlsConfigured,  \* ftps_config is On: PROT may turn TLS on for data
  Commands,       \* the commands the client sends
  Pipelining,     \* the client sends commands without waiting for replies
  AfterQuit,      \* the client may send commands after QUIT, before it sees the end
  MaxOwed         \* bound: commands without a final reply

VARIABLES
  session,        \* the Session record
  lockq,          \* the session mutex: holder, then the tasks waiting for it
  chan,           \* the control_msg channel
  loop,           \* the control loop task
  jobs,           \* tasks spawned by DELE, MKD, SIZE, MDTM, MD5 and STAT
  conn,           \* the task of a data connection: acceptor, then executor
  pipe,           \* data_cmd and data_abort channel of a pair
  owed            \* commands the client has not had a final reply to

vars == <<session, lockq, chan, loop, jobs, conn, pipe, owed>>

-----------------------------------------------------------------------------
DataCommands == {"RETR", "STOR", "STOU", "LIST", "NLST"}
JobCommands  == {"DELE", "MKD", "SIZE", "MDTM", "MD5", "STAT"}
OtherCommands == {"PASV", "PORT", "ABOR", "CWD", "CDUP", "RMD", "RNFR", "RNTO",
                  "REST", "PROT", "QUIT"}
AllCommands == DataCommands \union JobCommands \union OtherCommands

ASSUME SessionAssumption ==
  /\ Commands \subseteq AllCommands
  /\ NoConn \notin Conns
  /\ "ctl" \notin Conns
  /\ IsFiniteSet(Conns) /\ IsFiniteSet(Jobs)
  /\ Root \in Dirs
  /\ TlsConfigured \in BOOLEAN
  /\ Pipelining \in BOOLEAN /\ AfterQuit \in BOOLEAN
  /\ MaxOwed \in Nat

\* The messages the modelled tasks send to the control loop (ControlChanMsg).
Transferred == {"SentData", "WrittenData"}
Messages == Transferred \union
  {"DirectorySuccessfullyListed", "StorageError", "CwdSuccess", "RmDirSuccess",
   "RenameSuccess", "DelFileSuccess", "MkDirSuccess", "CommandChannelReply",
   "ExitControlLoop"}

\* What a task reports when the storage back-end did what the command asked.
Success(cmd) ==
  CASE cmd = "RETR" -> "SentData"
    [] cmd \in {"STOR", "STOU"} -> "WrittenData"
    [] cmd \in {"LIST", "NLST"} -> "DirectorySuccessfullyListed"
    [] cmd = "CWD" -> "CwdSuccess"
    [] cmd = "RMD" -> "RmDirSuccess"
    [] cmd = "RNTO" -> "RenameSuccess"
    [] cmd = "DELE" -> "DelFileSuccess"
    [] cmd = "MKD" -> "MkDirSuccess"
    [] OTHER -> "CommandChannelReply"

-----------------------------------------------------------------------------
(* tokio::sync::Mutex hands the lock to its waiters in the order they came. *)

Holds(p) == lockq # <<>> /\ Head(lockq) = p
Lock(p) == lockq' = Append(lockq, p)
Unlock == lockq' = Tail(lockq)
Relock(p) == lockq' = Append(Tail(lockq), p)

\* mpsc: a send waits for room, and fails at once when the receiver is gone.
ChanCapacity == 1
CanSend == Len(chan) < ChanCapacity \/ loop.pc = "exit"
Send(msg) == chan' = IF loop.pc = "exit" THEN chan ELSE Append(chan, msg)

-----------------------------------------------------------------------------
EmptyPipe == [cmd |-> "none", abort |-> FALSE]
FreeConn == [pc |-> "free", ch |-> NoConn, cmd |-> "none", msg |-> "none",
             cwd |-> Root, tls |-> FALSE]

\* Session::new(), once the user has logged in.
InitSession ==
  [data_cmd_tx |-> NoConn, data_abort_tx |-> NoConn, data_rx |-> NoConn,
   cwd |-> Root, rename_from |-> FALSE, start_pos |-> 0,
   data_tls |-> FALSE, data_busy |-> FALSE]

Init ==
  /\ session = InitSession
  /\ lockq = <<>>
  /\ chan = <<>>
  /\ loop = [pc |-> "select", ev |-> "none"]
  /\ jobs = [j \in Jobs |-> "none"]
  /\ conn = [c \in Conns |-> FreeConn]
  /\ pipe = [c \in Conns |-> EmptyPipe]
  /\ owed = 0

\* A pair that neither the session nor an executor refers to any more.
Unused(c) ==
  /\ conn[c].pc = "free"
  /\ c \notin {session.data_cmd_tx, session.data_abort_tx, session.data_rx}
  /\ \A d \in Conns : conn[d].ch # c

SessionTasks == Conns \union {"ctl"}
ChannelEnd == Conns \union {NoConn}
SessionRecord ==
  [data_cmd_tx : ChannelEnd, data_abort_tx : ChannelEnd, data_rx : ChannelEnd,
   cwd : Dirs, rename_from : BOOLEAN, start_pos : {0, 1},
   data_tls : BOOLEAN, data_busy : BOOLEAN]
LoopRecord ==
  [pc : {"select", "lock", "port", "idle", "exit"},
   ev : AllCommands \union Messages \union {"none"}]
    \union [pc : {"send"}, ev : Messages]
ConnStates == {"free", "accept", "port", "spawn", "select", "cmd", "transfer", "send", "fin",
               "panic"}
ConnFields(pcs, ends, msgs) ==
  [pc : pcs, ch : ends, cmd : DataCommands \union {"none"}, msg : msgs,
   cwd : Dirs, tls : BOOLEAN]
\* An executor that waits has a channel to wait on, one that sends a message to send.
ConnRecord ==
  UNION {ConnFields(ConnStates \ {"select", "send"}, ChannelEnd, Messages \union {"none"}),
         ConnFields({"select"}, Conns, Messages \union {"none"}),
         ConnFields({"send"}, ChannelEnd, Messages)}
PipeRecord == [cmd : DataCommands \union {"none"}, abort : BOOLEAN]

(***************************************************************************)
(* The values the variables take; the channel never exceeds its capacity.  *)
(***************************************************************************)
TypeOK ==
  /\ session \in SessionRecord
  /\ lockq \in Seq(SessionTasks)
  /\ chan \in Seq(Messages) /\ Len(chan) <= ChanCapacity
  /\ loop \in LoopRecord
  /\ jobs \in [Jobs -> JobCommands \union {"none"}]
  /\ conn \in [Conns -> ConnRecord]
  /\ pipe \in [Conns -> PipeRecord]
  /\ owed \in Int
=============================================================================
