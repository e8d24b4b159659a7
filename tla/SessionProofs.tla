--------------------------- MODULE SessionProofs ---------------------------
(***************************************************************************)
(* Proofs about a session for any number of data connections, storage      *)
(* tasks and pipelined commands.                                           *)
(*                                                                         *)
(* Everything rests on the discipline of the session mutex: whoever acts   *)
(* under the lock is at the head of its queue (LockInv).  Type correctness *)
(* needs it too: a task only leaves a queue it is in.  The second half     *)
(* counts: no step adds more to the replies that are still to come than to *)
(* what the client is owed.                                                *)
(***************************************************************************)
EXTENDS ControlChan, FiniteSetTheorems, TLAPS

\* The control loop is in a handler that sends with the session locked.
SendsLocked == loop.pc = "send" /\ loop.ev # "ExitControlLoop"

LockInv ==
  /\ \A c \in Conns : Transferring(c) => Holds(c)
  /\ SendsLocked => Holds("ctl")

Inv == TypeOK /\ LockInv

\* Initially nobody runs.
LEMMA InitInv == Init => Inv
  <1> SUFFICES ASSUME Init PROVE Inv
    OBVIOUS
  <1> USE SessionAssumption DEF Init
  <1>1. TypeOK
    BY DEF TypeOK, InitSession, FreeConn, EmptyPipe, ChanCapacity, SessionRecord,
           ChannelEnd, LoopRecord, ConnRecord, ConnFields, ConnStates, PipeRecord
  <1>2. LockInv
    BY DEF LockInv, Transferring, SendsLocked, FreeConn
  <1> QED  BY <1>1, <1>2 DEF Inv

-----------------------------------------------------------------------------
(* The queue of the mutex.                                                 *)

\* What the operations on the queue do to its type and to its head.
LEMMA QueueFacts ==
  ASSUME NEW S, NEW q \in Seq(S), NEW p \in S
  PROVE  /\ Append(q, p) \in Seq(S)
         /\ q # <<>> => Append(q, p) # <<>> /\ Head(Append(q, p)) = Head(q)
         /\ q # <<>> => Tail(q) \in Seq(S) /\ Append(Tail(q), p) \in Seq(S)
  OBVIOUS

\* A step that leaves the head of the queue alone and starts nothing that needs
\* the lock without having it preserves the lock discipline.
LEMMA HeadKept ==
  ASSUME Inv, lockq' = lockq \/ \E p \in SessionTasks : Lock(p),
         \A c \in Conns : Transferring(c)' => Transferring(c) \/ Holds(c),
         SendsLocked' => SendsLocked \/ Holds("ctl")
  PROVE  LockInv' /\ lockq' \in Seq(SessionTasks)
  <1>1. \A p : Holds(p) => Holds(p)'
    <2>1. CASE lockq' = lockq
      BY <2>1 DEF Holds
    <2>2. ASSUME NEW r \in SessionTasks, Lock(r) PROVE \A p : Holds(p) => Holds(p)'
      <3>1. lockq # <<>> => lockq' # <<>> /\ Head(lockq') = Head(lockq)
        BY <2>2, QueueFacts DEF Inv, TypeOK, Lock
      <3> QED  BY <3>1 DEF Holds
    <2> QED  BY <2>1, <2>2
  <1>2. lockq' \in Seq(SessionTasks)
    BY QueueFacts DEF Inv, TypeOK, Lock
  <1> QED  BY <1>1, <1>2 DEF Inv, LockInv

\* A step by which the holder p of the lock leaves the head of the queue, and
\* goes on without the lock, preserves the lock discipline.
LEMMA HeadLeaves ==
  ASSUME Inv, NEW p \in SessionTasks, Holds(p), Unlock \/ Relock(p),
         \A c \in Conns : Transferring(c)' => Transferring(c) /\ c # p,
         SendsLocked' => SendsLocked /\ p # "ctl"
  PROVE  LockInv' /\ lockq' \in Seq(SessionTasks)
  <1>1. \A c \in Conns : ~Transferring(c)'
    BY DEF Inv, LockInv, Holds
  <1>2. ~SendsLocked'
    BY DEF Inv, LockInv, Holds
  <1>3. lockq' \in Seq(SessionTasks)
    <2>1. lockq # <<>> /\ lockq \in Seq(SessionTasks)
      BY DEF Inv, TypeOK, Holds
    <2>2. Tail(lockq) \in Seq(SessionTasks) /\ Append(Tail(lockq), p) \in Seq(SessionTasks)
      BY <2>1, QueueFacts
    <2> QED  BY <2>2 DEF Unlock, Relock
  <1> QED  BY <1>1, <1>2, <1>3 DEF LockInv

\* The same for the return of a handler of the control loop.
LEMMA HandlerReturns ==
  ASSUME Inv, Holds("ctl"), Reply \/ NoReply,
         \A c \in Conns : Transferring(c)' => Transferring(c)
  PROVE  /\ LockInv' /\ lockq' \in Seq(SessionTasks)
         /\ loop' \in LoopRecord /\ owed' \in Int
  <1>1. Unlock /\ loop' = [pc |-> "select", ev |-> "none"]
    BY DEF Reply, NoReply, Select
  <1>2. ~SendsLocked'
    BY <1>1 DEF SendsLocked
  <1>3. LockInv' /\ lockq' \in Seq(SessionTasks)
    BY <1>1, <1>2, HeadLeaves, SessionAssumption DEF SessionTasks
  <1>4. owed' \in Int
    BY DEF Reply, NoReply, Inv, TypeOK
  <1> QED  BY <1>1, <1>3, <1>4 DEF LoopRecord

\* A task sends a message when there is room.
LEMMA SendKeepsCapacity ==
  ASSUME TypeOK, CanSend, NEW msg \in Messages, Send(msg)
  PROVE  chan' \in Seq(Messages) /\ Len(chan') <= ChanCapacity
  BY DEF TypeOK, CanSend, Send, ChanCapacity

\* Every success report is a message of the control loop.
LEMMA SuccessIsMessage == \A cmd : Success(cmd) \in Messages
  BY DEF Success, Messages, Transferred

\* A data connection's task moves to another state.
LEMMA MoveConn ==
  ASSUME TypeOK, NEW c \in Conns, NEW pc \in ConnStates \ {"select", "send"},
         conn' = [conn EXCEPT ![c].pc = pc]
  PROVE  /\ conn' \in [Conns -> ConnRecord]
         /\ conn'[c].pc = pc
         /\ \A d \in Conns \ {c} : conn'[d] = conn[d]
  <1>0. conn[c] \in ConnFields(ConnStates, ChannelEnd, Messages \union {"none"})
    BY DEF TypeOK, ConnRecord, ConnFields, ConnStates, ChannelEnd
  <1>1. [conn[c] EXCEPT !.pc = pc] \in ConnRecord /\ [conn[c] EXCEPT !.pc = pc].pc = pc
    BY <1>0 DEF ConnRecord, ConnFields
  <1>2. conn' = [conn EXCEPT ![c] = [conn[c] EXCEPT !.pc = pc]]
    OBVIOUS
  <1> QED  BY <1>1, <1>2 DEF TypeOK

-----------------------------------------------------------------------------
(* The events of the control loop.                                         *)

\* Whatever event the select! takes, the invariant is preserved.
LEMMA LoopEvents ==
  ASSUME Inv,
         \/ \E cmd \in Commands : Receive(cmd)
         \/ TakeMessage \/ TakeExit \/ LoseClient \/ IdleTimeout \/ IdleCheck
  PROVE  Inv'
  <1> USE SessionAssumption
  <1>a. \A c \in Conns : UNCHANGED conn => (Transferring(c)' <=> Transferring(c))
    BY DEF Transferring
  <1>b. "ctl" \in SessionTasks
    BY DEF SessionTasks
  <1>c. Exit => loop' \in LoopRecord /\ chan' \in Seq(Messages) /\ Len(chan') <= ChanCapacity
                /\ ~SendsLocked'
    BY DEF Exit, LoopRecord, ChanCapacity, SendsLocked
  <1>1. ASSUME NEW cmd \in Commands, Receive(cmd) PROVE Inv'
    <2>1. UNCHANGED <<session, chan, jobs, conn, pipe>> /\ owed' \in Int
      BY <1>1 DEF Receive, Inv, TypeOK
    <2>2. loop' \in LoopRecord /\ ~SendsLocked'
      BY <1>1 DEF Receive, LoopRecord, SendsLocked, Messages
    <2>3. lockq' = lockq \/ Lock("ctl")
      BY <1>1 DEF Receive
    <2>4. LockInv' /\ lockq' \in Seq(SessionTasks)
      BY <2>1, <2>2, <2>3, <1>a, <1>b, HeadKept
    <2> QED  BY <2>1, <2>2, <2>4 DEF Inv, TypeOK
  <1>2. CASE TakeMessage
    <2>1. UNCHANGED <<session, jobs, conn, pipe>> /\ owed' \in Int
      BY <1>2 DEF TakeMessage, Inv, TypeOK
    <2>2. chan' \in Seq(Messages) /\ Len(chan') <= ChanCapacity /\ Head(chan) \in Messages
      BY <1>2 DEF TakeMessage, Inv, TypeOK, ChanCapacity
    <2>3. loop' \in LoopRecord /\ ~SendsLocked'
      BY <1>2, <2>2 DEF TakeMessage, LoopRecord, SendsLocked, Inv, TypeOK
    <2>4. lockq' = lockq \/ Lock("ctl")
      BY <1>2 DEF TakeMessage
    <2>5. LockInv' /\ lockq' \in Seq(SessionTasks)
      BY <2>1, <2>3, <2>4, <1>a, <1>b, HeadKept
    <2> QED  BY <2>1, <2>2, <2>3, <2>5 DEF Inv, TypeOK
  <1>3. CASE TakeExit \/ LoseClient
    <2>1. UNCHANGED <<session, lockq, jobs, conn, pipe, owed>> /\ Exit
      BY <1>3 DEF TakeExit, LoseClient
    <2>2. LockInv'
      BY <2>1, <1>a, <1>c, HeadKept
    <2> QED  BY <2>1, <2>2, <1>c DEF Inv, TypeOK
  <1>4. CASE IdleTimeout
    <2>1. UNCHANGED <<session, chan, jobs, conn, pipe, owed>> /\ Lock("ctl")
      BY <1>4 DEF IdleTimeout
    <2>2. loop' \in LoopRecord /\ ~SendsLocked'
      BY <1>4 DEF IdleTimeout, LoopRecord, SendsLocked
    <2>3. LockInv' /\ lockq' \in Seq(SessionTasks)
      BY <2>1, <2>2, <1>a, <1>b, HeadKept
    <2> QED  BY <2>1, <2>2, <2>3 DEF Inv, TypeOK
  <1>5. CASE IdleCheck
    <2>1. UNCHANGED <<session, jobs, conn, pipe, owed>> /\ Holds("ctl") /\ Unlock
      BY <1>5 DEF IdleCheck
    <2>2. Select => loop' \in LoopRecord /\ ~SendsLocked'
      BY DEF Select, LoopRecord, SendsLocked
    <2>3. Exit \/ (Select /\ UNCHANGED chan)
      BY <1>5 DEF IdleCheck
    <2>4. LockInv' /\ lockq' \in Seq(SessionTasks)
      BY <2>1, <2>2, <2>3, <1>a, <1>b, <1>c, HeadLeaves
    <2> QED  BY <2>1, <2>2, <2>3, <2>4, <1>c DEF Inv, TypeOK
  <1> QED  BY <1>1, <1>2, <1>3, <1>4, <1>5

-----------------------------------------------------------------------------
(* The handlers of the control loop.                                       *)

\* A handler that touches only the session and the pipes, and returns.
LEMMA SimpleHandler ==
  ASSUME Inv, Holds("ctl"), Reply \/ NoReply, UNCHANGED <<chan, conn>>,
         session' \in SessionRecord, pipe' \in [Conns -> PipeRecord],
         jobs' \in [Jobs -> JobCommands \union {"none"}]
  PROVE  Inv'
  <1>1. \A c \in Conns : Transferring(c)' => Transferring(c)
    BY DEF Transferring
  <1> QED  BY <1>1, HandlerReturns DEF Inv, TypeOK

\* setup_inter_loop_comms keeps the types.
LEMMA NewPairType ==
  ASSUME TypeOK, NEW c \in Conns, NewPair(c)
  PROVE  session' \in SessionRecord /\ pipe' \in [Conns -> PipeRecord]
  <1>1. session' \in SessionRecord
    BY DEF TypeOK, NewPair, SessionRecord, ChannelEnd
  <1>2. pipe' \in [Conns -> PipeRecord]
    BY DEF TypeOK, NewPair, PipeRecord, EmptyPipe
  <1> QED  BY <1>1, <1>2

\* spawn_processing keeps the types and starts no transfer.
LEMMA SpawnProcessingType ==
  ASSUME TypeOK, NEW c \in Conns, SpawnProcessing(c)
  PROVE  /\ session' \in SessionRecord
         /\ conn' \in [Conns -> ConnRecord]
         /\ \A d \in Conns : Transferring(d)' => Transferring(d) /\ d # c
  <1> USE SessionAssumption DEF TypeOK
  <1>f. FreeConn \in ConnRecord /\ FreeConn.pc = "free"
    BY DEF FreeConn, ConnRecord, ConnFields, ConnStates, ChannelEnd
  <1>1. ASSUME NEW r \in ConnRecord, r.pc \in {"free", "select"},
               conn' = [conn EXCEPT ![c] = r]
        PROVE  /\ conn' \in [Conns -> ConnRecord]
               /\ \A d \in Conns : Transferring(d)' => Transferring(d) /\ d # c
    BY <1>1 DEF Transferring
  <1>2. CASE conn' = [conn EXCEPT ![c] = FreeConn] /\ UNCHANGED session
    BY <1>1, <1>2, <1>f
  <1>3. CASE ~(conn' = [conn EXCEPT ![c] = FreeConn] /\ UNCHANGED session)
    <2>1. /\ conn' = [conn EXCEPT ![c] =
               [FreeConn EXCEPT !.pc = "select", !.ch = session.data_rx,
                                !.cwd = session.cwd, !.tls = session.data_tls]]
          /\ session' = [session EXCEPT !.data_rx = NoConn, !.data_busy = TRUE]
          /\ session.data_rx # NoConn
      BY <1>3 DEF SpawnProcessing
    <2>2. [FreeConn EXCEPT !.pc = "select", !.ch = session.data_rx,
                           !.cwd = session.cwd, !.tls = session.data_tls] \in ConnRecord
      BY <2>1 DEF FreeConn, ConnRecord, ConnFields, ConnStates, SessionRecord, ChannelEnd
    <2>3. [FreeConn EXCEPT !.pc = "select", !.ch = session.data_rx,
                           !.cwd = session.cwd, !.tls = session.data_tls].pc = "select"
      BY DEF FreeConn
    <2>4. session' \in SessionRecord
      BY <2>1 DEF SessionRecord, ChannelEnd
    <2> QED  BY <2>1, <2>2, <2>3, <2>4, <1>1
  <1> QED  BY <1>2, <1>3

\* The handlers that open a data connection.
LEMMA ConnectHandlers ==
  ASSUME Inv, Pasv \/ Port \/ PortSpawn
  PROVE  Inv'
  <1> USE SessionAssumption
  <1>p. ASSUME NEW c \in Conns, NEW pc \in {"accept", "port"}, Unused(c),
               conn' = [conn EXCEPT ![c].pc = pc]
        PROVE  /\ conn' \in [Conns -> ConnRecord]
               /\ \A d \in Conns : Transferring(d)' => Transferring(d)
    <2>1. /\ conn' \in [Conns -> ConnRecord] /\ conn'[c].pc = pc
          /\ \A d \in Conns \ {c} : conn'[d] = conn[d]
      BY <1>p, MoveConn DEF Inv, ConnStates
    <2> QED  BY <2>1 DEF Transferring
  <1>1. CASE Pasv
    <2>1. Holds("ctl") /\ Reply /\ UNCHANGED <<chan, jobs>>
      BY <1>1 DEF Pasv, Handling
    <2>2. CASE UNCHANGED <<session, pipe, conn>>
      BY <2>1, <2>2, SimpleHandler DEF Inv, TypeOK
    <2>3. ASSUME NEW c \in Conns, Unused(c), NewPair(c),
                 conn' = [conn EXCEPT ![c].pc = "accept"]
          PROVE  Inv'
      <3>1. session' \in SessionRecord /\ pipe' \in [Conns -> PipeRecord]
        BY <2>3, NewPairType DEF Inv
      <3>2. /\ conn' \in [Conns -> ConnRecord]
            /\ \A d \in Conns : Transferring(d)' => Transferring(d)
        BY <2>3, <1>p
      <3> QED  BY <2>1, <3>1, <3>2, HandlerReturns DEF Inv, TypeOK
    <2> QED  BY <1>1, <2>2, <2>3 DEF Pasv
  <1>2. CASE Port
    <2>1. Holds("ctl") /\ UNCHANGED <<chan, jobs>>
      BY <1>2 DEF Port, Handling
    <2>2. CASE Reply /\ UNCHANGED <<session, pipe, conn>>
      BY <2>1, <2>2, SimpleHandler DEF Inv, TypeOK
    <2>3. ASSUME NEW c \in Conns, Unused(c), NewPair(c),
                 conn' = [conn EXCEPT ![c].pc = "port"],
                 loop' = [pc |-> "port", ev |-> "PORT"], Relock("ctl"), UNCHANGED owed
          PROVE  Inv'
      <3>1. session' \in SessionRecord /\ pipe' \in [Conns -> PipeRecord]
        BY <2>3, NewPairType DEF Inv
      <3>2. /\ conn' \in [Conns -> ConnRecord]
            /\ \A d \in Conns : Transferring(d)' => Transferring(d)
        BY <2>3, <1>p
      <3>3. loop' \in LoopRecord /\ ~SendsLocked'
        BY <2>3 DEF LoopRecord, SendsLocked, AllCommands, OtherCommands
      <3>4. LockInv' /\ lockq' \in Seq(SessionTasks)
        BY <2>1, <2>3, <3>2, <3>3, HeadLeaves DEF SessionTasks
      <3> QED  BY <2>1, <2>3, <3>1, <3>2, <3>3, <3>4 DEF Inv, TypeOK
    <2> QED  BY <1>2, <2>2, <2>3 DEF Port
  <1>3. CASE PortSpawn
    <2>1. Holds("ctl") /\ Reply /\ UNCHANGED <<chan, jobs, pipe>>
      BY <1>3 DEF PortSpawn
    <2>2. PICK c \in Conns : SpawnProcessing(c)
      BY <1>3 DEF PortSpawn
    <2>3. /\ session' \in SessionRecord /\ conn' \in [Conns -> ConnRecord]
          /\ \A d \in Conns : Transferring(d)' => Transferring(d)
      BY <2>2, SpawnProcessingType DEF Inv
    <2> QED  BY <2>1, <2>3, HandlerReturns DEF Inv, TypeOK
  <1> QED  BY <1>1, <1>2, <1>3

\* The handlers that return to the select! at once.
LEMMA PlainHandlers ==
  ASSUME Inv,
         \/ TransferDone \/ Abor \/ Rest \/ Rnfr \/ Cdup \/ Prot
         \/ \E cmd \in DataCommands : DataCommand(cmd)
         \/ \E cmd \in JobCommands : SpawnTask(cmd) \/ RepliesAtOnce(cmd)
  PROVE  Inv'
  <1> USE SessionAssumption
  <1>t. /\ session \in SessionRecord /\ pipe \in [Conns -> PipeRecord]
        /\ jobs \in [Jobs -> JobCommands \union {"none"}]
    BY DEF Inv, TypeOK
  <1>1. CASE TransferDone \/ Rest \/ Rnfr \/ Cdup \/ Prot
    <2>1. Holds("ctl") /\ Reply /\ UNCHANGED <<chan, jobs, conn, pipe>>
      BY <1>1 DEF TransferDone, Rest, Rnfr, Cdup, Prot, Handling
    <2>2. session' \in SessionRecord
      <3>1. CASE TransferDone
        BY <3>1, <1>t DEF TransferDone, SessionRecord
      <3>2. CASE Rest
        BY <3>2, <1>t DEF Rest, SessionRecord
      <3>3. CASE Rnfr
        BY <3>3, <1>t DEF Rnfr, SessionRecord
      <3>4. CASE Cdup
        BY <3>4, <1>t DEF Cdup, SessionRecord
      <3>5. CASE Prot
        <4>1. \A tls \in BOOLEAN : [session EXCEPT !.data_tls = tls] \in SessionRecord
          BY <1>t DEF SessionRecord
        <4> QED  BY <3>5, <4>1, <1>t DEF Prot
      <3> QED  BY <1>1, <3>1, <3>2, <3>3, <3>4, <3>5
    <2> QED  BY <2>1, <2>2, <1>t, SimpleHandler
  <1>2. CASE Abor
    <2>1. Holds("ctl") /\ Reply /\ UNCHANGED <<chan, jobs, conn>>
      BY <1>2 DEF Abor, Handling
    <2>2. session' \in SessionRecord
      BY <1>2, <1>t DEF Abor, SessionRecord, ChannelEnd
    <2>3. pipe' \in [Conns -> PipeRecord]
      <3>1. session.data_abort_tx # NoConn => session.data_abort_tx \in Conns
        BY <1>t DEF SessionRecord, ChannelEnd
      <3>2. \A c \in Conns : [pipe EXCEPT ![c].abort = TRUE] \in [Conns -> PipeRecord]
        BY <1>t DEF PipeRecord
      <3> QED  BY <1>2, <1>t, <3>1, <3>2 DEF Abor
    <2> QED  BY <2>1, <2>2, <2>3, <1>t, SimpleHandler
  <1>3. ASSUME NEW cmd \in DataCommands, DataCommand(cmd) PROVE Inv'
    <2>1. Holds("ctl") /\ (Reply \/ NoReply) /\ UNCHANGED <<chan, jobs, conn>>
      BY <1>3 DEF DataCommand, Handling
    <2>2. session' \in SessionRecord
      BY <1>3, <1>t DEF DataCommand, SessionRecord, ChannelEnd
    <2>3. pipe' \in [Conns -> PipeRecord]
      <3>1. session.data_cmd_tx # NoConn => session.data_cmd_tx \in Conns
        BY <1>t DEF SessionRecord, ChannelEnd
      <3>2. \A c \in Conns : [pipe EXCEPT ![c].cmd = cmd] \in [Conns -> PipeRecord]
        BY <1>t DEF PipeRecord
      <3> QED  BY <1>3, <1>t, <3>1, <3>2 DEF DataCommand
    <2> QED  BY <2>1, <2>2, <2>3, <1>t, SimpleHandler
  <1>4. ASSUME NEW cmd \in JobCommands, SpawnTask(cmd) \/ RepliesAtOnce(cmd) PROVE Inv'
    <2>1. Holds("ctl") /\ (Reply \/ NoReply) /\ UNCHANGED <<session, chan, conn, pipe>>
      BY <1>4 DEF SpawnTask, RepliesAtOnce, Handling
    <2>2. jobs' \in [Jobs -> JobCommands \union {"none"}]
      BY <1>4, <1>t DEF SpawnTask, RepliesAtOnce
    <2> QED  BY <2>1, <2>2, <1>t, SimpleHandler
  <1> QED  BY <1>1, <1>2, <1>3, <1>4

\* The handlers that send to the control loop from within it.
LEMMA SendingHandlers ==
  ASSUME Inv, Cwd \/ Rmd \/ Rnto \/ SendResult \/ Quit
  PROVE  Inv'
  <1> USE SessionAssumption
  <1>a. \A c \in Conns : UNCHANGED conn => (Transferring(c)' <=> Transferring(c))
    BY DEF Transferring
  <1>s. \A cmd : SendFrom(cmd) => loop' \in LoopRecord
    BY SuccessIsMessage DEF SendFrom, LoopRecord, Messages
  <1>1. CASE Cwd \/ Rmd
    <2>1. UNCHANGED <<session, lockq, chan, jobs, conn, pipe, owed>> /\ Holds("ctl")
      BY <1>1 DEF Cwd, Rmd, Handling
    <2>2. loop' \in LoopRecord
      BY <1>1, <1>s DEF Cwd, Rmd
    <2>3. LockInv'
      BY <2>1, <1>a, HeadKept
    <2> QED  BY <2>1, <2>2, <2>3 DEF Inv, TypeOK
  <1>2. CASE Rnto
    <2>1. UNCHANGED <<chan, jobs, conn, pipe>> /\ Holds("ctl")
      BY <1>2 DEF Rnto, Handling
    <2>2. CASE session.rename_from
      <3>1. UNCHANGED <<lockq, owed>> /\ loop' \in LoopRecord
        BY <1>2, <2>2, <1>s DEF Rnto
      <3>2. session' \in SessionRecord
        <4>1. session' = [session EXCEPT !.rename_from = FALSE]
          BY <1>2, <2>2 DEF Rnto
        <4> QED  BY <4>1 DEF Inv, TypeOK, SessionRecord
      <3>3. LockInv'
        BY <2>1, <3>1, <1>a, HeadKept
      <3> QED  BY <2>1, <3>1, <3>2, <3>3 DEF Inv, TypeOK
    <2>3. CASE ~session.rename_from
      BY <1>2, <2>1, <2>3, SimpleHandler DEF Rnto, Inv, TypeOK
    <2> QED  BY <2>2, <2>3
  <1>3. CASE SendResult
    <2>1. Holds("ctl") /\ NoReply /\ UNCHANGED <<jobs, conn, pipe>>
      BY <1>3 DEF SendResult, Inv, LockInv, SendsLocked
    <2>2. session' \in SessionRecord
      <3>1. \A dir \in Dirs : [session EXCEPT !.cwd = dir] \in SessionRecord
        BY DEF Inv, TypeOK, SessionRecord
      <3> QED  BY <1>3, <3>1 DEF SendResult, Inv, TypeOK
    <2>3. chan' \in Seq(Messages) /\ Len(chan') <= ChanCapacity
      <3>1. loop.ev \in Messages
        BY <1>3 DEF SendResult, Inv, TypeOK, LoopRecord
      <3> QED  BY <1>3, <3>1, SendKeepsCapacity DEF SendResult, Inv
    <2>4. \A c \in Conns : Transferring(c)' => Transferring(c)
      BY <2>1, <1>a
    <2> QED  BY <2>1, <2>2, <2>3, <2>4, HandlerReturns DEF Inv, TypeOK
  <1>4. CASE Quit
    <2>1. UNCHANGED <<session, lockq, jobs, conn, pipe>> /\ owed' \in Int
      BY <1>4 DEF Quit, Inv, TypeOK
    <2>2. chan' \in Seq(Messages) /\ Len(chan') <= ChanCapacity
      BY <1>4, SendKeepsCapacity DEF Quit, Inv, Messages
    <2>3. loop' \in LoopRecord /\ ~SendsLocked'
      BY <1>4 DEF Quit, Select, LoopRecord, SendsLocked
    <2>4. LockInv'
      BY <2>1, <2>3, <1>a, HeadKept
    <2> QED  BY <2>1, <2>2, <2>3, <2>4 DEF Inv, TypeOK
  <1> QED  BY <1>1, <1>2, <1>3, <1>4

-----------------------------------------------------------------------------
(* The data connections and the storage tasks.                             *)

\* A data connection's task gets the record r, which is not that of a transfer.
LEMMA ReplaceConn ==
  ASSUME TypeOK, NEW c \in Conns, NEW r \in ConnRecord, conn' = [conn EXCEPT ![c] = r],
         r.pc \notin {"transfer", "send"}
  PROVE  /\ conn' \in [Conns -> ConnRecord]
         /\ \A d \in Conns : Transferring(d)' => Transferring(d) /\ d # c
  BY DEF TypeOK, Transferring

\* An executor that only has data_busy to clear.
LEMMA EndingType ==
  ASSUME TypeOK, NEW c \in Conns
  PROVE  /\ Ending(c) \in ConnRecord /\ Ending(c).pc = "fin"
         /\ Ending(c).msg = "none"
  <1>1. conn[c].ch \in ChannelEnd
    BY DEF TypeOK, ConnRecord, ConnFields, ChannelEnd
  <1> QED  BY <1>1, SessionAssumption
           DEF Ending, FreeConn, ConnRecord, ConnFields, ConnStates, ChannelEnd

\* From the open port to the executor's first event.
LEMMA BeforeTransfer ==
  ASSUME Inv, NEW c \in Conns,
         \/ Accept(c) \/ AcceptTimeout(c) \/ Spawn(c)
         \/ RecvCommand(c) \/ RecvAbort(c) \/ DataTimeout(c)
  PROVE  Inv'
  <1> USE SessionAssumption
  <1>a. c \in SessionTasks /\ c # "ctl" /\ (UNCHANGED loop => (SendsLocked' <=> SendsLocked))
    BY DEF SessionTasks, SendsLocked
  <1>b. TypeOK
    BY DEF Inv
  <1>f. FreeConn \in ConnRecord /\ FreeConn.pc = "free"
    BY DEF FreeConn, ConnRecord, ConnFields, ConnStates, ChannelEnd
  <1>1. CASE Accept(c) \/ DataTimeout(c)
    <2>1. UNCHANGED <<session, chan, loop, jobs, pipe, owed>> /\ Lock(c)
      BY <1>1 DEF Accept, DataTimeout
    <2>2. ASSUME Accept(c) PROVE conn' \in [Conns -> ConnRecord]
                                 /\ \A d \in Conns : Transferring(d)' => Transferring(d)
      <3>1. /\ conn' \in [Conns -> ConnRecord] /\ conn'[c].pc = "spawn"
            /\ \A d \in Conns \ {c} : conn'[d] = conn[d]
        BY <2>2, <1>b, MoveConn DEF Accept, ConnStates
      <3> QED  BY <3>1 DEF Transferring
    <2>3. ASSUME DataTimeout(c) PROVE conn' \in [Conns -> ConnRecord]
                                      /\ \A d \in Conns : Transferring(d)' => Transferring(d)
      BY <2>3, <1>b, EndingType, ReplaceConn DEF DataTimeout
    <2>4. /\ conn' \in [Conns -> ConnRecord]
          /\ \A d \in Conns : Transferring(d)' => Transferring(d)
      BY <1>1, <2>2, <2>3
    <2>5. LockInv' /\ lockq' \in Seq(SessionTasks)
      BY <2>1, <2>4, <1>a, HeadKept
    <2> QED  BY <2>1, <2>4, <2>5 DEF Inv, TypeOK
  <1>2. CASE AcceptTimeout(c)
    <2>1. UNCHANGED <<session, lockq, chan, loop, jobs, pipe, owed>>
      BY <1>2 DEF AcceptTimeout
    <2>2. /\ conn' \in [Conns -> ConnRecord]
          /\ \A d \in Conns : Transferring(d)' => Transferring(d)
      BY <1>2, <1>b, <1>f, ReplaceConn DEF AcceptTimeout
    <2>3. LockInv'
      BY <2>1, <2>2, <1>a, HeadKept
    <2> QED  BY <2>1, <2>2, <2>3 DEF Inv, TypeOK
  <1>3. CASE Spawn(c)
    <2>1. UNCHANGED <<chan, loop, jobs, pipe, owed>> /\ Holds(c) /\ Unlock
      BY <1>3 DEF Spawn
    <2>2. /\ session' \in SessionRecord /\ conn' \in [Conns -> ConnRecord]
          /\ \A d \in Conns : Transferring(d)' => Transferring(d) /\ d # c
      BY <1>3, <1>b, SpawnProcessingType DEF Spawn
    <2>3. LockInv' /\ lockq' \in Seq(SessionTasks)
      BY <2>1, <2>2, <1>a, HeadLeaves
    <2> QED  BY <2>1, <2>2, <2>3 DEF Inv, TypeOK
  <1>4. CASE RecvCommand(c) \/ RecvAbort(c)
    <2> DEFINE ch == conn[c].ch
    <2>1. UNCHANGED <<session, chan, loop, jobs, owed>> /\ Lock(c) /\ conn[c].pc = "select"
      BY <1>4 DEF RecvCommand, RecvAbort
    <2>2. ch \in Conns
      BY <2>1, <1>b DEF TypeOK, ConnRecord, ConnFields
    <2>3. pipe' \in [Conns -> PipeRecord]
      <3>1. [pipe EXCEPT ![ch].cmd = "none"] \in [Conns -> PipeRecord]
        BY <2>2, <1>b DEF TypeOK, PipeRecord
      <3>2. [pipe EXCEPT ![ch].abort = FALSE] \in [Conns -> PipeRecord]
        BY <2>2, <1>b DEF TypeOK, PipeRecord
      <3> QED  BY <1>4, <3>1, <3>2 DEF RecvCommand, RecvAbort
    <2> DEFINE Goal == /\ conn' \in [Conns -> ConnRecord]
                       /\ \A d \in Conns : Transferring(d)' => Transferring(d)
    <2>4. ASSUME RecvAbort(c) PROVE Goal
      BY <2>4, <1>b, EndingType, ReplaceConn DEF RecvAbort
    <2>5. ASSUME RecvCommand(c) PROVE Goal
      <3> DEFINE r == [conn[c] EXCEPT !.pc = "cmd", !.cmd = pipe[ch].cmd]
      <3>1. pipe[ch].cmd \in DataCommands \union {"none"}
        BY <2>2, <1>b DEF TypeOK, PipeRecord
      <3>2. conn[c] \in ConnFields({"select"}, Conns, Messages \union {"none"})
        BY <2>1, <1>b DEF TypeOK, ConnRecord, ConnFields
      <3>3. /\ r \in ConnFields({"cmd"}, Conns, Messages \union {"none"})
            /\ r.pc = "cmd"
        BY <3>1, <3>2 DEF ConnFields
      <3>4. r \in ConnRecord
        BY <3>3 DEF ConnRecord, ConnFields, ConnStates, ChannelEnd
      <3>5. conn' = [conn EXCEPT ![c] = r]
        BY <2>5, <3>2, <1>b DEF RecvCommand, TypeOK, ConnFields
      <3> HIDE DEF r
      <3> QED  BY <3>3, <3>4, <3>5, <1>b, ReplaceConn
    <2>6. /\ conn' \in [Conns -> ConnRecord]
          /\ \A d \in Conns : Transferring(d)' => Transferring(d)
      BY <1>4, <2>4, <2>5
    <2>7. LockInv' /\ lockq' \in Seq(SessionTasks)
      BY <2>1, <2>6, <1>a, HeadKept
    <2> QED  BY <2>1, <2>3, <2>6, <2>7 DEF Inv, TypeOK
  <1> QED  BY <1>1, <1>2, <1>3, <1>4

\* From the start of a transfer to the end of its executor.
LEMMA Transfer ==
  ASSUME Inv, NEW c \in Conns,
         \/ StartTransfer(c) \/ HandshakePanic(c) \/ exec_retr_stor(c)
         \/ exec_list_variant(c) \/ SendOutcome(c) \/ Finish(c)
  PROVE  Inv'
  <1> USE SessionAssumption
  <1>a. c \in SessionTasks /\ c # "ctl" /\ (UNCHANGED loop => (SendsLocked' <=> SendsLocked))
    BY DEF SessionTasks, SendsLocked
  <1>b. TypeOK
    BY DEF Inv
  <1>c. Transferring(c) => Holds(c)
    BY DEF Inv, LockInv
  <1>f. FreeConn \in ConnRecord /\ FreeConn.pc = "free"
    BY DEF FreeConn, ConnRecord, ConnFields, ConnStates, ChannelEnd
  <1>g. LET r == [FreeConn EXCEPT !.pc = "panic"] IN r \in ConnRecord /\ r.pc = "panic"
    BY DEF FreeConn, ConnRecord, ConnFields, ConnStates, ChannelEnd
  <1>r. ASSUME NEW msg \in Messages,
               conn' = [conn EXCEPT ![c].pc = "send", ![c].msg = msg],
               conn[c].pc = "transfer",
               UNCHANGED <<session, lockq, chan, loop, jobs, pipe, owed>>
        PROVE  Inv'
    <2> DEFINE r == [conn[c] EXCEPT !.pc = "send", !.msg = msg]
    <2>0. conn[c] \in ConnFields({"transfer"}, ChannelEnd, Messages \union {"none"})
      BY <1>r, <1>b DEF TypeOK, ConnRecord, ConnFields
    <2>1. conn' = [conn EXCEPT ![c] = r]
      BY <1>r, <1>b, <2>0 DEF TypeOK, ConnFields
    <2>2. r \in ConnFields({"send"}, ChannelEnd, Messages)
      BY <2>0 DEF ConnFields
    <2>3. /\ conn' \in [Conns -> ConnRecord]
          /\ \A d \in Conns : Transferring(d)' => Transferring(d)
      <3>1. r \in ConnRecord
        BY <2>2 DEF ConnRecord
      <3> HIDE DEF r
      <3> QED  BY <2>1, <3>1, <1>b, <1>r DEF TypeOK, Transferring
    <2>4. LockInv'
      BY <2>3, <1>r, <1>a, HeadKept
    <2> QED  BY <2>3, <2>4, <1>r DEF Inv, TypeOK
  <1>1. CASE StartTransfer(c)
    <2>1. UNCHANGED <<session, lockq, chan, loop, jobs, pipe, owed>> /\ Holds(c)
      BY <1>1 DEF StartTransfer
    <2>2. /\ conn' \in [Conns -> ConnRecord]
          /\ \A d \in Conns \ {c} : conn'[d] = conn[d]
      BY <1>1, <1>b, MoveConn DEF StartTransfer, ConnStates
    <2>3. \A d \in Conns : Transferring(d)' => Transferring(d) \/ Holds(d)
      BY <2>1, <2>2 DEF Transferring
    <2>4. LockInv'
      BY <2>1, <2>3, <1>a, HeadKept
    <2> QED  BY <2>1, <2>2, <2>4 DEF Inv, TypeOK
  <1>2. CASE exec_retr_stor(c)
    <2>1. /\ conn[c].pc = "transfer" /\ UNCHANGED <<session, lockq, chan, loop, jobs, pipe, owed>>
          /\ \E msg \in Messages : conn' = [conn EXCEPT ![c].pc = "send", ![c].msg = msg]
      BY <1>2, SuccessIsMessage DEF exec_retr_stor, Messages
    <2> QED  BY <2>1, <1>r
  <1>3. CASE exec_list_variant(c) /\ UNCHANGED lockq
    <2>1. conn[c].pc = "transfer" /\ UNCHANGED <<session, lockq, chan, loop, jobs, pipe, owed>>
      BY <1>3 DEF exec_list_variant
    <2>2. CASE \E msg \in Messages : conn' = [conn EXCEPT ![c].pc = "send", ![c].msg = msg]
      BY <2>1, <2>2, <1>r
    <2>3. CASE conn' = [conn EXCEPT ![c] = Ending(c)]
      <3>1. /\ conn' \in [Conns -> ConnRecord]
            /\ \A d \in Conns : Transferring(d)' => Transferring(d)
        BY <2>3, <1>b, EndingType, ReplaceConn
      <3>2. LockInv'
        BY <2>1, <3>1, <1>a, HeadKept
      <3> QED  BY <2>1, <3>1, <3>2 DEF Inv, TypeOK
    <2> QED  BY <1>3, <2>2, <2>3, SuccessIsMessage DEF exec_list_variant, Messages
  <1>4. CASE SendOutcome(c) \/ (exec_list_variant(c) /\ ~UNCHANGED lockq)
    <2>1. /\ Holds(c) /\ Relock(c) /\ UNCHANGED <<session, loop, jobs, pipe, owed>>
          /\ conn' = [conn EXCEPT ![c] = Ending(c)]
      BY <1>4, <1>c DEF SendOutcome, exec_list_variant, Transferring
    <2>2. chan' \in Seq(Messages) /\ Len(chan') <= ChanCapacity
      <3>1. CASE SendOutcome(c)
        <4>1. conn[c].msg \in Messages
          BY <3>1, <1>b DEF SendOutcome, TypeOK, ConnRecord, ConnFields
        <4> QED  BY <3>1, <4>1, <1>b, SendKeepsCapacity DEF SendOutcome
      <3> QED  BY <1>4, <3>1, <1>b DEF exec_list_variant, TypeOK
    <2>3. /\ conn' \in [Conns -> ConnRecord]
          /\ \A d \in Conns : Transferring(d)' => Transferring(d) /\ d # c
      BY <2>1, <1>b, EndingType, ReplaceConn
    <2>4. LockInv' /\ lockq' \in Seq(SessionTasks)
      BY <2>1, <2>3, <1>a, HeadLeaves
    <2> QED  BY <2>1, <2>2, <2>3, <2>4 DEF Inv, TypeOK
  <1>5. CASE HandshakePanic(c) \/ Finish(c)
    <2>1. /\ Holds(c) /\ Unlock /\ UNCHANGED <<chan, loop, jobs, pipe, owed>>
          /\ conn' \in {[conn EXCEPT ![c] = FreeConn],
                       [conn EXCEPT ![c] = [FreeConn EXCEPT !.pc = "panic"]]}
      BY <1>5, <1>c DEF HandshakePanic, Finish, Transferring
    <2>2. session' \in SessionRecord
      BY <1>5, <1>b DEF HandshakePanic, Finish, TypeOK, SessionRecord
    <2>3. /\ conn' \in [Conns -> ConnRecord]
          /\ \A d \in Conns : Transferring(d)' => Transferring(d) /\ d # c
      BY <2>1, <1>b, <1>f, <1>g, ReplaceConn
    <2>4. LockInv' /\ lockq' \in Seq(SessionTasks)
      BY <2>1, <2>3, <1>a, HeadLeaves
    <2> QED  BY <2>1, <2>2, <2>3, <2>4 DEF Inv, TypeOK
  <1> QED  BY <1>1, <1>2, <1>3, <1>4, <1>5

\* A storage task reports its outcome.
LEMMA StorageTask ==
  ASSUME Inv, NEW j \in Jobs, JobDone(j)
  PROVE  Inv'
  <1>1. UNCHANGED <<session, lockq, loop, conn, pipe, owed>>
    BY DEF JobDone
  <1>2. chan' \in Seq(Messages) /\ Len(chan') <= ChanCapacity
    <2>1. \E msg \in Messages : Send(msg)
      BY SuccessIsMessage DEF JobDone, Messages
    <2> QED  BY <2>1, SendKeepsCapacity DEF JobDone, Inv
  <1>3. jobs' \in [Jobs -> JobCommands \union {"none"}]
    BY DEF JobDone, Inv, TypeOK
  <1>4. LockInv'
    BY <1>1 DEF Inv, LockInv, Transferring, Holds, SendsLocked
  <1> QED  BY <1>1, <1>2, <1>3, <1>4 DEF Inv, TypeOK

-----------------------------------------------------------------------------
\* The invariant is inductive.
LEMMA NextInv == Inv /\ [Next]_vars => Inv'
  <1> SUFFICES ASSUME Inv, [Next]_vars PROVE Inv'
    OBVIOUS
  <1>1. CASE \/ \E cmd \in Commands : Receive(cmd)
             \/ TakeMessage \/ TakeExit \/ LoseClient \/ IdleTimeout \/ IdleCheck
    BY <1>1, LoopEvents
  <1>2. CASE Handler
    <2>1. CASE Pasv \/ Port \/ PortSpawn
      BY <2>1, ConnectHandlers
    <2>2. CASE Cwd \/ Rmd \/ Rnto \/ SendResult \/ Quit
      BY <2>2, SendingHandlers
    <2>3. CASE TransferDone \/ Abor \/ Rest \/ Rnfr \/ Cdup \/ Prot
      BY <2>3, PlainHandlers
    <2>4. CASE Retr \/ Stor \/ Stou \/ List \/ Nlst
      BY <2>4, PlainHandlers DEF Retr, Stor, Stou, List, Nlst, DataCommands
    <2>5. CASE Dele \/ Mkd \/ Size \/ Mdtm \/ Md5 \/ Stat
      BY <2>5, PlainHandlers DEF Dele, Mkd, Size, Mdtm, Md5, Stat, JobCommands
    <2> QED  BY <1>2, <2>1, <2>2, <2>3, <2>4, <2>5 DEF Handler
  <1>3. CASE \E j \in Jobs : JobDone(j)
    BY <1>3, StorageTask
  <1>4. CASE \E c \in Conns : DataStep(c) \/ DataEnv(c)
    BY <1>4, BeforeTransfer, Transfer DEF DataStep, DataEnv
  <1>5. CASE Over \/ UNCHANGED vars
    <2>1. UNCHANGED vars
      BY <1>5 DEF Over
    <2> QED  BY <2>1 DEF vars, Inv, TypeOK, LockInv, Transferring, Holds, SendsLocked
  <1> QED  BY <1>1, <1>2, <1>3, <1>4, <1>5 DEF Next

\* The invariant holds throughout.
LEMMA AlwaysInv == Spec => []Inv
  BY InitInv, NextInv, PTL DEF Spec

(***************************************************************************)
(* Type correctness: whatever the client pipelines, the control channel    *)
(* stays within its capacity and every executor that waits has a channel   *)
(* to wait on.                                                             *)
(***************************************************************************)
THEOREM TypeCorrect == Spec => []TypeOK
  <1>1. Inv => TypeOK
    BY DEF Inv
  <1> QED  BY <1>1, AlwaysInv, PTL

(***************************************************************************)
(* A session never runs two transfers at once, for any number of data      *)
(* connections: execute() holds the session lock during the whole transfer.*)
(***************************************************************************)
THEOREM OneTransfer == Spec => []AtMostOneTransfer
  <1>1. Inv => AtMostOneTransfer
    BY DEF Inv, LockInv, AtMostOneTransfer, Holds
  <1> QED  BY <1>1, AlwaysInv, PTL

-----------------------------------------------------------------------------
(* The owner of data_busy.                                                 *)

\* The tasks that answer for data_busy: executors, and those that panicked.
Owner(r) == r.pc \in Running \union {"panic"}
BusyInv == session.data_busy => \E c \in Conns : Owner(conn[c])

\* A step that leaves data_busy alone and ends no owner preserves the invariant.
LEMMA FlagKept ==
  ASSUME BusyInv, session'.data_busy = session.data_busy,
         \A c \in Conns : Owner(conn[c]) => Owner(conn'[c])
  PROVE  BusyInv'
  BY DEF BusyInv

\* A connection's task gets the record r, an owner's if it was one.
LEMMA MoveBusy ==
  ASSUME TypeOK, BusyInv, session'.data_busy = session.data_busy, NEW c \in Conns, NEW r,
         conn' = [conn EXCEPT ![c] = r], Owner(conn[c]) => Owner(r)
  PROVE  BusyInv'
  <1>1. \A d \in Conns : conn'[d] = IF d = c THEN r ELSE conn[d]
    BY DEF TypeOK
  <1> QED  BY <1>1, FlagKept

\* An executor starts in the place of a task that was not one.
LEMMA SpawnBusy ==
  ASSUME TypeOK, BusyInv, NEW c \in Conns, conn[c].pc \in {"port", "spawn"}, SpawnProcessing(c)
  PROVE  BusyInv'
  <1>1. CASE conn' = [conn EXCEPT ![c] = FreeConn] /\ UNCHANGED session
    <2>1. ~Owner(conn[c])
      BY DEF Owner, Running
    <2> QED  BY <1>1, <2>1, MoveBusy
  <1>2. CASE ~(conn' = [conn EXCEPT ![c] = FreeConn] /\ UNCHANGED session)
    <2> DEFINE r == [FreeConn EXCEPT !.pc = "select", !.ch = session.data_rx,
                                     !.cwd = session.cwd, !.tls = session.data_tls]
    <2>1. conn' = [conn EXCEPT ![c] = r]
      BY <1>2 DEF SpawnProcessing
    <2>2. r.pc = "select"
      BY DEF FreeConn
    <2> HIDE DEF r
    <2>3. conn'[c] = r
      BY <2>1 DEF TypeOK
    <2> QED  BY <2>2, <2>3 DEF BusyInv, Owner, Running
  <1> QED  BY <1>1, <1>2

\* The steps of the data connections.
LEMMA DataBusy ==
  ASSUME TypeOK, BusyInv, NEW c \in Conns, DataStep(c) \/ DataEnv(c)
  PROVE  BusyInv'
  <1>t. /\ conn \in [Conns -> ConnRecord]
        /\ conn[c] \in ConnFields(ConnStates, ChannelEnd, Messages \union {"none"})
    BY DEF TypeOK, ConnRecord, ConnFields, ConnStates, ChannelEnd
  <1>1. CASE Spawn(c)
    BY <1>1, SpawnBusy DEF Spawn
  <1>2. CASE AcceptTimeout(c)
    <2>1. UNCHANGED session /\ conn' = [conn EXCEPT ![c] = FreeConn] /\ ~Owner(conn[c])
      BY <1>2 DEF AcceptTimeout, Owner, Running
    <2> QED  BY <2>1, MoveBusy
  <1>3. ASSUME UNCHANGED session, conn' = [conn EXCEPT ![c] = Ending(c)] PROVE BusyInv'
    <2>1. Owner(Ending(c))
      BY EndingType DEF Owner, Running
    <2> QED  BY <1>3, <2>1, MoveBusy
  <1>4. CASE DataTimeout(c) \/ RecvAbort(c) \/ SendOutcome(c)
    BY <1>3, <1>4 DEF DataTimeout, RecvAbort, SendOutcome
  <1>5. CASE Accept(c) \/ StartTransfer(c)
    <2>1. PICK pc \in {"spawn", "transfer"} :
            conn' = [conn EXCEPT ![c].pc = pc] /\ (pc = "spawn" => conn[c].pc = "accept")
      BY <1>5 DEF Accept, StartTransfer
    <2> DEFINE r == [conn[c] EXCEPT !.pc = pc]
    <2>2. r.pc = pc
      BY <1>t DEF ConnFields
    <2>3. conn' = [conn EXCEPT ![c] = r] /\ UNCHANGED session
      BY <1>5, <2>1 DEF Accept, StartTransfer
    <2> HIDE DEF r
    <2> QED  BY <2>1, <2>2, <2>3, MoveBusy DEF Owner, Running
  <1>6. CASE RecvCommand(c)
    <2> DEFINE r == [conn[c] EXCEPT !.pc = "cmd", !.cmd = pipe[conn[c].ch].cmd]
    <2>1. r.pc = "cmd"
      BY <1>t DEF ConnFields
    <2>2. conn' = [conn EXCEPT ![c] = r] /\ UNCHANGED session
      BY <1>6, <1>t DEF RecvCommand, ConnFields
    <2> HIDE DEF r
    <2> QED  BY <2>1, <2>2, MoveBusy DEF Owner, Running
  <1>7. ASSUME NEW msg, conn' = [conn EXCEPT ![c].pc = "send", ![c].msg = msg], UNCHANGED session
        PROVE  BusyInv'
    <2> DEFINE r == [conn[c] EXCEPT !.pc = "send", !.msg = msg]
    <2>1. r.pc = "send"
      BY <1>t DEF ConnFields
    <2>2. conn' = [conn EXCEPT ![c] = r]
      BY <1>7, <1>t DEF ConnFields
    <2> HIDE DEF r
    <2> QED  BY <1>7, <2>1, <2>2, MoveBusy DEF Owner, Running
  <1>8. CASE HandshakePanic(c)
    <2> DEFINE r == [FreeConn EXCEPT !.pc = "panic"]
    <2>1. r.pc = "panic"
      BY DEF FreeConn
    <2>2. conn' = [conn EXCEPT ![c] = r] /\ UNCHANGED session
      BY <1>8 DEF HandshakePanic
    <2> HIDE DEF r
    <2> QED  BY <2>1, <2>2, MoveBusy DEF Owner
  <1>9. CASE Finish(c)
    <2>1. ~session'.data_busy
      BY <1>9 DEF Finish, TypeOK, SessionRecord
    <2> QED  BY <2>1 DEF BusyInv
  <1>10. CASE exec_retr_stor(c) \/ exec_list_variant(c)
    BY <1>10, <1>3, <1>7 DEF exec_retr_stor, exec_list_variant
  <1> QED  BY <1>1, <1>2, <1>4, <1>5, <1>6, <1>8, <1>9, <1>10 DEF DataStep, DataEnv

\* The handlers of the control loop.
LEMMA HandlerBusy ==
  ASSUME TypeOK, BusyInv, Handler
  PROVE  BusyInv'
  <1>k. ASSUME session'.data_busy = session.data_busy, UNCHANGED conn PROVE BusyInv'
    BY <1>k, FlagKept
  <1> USE DEF TypeOK, SessionRecord
  <1>p. ASSUME NEW c \in Conns, NewPair(c), Unused(c), NEW pc, conn' = [conn EXCEPT ![c].pc = pc]
        PROVE  BusyInv'
    <2>1. session'.data_busy = session.data_busy
      BY <1>p DEF NewPair
    <2>2. ~Owner(conn[c])
      BY <1>p DEF Unused, Owner, Running
    <2>3. conn' = [conn EXCEPT ![c] = [conn[c] EXCEPT !.pc = pc]]
      BY <1>p
    <2> QED  BY <2>1, <2>2, <2>3, MoveBusy
  <1>1. CASE Pasv
    BY <1>1, <1>k, <1>p DEF Pasv
  <1>2. CASE Port
    BY <1>2, <1>k, <1>p DEF Port
  <1>3. CASE PortSpawn
    BY <1>3, SpawnBusy DEF PortSpawn
  <1>4. CASE TransferDone \/ Rest \/ Rnfr \/ Cdup \/ Abor \/ Prot \/ Rnto \/ SendResult
    <2>1. UNCHANGED conn
      BY <1>4 DEF TransferDone, Rest, Rnfr, Cdup, Abor, Prot, Rnto, SendResult
    <2>2. session'.data_busy = session.data_busy
      BY <1>4 DEF TransferDone, Rest, Rnfr, Cdup, Abor, Prot, Rnto, SendResult
    <2> QED  BY <2>1, <2>2, <1>k
  <1>5. CASE Cwd \/ Rmd \/ Quit
    BY <1>5, <1>k DEF Cwd, Rmd, Quit
  <1>6. ASSUME NEW cmd, DataCommand(cmd) PROVE BusyInv'
    <2>1. session'.data_busy = session.data_busy
      BY <1>6 DEF DataCommand
    <2> QED  BY <1>6, <1>k, <2>1 DEF DataCommand
  <1>7. CASE Retr \/ Stor \/ Stou \/ List \/ Nlst
    BY <1>6, <1>7 DEF Retr, Stor, Stou, List, Nlst
  <1>8. CASE Dele \/ Mkd \/ Size \/ Mdtm \/ Md5 \/ Stat
    BY <1>8, <1>k DEF Dele, Mkd, Size, Mdtm, Md5, Stat, SpawnTask, RepliesAtOnce
  <1> QED  BY <1>1, <1>2, <1>3, <1>4, <1>5, <1>7, <1>8 DEF Handler

\* Every step preserves the invariant.
LEMMA NextBusy == TypeOK /\ BusyInv /\ [Next]_vars => BusyInv'
  <1> SUFFICES ASSUME TypeOK, BusyInv, [Next]_vars PROVE BusyInv'
    OBVIOUS
  <1>1. CASE UNCHANGED <<session, conn>>
    BY <1>1, FlagKept
  <1>2. CASE Handler
    BY <1>2, HandlerBusy
  <1>3. CASE \E c \in Conns : DataStep(c) \/ DataEnv(c)
    BY <1>3, DataBusy
  <1> QED
    BY <1>1, <1>2, <1>3 DEF Next, vars, Receive, TakeMessage, TakeExit, LoseClient,
       IdleTimeout, IdleCheck, JobDone, Over

(***************************************************************************)
(* Unless a failed TLS handshake has panicked an executor, some executor   *)
(* remains to clear data_busy while it is set, for any number of data      *)
(* connections: nothing else puts off the idle timeout for good.           *)
(***************************************************************************)
THEOREM BusyOwned == Spec => []OnlyPanicsLeaveBusy
  <1>1. Init => BusyInv
    BY DEF Init, InitSession, BusyInv
  <1>2. BusyInv => OnlyPanicsLeaveBusy
    BY DEF BusyInv, OnlyPanicsLeaveBusy, Panicked, Owner
  <1> QED  BY <1>1, <1>2, NextBusy, TypeCorrect, PTL DEF Spec

-----------------------------------------------------------------------------
(* The replies that are still to come.                                     *)

\* The parts of PendingReplies: who or what is to cause a final reply.
Bit(b) == IF b THEN 1 ELSE 0
AtLoop == Bit(loop.pc \in {"lock", "port", "send"})
Queued == {i \in 1..Len(chan) : chan[i] # "ExitControlLoop"}
BusyJobs == {j \in Jobs : jobs[j] # "none"}
Serves(r) == r.pc \in {"cmd", "transfer", "send"}
Serving == {c \in Conns : Serves(conn[c])}
Piped == {c \in Conns : pipe[c].cmd # "none"}

\* Only QUIT sends ExitControlLoop; the loop takes no command before it if the
\* client sends none after QUIT.
OnlyQuitExits == \A c \in Conns : conn[c].msg # "ExitControlLoop"
ExitIsNext ==
  ~AfterQuit /\ chan # <<>> /\ chan[1] = "ExitControlLoop" => loop.pc \in {"select", "idle"}

RepliesInv == RepliesAccounted /\ OnlyQuitExits /\ ExitIsNext

\* The sum is that of its parts.
LEMMA PendingParts ==
  PendingReplies = AtLoop + Cardinality(Queued) + Cardinality(BusyJobs)
                     + Cardinality(Serving) + Cardinality(Piped)
  BY DEF PendingReplies, Bit, AtLoop, Queued, BusyJobs, Serves, Serving, Piped

\* Sets that differ at x at most.
LEMMA CountStep ==
  ASSUME NEW S, IsFiniteSet(S), NEW T, NEW x, T \ {x} = S \ {x}
  PROVE  /\ IsFiniteSet(T) /\ Cardinality(S) \in Nat /\ Cardinality(T) \in Nat
         /\ Cardinality(T) - Cardinality(S) = Bit(x \in T) - Bit(x \in S)
  <1> DEFINE B == S \ {x}
  <1>1. IsFiniteSet(B) /\ x \notin B
    BY FS_RemoveElement
  <1>2. T = B \/ T = B \union {x}
    OBVIOUS
  <1>3. S = B \/ S = B \union {x}
    OBVIOUS
  <1> HIDE DEF B
  <1>4. IsFiniteSet(T) /\ Cardinality(T) = Cardinality(B) + Bit(x \in T)
    <2>1. Cardinality(B) \in Nat
      BY <1>1, FS_CardinalityType
    <2>2. CASE x \in T
      <3>1. T = B \union {x}
        BY <2>2, <1>2
      <3> QED  BY <3>1, <2>1, <2>2, <1>1, FS_AddElement DEF Bit
    <2>3. CASE x \notin T
      <3>1. T = B
        BY <2>3, <1>2
      <3> QED  BY <3>1, <2>1, <2>3, <1>1 DEF Bit
    <2> QED  BY <2>2, <2>3
  <1>5. Cardinality(S) = Cardinality(B) + Bit(x \in S)
    <2>1. Cardinality(B) \in Nat
      BY <1>1, FS_CardinalityType
    <2>2. CASE x \in S
      <3>1. S = B \union {x}
        BY <2>2, <1>3
      <3> QED  BY <3>1, <2>1, <2>2, <1>1, FS_AddElement DEF Bit
    <2>3. CASE x \notin S
      <3>1. S = B
        BY <2>3, <1>3
      <3> QED  BY <3>1, <2>1, <2>3, <1>1 DEF Bit
    <2> QED  BY <2>2, <2>3
  <1>6. Cardinality(B) \in Nat /\ Cardinality(S) \in Nat /\ Cardinality(T) \in Nat
    BY <1>1, <1>4, FS_CardinalityType
  <1> QED  BY <1>4, <1>5, <1>6 DEF Bit

\* A channel of capacity one is empty or full.
LEMMA AtMostOne == \A n \in Nat : n <= 1 => n = 0 \/ n = 1
  OBVIOUS

\* The counts are numbers; the channel counts for one at most.
LEMMA CountsFinite ==
  ASSUME TypeOK
  PROVE  /\ IsFiniteSet(BusyJobs) /\ Cardinality(BusyJobs) \in Nat
         /\ IsFiniteSet(Serving) /\ Cardinality(Serving) \in Nat
         /\ IsFiniteSet(Piped) /\ Cardinality(Piped) \in Nat
         /\ Cardinality(Queued) = Bit(chan # <<>> /\ chan[1] # "ExitControlLoop")
  <1>1. IsFiniteSet(BusyJobs) /\ IsFiniteSet(Serving) /\ IsFiniteSet(Piped)
    <2>1. BusyJobs \in SUBSET Jobs /\ Serving \in SUBSET Conns /\ Piped \in SUBSET Conns
      BY DEF BusyJobs, Serving, Piped
    <2> QED  BY <2>1, FS_Subset, SessionAssumption
  <1>2. Cardinality(Queued) = Bit(chan # <<>> /\ chan[1] # "ExitControlLoop")
    <2>a. chan \in Seq(Messages) /\ Len(chan) <= 1
      BY DEF TypeOK, ChanCapacity
    <2>b. Len(chan) \in Nat /\ (Len(chan) = 0 => chan = <<>>)
      BY <2>a
    <2>0. chan \in Seq(Messages) /\ (Len(chan) = 0 \/ Len(chan) = 1)
          /\ (Len(chan) = 0 => chan = <<>>)
      BY <2>a, <2>b, AtMostOne
    <2>1. CASE chan = <<>> \/ chan[1] = "ExitControlLoop"
      <3>1. Queued = {}
        BY <2>0, <2>1 DEF Queued
      <3> QED  BY <3>1, <2>1, FS_EmptySet DEF Bit
    <2>2. CASE chan # <<>> /\ chan[1] # "ExitControlLoop"
      <3>1. Queued = {1}
        BY <2>0, <2>2 DEF Queued
      <3> QED  BY <3>1, <2>2, FS_Singleton DEF Bit
    <2> QED  BY <2>1, <2>2
  <1> QED  BY <1>1, <1>2, FS_CardinalityType

\* What a step adds to each count, and to what is owed.
dLoop == AtLoop' - AtLoop
dQueued == Cardinality(Queued)' - Cardinality(Queued)
dJobs == Cardinality(BusyJobs)' - Cardinality(BusyJobs)
dServing == Cardinality(Serving)' - Cardinality(Serving)
dPiped == Cardinality(Piped)' - Cardinality(Piped)
dOwed == owed' - owed

\* One connection's task changes.
LEMMA ConnCount ==
  ASSUME TypeOK, NEW c \in Conns, \A d \in Conns \ {c} : conn'[d] = conn[d]
  PROVE  dServing = Bit(Serves(conn'[c])) - Bit(Serves(conn[c]))
  <1>1. Serving' \ {c} = Serving \ {c}
    BY DEF Serving, Serves
  <1>2. (c \in Serving' <=> Serves(conn'[c])) /\ (c \in Serving <=> Serves(conn[c]))
    BY DEF Serving, Serves
  <1>3. dServing = Bit(c \in Serving') - Bit(c \in Serving)
    BY <1>1, CountStep, CountsFinite DEF dServing
  <1> QED  BY <1>2, <1>3 DEF Bit

\* The channels of one pair change.
LEMMA PipeCount ==
  ASSUME TypeOK, NEW c \in Conns, \A d \in Conns \ {c} : pipe'[d] = pipe[d]
  PROVE  dPiped = Bit(pipe'[c].cmd # "none") - Bit(pipe[c].cmd # "none")
  <1>1. Piped' \ {c} = Piped \ {c}
    BY DEF Piped
  <1>2. (c \in Piped' <=> pipe'[c].cmd # "none") /\ (c \in Piped <=> pipe[c].cmd # "none")
    BY DEF Piped
  <1>3. dPiped = Bit(c \in Piped') - Bit(c \in Piped)
    BY <1>1, CountStep, CountsFinite DEF dPiped
  <1> QED  BY <1>2, <1>3 DEF Bit

\* One storage task changes.
LEMMA JobCount ==
  ASSUME TypeOK, NEW j \in Jobs, NEW v, jobs' = [jobs EXCEPT ![j] = v]
  PROVE  dJobs = Bit(v # "none") - Bit(jobs[j] # "none")
  <1>1. BusyJobs' \ {j} = BusyJobs \ {j}
    BY DEF BusyJobs, TypeOK
  <1>2. (j \in BusyJobs' <=> v # "none") /\ (j \in BusyJobs <=> jobs[j] # "none")
    BY DEF BusyJobs, TypeOK
  <1>3. dJobs = Bit(j \in BusyJobs') - Bit(j \in BusyJobs)
    BY <1>1, CountStep, CountsFinite DEF dJobs
  <1> QED  BY <1>2, <1>3 DEF Bit

\* The same facts, to be used of the state after a step.
CountTypes ==
  /\ Cardinality(Queued) \in Nat /\ Cardinality(BusyJobs) \in Nat
  /\ Cardinality(Serving) \in Nat /\ Cardinality(Piped) \in Nat
  /\ Cardinality(Queued) = Bit(chan # <<>> /\ chan[1] # "ExitControlLoop")

\* Counts are numbers in every well-typed state.
LEMMA CountsAreNat == TypeOK => CountTypes
  BY CountsFinite DEF CountTypes, Bit

\* What does not change counts the same.
LEMMA SameCounts ==
  ASSUME TypeOK
  PROVE  /\ UNCHANGED loop => dLoop = 0
         /\ UNCHANGED chan => dQueued = 0
         /\ UNCHANGED jobs => dJobs = 0
         /\ UNCHANGED conn => dServing = 0
         /\ UNCHANGED pipe => dPiped = 0
         /\ UNCHANGED owed => dOwed = 0
  <1>1. CountTypes /\ AtLoop \in Nat /\ owed \in Int
    BY CountsAreNat DEF AtLoop, Bit, TypeOK
  <1>2. /\ UNCHANGED loop => AtLoop' = AtLoop
        /\ UNCHANGED chan => Queued' = Queued
        /\ UNCHANGED jobs => BusyJobs' = BusyJobs
        /\ UNCHANGED conn => Serving' = Serving
        /\ UNCHANGED pipe => Piped' = Piped
    BY DEF AtLoop, Queued, BusyJobs, Serving, Serves, Piped
  <1> QED
    BY <1>1, <1>2 DEF CountTypes, dLoop, dQueued, dJobs, dServing, dPiped, dOwed

\* The loop goes from one state to another.
LEMMA LoopCount ==
  /\ loop.pc \in {"select", "idle"} /\ loop'.pc \in {"lock", "port", "send"} => dLoop = 1
  /\ loop.pc \in {"lock", "port", "send"} /\ loop'.pc \in {"lock", "port", "send"} => dLoop = 0
  /\ loop.pc \in {"select", "idle"} /\ loop'.pc \in {"select", "idle"} => dLoop = 0
  /\ loop.pc \in {"lock", "port", "send"} /\ loop'.pc \in {"select", "idle"} => dLoop = -1
  BY DEF dLoop, AtLoop, Bit

\* A message goes into an empty channel.
LEMMA SendCount ==
  ASSUME TypeOK, TypeOK', CanSend, loop.pc # "exit", NEW msg \in Messages, Send(msg)
  PROVE  /\ chan = <<>> /\ chan' = <<msg>>
         /\ dQueued = Bit(msg # "ExitControlLoop")
  <1>1. chan \in Seq(Messages) /\ Len(chan) < 1
    BY DEF TypeOK, CanSend, ChanCapacity
  <1>2. chan = <<>>
    BY <1>1
  <1>3. chan' = Append(chan, msg)
    BY DEF Send
  <1>4. chan' = <<msg>> /\ chan' # <<>> /\ chan'[1] = msg
    BY <1>2, <1>3
  <1>5. CountTypes /\ CountTypes'
    BY CountsAreNat, PTL
  <1>6. Cardinality(Queued) = 0
    BY <1>2, <1>5 DEF CountTypes, Bit
  <1>7. Cardinality(Queued)' = Bit(msg # "ExitControlLoop")
    BY <1>4, <1>5 DEF CountTypes, Bit
  <1> QED  BY <1>2, <1>4, <1>6, <1>7 DEF dQueued, Bit

\* The message is taken out.
LEMMA TakeCount ==
  ASSUME TypeOK, TypeOK', chan # <<>>, Head(chan) # "ExitControlLoop", chan' = Tail(chan)
  PROVE  chan' = <<>> /\ dQueued = -1
  <1>1. chan \in Seq(Messages) /\ Len(chan) <= 1
    BY DEF TypeOK, ChanCapacity
  <1>2. Len(chan) = 1
    <2>1. Len(chan) \in Nat /\ Len(chan) # 0
      BY <1>1
    <2> QED  BY <1>1, <2>1, AtMostOne
  <1>3. chan' = <<>> /\ chan[1] # "ExitControlLoop"
    BY <1>1, <1>2
  <1>4. CountTypes /\ CountTypes'
    BY CountsAreNat, PTL
  <1>5. Cardinality(Queued) = 1 /\ Cardinality(Queued)' = 0
    BY <1>3, <1>4 DEF CountTypes, Bit
  <1> QED  BY <1>3, <1>5 DEF dQueued

\* A step preserves the invariant if what it adds to the replies that are still
\* to come it adds to those that are owed.
LEMMA Balance ==
  ASSUME TypeOK, TypeOK', RepliesInv, loop.pc # "exit", OnlyQuitExits', ExitIsNext',
         dLoop + dQueued + dJobs + dServing + dPiped <= dOwed
  PROVE  RepliesInv'
  <1>0. owed \in Int /\ owed' \in Int /\ AtLoop \in Nat /\ AtLoop' \in Nat
    BY DEF TypeOK, AtLoop, Bit
  <1>1. CountTypes
    BY CountsAreNat
  <1>2. CountTypes'
    BY CountsAreNat, PTL
  <1>3. PendingReplies <= owed
    BY DEF RepliesInv, RepliesAccounted
  <1>4. PendingReplies' = (AtLoop + Cardinality(Queued) + Cardinality(BusyJobs)
                             + Cardinality(Serving) + Cardinality(Piped))'
    BY DEF PendingReplies, Bit, AtLoop, Queued, BusyJobs, Serves, Serving, Piped
  <1>5. PICK a \in Nat, b \in Nat, c \in Nat, d \in Nat, e \in Nat, m \in Int :
          /\ a = AtLoop /\ b = Cardinality(Queued) /\ c = Cardinality(BusyJobs)
          /\ d = Cardinality(Serving) /\ e = Cardinality(Piped) /\ m = owed
    BY <1>0, <1>1 DEF CountTypes
  <1>6. PICK f \in Nat, g \in Nat, h \in Nat, i \in Nat, j \in Nat, n \in Int :
          /\ f = AtLoop' /\ g = Cardinality(Queued)' /\ h = Cardinality(BusyJobs)'
          /\ i = Cardinality(Serving)' /\ j = Cardinality(Piped)' /\ n = owed'
    BY <1>0, <1>2 DEF CountTypes
  <1>7. a + b + c + d + e <= m
    BY <1>3, <1>5, PendingParts
  <1>8. (f - a) + (g - b) + (h - c) + (i - d) + (j - e) <= n - m
    BY <1>5, <1>6 DEF dLoop, dQueued, dJobs, dServing, dPiped, dOwed
  <1>9. f + g + h + i + j <= n
    BY <1>7, <1>8
  <1> QED  BY <1>4, <1>6, <1>9 DEF RepliesInv, RepliesAccounted

\* The ways in which a step changes the task of a connection.
LEMMA ConnShapes ==
  ASSUME TypeOK, NEW c \in Conns
  PROVE  /\ \A r : conn' = [conn EXCEPT ![c] = r] =>
               conn'[c] = r /\ \A d \in Conns \ {c} : conn'[d] = conn[d]
         /\ \A pc : conn' = [conn EXCEPT ![c].pc = pc] =>
               /\ conn'[c].pc = pc /\ conn'[c].msg = conn[c].msg
               /\ \A d \in Conns \ {c} : conn'[d] = conn[d]
  <1>0. /\ conn \in [Conns -> ConnRecord]
        /\ conn[c] \in ConnFields(ConnStates, ChannelEnd, Messages \union {"none"})
    BY DEF TypeOK, ConnRecord, ConnFields, ConnStates, ChannelEnd
  <1>r. ASSUME NEW r, conn' = [conn EXCEPT ![c] = r]
        PROVE  conn'[c] = r /\ \A d \in Conns \ {c} : conn'[d] = conn[d]
    BY <1>0, <1>r
  <1>1. ASSUME NEW pc, conn' = [conn EXCEPT ![c].pc = pc]
        PROVE  /\ conn'[c].pc = pc /\ conn'[c].msg = conn[c].msg
               /\ \A d \in Conns \ {c} : conn'[d] = conn[d]
    <2> DEFINE r == [conn[c] EXCEPT !.pc = pc]
    <2>1. conn' = [conn EXCEPT ![c] = r]
      BY <1>1
    <2>2. r.pc = pc /\ r.msg = conn[c].msg
      BY <1>0 DEF ConnFields
    <2> HIDE DEF r
    <2> QED  BY <2>1, <2>2, <1>r
  <1> QED  BY <1>r, <1>1

\* spawn_processing leaves a task that serves no command yet, or none.
LEMMA SpawnShape ==
  ASSUME NEW c \in Conns, SpawnProcessing(c)
  PROVE  \E r : /\ conn' = [conn EXCEPT ![c] = r]
                /\ r.pc \in {"free", "select"} /\ r.msg = "none"
  <1> DEFINE e == [FreeConn EXCEPT !.pc = "select", !.ch = session.data_rx,
                                   !.cwd = session.cwd, !.tls = session.data_tls]
  <1>1. FreeConn.pc = "free" /\ FreeConn.msg = "none" /\ e.pc = "select" /\ e.msg = "none"
    BY DEF FreeConn
  <1>2. conn' = [conn EXCEPT ![c] = FreeConn] \/ conn' = [conn EXCEPT ![c] = e]
    BY DEF SpawnProcessing
  <1> HIDE DEF e
  <1> QED  BY <1>1, <1>2

\* A handler that leaves the channel alone keeps that order.
LEMMA NoExitYet ==
  ASSUME TypeOK, RepliesInv, UNCHANGED chan, loop.pc \notin {"select", "idle"}
  PROVE  ExitIsNext'
  BY DEF RepliesInv, ExitIsNext

\* The events of the select!.
LEMMA EventReplies ==
  ASSUME TypeOK, TypeOK', RepliesInv,
         \/ \E cmd \in Commands : Receive(cmd)
         \/ TakeMessage \/ TakeExit \/ LoseClient \/ IdleTimeout \/ IdleCheck
  PROVE  RepliesInv'
  <1>0. UNCHANGED <<jobs, conn, pipe>> /\ OnlyQuitExits'
    <2>1. UNCHANGED <<jobs, conn, pipe>>
      BY DEF Receive, TakeMessage, TakeExit, LoseClient, IdleTimeout, IdleCheck
    <2> QED  BY <2>1 DEF RepliesInv, OnlyQuitExits
  <1>u. dJobs = 0 /\ dServing = 0 /\ dPiped = 0
    BY <1>0, SameCounts
  <1>x. Exit => RepliesInv'
    BY <1>0 DEF Exit, RepliesInv, RepliesAccounted, ExitIsNext
  <1>o. owed \in Int
    BY DEF TypeOK
  <1>1. ASSUME NEW cmd \in Commands, Receive(cmd) PROVE RepliesInv'
    <2>1. loop.pc = "select" /\ loop'.pc \in {"lock", "send"} /\ UNCHANGED chan /\ owed' = owed + 1
      BY <1>1 DEF Receive
    <2>2. dLoop = 1 /\ dQueued = 0 /\ dOwed = 1
      BY <2>1, <1>o, LoopCount, SameCounts DEF dOwed
    <2>3. ExitIsNext'
      <3>1. AfterQuit \/ chan # <<"ExitControlLoop">>
        BY <1>1 DEF Receive
      <3>2. chan \in Seq(Messages) /\ Len(chan) <= 1
        BY DEF TypeOK, ChanCapacity
      <3>3. Len(chan) \in Nat /\ (chan # <<>> => Len(chan) # 0)
        BY <3>2
      <3>4. chan # <<>> => Len(chan) = 1
        BY <3>2, <3>3, AtMostOne
      <3>5. chan # <<>> => AfterQuit \/ chan[1] # "ExitControlLoop"
        BY <3>1, <3>2, <3>4
      <3> QED  BY <2>1, <3>5 DEF ExitIsNext
    <2> QED  BY <2>1, <2>2, <2>3, <1>0, <1>u, Balance
  <1>2. CASE TakeMessage
    <2>1. /\ loop.pc = "select" /\ chan # <<>> /\ Head(chan) # "ExitControlLoop"
          /\ chan' = Tail(chan)
      BY <1>2 DEF TakeMessage
    <2>2. chan' = <<>> /\ dQueued = -1
      BY <2>1, TakeCount
    <2>3. (dLoop = 1 /\ dOwed = 0) \/ (dLoop = 0 /\ dOwed = -1)
      <3>1. \/ loop'.pc = "lock" /\ UNCHANGED owed
            \/ owed' = owed - 1 /\ UNCHANGED loop
        BY <1>2 DEF TakeMessage
      <3>2. CASE loop'.pc = "lock" /\ UNCHANGED owed
        BY <3>2, <2>1, <1>o, LoopCount DEF dOwed
      <3>3. CASE owed' = owed - 1 /\ UNCHANGED loop
        <4>1. dLoop = 0
          BY <3>3, SameCounts
        <4> QED  BY <3>3, <4>1, <1>o DEF dOwed
      <3> QED  BY <3>1, <3>2, <3>3
    <2>4. ExitIsNext'
      BY <2>2 DEF ExitIsNext
    <2> QED  BY <2>1, <2>2, <2>3, <2>4, <1>0, <1>u, Balance
  <1>3. CASE TakeExit \/ LoseClient
    BY <1>3, <1>x DEF TakeExit, LoseClient
  <1>4. CASE IdleTimeout \/ (IdleCheck /\ Select /\ UNCHANGED chan)
    <2>1. /\ loop.pc \in {"select", "idle"} /\ loop'.pc \in {"select", "idle"}
          /\ UNCHANGED <<chan, owed>>
      BY <1>4 DEF IdleTimeout, IdleCheck, Select
    <2>2. dLoop = 0 /\ dQueued = 0 /\ dOwed = 0
      BY <2>1, LoopCount, SameCounts
    <2>3. ExitIsNext'
      BY <2>1 DEF ExitIsNext
    <2> QED  BY <2>1, <2>2, <2>3, <1>0, <1>u, Balance
  <1>5. CASE IdleCheck /\ Exit
    BY <1>5, <1>x
  <1> QED  BY <1>1, <1>2, <1>3, <1>4, <1>5 DEF IdleCheck

\* A handler that leaves the channel and the connections' messages alone.
LEMMA HandlerBalance ==
  ASSUME TypeOK, TypeOK', RepliesInv, loop.pc \in {"lock", "port"},
         UNCHANGED chan, OnlyQuitExits', dServing = 0,
         \/ Reply /\ dJobs = 0 /\ dPiped \in {-1, 0}
         \/ NoReply /\ dJobs = 0 /\ dPiped \in {-1, 0, 1}
         \/ NoReply /\ dJobs = 1 /\ dPiped = 0
         \/ UNCHANGED owed /\ loop'.pc \in {"port", "send"} /\ dJobs = 0 /\ dPiped \in {-1, 0}
  PROVE  RepliesInv'
  <1>1. loop.pc # "exit" /\ dQueued = 0 /\ ExitIsNext'
    BY SameCounts, NoExitYet
  <1>2. owed \in Int
    BY DEF TypeOK
  <1>3. CASE Reply /\ dJobs = 0 /\ dPiped \in {-1, 0}
    <2>1. dLoop = -1 /\ dOwed = -1
      BY <1>2, <1>3, LoopCount DEF Reply, Select, dOwed
    <2> QED  BY <1>1, <1>3, <2>1, Balance
  <1>4. CASE NoReply /\ dJobs = 0 /\ dPiped \in {-1, 0, 1}
    <2>1. dLoop = -1 /\ dOwed = 0
      BY <1>4, LoopCount, SameCounts DEF NoReply, Select
    <2> QED  BY <1>1, <1>4, <2>1, Balance
  <1>5. CASE NoReply /\ dJobs = 1 /\ dPiped = 0
    <2>1. dLoop = -1 /\ dOwed = 0
      BY <1>5, LoopCount, SameCounts DEF NoReply, Select
    <2> QED  BY <1>1, <1>5, <2>1, Balance
  <1>6. CASE UNCHANGED owed /\ loop'.pc \in {"port", "send"} /\ dJobs = 0 /\ dPiped \in {-1, 0}
    <2>1. dLoop = 0 /\ dOwed = 0
      BY <1>6, LoopCount, SameCounts
    <2> QED  BY <1>1, <1>6, <2>1, Balance
  <1> QED  BY <1>3, <1>4, <1>5, <1>6

\* The handlers that open a data connection: a pair that is made anew holds no
\* command, and a task that is to accept or to spawn serves none.
LEMMA ConnectReplies ==
  ASSUME TypeOK, TypeOK', RepliesInv, Pasv \/ Port \/ PortSpawn
  PROVE  RepliesInv'
  <1>0. UNCHANGED <<chan, jobs>> /\ loop.pc \in {"lock", "port"}
    BY DEF Pasv, Port, PortSpawn, Handling
  <1>j. dJobs = 0
    BY <1>0, SameCounts
  <1>u. ASSUME UNCHANGED <<conn, pipe>>
        PROVE  dServing = 0 /\ dPiped = 0 /\ OnlyQuitExits'
    BY <1>u, SameCounts DEF RepliesInv, OnlyQuitExits
  <1>n. ASSUME NEW c \in Conns, Unused(c), NewPair(c), NEW pc \in {"accept", "port"},
               conn' = [conn EXCEPT ![c].pc = pc]
        PROVE  dServing = 0 /\ dPiped \in {-1, 0} /\ OnlyQuitExits'
    <2>1. /\ conn'[c].pc = pc /\ conn'[c].msg = conn[c].msg
          /\ \A d \in Conns \ {c} : conn'[d] = conn[d]
      BY <1>n, ConnShapes
    <2>2. dServing = 0
      <3>1. ~Serves(conn'[c]) /\ ~Serves(conn[c])
        BY <1>n, <2>1 DEF Serves, Unused
      <3> QED  BY <2>1, <3>1, ConnCount DEF Bit
    <2>3. dPiped \in {-1, 0}
      <3>1. pipe'[c].cmd = "none" /\ \A d \in Conns \ {c} : pipe'[d] = pipe[d]
        BY <1>n DEF NewPair, EmptyPipe, TypeOK
      <3> QED  BY <3>1, PipeCount DEF Bit
    <2>4. OnlyQuitExits'
      BY <2>1 DEF RepliesInv, OnlyQuitExits
    <2> QED  BY <2>2, <2>3, <2>4
  <1>1. CASE Pasv
    <2>1. Reply /\ (UNCHANGED <<conn, pipe>> \/
                     \E c \in Conns : Unused(c) /\ NewPair(c) /\ conn' = [conn EXCEPT ![c].pc = "accept"])
      BY <1>1 DEF Pasv
    <2>2. dServing = 0 /\ dPiped \in {-1, 0} /\ OnlyQuitExits'
      BY <2>1, <1>u, <1>n
    <2> QED  BY <2>1, <2>2, <1>0, <1>j, HandlerBalance
  <1>2. CASE Port
    <2>1. \/ UNCHANGED <<conn, pipe>> /\ Reply
          \/ /\ \E c \in Conns : Unused(c) /\ NewPair(c) /\ conn' = [conn EXCEPT ![c].pc = "port"]
             /\ loop' = [pc |-> "port", ev |-> "PORT"] /\ UNCHANGED owed
      BY <1>2 DEF Port
    <2>2. dServing = 0 /\ dPiped \in {-1, 0} /\ OnlyQuitExits'
      BY <2>1, <1>u, <1>n
    <2>3. Reply \/ (loop'.pc = "port" /\ UNCHANGED owed)
      BY <2>1
    <2> QED  BY <2>2, <2>3, <1>0, <1>j, HandlerBalance
  <1>3. CASE PortSpawn
    <2>1. Reply /\ UNCHANGED pipe
      BY <1>3 DEF PortSpawn
    <2>2. PICK c \in Conns : conn[c].pc = "port" /\ SpawnProcessing(c)
      BY <1>3 DEF PortSpawn
    <2>3. PICK r : /\ conn' = [conn EXCEPT ![c] = r]
                   /\ r.pc \in {"free", "select"} /\ r.msg = "none"
      BY <2>2, SpawnShape
    <2>4. conn'[c] = r /\ \A d \in Conns \ {c} : conn'[d] = conn[d]
      BY <2>3, ConnShapes
    <2>5. dServing = 0
      <3>1. ~Serves(conn'[c]) /\ ~Serves(conn[c])
        BY <2>2, <2>3, <2>4 DEF Serves
      <3> QED  BY <2>4, <3>1, ConnCount DEF Bit
    <2>6. OnlyQuitExits'
      BY <2>3, <2>4 DEF RepliesInv, OnlyQuitExits
    <2>7. dPiped = 0
      BY <2>1, SameCounts
    <2> QED  BY <2>1, <2>5, <2>6, <2>7, <1>0, <1>j, HandlerBalance
  <1> QED  BY <1>1, <1>2, <1>3

\* The handlers that return to the select! at once: those that hand the command to
\* a task or to an executor leave the reply to it.
LEMMA PlainReplies ==
  ASSUME TypeOK, TypeOK', RepliesInv,
         \/ TransferDone \/ Abor \/ Rest \/ Rnfr \/ Cdup \/ Prot
         \/ \E cmd \in DataCommands : DataCommand(cmd)
         \/ \E cmd \in JobCommands : SpawnTask(cmd) \/ RepliesAtOnce(cmd)
  PROVE  RepliesInv'
  <1>0. UNCHANGED <<chan, conn>> /\ loop.pc = "lock"
    BY DEF TransferDone, Abor, Rest, Rnfr, Cdup, Prot, DataCommand, SpawnTask, RepliesAtOnce,
           Handling
  <1>c. dServing = 0 /\ OnlyQuitExits'
    BY <1>0, SameCounts DEF RepliesInv, OnlyQuitExits
  <1>s. session \in SessionRecord /\ pipe \in [Conns -> PipeRecord]
    BY DEF TypeOK
  <1>1. CASE \/ TransferDone \/ Rest \/ Rnfr \/ Cdup \/ Prot
             \/ \E cmd \in JobCommands : RepliesAtOnce(cmd)
    <2>1. Reply /\ UNCHANGED <<jobs, pipe>>
      BY <1>1 DEF TransferDone, Rest, Rnfr, Cdup, Prot, RepliesAtOnce
    <2>2. dJobs = 0 /\ dPiped = 0
      BY <2>1, SameCounts
    <2> QED  BY <2>1, <2>2, <1>0, <1>c, HandlerBalance
  <1>2. CASE Abor
    <2>1. Reply /\ UNCHANGED jobs
      BY <1>2 DEF Abor
    <2>2. dPiped = 0
      <3>1. CASE UNCHANGED pipe
        BY <3>1, SameCounts
      <3>2. CASE /\ session.data_abort_tx # NoConn
                 /\ pipe' = [pipe EXCEPT ![session.data_abort_tx].abort = TRUE]
        <4>1. PICK c \in Conns : c = session.data_abort_tx
          BY <3>2, <1>s DEF SessionRecord, ChannelEnd
        <4>2. pipe'[c].cmd = pipe[c].cmd /\ \A d \in Conns \ {c} : pipe'[d] = pipe[d]
          BY <3>2, <4>1, <1>s DEF PipeRecord
        <4> QED  BY <4>2, PipeCount DEF Bit
      <3> QED  BY <1>2, <3>1, <3>2 DEF Abor
    <2> QED  BY <2>1, <2>2, <1>0, <1>c, SameCounts, HandlerBalance
  <1>3. ASSUME NEW cmd \in DataCommands, DataCommand(cmd) PROVE RepliesInv'
    <2>1. dJobs = 0
      BY <1>3, SameCounts DEF DataCommand
    <2>2. CASE session.data_cmd_tx = NoConn
      <3>1. Reply /\ UNCHANGED pipe
        BY <1>3, <2>2 DEF DataCommand
      <3> QED  BY <2>1, <3>1, <1>0, <1>c, SameCounts, HandlerBalance
    <2>3. CASE session.data_cmd_tx # NoConn
      <3>1. NoReply /\ pipe' = [pipe EXCEPT ![session.data_cmd_tx].cmd = cmd]
        BY <1>3, <2>3 DEF DataCommand
      <3>2. PICK c \in Conns : c = session.data_cmd_tx
        BY <2>3, <1>s DEF SessionRecord, ChannelEnd
      <3>3. \A d \in Conns \ {c} : pipe'[d] = pipe[d]
        BY <3>1, <3>2, <1>s
      <3>4. dPiped \in {-1, 0, 1}
        BY <3>3, PipeCount DEF Bit
      <3> QED  BY <2>1, <3>1, <3>4, <1>0, <1>c, HandlerBalance
    <2> QED  BY <2>2, <2>3
  <1>4. ASSUME NEW cmd \in JobCommands, SpawnTask(cmd) PROVE RepliesInv'
    <2>1. NoReply /\ UNCHANGED pipe
      BY <1>4 DEF SpawnTask
    <2>2. PICK j \in Jobs : jobs[j] = "none" /\ jobs' = [jobs EXCEPT ![j] = cmd]
      BY <1>4 DEF SpawnTask
    <2>3. cmd # "none"
      BY DEF JobCommands
    <2>4. dJobs = 1
      <3>1. dJobs = Bit(cmd # "none") - Bit(jobs[j] # "none")
        BY <2>2, JobCount
      <3> QED  BY <2>2, <2>3, <3>1 DEF Bit
    <2>5. dPiped = 0
      BY <2>1, SameCounts
    <2> QED  BY <2>1, <2>4, <2>5, <1>0, <1>c, HandlerBalance
  <1> QED  BY <1>1, <1>2, <1>3, <1>4

\* No report of a task tells the loop to exit.
LEMMA ReportsDoNotExit == \A cmd : Success(cmd) # "ExitControlLoop"
  BY DEF Success

\* The handlers that send to the control loop from within it.
LEMMA SendingReplies ==
  ASSUME TypeOK, TypeOK', RepliesInv, Cwd \/ Rmd \/ Rnto \/ SendResult \/ Quit
  PROVE  RepliesInv'
  <1>0. UNCHANGED <<jobs, conn, pipe>>
    BY DEF Cwd, Rmd, Rnto, SendResult, Quit
  <1>c. dJobs = 0 /\ dServing = 0 /\ dPiped = 0 /\ OnlyQuitExits'
    BY <1>0, SameCounts DEF RepliesInv, OnlyQuitExits
  <1>1. CASE Cwd \/ Rmd \/ Rnto
    <2>1. UNCHANGED chan /\ loop.pc = "lock"
      BY <1>1 DEF Cwd, Rmd, Rnto, Handling
    <2>2. Reply \/ (loop'.pc = "send" /\ UNCHANGED owed)
      BY <1>1 DEF Cwd, Rmd, Rnto, SendFrom
    <2> QED  BY <2>1, <2>2, <1>c, HandlerBalance
  <1>2. CASE SendResult
    <2>1. /\ loop.pc = "send" /\ loop.ev # "ExitControlLoop" /\ CanSend /\ Send(loop.ev)
          /\ NoReply
      BY <1>2 DEF SendResult
    <2>2. loop.ev \in Messages
      BY <2>1 DEF TypeOK, LoopRecord
    <2>3. chan' = <<loop.ev>> /\ dQueued = 1
      BY <2>1, <2>2, SendCount DEF Bit
    <2>4. dLoop = -1 /\ dOwed = 0
      BY <2>1, LoopCount, SameCounts DEF NoReply, Select
    <2>5. ExitIsNext'
      BY <2>1, <2>3 DEF ExitIsNext
    <2> QED  BY <2>1, <2>3, <2>4, <2>5, <1>c, Balance
  <1>3. CASE Quit
    <2>1. loop.pc = "send" /\ CanSend /\ Send("ExitControlLoop") /\ Select /\ owed' = owed - 1
      BY <1>3 DEF Quit
    <2>2. dQueued = 0
      BY <2>1, SendCount DEF Bit, Messages
    <2>3. dLoop = -1
      BY <2>1, LoopCount DEF Select
    <2>4. dOwed = -1
      BY <2>1 DEF dOwed, TypeOK
    <2>5. ExitIsNext'
      BY <2>1 DEF ExitIsNext, Select
    <2> QED  BY <2>1, <2>2, <2>3, <2>4, <2>5, <1>c, Balance
  <1> QED  BY <1>1, <1>2, <1>3

\* What another task than the loop does: the loop's state and what is owed stay.
LEMMA OtherTask ==
  ASSUME TypeOK, TypeOK', RepliesInv, UNCHANGED <<loop, owed>>, OnlyQuitExits',
         \/ UNCHANGED chan /\ dJobs + dServing + dPiped <= 0
         \/ \E msg \in Messages \ {"ExitControlLoop"} :
              CanSend /\ Send(msg) /\ dJobs + dServing + dPiped = -1
  PROVE  RepliesInv'
  <1>1. CASE loop.pc = "exit"
    <2>1. UNCHANGED chan
      BY <1>1 DEF Send
    <2> QED  BY <1>1, <2>1 DEF RepliesInv, RepliesAccounted, ExitIsNext
  <1>2. CASE loop.pc # "exit"
    <2>1. dLoop = 0 /\ dOwed = 0
      BY SameCounts
    <2>t. dJobs \in Int /\ dServing \in Int /\ dPiped \in Int
      <3>1. CountTypes /\ CountTypes'
        BY CountsAreNat, PTL
      <3> QED  BY <3>1 DEF CountTypes, dJobs, dServing, dPiped
    <2>2. CASE UNCHANGED chan /\ dJobs + dServing + dPiped <= 0
      <3>1. dQueued = 0 /\ ExitIsNext'
        BY <2>2, SameCounts DEF RepliesInv, ExitIsNext
      <3>2. dLoop + dQueued + dJobs + dServing + dPiped <= dOwed
        BY <2>1, <2>2, <2>t, <3>1
      <3> QED  BY <1>2, <3>1, <3>2, Balance
    <2>3. ASSUME NEW msg \in Messages \ {"ExitControlLoop"},
                 CanSend, Send(msg), dJobs + dServing + dPiped = -1
          PROVE  RepliesInv'
      <3>1. chan' = <<msg>> /\ dQueued = 1
        BY <1>2, <2>3, SendCount DEF Bit
      <3>2. ExitIsNext'
        BY <3>1 DEF ExitIsNext
      <3>3. dLoop + dQueued + dJobs + dServing + dPiped <= dOwed
        BY <2>1, <2>3, <2>t, <3>1
      <3> QED  BY <1>2, <3>2, <3>3, Balance
    <2> QED  BY <2>2, <2>3
  <1> QED  BY <1>1, <1>2

\* A storage task hands its reply to the loop.
LEMMA JobReplies ==
  ASSUME TypeOK, TypeOK', RepliesInv, NEW j \in Jobs, JobDone(j)
  PROVE  RepliesInv'
  <1>1. UNCHANGED <<loop, owed, conn, pipe>> /\ jobs[j] # "none" /\ CanSend
        /\ jobs' = [jobs EXCEPT ![j] = "none"]
    BY DEF JobDone
  <1>2. dJobs = -1 /\ dServing = 0 /\ dPiped = 0
    <2>1. dJobs = Bit("none" # "none") - Bit(jobs[j] # "none")
      BY <1>1, JobCount
    <2> QED  BY <1>1, <2>1, SameCounts DEF Bit
  <1>3. OnlyQuitExits'
    BY <1>1 DEF RepliesInv, OnlyQuitExits
  <1>4. \E msg \in Messages \ {"ExitControlLoop"} : Send(msg)
    BY SuccessIsMessage, ReportsDoNotExit DEF JobDone, Messages
  <1>5. dJobs + dServing + dPiped = -1
    BY <1>2
  <1> QED  BY <1>1, <1>3, <1>4, <1>5, OtherTask

\* A connection's task moves on without a message, and takes up no command.
LEMMA QuietMove ==
  ASSUME TypeOK, TypeOK', RepliesInv, UNCHANGED <<loop, owed, jobs, chan>>, dPiped = 0,
         NEW c \in Conns, \A d \in Conns \ {c} : conn'[d] = conn[d],
         conn'[c].msg # "ExitControlLoop", Serves(conn'[c]) => Serves(conn[c])
  PROVE  RepliesInv'
  <1>1. OnlyQuitExits'
    BY DEF RepliesInv, OnlyQuitExits
  <1>2. dServing \in {-1, 0} /\ dJobs = 0
    BY ConnCount, SameCounts DEF Bit
  <1>3. dJobs + dServing + dPiped <= 0
    BY <1>2
  <1> QED  BY <1>1, <1>3, OtherTask

\* The steps of the data connections: a command moves from its channel to the
\* executor, and its reply from the executor to the loop.
LEMMA DataReplies ==
  ASSUME TypeOK, TypeOK', RepliesInv, NEW c \in Conns, DataStep(c) \/ DataEnv(c)
  PROVE  RepliesInv'
  <1>m. conn[c].msg # "ExitControlLoop"
    BY DEF RepliesInv, OnlyQuitExits
  <1>t. /\ conn \in [Conns -> ConnRecord]
        /\ conn[c] \in ConnFields(ConnStates, ChannelEnd, Messages \union {"none"})
    BY DEF TypeOK, ConnRecord, ConnFields, ConnStates, ChannelEnd
  <1>f. FreeConn.pc = "free" /\ FreeConn.msg = "none"
    BY DEF FreeConn
  <1>p. UNCHANGED pipe => dPiped = 0
    BY SameCounts
  <1>e. /\ \A d \in Conns \ {c} : conn' = [conn EXCEPT ![c] = Ending(c)] => conn'[d] = conn[d]
        /\ conn' = [conn EXCEPT ![c] = Ending(c)] =>
             conn'[c].msg = "none" /\ conn'[c].pc = "fin" /\ ~Serves(conn'[c])
    BY ConnShapes, EndingType DEF Serves
  <1>9. CASE DataTimeout(c) \/ (exec_list_variant(c) /\ conn' = [conn EXCEPT ![c] = Ending(c)])
    <2>1. UNCHANGED <<loop, owed, jobs, chan, pipe>> /\ conn' = [conn EXCEPT ![c] = Ending(c)]
      BY <1>9 DEF DataTimeout, exec_list_variant
    <2> QED  BY <2>1, <1>e, <1>p, QuietMove
  <1>1. CASE Accept(c) \/ StartTransfer(c)
    <2>1. UNCHANGED <<loop, owed, jobs, chan, pipe>>
      BY <1>1 DEF Accept, StartTransfer
    <2>2. \E pc \in {"spawn", "transfer"} :
            conn' = [conn EXCEPT ![c].pc = pc] /\ (pc = "transfer" => conn[c].pc = "cmd")
      BY <1>1 DEF Accept, StartTransfer
    <2>3. /\ conn'[c].msg = conn[c].msg /\ \A d \in Conns \ {c} : conn'[d] = conn[d]
          /\ Serves(conn'[c]) => Serves(conn[c])
      BY <2>2, ConnShapes DEF Serves
    <2> QED  BY <2>1, <2>3, <1>m, <1>p, QuietMove
  <1>2. CASE AcceptTimeout(c) \/ HandshakePanic(c) \/ Finish(c)
    <2> DEFINE g == [FreeConn EXCEPT !.pc = "panic"]
    <2>1. /\ UNCHANGED <<loop, owed, jobs, chan, pipe>>
          /\ conn' = [conn EXCEPT ![c] = FreeConn] \/ conn' = [conn EXCEPT ![c] = g]
      BY <1>2 DEF AcceptTimeout, HandshakePanic, Finish
    <2>2. g.pc = "panic" /\ g.msg = "none"
      BY DEF FreeConn
    <2> HIDE DEF g
    <2>3. conn'[c] \in {FreeConn, g} /\ \A d \in Conns \ {c} : conn'[d] = conn[d]
      BY <2>1, ConnShapes
    <2>4. conn'[c].pc \in {"free", "panic"} /\ conn'[c].msg = "none"
      BY <2>2, <2>3, <1>f
    <2> QED  BY <2>1, <2>3, <2>4, <1>p, QuietMove DEF Serves
  <1>3. CASE Spawn(c)
    <2>1. UNCHANGED <<loop, owed, jobs, chan, pipe>>
      BY <1>3 DEF Spawn
    <2>2. PICK r : conn' = [conn EXCEPT ![c] = r] /\ r.pc \in {"free", "select"} /\ r.msg = "none"
      BY <1>3, SpawnShape DEF Spawn
    <2>3. conn'[c] = r /\ \A d \in Conns \ {c} : conn'[d] = conn[d]
      BY <2>2, ConnShapes
    <2> QED  BY <2>1, <2>2, <2>3, <1>p, QuietMove DEF Serves
  <1>4. ASSUME NEW msg, msg # "ExitControlLoop", conn[c].pc = "transfer",
               conn' = [conn EXCEPT ![c].pc = "send", ![c].msg = msg],
               UNCHANGED <<loop, owed, jobs, chan, pipe>>
        PROVE  RepliesInv'
    <2> DEFINE r == [conn[c] EXCEPT !.pc = "send", !.msg = msg]
    <2>1. r.msg = msg /\ conn' = [conn EXCEPT ![c] = r]
      BY <1>4, <1>t DEF ConnFields
    <2> HIDE DEF r
    <2>2. conn'[c].msg = msg /\ \A d \in Conns \ {c} : conn'[d] = conn[d]
      BY <2>1, ConnShapes
    <2> QED  BY <1>4, <2>2, <1>p, QuietMove DEF Serves
  <1>5. CASE exec_retr_stor(c)
    BY <1>4, <1>5, ReportsDoNotExit DEF exec_retr_stor
  <1>6. CASE exec_list_variant(c) /\ conn' # [conn EXCEPT ![c] = Ending(c)]
    BY <1>4, <1>6, ReportsDoNotExit DEF exec_list_variant
  <1>7. CASE RecvCommand(c) \/ RecvAbort(c)
    <2>1. /\ UNCHANGED <<loop, owed, jobs, chan>> /\ conn[c].pc = "select"
      BY <1>7 DEF RecvCommand, RecvAbort
    <2>2. PICK ch \in Conns : ch = conn[c].ch
      BY <2>1 DEF TypeOK, ConnRecord, ConnFields
    <2>t. pipe \in [Conns -> PipeRecord]
      BY DEF TypeOK
    <2>3. CASE RecvAbort(c)
      <3>1. conn' = [conn EXCEPT ![c] = Ending(c)] /\ pipe' = [pipe EXCEPT ![ch].abort = FALSE]
        BY <2>2, <2>3 DEF RecvAbort
      <3>2. pipe'[ch].cmd = pipe[ch].cmd /\ \A d \in Conns \ {ch} : pipe'[d] = pipe[d]
        BY <3>1, <2>t DEF PipeRecord
      <3>3. dPiped = 0
        BY <3>2, PipeCount DEF Bit
      <3> QED  BY <2>1, <3>1, <3>3, <1>e, QuietMove
    <2>4. CASE RecvCommand(c)
      <3>1. /\ conn' = [conn EXCEPT ![c].pc = "cmd", ![c].cmd = pipe[ch].cmd]
            /\ pipe' = [pipe EXCEPT ![ch].cmd = "none"] /\ pipe[ch].cmd # "none"
        BY <2>2, <2>4 DEF RecvCommand
      <3>2. pipe'[ch].cmd = "none" /\ \A d \in Conns \ {ch} : pipe'[d] = pipe[d]
        BY <3>1, <2>t DEF PipeRecord
      <3>3. dPiped = -1
        BY <3>1, <3>2, PipeCount DEF Bit
      <3>4. /\ conn'[c].msg = conn[c].msg /\ conn'[c].pc = "cmd"
            /\ \A d \in Conns \ {c} : conn'[d] = conn[d]
        <4> DEFINE r == [conn[c] EXCEPT !.pc = "cmd", !.cmd = pipe[ch].cmd]
        <4>1. r.msg = conn[c].msg /\ r.pc = "cmd" /\ conn' = [conn EXCEPT ![c] = r]
          BY <3>1, <1>t DEF ConnFields
        <4> HIDE DEF r
        <4> QED  BY <4>1, ConnShapes
      <3>5. Serves(conn'[c]) /\ ~Serves(conn[c])
        BY <2>1, <3>4 DEF Serves
      <3>6. dServing = 1 /\ dJobs = 0
        BY <2>1, <3>4, <3>5, ConnCount, SameCounts DEF Bit
      <3>7. OnlyQuitExits'
        BY <3>4 DEF RepliesInv, OnlyQuitExits
      <3>8. dJobs + dServing + dPiped <= 0
        BY <3>3, <3>6
      <3> QED  BY <2>1, <3>7, <3>8, OtherTask
    <2> QED  BY <1>7, <2>3, <2>4
  <1>8. CASE SendOutcome(c)
    <2>1. /\ UNCHANGED <<loop, owed, jobs, pipe>> /\ conn[c].pc = "send"
          /\ CanSend /\ Send(conn[c].msg) /\ conn' = [conn EXCEPT ![c] = Ending(c)]
      BY <1>8 DEF SendOutcome
    <2>2. conn[c].msg \in Messages \ {"ExitControlLoop"}
      BY <2>1, <1>m DEF TypeOK, ConnRecord, ConnFields
    <2>3. conn'[c].msg = "none" /\ \A d \in Conns \ {c} : conn'[d] = conn[d]
      BY <2>1, <1>e
    <2>4. ~Serves(conn'[c]) /\ Serves(conn[c])
      BY <2>1, <1>e DEF Serves
    <2>5. dServing = -1 /\ dJobs = 0 /\ dPiped = 0
      BY <2>1, <2>3, <2>4, ConnCount, SameCounts DEF Bit
    <2>6. OnlyQuitExits'
      BY <2>3 DEF RepliesInv, OnlyQuitExits
    <2>7. dJobs + dServing + dPiped = -1
      BY <2>5
    <2> QED  BY <2>1, <2>2, <2>6, <2>7, OtherTask
  <1> QED
    BY <1>1, <1>2, <1>3, <1>5, <1>6, <1>7, <1>8, <1>9 DEF DataStep, DataEnv

\* Initially nothing is pending.
LEMMA InitReplies == Init => RepliesInv
  <1> SUFFICES ASSUME Init PROVE RepliesInv
    OBVIOUS
  <1>1. TypeOK
    BY InitInv DEF Inv
  <1>2. OnlyQuitExits /\ ExitIsNext
    BY DEF Init, FreeConn, OnlyQuitExits, ExitIsNext
  <1>3. AtLoop = 0 /\ owed = 0
    BY DEF Init, AtLoop, Bit
  <1>4. BusyJobs = {} /\ Serving = {} /\ Piped = {}
    BY DEF Init, BusyJobs, Serving, Serves, Piped, FreeConn, EmptyPipe
  <1>5. Cardinality(Queued) = 0
    BY <1>1, CountsFinite DEF Init, Bit
  <1>6. PendingReplies = 0
    BY <1>3, <1>4, <1>5, PendingParts, FS_EmptySet
  <1> QED  BY <1>2, <1>3, <1>6 DEF RepliesInv, RepliesAccounted

\* Every step preserves the invariant.
LEMMA NextReplies == TypeOK /\ TypeOK' /\ RepliesInv /\ [Next]_vars => RepliesInv'
  <1> SUFFICES ASSUME TypeOK, TypeOK', RepliesInv, [Next]_vars PROVE RepliesInv'
    OBVIOUS
  <1>1. CASE \/ \E cmd \in Commands : Receive(cmd)
             \/ TakeMessage \/ TakeExit \/ LoseClient \/ IdleTimeout \/ IdleCheck
    BY <1>1, EventReplies
  <1>2. CASE Handler
    <2>1. CASE Pasv \/ Port \/ PortSpawn
      BY <2>1, ConnectReplies
    <2>2. CASE Cwd \/ Rmd \/ Rnto \/ SendResult \/ Quit
      BY <2>2, SendingReplies
    <2>3. CASE TransferDone \/ Abor \/ Rest \/ Rnfr \/ Cdup \/ Prot
      BY <2>3, PlainReplies
    <2>4. CASE Retr \/ Stor \/ Stou \/ List \/ Nlst
      BY <2>4, PlainReplies DEF Retr, Stor, Stou, List, Nlst, DataCommands
    <2>5. CASE Dele \/ Mkd \/ Size \/ Mdtm \/ Md5 \/ Stat
      BY <2>5, PlainReplies DEF Dele, Mkd, Size, Mdtm, Md5, Stat, JobCommands
    <2> QED  BY <1>2, <2>1, <2>2, <2>3, <2>4, <2>5 DEF Handler
  <1>3. CASE \E j \in Jobs : JobDone(j)
    BY <1>3, JobReplies
  <1>4. CASE \E c \in Conns : DataStep(c) \/ DataEnv(c)
    BY <1>4, DataReplies
  <1>5. CASE Over \/ UNCHANGED vars
    <2>1. UNCHANGED <<loop, chan, jobs, conn, pipe, owed>>
      BY <1>5 DEF Over, vars
    <2>2. PendingReplies' = PendingReplies
      BY <2>1 DEF PendingReplies
    <2> QED  BY <2>1, <2>2 DEF RepliesInv, RepliesAccounted, OnlyQuitExits, ExitIsNext
  <1> QED  BY <1>1, <1>2, <1>3, <1>4, <1>5 DEF Next

\* The invariant holds throughout.
LEMMA AlwaysReplies == Spec => [](TypeOK /\ RepliesInv)
  <1>1. TypeOK /\ TypeOK' /\ RepliesInv /\ [Next]_vars => RepliesInv'
    BY NextReplies
  <1> QED  BY <1>1, InitReplies, TypeCorrect, PTL DEF Spec

(***************************************************************************)
(* For any number of data connections, storage tasks and pipelined         *)
(* commands, every final reply that a handler, a queued message, a storage *)
(* task, an executor or a command in a channel is still to cause answers a *)
(* command of its own.                                                     *)
(***************************************************************************)
THEOREM AccountedReplies == Spec => []RepliesAccounted
  <1>1. RepliesInv => RepliesAccounted
    BY DEF RepliesInv
  <1> QED  BY <1>1, AlwaysReplies, PTL

(***************************************************************************)
(* For any number of tasks, a control loop that waits on its own full      *)
(* channel, or for an executor that does, has two commands unanswered, or  *)
(* has taken a command after QUIT and before ExitControlLoop: a client     *)
(* that waits for its replies and sends nothing after QUIT never sees it.  *)
(***************************************************************************)
THEOREM WedgesNeedHaste == Spec => []WedgeNeedsHaste
  <1>1. TypeOK /\ RepliesInv => WedgeNeedsHaste
    <2> SUFFICES ASSUME TypeOK, RepliesInv, Wedged,
                        ~(AfterQuit /\ chan = <<"ExitControlLoop">>)
                 PROVE  owed >= 2
      BY DEF WedgeNeedsHaste
    <2>1. loop.pc \in {"lock", "port", "send"} /\ Len(chan) = 1
      BY DEF Wedged, ChanCapacity
    <2>2. chan # <<>> /\ chan[1] # "ExitControlLoop"
      <3>0. chan \in Seq(Messages)
        BY DEF TypeOK
      <3>1. chan \in Seq(Messages) /\ chan # <<>>
        BY <2>1, <3>0
      <3>2. chan[1] = "ExitControlLoop" => chan = <<"ExitControlLoop">>
        BY <2>1, <3>1
      <3> QED  BY <2>1, <3>1, <3>2 DEF RepliesInv, ExitIsNext
    <2>3. AtLoop = 1 /\ Cardinality(Queued) = 1
      BY <2>1, <2>2, CountsFinite DEF AtLoop, Bit
    <2>4. PendingReplies <= owed
      BY <2>1 DEF RepliesInv, RepliesAccounted
    <2>5. CountTypes /\ owed \in Int
      BY CountsAreNat DEF TypeOK
    <2>6. PICK c \in Nat, d \in Nat, e \in Nat, m \in Int :
            /\ c = Cardinality(BusyJobs) /\ d = Cardinality(Serving) /\ e = Cardinality(Piped)
            /\ m = owed
      BY <2>5 DEF CountTypes
    <2>7. 1 + 1 + c + d + e <= m
      BY <2>3, <2>4, <2>6, PendingParts
    <2> QED  BY <2>6, <2>7
  <1> QED  BY <1>1, AlwaysReplies, PTL
=============================================================================
