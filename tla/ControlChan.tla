----------------------------- MODULE ControlChan -----------------------------
(***************************************************************************)
(* The control loop of a session (src/src/server/controlchan) and the      *)
(* command handlers it runs, beside the data connections of DataChan.      *)
(*                                                                         *)
(* One iteration of the loop takes an event in its select! (pc "select"),  *)
(* waits for the session lock if the handler needs it ("lock") and runs    *)
(* the handler.  CWD, RMD, RNTO and QUIT send their result to the loop's   *)
(* own channel from within the handler ("send").  The first lock that the  *)
(* authentication check takes is merged with the handler's: it only reads  *)
(* session.state, which nobody but the loop changes.                       *)
(***************************************************************************)
EXTENDS DataChan

Select == loop' = [pc |-> "select", ev |-> "none"]
Handling(ev) == loop.pc = "lock" /\ loop.ev = ev /\ Holds("ctl")

\* The handler returns: the lock is free, the final reply goes out (or not yet).
Reply == Select /\ Unlock /\ owed' = owed - 1
NoReply == Select /\ Unlock /\ UNCHANGED owed

-----------------------------------------------------------------------------
(* The events of the select!.                                              *)

(***************************************************************************)
(* A command arrives.  Unless it pipelines, a client waits for the final   *)
(* reply to its last command; unless AfterQuit, it sends nothing after     *)
(* QUIT, or nothing that gets here: the select! may take a command while   *)
(* ExitControlLoop is in the channel.  Commands that need a new task are   *)
(* bounded by Jobs and Conns.                                              *)
(***************************************************************************)
Receive(cmd) ==
  /\ loop.pc = "select"
  /\ owed < MaxOwed
  /\ Pipelining \/ owed = 0
  /\ AfterQuit \/ chan # <<"ExitControlLoop">>
  /\ cmd \in JobCommands => \E j \in Jobs : jobs[j] = "none"
  /\ cmd \in {"PASV", "PORT"} => \E c \in Conns : Unused(c)
  /\ owed' = owed + 1
  /\ IF cmd = "QUIT"
     THEN /\ loop' = [pc |-> "send", ev |-> "ExitControlLoop"]
          /\ UNCHANGED lockq
     ELSE /\ loop' = [pc |-> "lock", ev |-> cmd]
          /\ Lock("ctl")
  /\ UNCHANGED <<session, chan, jobs, conn, pipe>>

\* A message of another task: handle_internal_msg replies to it, after the
\* session lock where it resets start_pos.
TakeMessage ==
  /\ loop.pc = "select"
  /\ chan # <<>>
  /\ Head(chan) # "ExitControlLoop"
  /\ chan' = Tail(chan)
  /\ IF Head(chan) \in Transferred
     THEN /\ loop' = [pc |-> "lock", ev |-> Head(chan)]
          /\ Lock("ctl")
          /\ UNCHANGED owed
     ELSE /\ owed' = owed - 1
          /\ UNCHANGED <<loop, lockq>>
  /\ UNCHANGED <<session, jobs, conn, pipe>>

\* Mutant of TransferDone: the offset outlives the transfer.
KeepsOffset ==
  /\ \E msg \in Transferred : Handling(msg)
  /\ Reply
  /\ UNCHANGED <<session, chan, jobs, conn, pipe>>

\* SentData and WrittenData: the offset of REST is used up.
TransferDone ==
  /\ \E msg \in Transferred : Handling(msg)
  /\ session' = [session EXCEPT !.start_pos = 0]
  /\ Reply
  /\ UNCHANGED <<chan, jobs, conn, pipe>>

Exit == loop' = [pc |-> "exit", ev |-> "none"] /\ chan' = <<>>

TakeExit ==
  /\ loop.pc = "select"
  /\ chan = <<"ExitControlLoop">>
  /\ Exit
  /\ UNCHANGED <<session, lockq, jobs, conn, pipe, owed>>

\* The client hangs up, the server shuts down, a command is not UTF-8 or a
\* reply cannot be written.
LoseClient ==
  /\ loop.pc = "select"
  /\ Exit
  /\ UNCHANGED <<session, lockq, jobs, conn, pipe, owed>>

IdleTimeout ==
  /\ loop.pc = "select"
  /\ loop' = [pc |-> "idle", ev |-> "none"]
  /\ Lock("ctl")
  /\ UNCHANGED <<session, chan, jobs, conn, pipe, owed>>

\* The session lock is awaited inside the timeout branch.
IdleCheck ==
  /\ loop.pc = "idle"
  /\ Holds("ctl")
  /\ Unlock
  /\ IF session.data_busy THEN Select /\ UNCHANGED chan ELSE Exit
  /\ UNCHANGED <<session, jobs, conn, pipe, owed>>

-----------------------------------------------------------------------------
(* Data connections and transfers.                                         *)

\* setup_inter_loop_comms: the ends of an earlier pair are dropped.
NewPair(c) ==
  /\ session' = [session EXCEPT !.data_cmd_tx = c, !.data_abort_tx = c, !.data_rx = c]
  /\ pipe' = [pipe EXCEPT ![c] = EmptyPipe]

\* handle_nonproxy_mode of PASV; no port may be free.
Pasv ==
  /\ Handling("PASV")
  /\ \/ \E c \in Conns :
          /\ Unused(c)
          /\ NewPair(c)
          /\ conn' = [conn EXCEPT ![c].pc = "accept"]
     \/ UNCHANGED <<session, pipe, conn>>
  /\ Reply
  /\ UNCHANGED <<chan, jobs>>

\* handle_nonproxy_mode of PORT: connects, then locks twice.
Port ==
  /\ Handling("PORT")
  /\ \/ /\ \E c \in Conns :
             /\ Unused(c)
             /\ NewPair(c)
             /\ conn' = [conn EXCEPT ![c].pc = "port"]
        /\ loop' = [pc |-> "port", ev |-> "PORT"]
        /\ Relock("ctl")
        /\ UNCHANGED owed
     \/ /\ Reply
        /\ UNCHANGED <<session, pipe, conn>>
  /\ UNCHANGED <<chan, jobs>>

PortSpawn ==
  /\ loop.pc = "port"
  /\ Holds("ctl")
  /\ \E c \in Conns : conn[c].pc = "port" /\ SpawnProcessing(c)
  /\ Reply
  /\ UNCHANGED <<chan, jobs, pipe>>

\* The handlers of RETR, STOR, STOU, LIST and NLST: the sender is used up, 150.
DataCommand(cmd) ==
  /\ Handling(cmd)
  /\ IF session.data_cmd_tx # NoConn
     THEN /\ pipe' = [pipe EXCEPT ![session.data_cmd_tx].cmd = cmd]
          /\ session' = [session EXCEPT !.data_cmd_tx = NoConn]
          /\ NoReply
     ELSE /\ Reply
          /\ UNCHANGED <<session, pipe>>
  /\ UNCHANGED <<chan, jobs, conn>>

Retr == DataCommand("RETR")
Stor == DataCommand("STOR")
Stou == DataCommand("STOU")
List == DataCommand("LIST")
Nlst == DataCommand("NLST")

\* ABOR replies 226 whether or not there is anything to abort.
Abor ==
  /\ Handling("ABOR")
  /\ IF session.data_abort_tx # NoConn
     THEN /\ pipe' = [pipe EXCEPT ![session.data_abort_tx].abort = TRUE]
          /\ session' = [session EXCEPT !.data_abort_tx = NoConn]
     ELSE UNCHANGED <<session, pipe>>
  /\ Reply
  /\ UNCHANGED <<chan, jobs, conn>>

-----------------------------------------------------------------------------
(* Commands that change the session only.                                  *)

\* Mutant of Rest: the offset is added to the last one.
AddsOffset ==
  /\ Handling("REST")
  /\ session' = [session EXCEPT !.start_pos = @ + 1]
  /\ Reply
  /\ UNCHANGED <<chan, jobs, conn, pipe>>

\* A back-end without FEATURE_RESTART refuses it.
Rest ==
  /\ Handling("REST")
  /\ \/ \E offset \in {0, 1} : session' = [session EXCEPT !.start_pos = offset]
     \/ UNCHANGED session
  /\ Reply
  /\ UNCHANGED <<chan, jobs, conn, pipe>>

Rnfr ==
  /\ Handling("RNFR")
  /\ session' = [session EXCEPT !.rename_from = TRUE]
  /\ Reply
  /\ UNCHANGED <<chan, jobs, conn, pipe>>

\* Directories other than the root have the root as parent.
Cdup ==
  /\ Handling("CDUP")
  /\ session' = [session EXCEPT !.cwd = Root]
  /\ Reply
  /\ UNCHANGED <<chan, jobs, conn, pipe>>

Prot ==
  /\ Handling("PROT")
  /\ IF TlsConfigured
     THEN \E tls \in BOOLEAN : session' = [session EXCEPT !.data_tls = tls]
     ELSE UNCHANGED session
  /\ Reply
  /\ UNCHANGED <<chan, jobs, conn, pipe>>

-----------------------------------------------------------------------------
(* Commands whose handler sends a message to the loop that runs it.        *)

SendFrom(cmd) ==
  \E msg \in {Success(cmd), "StorageError"} : loop' = [pc |-> "send", ev |-> msg]

Cwd ==
  /\ Handling("CWD")
  /\ SendFrom("CWD")
  /\ UNCHANGED <<session, lockq, chan, jobs, conn, pipe, owed>>

Rmd ==
  /\ Handling("RMD")
  /\ SendFrom("RMD")
  /\ UNCHANGED <<session, lockq, chan, jobs, conn, pipe, owed>>

Rnto ==
  /\ Handling("RNTO")
  /\ \/ /\ session.rename_from
        /\ session' = [session EXCEPT !.rename_from = FALSE]
        /\ SendFrom("RNTO")
        /\ UNCHANGED <<lockq, owed>>
     \/ /\ ~session.rename_from
        /\ Reply
        /\ UNCHANGED session
  /\ UNCHANGED <<chan, jobs, conn, pipe>>

\* The send of CWD, RMD and RNTO, with the session locked.  CWD changes the
\* directory after it.
SendResult ==
  /\ loop.pc = "send"
  /\ loop.ev # "ExitControlLoop"
  /\ CanSend
  /\ Send(loop.ev)
  /\ IF loop.ev = "CwdSuccess"
     THEN \E dir \in Dirs : session' = [session EXCEPT !.cwd = dir]
     ELSE UNCHANGED session
  /\ NoReply
  /\ UNCHANGED <<jobs, conn, pipe>>

\* Mutant of Quit: 221 goes out, but nobody tells the loop.
OnlyReplies ==
  /\ loop.pc = "send"
  /\ loop.ev = "ExitControlLoop"
  /\ Select
  /\ owed' = owed - 1
  /\ UNCHANGED <<session, lockq, chan, jobs, conn, pipe>>

\* The send of QUIT, without the lock; 221 follows it.
Quit ==
  /\ loop.pc = "send"
  /\ loop.ev = "ExitControlLoop"
  /\ CanSend
  /\ Send("ExitControlLoop")
  /\ Select
  /\ owed' = owed - 1
  /\ UNCHANGED <<session, lockq, jobs, conn, pipe>>

-----------------------------------------------------------------------------
(* Commands served by a task of their own.                                 *)

\* Mutant of SpawnTask: the handler replies, and so will the task.
RepliesToo(cmd) ==
  /\ Handling(cmd)
  /\ \E j \in Jobs : jobs[j] = "none" /\ jobs' = [jobs EXCEPT ![j] = cmd]
  /\ Reply
  /\ UNCHANGED <<session, chan, conn, pipe>>

SpawnTask(cmd) ==
  /\ Handling(cmd)
  /\ \E j \in Jobs : jobs[j] = "none" /\ jobs' = [jobs EXCEPT ![j] = cmd]
  /\ NoReply
  /\ UNCHANGED <<session, chan, conn, pipe>>

RepliesAtOnce(cmd) ==
  /\ Handling(cmd)
  /\ Reply
  /\ UNCHANGED <<session, chan, jobs, conn, pipe>>

Dele == SpawnTask("DELE")
Mkd  == SpawnTask("MKD")
Size == SpawnTask("SIZE")
Mdtm == SpawnTask("MDTM")
Md5  == SpawnTask("MD5") \/ RepliesAtOnce("MD5")     \* not available
Stat == SpawnTask("STAT") \/ RepliesAtOnce("STAT")   \* without a path

\* Mutant of JobDone: a storage error is reported twice.
ReportsTwice(j) ==
  /\ jobs[j] # "none"
  /\ CanSend
  /\ \/ /\ Send(Success(jobs[j]))
        /\ jobs' = [jobs EXCEPT ![j] = "none"]
     \/ /\ Send("StorageError")
        /\ UNCHANGED jobs
  /\ UNCHANGED <<session, lockq, loop, conn, pipe, owed>>

\* Such a task is done with the storage back-end and sends the outcome.
JobDone(j) ==
  /\ jobs[j] # "none"
  /\ CanSend
  /\ \E msg \in {Success(jobs[j]), "StorageError"} : Send(msg)
  /\ jobs' = [jobs EXCEPT ![j] = "none"]
  /\ UNCHANGED <<session, lockq, loop, conn, pipe, owed>>

-----------------------------------------------------------------------------
Handler ==
  \/ TransferDone \/ Pasv \/ Port \/ PortSpawn
  \/ Retr \/ Stor \/ Stou \/ List \/ Nlst \/ Abor
  \/ Rest \/ Rnfr \/ Cdup \/ Prot \/ Cwd \/ Rmd \/ Rnto
  \/ Dele \/ Mkd \/ Size \/ Mdtm \/ Md5 \/ Stat
  \/ SendResult \/ Quit

\* The session is over and its tasks are gone.
Over ==
  /\ loop.pc = "exit"
  /\ \A c \in Conns : conn[c].pc \in {"free", "panic"}
  /\ \A j \in Jobs : jobs[j] = "none"
  /\ UNCHANGED vars

Next ==
  \/ \E cmd \in Commands : Receive(cmd)
  \/ TakeMessage \/ TakeExit \/ LoseClient \/ IdleTimeout \/ IdleCheck
  \/ Handler
  \/ \E j \in Jobs : JobDone(j)
  \/ \E c \in Conns : DataStep(c) \/ DataEnv(c)
  \/ Over

(***************************************************************************)
(* Tasks that can run do run.  select! picks among the ready branches at   *)
(* random and mpsc serves senders in order, so a message that is there     *)
(* again and again is taken, and a sender that finds room again and again  *)
(* sends.  Transfers and storage calls end: the peer of a data connection  *)
(* reads or hangs up, the back-end answers.  Nothing is assumed of the     *)
(* client on the control connection.                                       *)
(***************************************************************************)
Fairness ==
  /\ WF_vars(Handler) /\ WF_vars(IdleTimeout) /\ WF_vars(IdleCheck)
  /\ SF_vars(TakeMessage) /\ SF_vars(TakeExit)
  /\ \A j \in Jobs : SF_vars(JobDone(j))
  /\ \A c \in Conns : SF_vars(DataStep(c)) /\ WF_vars(AcceptTimeout(c)) /\ WF_vars(DataTimeout(c))

Spec == Init /\ [][Next]_vars /\ Fairness

-----------------------------------------------------------------------------
(***************************************************************************)
(* A session never runs two transfers at once, however many data           *)
(* connections its client opens: the executor keeps the session lock for   *)
(* the whole transfer.                                                     *)
(***************************************************************************)
Transferring(c) == conn[c].pc \in {"transfer", "send"}
AtMostOneTransfer == \A c, d \in Conns : Transferring(c) /\ Transferring(d) => c = d

(***************************************************************************)
(* Every final reply that some task, message or handler is still to cause  *)
(* answers a command of its own: the client never gets a reply it cannot   *)
(* attribute, in whatever order the tasks finish.                          *)
(***************************************************************************)
PendingReplies ==
  (IF loop.pc \in {"lock", "port", "send"} THEN 1 ELSE 0)
    + Cardinality({i \in 1..Len(chan) : chan[i] # "ExitControlLoop"})
    + Cardinality({j \in Jobs : jobs[j] # "none"})
    + Cardinality({c \in Conns : conn[c].pc \in {"cmd", "transfer", "send"}})
    + Cardinality({c \in Conns : pipe[c].cmd # "none"})

RepliesAccounted == loop.pc # "exit" => PendingReplies <= owed

(***************************************************************************)
(* The control loop can only wedge itself (a handler sends to the full     *)
(* channel that its own loop reads), or wait for an executor that waits    *)
(* for it, if the client has sent a command before the last was answered,  *)
(* or one after QUIT that the loop takes before ExitControlLoop.           *)
(***************************************************************************)
Wedged ==
  /\ Len(chan) = ChanCapacity
  /\ \/ loop.pc = "send"
     \/ loop.pc \in {"lock", "port"} /\ \E c \in Conns : conn[c].pc = "send"

WedgeNeedsHaste == Wedged => owed >= 2 \/ (AfterQuit /\ chan = <<"ExitControlLoop">>)

(***************************************************************************)
(* data_busy "tells if the data loop is running": it is set without an     *)
(* executor that is still to clear it, and so puts off the idle timeout    *)
(* for good, only if a failed TLS handshake has panicked one, however many *)
(* executors share the flag and whichever ends first.                      *)
(***************************************************************************)
Panicked == \E c \in Conns : conn[c].pc = "panic"
OnlyPanicsLeaveBusy ==
  session.data_busy => Panicked \/ \E c \in Conns : conn[c].pc \in Running

(***************************************************************************)
(* A client that waits for replies, and sends nothing after QUIT, has      *)
(* every command answered or its session ended, unless the TLS handshake   *)
(* of a data connection has failed: lost data connections, failed listings *)
(* and 150 replies that no completion follows all end in the idle timeout  *)
(* at the latest.                                                          *)
(***************************************************************************)
EveryCommandAnswered == owed > 0 ~> owed = 0 \/ loop.pc = "exit" \/ Panicked

(***************************************************************************)
(* QUIT: "Let the control loop know it can exit."  The session ends.  It   *)
(* does for a client that waits for replies and sends nothing after it.    *)
(***************************************************************************)
QuitCloses == loop.ev = "ExitControlLoop" ~> loop.pc = "exit"

(***************************************************************************)
(* The offset of REST does not outlive the transfer that used it: once a   *)
(* transfer has succeeded, start_pos goes back to 0.                       *)
(***************************************************************************)
OffsetConsumed ==
  (\E c \in Conns : conn[c].pc = "send" /\ conn[c].msg \in Transferred)
    ~> session.start_pos = 0 \/ loop.pc = "exit"
=============================================================================
