------------------------------ MODULE DataChan ------------------------------
(***************************************************************************)
(* The data connections of a session (src/src/server/datachan.rs): the     *)
(* task a PASV command leaves behind to accept the connection, and the     *)
(* DataCommandExecutor that serves one command on it.                      *)
(***************************************************************************)
EXTENDS Session

Running == {"select", "cmd", "transfer", "send", "fin"}

\* Accept task of PASV: the client connects, or 15 seconds pass.
Accept(c) ==
  /\ conn[c].pc = "accept"
  /\ conn' = [conn EXCEPT ![c].pc = "spawn"]
  /\ Lock(c)
  /\ UNCHANGED <<session, chan, loop, jobs, pipe, owed>>

AcceptTimeout(c) ==
  /\ conn[c].pc = "accept"
  /\ conn' = [conn EXCEPT ![c] = FreeConn]
  /\ UNCHANGED <<session, lockq, chan, loop, jobs, pipe, owed>>

(***************************************************************************)
(* spawn_processing, under the session lock that p holds.  It refuses a    *)
(* peer other than the control connection's and gives up when the          *)
(* receivers are gone; otherwise an executor starts with a copy of what it *)
(* needs of the session.  The receivers are the session's current ones,    *)
(* not those of the PASV that opened the port.                             *)
(***************************************************************************)
SpawnProcessing(c) ==
  \/ /\ conn' = [conn EXCEPT ![c] = FreeConn]
     /\ UNCHANGED session
  \/ /\ session.data_rx # NoConn
     /\ conn' = [conn EXCEPT ![c] =
          [FreeConn EXCEPT !.pc = "select", !.ch = session.data_rx,
                           !.cwd = session.cwd, !.tls = session.data_tls]]
     /\ session' = [session EXCEPT !.data_rx = NoConn, !.data_busy = TRUE]

Spawn(c) ==
  /\ conn[c].pc = "spawn"
  /\ Holds(c)
  /\ SpawnProcessing(c)
  /\ Unlock
  /\ UNCHANGED <<chan, loop, jobs, pipe, owed>>

-----------------------------------------------------------------------------
(* execute(): wait for a command, an abort or five minutes.                *)

\* What is left of an executor that only has data_busy to clear.
Ending(c) == [FreeConn EXCEPT !.pc = "fin", !.ch = conn[c].ch]

RecvCommand(c) ==
  LET ch == conn[c].ch IN
  /\ conn[c].pc = "select"
  /\ pipe[ch].cmd # "none"
  /\ conn' = [conn EXCEPT ![c].pc = "cmd", ![c].cmd = pipe[ch].cmd]
  /\ pipe' = [pipe EXCEPT ![ch].cmd = "none"]
  /\ Lock(c)
  /\ UNCHANGED <<session, chan, loop, jobs, owed>>

RecvAbort(c) ==
  LET ch == conn[c].ch IN
  /\ conn[c].pc = "select"
  /\ pipe[ch].abort
  /\ conn' = [conn EXCEPT ![c] = Ending(c)]
  /\ pipe' = [pipe EXCEPT ![ch].abort = FALSE]
  /\ Lock(c)
  /\ UNCHANGED <<session, chan, loop, jobs, owed>>

DataTimeout(c) ==
  /\ conn[c].pc = "select"
  /\ conn' = [conn EXCEPT ![c] = Ending(c)]
  /\ Lock(c)
  /\ UNCHANGED <<session, chan, loop, jobs, pipe, owed>>

\* Mutant of StartTransfer: the transfer does not wait for the session lock.
IgnoresLock(c) ==
  /\ conn[c].pc = "cmd"
  /\ conn' = [conn EXCEPT ![c].pc = "transfer"]
  /\ UNCHANGED <<session, lockq, chan, loop, jobs, pipe, owed>>

\* The transfer starts, under the session lock.
StartTransfer(c) ==
  /\ conn[c].pc = "cmd"
  /\ Holds(c)
  /\ conn' = [conn EXCEPT ![c].pc = "transfer"]
  /\ UNCHANGED <<session, lockq, chan, loop, jobs, pipe, owed>>

\* writer() and reader() unwrap the TLS handshake: a failed one ends the task, and
\* data_busy stays set.  Bound: the connection keeps its place, so that the
\* properties can tell.
HandshakePanic(c) ==
  /\ conn[c].pc = "transfer"
  /\ conn[c].tls
  /\ conn' = [conn EXCEPT ![c] = [FreeConn EXCEPT !.pc = "panic"]]
  /\ Unlock
  /\ UNCHANGED <<session, chan, loop, jobs, pipe, owed>>

\* exec_retr, exec_stor: the outcome is reported, whatever it is.
exec_retr_stor(c) ==
  /\ conn[c].pc = "transfer"
  /\ conn[c].cmd \in {"RETR", "STOR", "STOU"}
  /\ \E msg \in {Success(conn[c].cmd), "StorageError"} :
       conn' = [conn EXCEPT ![c].pc = "send", ![c].msg = msg]
  /\ UNCHANGED <<session, lockq, chan, loop, jobs, pipe, owed>>

\* exec_list_variant: a listing that cannot be copied to the client is logged.
exec_list_variant(c) ==
  /\ conn[c].pc = "transfer"
  /\ conn[c].cmd \in {"LIST", "NLST"}
  /\ \/ /\ \E msg \in {Success(conn[c].cmd), "StorageError"} :
             conn' = [conn EXCEPT ![c].pc = "send", ![c].msg = msg]
        /\ UNCHANGED lockq
     \/ /\ conn' = [conn EXCEPT ![c] = Ending(c)]
        /\ Relock(c)
  /\ UNCHANGED <<session, chan, loop, jobs, pipe, owed>>

\* The report is sent before the guard of the session is dropped.
SendOutcome(c) ==
  /\ conn[c].pc = "send"
  /\ CanSend
  /\ Send(conn[c].msg)
  /\ conn' = [conn EXCEPT ![c] = Ending(c)]
  /\ Relock(c)
  /\ UNCHANGED <<session, loop, jobs, pipe, owed>>

\* Mutant of Finish: data_busy stays set.
LeavesBusy(c) ==
  /\ conn[c].pc = "fin"
  /\ Holds(c)
  /\ conn' = [conn EXCEPT ![c] = FreeConn]
  /\ Unlock
  /\ UNCHANGED <<session, chan, loop, jobs, pipe, owed>>

\* The end of execute(): data_busy is cleared and the executor is gone.
Finish(c) ==
  /\ conn[c].pc = "fin"
  /\ Holds(c)
  /\ session' = [session EXCEPT !.data_busy = FALSE]
  /\ conn' = [conn EXCEPT ![c] = FreeConn]
  /\ Unlock
  /\ UNCHANGED <<chan, loop, jobs, pipe, owed>>

DataStep(c) ==
  \/ Spawn(c) \/ RecvCommand(c) \/ RecvAbort(c) \/ StartTransfer(c)
  \/ exec_retr_stor(c) \/ exec_list_variant(c) \/ SendOutcome(c) \/ Finish(c)

DataEnv(c) == Accept(c) \/ AcceptTimeout(c) \/ DataTimeout(c) \/ HandshakePanic(c)
=============================================================================
