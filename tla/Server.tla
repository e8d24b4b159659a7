------------------------------ MODULE Server ------------------------------
(***************************************************************************)
(* Server::listen: the accept loop, the control loops it spawns and the    *)
(* graceful shutdown.  A control loop hears of the shutdown because the    *)
(* only sender of a broadcast channel is dropped, and the server knows     *)
(* that a control loop has ended because that drops its clone of the       *)
(* sender of a second channel.                                             *)
(***************************************************************************)
EXTENDS FiniteSets

CONSTANTS
  Sessions,        \* connections that clients make
  Blockable,       \* sessions whose client can make a handler wait for ever
  Acceptor,        \* the listener of the accept loop
  Sweeper          \* the listener of the sweeper of failed logins

VARIABLES
  server,      \* Server::listen
  accept,      \* the accept loop
  notifier,    \* which of the Notifier's two senders are left
  complete,    \* who holds a clone of shutdown_complete_tx
  sess,        \* the sessions
  helper       \* whether connections are handed to a helper process

vars == <<server, accept, notifier, complete, sess, helper>>

ASSUME ServerAssumption ==
  /\ Blockable \subseteq Sessions
  /\ Acceptor \notin Sessions /\ Sweeper \notin Sessions

\* A session waits in select!, runs a handler, may be blocked there, or has been
\* told to exit.  spawn_loop sends the greeting before the task is spawned.
Looping == {"greeting", "select", "handling", "blocked", "closing"}

(***************************************************************************)
(* The values the variables take.                                          *)
(***************************************************************************)
TypeOK ==
  /\ server \in {"listening", "notify", "notified", "linger", "ok", "expired", "failed"}
  /\ accept \in {"subscribe", "accept", "spawn", "gone"}
  /\ notifier \subseteq {"shutdown_tx", "shutdown_complete_tx"}
  /\ complete \subseteq Sessions \union {Acceptor, Sweeper}
  /\ sess \in [Sessions -> {"none", "child", "done"} \union Looping]
  /\ helper \in BOOLEAN

\* With a failed logins policy there is a sweeper.
Init ==
  /\ server = "listening"
  /\ accept = "subscribe"
  /\ notifier = {"shutdown_tx", "shutdown_complete_tx"}
  /\ complete \in {{}, {Sweeper}}
  /\ sess = [s \in Sessions |-> "none"]
  /\ helper \in BOOLEAN

-----------------------------------------------------------------------------
(* The accept loop.                                                        *)

\* Mutant of Subscribe: the listener has no clone of shutdown_complete_tx.
SubscribesUncounted ==
  /\ accept = "subscribe"
  /\ accept' = "accept"
  /\ UNCHANGED <<server, notifier, complete, sess, helper>>

Subscribe ==
  /\ accept = "subscribe"
  /\ accept' = "accept"
  /\ complete' = IF "shutdown_complete_tx" \in notifier
                 THEN complete \union {Acceptor} ELSE complete
  /\ UNCHANGED <<server, notifier, sess, helper>>

\* The listener moves to the new session.
SpawnLoop(s) ==
  /\ accept = "accept" /\ ~helper
  /\ sess[s] = "none"
  /\ sess' = [sess EXCEPT ![s] = "greeting"]
  /\ accept' = "spawn"
  /\ complete' = IF Acceptor \in complete
                 THEN (complete \ {Acceptor}) \union {s} ELSE complete
  /\ UNCHANGED <<server, notifier, helper>>

\* The session is left to a process of its own, and the listener is dropped.
SpawnHelper(s) ==
  /\ accept = "accept" /\ helper
  /\ sess[s] = "none"
  /\ sess' = [sess EXCEPT ![s] = "child"]
  /\ accept' = "subscribe"
  /\ complete' = complete \ {Acceptor}
  /\ UNCHANGED <<server, notifier, helper>>

AcceptFails ==
  /\ accept = "accept"
  /\ accept' = "subscribe"
  /\ complete' = complete \ {Acceptor}
  /\ UNCHANGED <<server, notifier, sess, helper>>

Ends(s) ==
  /\ sess' = [sess EXCEPT ![s] = "done"]
  /\ complete' = complete \ {s}

\* Mutant of Greeted: a session that cannot be greeted is in a state nobody knows.
GreetingLost(s) ==
  /\ accept = "spawn" /\ sess[s] = "greeting"
  /\ accept' = "subscribe"
  /\ sess' = [sess EXCEPT ![s] = "lost"]
  /\ UNCHANGED <<server, notifier, complete, helper>>

\* The greeting is sent and the task spawned, or the connection is gone.
Greeted(s) ==
  /\ accept = "spawn" /\ sess[s] = "greeting"
  /\ accept' = "subscribe"
  /\ \/ sess' = [sess EXCEPT ![s] = "select"] /\ UNCHANGED complete
     \/ Ends(s)
  /\ UNCHANGED <<server, notifier, helper>>

-----------------------------------------------------------------------------
(* The control loops.                                                      *)

Command(s) ==
  /\ sess[s] = "select"
  /\ sess' = [sess EXCEPT ![s] = "handling"]
  /\ UNCHANGED <<server, accept, notifier, complete, helper>>

\* The handler is done, fails, or waits for ever.
Handled(s) ==
  /\ sess[s] = "handling"
  /\ \/ sess' = [sess EXCEPT ![s] = "select"] /\ UNCHANGED complete
     \/ s \in Blockable /\ sess' = [sess EXCEPT ![s] = "blocked"] /\ UNCHANGED complete
     \/ Ends(s)
  /\ UNCHANGED <<server, accept, notifier, helper>>

\* The shutdown branch of select!.
Hear(s) ==
  /\ sess[s] = "select" /\ "shutdown_tx" \notin notifier
  /\ sess' = [sess EXCEPT ![s] = "closing"]
  /\ UNCHANGED <<server, accept, notifier, complete, helper>>

\* The event chain handles ExitControlLoop; QUIT, a closed connection, the idle
\* timeout and errors end the loop as well.
Exit(s) ==
  /\ sess[s] \in {"select", "closing"}
  /\ Ends(s)
  /\ UNCHANGED <<server, accept, notifier, helper>>

-----------------------------------------------------------------------------
(* Shutdown.                                                               *)

\* select! drops the futures it has not chosen: the accept loop with its
\* listener and a session that has not been spawned yet, and the sweeper.
DropFutures ==
  /\ accept' = "gone"
  /\ sess' = [s \in Sessions |-> IF sess[s] = "greeting" THEN "done" ELSE sess[s]]
  /\ complete' = complete \ ({Acceptor, Sweeper} \union {s \in Sessions : sess[s] = "greeting"})

\* Mutant of ShutdownIndicated: the futures live on while the server lingers.
KeepsFutures ==
  /\ server = "listening"
  /\ server' = "notify"
  /\ UNCHANGED <<accept, notifier, complete, sess, helper>>

ShutdownIndicated ==
  /\ server = "listening"
  /\ server' = "notify"
  /\ DropFutures
  /\ UNCHANGED <<notifier, helper>>

NotifyShutdown ==
  /\ server = "notify"
  /\ server' = "notified"
  /\ notifier' = notifier \ {"shutdown_tx"}
  /\ UNCHANGED <<accept, complete, sess, helper>>

NotifyComplete ==
  /\ server = "notified"
  /\ server' = "linger"
  /\ notifier' = notifier \ {"shutdown_complete_tx"}
  /\ UNCHANGED <<accept, complete, sess, helper>>

\* recv() is None once every sender is dropped.
Linger ==
  /\ server = "linger"
  /\ complete = {} /\ "shutdown_complete_tx" \notin notifier
  /\ server' = "ok"
  /\ UNCHANGED <<accept, notifier, complete, sess, helper>>

\* Mutant of GraceExpired: the end of the wait depends on the listeners.
GraceWaits ==
  /\ server = "linger" /\ complete = {}
  /\ server' = "expired"
  /\ UNCHANGED <<accept, notifier, complete, sess, helper>>

GraceExpired ==
  /\ server = "linger"
  /\ server' = "expired"
  /\ UNCHANGED <<accept, notifier, complete, sess, helper>>

\* Mutant of ListenFails: somebody else owns the Notifier too.
NotifierLeaks ==
  /\ server = "listening"
  /\ server' = "failed"
  /\ DropFutures
  /\ UNCHANGED <<notifier, helper>>

\* listen() returns an error: the port cannot be bound, or the proxy loop cannot
\* shut a connection down.  The Notifier is dropped with its senders.
ListenFails ==
  /\ server = "listening"
  /\ server' = "failed"
  /\ DropFutures
  /\ notifier' = {}
  /\ UNCHANGED helper

-----------------------------------------------------------------------------
ServerStep ==
  \/ NotifyShutdown \/ NotifyComplete \/ Linger \/ GraceExpired

Next ==
  \/ Subscribe \/ AcceptFails
  \/ \E s \in Sessions :
       \/ SpawnLoop(s) \/ SpawnHelper(s) \/ Greeted(s)
       \/ Command(s) \/ Handled(s) \/ Hear(s) \/ Exit(s)
  \/ ShutdownIndicated \/ ListenFails \/ ServerStep

\* Tasks run and the grace period passes.  select! polls its branches in random
\* order, so a busy session does not miss the shutdown for ever.  Nothing is
\* assumed of a handler that is blocked.
Fairness ==
  /\ WF_vars(NotifyShutdown) /\ WF_vars(NotifyComplete)
  /\ WF_vars(Linger) /\ WF_vars(GraceExpired)
  /\ \A s \in Sessions :
       /\ WF_vars(Handled(s))
       /\ SF_vars(Hear(s))
       /\ WF_vars(sess[s] = "closing" /\ Exit(s))

Spec == Init /\ [][Next]_vars /\ Fairness

-----------------------------------------------------------------------------
(***************************************************************************)
(* A graceful shutdown is complete only when no control loop is left: none *)
(* that was just being spawned, none that is in a handler.                 *)
(***************************************************************************)
OkMeansQuiet == server = "ok" => \A s \in Sessions : sess[s] \notin Looping

(***************************************************************************)
(* Whatever clients do, listen() returns after the shutdown indicator.     *)
(***************************************************************************)
ShutdownEnds == server = "notify" ~> server \in {"ok", "expired"}

(***************************************************************************)
(* When listen() stops, by the indicator or by an error, every control     *)
(* loop comes to its end, idle and busy ones alike, unless its handler is  *)
(* blocked.                                                                *)
(***************************************************************************)
LoopsEnd ==
  server # "listening" ~> \A s \in Sessions : sess[s] \notin Looping \ {"blocked"}

(***************************************************************************)
(* Only a blocked handler can keep the server from a graceful end: nothing *)
(* of the server itself holds back the completion that it waits for.       *)
(***************************************************************************)
OnlyBlockedHold ==
  server = "linger" ~> complete \subseteq {s \in Sessions : sess[s] = "blocked"}
=============================================================================
