--------------------------- MODULE ServerProofs ---------------------------
(***************************************************************************)
(* Server::listen calls a shutdown complete only when it is, for any       *)
(* number of connections and whatever their handlers do.  The count that   *)
(* it waits for is that of the holders of a channel end, so the proof is   *)
(* about who holds one: every control loop, from the moment it exists, and *)
(* the accept loop, which passes its own on.                               *)
(***************************************************************************)
EXTENDS Server, TLAPS

\* The Notifier is whole, and the accept loop there, while the server listens.
Serving ==
  /\ server = "listening" => "shutdown_complete_tx" \in notifier
  /\ server # "listening" => accept = "gone"

\* Whoever is waited for holds a clone of shutdown_complete_tx.
Counted ==
  /\ accept = "accept" => Acceptor \in complete
  /\ \A s \in Sessions : sess[s] \in Looping => s \in complete

Inv == TypeOK /\ Serving /\ Counted /\ (server = "ok" => complete = {})

\* The steps of the accept loop and of the control loops.
LoopStep ==
  \/ Subscribe \/ AcceptFails
  \/ \E s \in Sessions :
       \/ SpawnLoop(s) \/ SpawnHelper(s) \/ Greeted(s)
       \/ Command(s) \/ Handled(s) \/ Hear(s) \/ Exit(s)

\* Before the first connection the invariant holds.
LEMMA InitInv == Init => Inv
  BY ServerAssumption DEF Init, Inv, TypeOK, Serving, Counted, Looping

\* No loop's step enlarges the set of those waited for once listening is over.
LEMMA LoopSteps == ASSUME Inv, LoopStep PROVE Inv'
  <1>1. CASE Subscribe
    <2>1. server = "listening" /\ "shutdown_complete_tx" \in notifier
      BY <1>1 DEF Inv, TypeOK, Serving, Subscribe
    <2>2. complete' = complete \union {Acceptor} /\ UNCHANGED <<server, notifier, sess, helper>>
      BY <1>1, <2>1 DEF Subscribe
    <2> QED  BY <1>1, <2>1, <2>2 DEF Inv, TypeOK, Serving, Counted, Subscribe
  <1>2. CASE AcceptFails
    BY <1>2, ServerAssumption DEF Inv, TypeOK, Serving, Counted, AcceptFails, Looping
  <1>3. ASSUME NEW s \in Sessions, SpawnLoop(s) PROVE Inv'
    <2>1. server = "listening" /\ Acceptor \in complete
      BY <1>3 DEF Inv, TypeOK, Serving, Counted, SpawnLoop
    <2>2. complete' = (complete \ {Acceptor}) \union {s}
      BY <1>3, <2>1 DEF SpawnLoop
    <2>3. sess' = [sess EXCEPT ![s] = "greeting"] /\ accept' = "spawn"
          /\ UNCHANGED <<server, notifier, helper>>
      BY <1>3 DEF SpawnLoop
    <2>4. TypeOK'
      BY <2>2, <2>3 DEF Inv, TypeOK, Looping
    <2>5. Counted'
      BY <2>2, <2>3, ServerAssumption DEF Inv, TypeOK, Counted
    <2> QED  BY <2>1, <2>3, <2>4, <2>5 DEF Inv, Serving
  <1>4. ASSUME NEW s \in Sessions, SpawnHelper(s) PROVE Inv'
    <2>1. server = "listening"
      BY <1>4 DEF Inv, TypeOK, Serving, SpawnHelper
    <2> QED  BY <1>4, <2>1, ServerAssumption DEF Inv, TypeOK, Serving, Counted, SpawnHelper, Looping
  <1>5. ASSUME NEW s \in Sessions, Greeted(s) PROVE Inv'
    <2>1. server = "listening"
      BY <1>5 DEF Inv, TypeOK, Serving, Greeted
    <2> QED  BY <1>5, <2>1, ServerAssumption DEF Inv, TypeOK, Serving, Counted, Greeted, Ends, Looping
  <1>6. ASSUME NEW s \in Sessions, Command(s) \/ Handled(s) \/ Hear(s) \/ Exit(s) PROVE Inv'
    <2>1. UNCHANGED <<server, accept, notifier, helper>>
      BY <1>6 DEF Command, Handled, Hear, Exit
    <2>2. \/ sess[s] \in Looping /\ complete' = complete
             /\ \E pc \in Looping : sess' = [sess EXCEPT ![s] = pc]
          \/ Ends(s)
      BY <1>6 DEF Command, Handled, Hear, Exit, Looping
    <2>3. TypeOK' /\ Counted'
      BY <2>1, <2>2, ServerAssumption DEF Inv, TypeOK, Counted, Ends, Looping
    <2>4. complete' \subseteq complete
      BY <2>2 DEF Ends
    <2> QED  BY <2>1, <2>3, <2>4 DEF Inv, Serving
  <1> QED  BY <1>1, <1>2, <1>3, <1>4, <1>5, <1>6 DEF LoopStep

\* select! drops the accept loop and what it holds, and no more.
LEMMA Dropping ==
  ASSUME Inv, DropFutures
  PROVE  Counted' /\ accept' = "gone" /\ complete' \subseteq complete
         /\ sess' \in [Sessions -> {"none", "child", "done"} \union Looping]
  BY ServerAssumption DEF Inv, TypeOK, Counted, DropFutures, Looping

\* The steps of Server::listen itself.
LEMMA ServerSteps ==
  ASSUME Inv, ShutdownIndicated \/ ListenFails \/ ServerStep PROVE Inv'
  <1>1. CASE ShutdownIndicated \/ ListenFails
    <2>1. Counted' /\ accept' = "gone" /\ complete' \subseteq complete
          /\ sess' \in [Sessions -> {"none", "child", "done"} \union Looping]
      BY <1>1, Dropping DEF ShutdownIndicated, ListenFails
    <2>2. server' \in {"notify", "failed"} /\ notifier' \subseteq notifier /\ helper' = helper
      BY <1>1 DEF ShutdownIndicated, ListenFails
    <2> QED  BY <2>1, <2>2 DEF Inv, TypeOK, Serving
  <1>2. CASE ServerStep
    BY <1>2 DEF ServerStep, NotifyShutdown, NotifyComplete, Linger, GraceExpired,
                Inv, TypeOK, Serving, Counted
  <1> QED  BY <1>1, <1>2

\* Every step keeps the invariant.
LEMMA StepInv == Inv /\ [Next]_vars => Inv'
  <1> SUFFICES ASSUME Inv, [Next]_vars PROVE Inv'  OBVIOUS
  <1>1. CASE UNCHANGED vars
    BY <1>1 DEF vars, Inv, TypeOK, Serving, Counted
  <1>2. CASE Next
    BY <1>2, LoopSteps, ServerSteps DEF Next, LoopStep
  <1> QED  BY <1>1, <1>2

\* Server, accept loop, notifier and sessions keep their types.
THEOREM TypeCorrect == Spec => []TypeOK
  <1>1. Inv => TypeOK
    BY DEF Inv
  <1> QED  BY <1>1, InitInv, StepInv, PTL DEF Spec

\* listen() returns from a graceful shutdown only when no control loop is left,
\* however many connections there are and whenever it was indicated.
THEOREM ShutdownComplete == Spec => []OkMeansQuiet
  <1>1. Inv => OkMeansQuiet
    BY DEF Inv, Counted, OkMeansQuiet
  <1> QED  BY <1>1, InitInv, StepInv, PTL DEF Spec
=============================================================================
