-------------------------- MODULE FailedLoginsProofs --------------------------
(***************************************************************************)
(* Proofs about FailedLogins, for any set of tasks, users, addresses and   *)
(* any policy.  The inductive invariant ties the cache to the history:     *)
(* Tracks holds always, the other parts only of keys that were not raced.  *)
(***************************************************************************)
EXTENDS FailedLogins, TLAPS

\* The history of a key agrees with its entry on the date and bounds its count.
Tracks ==
  \A k \in Keys : Present(k) =>
    /\ failed_logins[k].age = since[k]
    /\ failed_logins[k].attempts <= consec[k]

Deciding(t, k) == task[t].pc \in {"insert", "remove"} /\ task[t].key = k

\* The count of k is exact (the body of ExactWhenUncontended).
Exact(k) ==
  IF since[k] > ExpiresAfter THEN Present(k) => is_expired(failed_logins[k].age)
                             ELSE failed_logins[k].attempts = consec[k]

\* One call at a time has yet to write k's entry.
OneDecides(k) ==
  /\ \A t, u \in Tasks : Deciding(t, k) /\ Deciding(u, k) => t = u
  /\ k \in sweep.expired => \A t \in Tasks : ~Deciding(t, k)

\* What that call found when it looked is still so.
DecisionsHold(k) ==
  /\ \A t \in Tasks : task[t].key = k =>
       /\ task[t].pc = "insert" => ~Present(k)
       /\ task[t].pc = "remove" => consec[k] < MaxAttempts \/ since[k] > ExpiresAfter
  /\ k \in sweep.expired => (Present(k) => is_expired(failed_logins[k].age))

UncontendedInv ==
  \A k \in Keys : ~raced[k] => Exact(k) /\ OneDecides(k) /\ DecisionsHold(k)

-----------------------------------------------------------------------------
\* Every attempt is counted under one of the keys.
LEMMA KeyOfPass ==
  ASSUME NEW ip \in Ips, NEW user \in Users
  PROVE  getkey(ip, user) \in Keys
BY DEF Keys

\* The clock keeps ages within their bound.
LEMMA OlderInAges ==
  ASSUME NEW a \in Ages
  PROVE  Older(a) \in Ages
BY PolicyAssumption DEF Older, Ages

(***************************************************************************)
(* Every variable keeps its type whatever PASS tasks, sweeper and clock    *)
(* do, for any policy.                                                     *)
(***************************************************************************)
THEOREM TypeCorrect == Spec => []TypeOK
<1>1. Init => TypeOK
  BY PolicyAssumption DEF Init, TypeOK, Absent, Ages
<1>2. TypeOK /\ [Next]_vars => TypeOK'
  <2> SUFFICES ASSUME TypeOK, [Next]_vars
               PROVE  TypeOK'
    OBVIOUS
  <2>1. ASSUME NEW t \in Tasks, NEW ip \in Ips, NEW user \in Users,
               Authenticate(t, ip, user)
        PROVE  TypeOK'
    BY <2>1, KeyOfPass DEF TypeOK, Authenticate
  <2>2. ASSUME NEW t \in Tasks, FailedLookup(t)
        PROVE  TypeOK'
    <3> DEFINE k == task[t].key
    <3>1. k \in Keys
      BY DEF TypeOK
    <3>2. failed_logins' \in [Keys -> [attempts : Nat, age : Ages]]
      <4>1. CASE Present(k)
        <5> DEFINE n == IF is_expired(failed_logins[k].age) THEN 1
                                                          ELSE failed_logins[k].attempts + 1
        <5>1. n \in Nat
          BY <3>1 DEF TypeOK
        <5>2. [attempts |-> n, age |-> 0] \in [attempts : Nat, age : Ages]
          BY <5>1, PolicyAssumption DEF Ages
        <5>3. failed_logins' = [failed_logins EXCEPT ![k] = [attempts |-> n, age |-> 0]]
          BY <2>2, <4>1 DEF FailedLookup
        <5> QED
          BY <5>2, <5>3 DEF TypeOK
      <4>2. CASE ~Present(k)
        BY <2>2, <4>2 DEF TypeOK, FailedLookup
      <4> QED
        BY <4>1, <4>2
    <3>5. consec' \in [Keys -> Nat] /\ since' \in [Keys -> Ages]
      BY <2>2, <3>1, PolicyAssumption DEF TypeOK, FailedLookup, FailureHappens, Ages
    <3>3. raced' \in [Keys -> BOOLEAN]
      BY <2>2, <3>1 DEF TypeOK, FailedLookup, Looks, Undecided
    <3>4. task' \in [Tasks -> [pc  : {"idle", "failed", "insert", "success", "remove"},
                               key : Keys]]
      BY <2>2 DEF TypeOK, FailedLookup, Becomes
    <3> QED
      BY <2>2, <3>2, <3>3, <3>4, <3>5 DEF TypeOK, FailedLookup
  <2>3. ASSUME NEW t \in Tasks, FailedInsert(t)
        PROVE  TypeOK'
    BY <2>3, PolicyAssumption
    DEF TypeOK, FailedInsert, Becomes, FailureHappens, FirstFailure, Ages
  <2>4. ASSUME NEW t \in Tasks, SuccessLookup(t)
        PROVE  TypeOK'
    <3>1. task[t].key \in Keys
      BY DEF TypeOK
    <3>2. raced' \in [Keys -> BOOLEAN]
      BY <2>4, <3>1 DEF TypeOK, SuccessLookup, Looks, Undecided
    <3>3. task' \in [Tasks -> [pc  : {"idle", "failed", "insert", "success", "remove"},
                               key : Keys]]
      BY <2>4 DEF TypeOK, SuccessLookup, Becomes
    <3>4. consec' \in [Keys -> Nat] /\ since' \in [Keys -> Ages]
      BY <2>4, <3>1 DEF TypeOK, SuccessLookup, LoginHappens
    <3> QED
      BY <2>4, <3>2, <3>3, <3>4 DEF TypeOK, SuccessLookup
  <2>5. ASSUME NEW t \in Tasks, SuccessRemove(t)
        PROVE  TypeOK'
    BY <2>5, PolicyAssumption DEF TypeOK, SuccessRemove, Becomes, LoginHappens, Absent, Ages
  <2>6. CASE SweepBegin
    BY <2>6 DEF TypeOK, SweepBegin
  <2>7. ASSUME NEW k \in Keys, SweepCheck(k)
        PROVE  TypeOK'
    <3>1. raced' \in [Keys -> BOOLEAN]
      BY <2>7 DEF TypeOK, SweepCheck
    <3>2. sweep' \in [pc      : {"sleep", "scan", "remove", "stopped"},
                      todo    : SUBSET Keys,
                      expired : SUBSET Keys]
      <4>1. \/ sweep' = [sweep EXCEPT !.todo = @ \ {k}, !.expired = @ \union {k}]
            \/ sweep' = [sweep EXCEPT !.todo = @ \ {k}]
        BY <2>7 DEF SweepCheck
      <4>2. /\ sweep.todo \ {k} \in SUBSET Keys
            /\ sweep.expired \union {k} \in SUBSET Keys
        BY DEF TypeOK
      <4>3. CASE sweep' = [sweep EXCEPT !.todo = @ \ {k}, !.expired = @ \union {k}]
        BY <4>2, <4>3 DEF TypeOK
      <4>4. CASE sweep' = [sweep EXCEPT !.todo = @ \ {k}]
        BY <4>2, <4>4 DEF TypeOK
      <4> QED
        BY <4>1, <4>3, <4>4
    <3> QED
      BY <2>7, <3>1, <3>2 DEF TypeOK, SweepCheck
  <2>8. CASE SweepScanned
    BY <2>8 DEF TypeOK, SweepScanned
  <2>9. CASE SweepRemove
    BY <2>9, PolicyAssumption DEF TypeOK, SweepRemove, Absent, Ages
  <2>10. CASE SweepShutdown
    BY <2>10 DEF TypeOK, SweepShutdown
  <2>11. CASE Tick
    <3>1. since' \in [Keys -> Ages]
      BY <2>11, OlderInAges DEF TypeOK, Tick
    <3>2. failed_logins' \in [Keys -> [attempts : Nat, age : Ages]]
      BY <2>11, OlderInAges, PolicyAssumption DEF TypeOK, Tick, Absent, Ages
    <3> QED
      BY <2>11, <3>1, <3>2 DEF TypeOK, Tick
  <2>12. CASE UNCHANGED vars
    BY <2>12 DEF TypeOK, vars
  <2> QED
    BY <2>1, <2>2, <2>3, <2>4, <2>5, <2>6, <2>7, <2>8, <2>9, <2>10, <2>11, <2>12
    DEF Next, TaskStep, SweepStep
<1> QED
  BY <1>1, <1>2, PTL DEF Spec

\* An entry never counts more failures than there were since the last success.
LEMMA AlwaysTracks == Spec => []Tracks
<1>1. Init => Tracks
  BY DEF Init, Tracks, Present, Absent
<1>2. TypeOK /\ Tracks /\ [Next]_vars => Tracks'
  <2> SUFFICES ASSUME TypeOK, Tracks, [Next]_vars, NEW k \in Keys, Present(k)'
               PROVE  /\ failed_logins'[k].age = since'[k]
                      /\ failed_logins'[k].attempts <= consec'[k]
    BY DEF Tracks
  <2>t. /\ failed_logins[k].attempts \in Nat
        /\ failed_logins[k].age \in Ages
        /\ consec[k] \in Nat
        /\ since[k] \in Ages
        /\ Present(k) => /\ failed_logins[k].age = since[k]
                         /\ failed_logins[k].attempts <= consec[k]
    BY DEF TypeOK, Tracks
  <2>1. ASSUME NEW t \in Tasks, NEW ip \in Ips, NEW user \in Users,
               Authenticate(t, ip, user)
        PROVE  UNCHANGED <<failed_logins, consec, since>>
    BY <2>1 DEF Authenticate
  <2>2. ASSUME NEW t \in Tasks, FailedLookup(t), Present(task[t].key)
        PROVE  /\ failed_logins'[k].age = since'[k]
               /\ failed_logins'[k].attempts <= consec'[k]
    <3> DEFINE j == task[t].key
               n == IF is_expired(failed_logins[j].age) THEN 1
                                                        ELSE failed_logins[j].attempts + 1
    <3>1. j \in Keys
      BY DEF TypeOK
    <3>2. /\ failed_logins' = [failed_logins EXCEPT ![j] = [attempts |-> n, age |-> 0]]
          /\ consec' = [consec EXCEPT ![j] = IF since[j] > ExpiresAfter THEN 1 ELSE @ + 1]
          /\ since' = [since EXCEPT ![j] = 0]
      BY <2>2 DEF FailedLookup, FailureHappens
    <3>3. CASE k = j
      <4>1. /\ failed_logins'[k].attempts = n
            /\ failed_logins'[k].age = 0
            /\ since'[k] = 0
            /\ consec'[k] = IF since[k] > ExpiresAfter THEN 1 ELSE consec[k] + 1
        BY <3>1, <3>2, <3>3 DEF TypeOK
      <4> QED
        BY <2>2, <2>t, <3>3, <4>1, PolicyAssumption DEF is_expired, Ages
    <3>4. CASE k # j
      <4>1. /\ failed_logins'[k] = failed_logins[k]
            /\ since'[k] = since[k]
            /\ consec'[k] = consec[k]
        BY <3>2, <3>4 DEF TypeOK
      <4> QED
        BY <2>t, <4>1 DEF Present
    <3> QED
      BY <3>3, <3>4
  <2>3. ASSUME NEW t \in Tasks, FailedLookup(t), ~Present(task[t].key)
        PROVE  UNCHANGED <<failed_logins, consec, since>>
    BY <2>3 DEF FailedLookup
  <2>4. ASSUME NEW t \in Tasks, FailedInsert(t)
        PROVE  /\ failed_logins'[k].age = since'[k]
               /\ failed_logins'[k].attempts <= consec'[k]
    <3>1. CASE k = task[t].key
      BY <2>4, <2>t, <3>1, PolicyAssumption
      DEF FailedInsert, FailureHappens, FirstFailure, TypeOK
    <3>2. CASE k # task[t].key
      BY <2>4, <2>t, <3>2 DEF FailedInsert, FailureHappens, TypeOK, Present
    <3> QED
      BY <3>1, <3>2
  <2>5. ASSUME NEW t \in Tasks, SuccessLookup(t)
        PROVE  /\ failed_logins' = failed_logins
               /\ since' = since
               /\ Present(k) => consec'[k] = consec[k]
    BY <2>5 DEF SuccessLookup, LoginHappens, TypeOK
  <2>6. ASSUME NEW t \in Tasks, SuccessRemove(t)
        PROVE  /\ failed_logins'[k] = failed_logins[k]
               /\ since'[k] = since[k]
               /\ consec'[k] = consec[k]
    <3>1. k # task[t].key
      BY <2>6 DEF SuccessRemove, Absent, Present, TypeOK
    <3> QED
      BY <2>6, <3>1 DEF SuccessRemove, LoginHappens, TypeOK
  <2>7. CASE SweepRemove
    <3>1. k \notin sweep.expired
      BY <2>7 DEF SweepRemove, Absent, Present
    <3> QED
      BY <2>7, <2>t, <3>1 DEF SweepRemove, Present
  <2>8. CASE Tick
    <3>1. Present(k)
      BY <2>8 DEF Tick, Present, Absent
    <3>2. /\ failed_logins'[k] = [failed_logins[k] EXCEPT !.age = Older(@)]
          /\ since'[k] = Older(since[k])
          /\ consec'[k] = consec[k]
      BY <2>8, <3>1 DEF Tick
    <3> QED
      BY <2>t, <3>1, <3>2 DEF TypeOK
  <2>9. CASE SweepBegin \/ (\E j \in Keys : SweepCheck(j)) \/ SweepScanned \/ SweepShutdown
    BY <2>9, <2>t DEF SweepBegin, SweepCheck, SweepScanned, SweepShutdown, Present
  <2>10. CASE UNCHANGED vars
    BY <2>10, <2>t DEF vars, Present
  <2>11. CASE UNCHANGED <<failed_logins, consec, since>>
    BY <2>11, <2>t DEF Present
  <2>12. ASSUME NEW t \in Tasks, SuccessLookup(t)
         PROVE  /\ failed_logins'[k].age = since'[k]
                /\ failed_logins'[k].attempts <= consec'[k]
    BY <2>5, <2>12, <2>t DEF Present
  <2>13. ASSUME NEW t \in Tasks, SuccessRemove(t)
         PROVE  /\ failed_logins'[k].age = since'[k]
                /\ failed_logins'[k].attempts <= consec'[k]
    BY <2>6, <2>13, <2>t DEF Present
  <2> QED
    BY <2>1, <2>2, <2>3, <2>4, <2>7, <2>8, <2>9, <2>10, <2>11, <2>12, <2>13
    DEF Next, TaskStep, SweepStep
<1> QED
  BY <1>1, <1>2, TypeCorrect, PTL DEF Spec

(***************************************************************************)
(* Races between failed(), success() and the sweeper never lock an account *)
(* out early: a refused account has max_attempts failures in the window.   *)
(***************************************************************************)
THEOREM NeverLockedEarly == Spec => []NoEarlyLockout
<1>1. TypeOK /\ Tracks => NoEarlyLockout
  BY PolicyAssumption DEF TypeOK, Tracks, NoEarlyLockout, LockedOut, is_locked, is_expired, Ages
<1> QED
  BY <1>1, TypeCorrect, AlwaysTracks, PTL

-----------------------------------------------------------------------------
(* A step that works on another key leaves what is known of k alone.       *)
LEMMA OtherKey ==
  ASSUME NEW k \in Keys, NEW t \in Tasks, TypeOK, task[t].key # k,
         Exact(k), OneDecides(k), DecisionsHold(k),
         failed_logins'[k] = failed_logins[k], consec'[k] = consec[k], since'[k] = since[k],
         NEW pc, Becomes(t, pc), UNCHANGED sweep
  PROVE  Exact(k)' /\ OneDecides(k)' /\ DecisionsHold(k)'
<1>1. /\ task'[t].key # k
      /\ \A u \in Tasks : u # t => task'[u] = task[u]
  BY DEF TypeOK, Becomes
<1>2. \A u \in Tasks : Deciding(u, k)' <=> Deciding(u, k)
  BY <1>1 DEF Deciding
<1>3. Exact(k)'
  BY DEF Exact, Present
<1>4. OneDecides(k)'
  BY <1>2 DEF OneDecides
<1>5. DecisionsHold(k)'
  BY <1>1 DEF DecisionsHold, Present
<1> QED
  BY <1>3, <1>4, <1>5

(* After the step of the one call that was to write k's entry, or of a     *)
(* call that did without a second lock, nobody has anything left to write. *)
LEMMA NobodyDecides ==
  ASSUME NEW k \in Keys, NEW t \in Tasks, TypeOK,
         \A u \in Tasks : u # t => ~Deciding(u, k),
         k \notin sweep.expired,
         Becomes(t, "idle"), UNCHANGED sweep
  PROVE  OneDecides(k)' /\ DecisionsHold(k)'
<1>1. \A u \in Tasks : ~Deciding(u, k)'
  BY DEF TypeOK, Becomes, Deciding
<1>2. OneDecides(k)'
  BY <1>1 DEF OneDecides
<1>3. DecisionsHold(k)'
  BY <1>1 DEF DecisionsHold, Deciding
<1> QED
  BY <1>2, <1>3

\* A lookup that leaves a key uncontended found nobody between lookup and write.
LEMMA LooksAlone ==
  ASSUME NEW k \in Keys, NEW t \in Tasks, TypeOK, Looks(k, t), ~raced'[k]
  PROVE  /\ ~raced[k]
         /\ \A u \in Tasks : u # t => ~Deciding(u, k)
         /\ k \notin sweep.expired
<1>1. ~raced[k] /\ ~Undecided(k, t)
  BY DEF TypeOK, Looks
<1> QED
  BY <1>1 DEF Undecided, Deciding

\* The inductive invariant behind the exact count and the lasting lockout.
LEMMA AlwaysUncontendedInv == Spec => []UncontendedInv
<1>1. Init => UncontendedInv
  BY PolicyAssumption
  DEF Init, UncontendedInv, Exact, OneDecides, DecisionsHold, Deciding, Present, Absent
<1>2. TypeOK /\ Tracks /\ UncontendedInv /\ [Next]_vars => UncontendedInv'
  <2> SUFFICES ASSUME TypeOK, Tracks, UncontendedInv, [Next]_vars, NEW k \in Keys, ~raced'[k]
               PROVE  Exact(k)' /\ OneDecides(k)' /\ DecisionsHold(k)'
    BY DEF UncontendedInv
  <2>t. /\ failed_logins[k].attempts \in Nat
        /\ failed_logins[k].age \in Ages
        /\ consec[k] \in Nat
        /\ since[k] \in Ages
        /\ Present(k) => failed_logins[k].age = since[k]
    BY DEF TypeOK, Tracks
  <2>i. ~raced[k] => Exact(k) /\ OneDecides(k) /\ DecisionsHold(k)
    BY DEF UncontendedInv
  <2>1. ASSUME NEW t \in Tasks, NEW ip \in Ips, NEW user \in Users,
               Authenticate(t, ip, user)
        PROVE  Exact(k)' /\ OneDecides(k)' /\ DecisionsHold(k)'
    <3>1. Exact(k) /\ OneDecides(k) /\ DecisionsHold(k)
      BY <2>1, <2>i DEF Authenticate
    <3>2. \A u \in Tasks : \/ task'[u] = task[u]
                           \/ task'[u].pc \in {"success", "failed"}
      BY <2>1 DEF Authenticate, TypeOK
    <3>3. \A u \in Tasks : Deciding(u, k)' => Deciding(u, k)
      BY <3>2 DEF Deciding
    <3> QED
      BY <2>1, <3>1, <3>2, <3>3
      DEF Authenticate, Exact, OneDecides, DecisionsHold, Present
  <2>2. ASSUME NEW t \in Tasks, FailedLookup(t)
        PROVE  Exact(k)' /\ OneDecides(k)' /\ DecisionsHold(k)'
    <3>1. CASE task[t].key # k
      <4>1. ~raced[k]
        BY <2>2, <3>1 DEF FailedLookup, Looks, TypeOK
      <4>2. /\ failed_logins'[k] = failed_logins[k]
            /\ consec'[k] = consec[k]
            /\ since'[k] = since[k]
        BY <2>2, <3>1 DEF FailedLookup, FailureHappens, TypeOK
      <4>3. Becomes(t, "idle") \/ Becomes(t, "insert")
        BY <2>2 DEF FailedLookup
      <4> QED
        BY <2>2, <2>i, <3>1, <4>1, <4>2, <4>3, OtherKey DEF FailedLookup
    <3>2. CASE task[t].key = k /\ Present(k)
      <4> DEFINE n == IF is_expired(failed_logins[k].age) THEN 1
                                                          ELSE failed_logins[k].attempts + 1
      <4>1. /\ ~raced[k]
            /\ \A u \in Tasks : u # t => ~Deciding(u, k)
            /\ k \notin sweep.expired
        BY <2>2, <3>2, LooksAlone DEF FailedLookup
      <4>2. OneDecides(k)' /\ DecisionsHold(k)'
        BY <2>2, <3>2, <4>1, NobodyDecides DEF FailedLookup
      <4>3. /\ failed_logins' = [failed_logins EXCEPT ![k] = [attempts |-> n, age |-> 0]]
            /\ consec' = [consec EXCEPT ![k] = IF since[k] > ExpiresAfter THEN 1 ELSE @ + 1]
            /\ since' = [since EXCEPT ![k] = 0]
        BY <2>2, <3>2 DEF FailedLookup, FailureHappens
      <4>4. /\ failed_logins'[k].attempts = n
            /\ since'[k] = 0
            /\ consec'[k] = IF since[k] > ExpiresAfter THEN 1 ELSE consec[k] + 1
        BY <4>3 DEF TypeOK
      <4>5. Exact(k)'
        BY <2>t, <2>i, <3>2, <4>1, <4>4, PolicyAssumption DEF Exact, is_expired, Ages
      <4> QED
        BY <4>2, <4>5
    <3>3. CASE task[t].key = k /\ ~Present(k)
      <4>1. /\ ~raced[k]
            /\ \A u \in Tasks : u # t => ~Deciding(u, k)
            /\ k \notin sweep.expired
        BY <2>2, <3>3, LooksAlone DEF FailedLookup
      <4>2. /\ Becomes(t, "insert")
            /\ UNCHANGED <<failed_logins, consec, since, sweep>>
        BY <2>2, <3>3 DEF FailedLookup
      <4>3. /\ task'[t] = [pc |-> "insert", key |-> k]
            /\ \A u \in Tasks : u # t => task'[u] = task[u]
        BY <3>3, <4>2 DEF Becomes, TypeOK
      <4>4. \A u \in Tasks : u # t => ~Deciding(u, k)'
        BY <4>1, <4>3 DEF Deciding
      <4>5. Exact(k)'
        BY <2>i, <4>1, <4>2 DEF Exact, Present
      <4>6. OneDecides(k)'
        BY <4>1, <4>2, <4>4 DEF OneDecides
      <4>7. DecisionsHold(k)'
        BY <3>3, <4>1, <4>2, <4>3, <4>4 DEF DecisionsHold, Deciding, Present
      <4> QED
        BY <4>5, <4>6, <4>7
    <3> QED
      BY <3>1, <3>2, <3>3
  <2>3. ASSUME NEW t \in Tasks, FailedInsert(t)
        PROVE  Exact(k)' /\ OneDecides(k)' /\ DecisionsHold(k)'
    <3>0. Exact(k) /\ OneDecides(k) /\ DecisionsHold(k)
      BY <2>3, <2>i DEF FailedInsert
    <3>1. CASE task[t].key # k
      <4>1. /\ failed_logins'[k] = failed_logins[k]
            /\ consec'[k] = consec[k]
            /\ since'[k] = since[k]
        BY <2>3, <3>1 DEF FailedInsert, FailureHappens, TypeOK
      <4> QED
        BY <2>3, <3>0, <3>1, <4>1, OtherKey DEF FailedInsert
    <3>2. CASE task[t].key = k
      <4>1. Deciding(t, k) /\ ~Present(k)
        BY <2>3, <3>0, <3>2 DEF FailedInsert, Deciding, DecisionsHold
      <4>2. /\ \A u \in Tasks : u # t => ~Deciding(u, k)
            /\ k \notin sweep.expired
        BY <3>0, <4>1 DEF OneDecides
      <4>3. OneDecides(k)' /\ DecisionsHold(k)'
        BY <2>3, <4>2, NobodyDecides DEF FailedInsert
      <4>4. /\ failed_logins'[k] = FirstFailure
            /\ since'[k] = 0
            /\ consec'[k] = IF since[k] > ExpiresAfter THEN 1 ELSE consec[k] + 1
        BY <2>3, <3>2 DEF FailedInsert, FailureHappens, TypeOK
      <4>5. Exact(k)'
        BY <2>t, <3>0, <4>1, <4>4, PolicyAssumption DEF Exact, Present, FirstFailure
      <4> QED
        BY <4>3, <4>5
    <3> QED
      BY <3>1, <3>2
  <2>4. ASSUME NEW t \in Tasks, SuccessLookup(t)
        PROVE  Exact(k)' /\ OneDecides(k)' /\ DecisionsHold(k)'
    <3>1. CASE task[t].key # k
      <4>1. ~raced[k]
        BY <2>4, <3>1 DEF SuccessLookup, Looks, TypeOK
      <4>2. /\ failed_logins'[k] = failed_logins[k]
            /\ consec'[k] = consec[k]
            /\ since'[k] = since[k]
        BY <2>4, <3>1 DEF SuccessLookup, LoginHappens, TypeOK
      <4>3. Becomes(t, "idle") \/ Becomes(t, "remove")
        BY <2>4 DEF SuccessLookup
      <4> QED
        BY <2>4, <2>i, <3>1, <4>1, <4>2, <4>3, OtherKey DEF SuccessLookup
    <3>2. CASE task[t].key = k /\ (~Present(k) \/ LockedOut(k))
      <4>1. /\ ~raced[k]
            /\ \A u \in Tasks : u # t => ~Deciding(u, k)
            /\ k \notin sweep.expired
        BY <2>4, <3>2, LooksAlone DEF SuccessLookup
      <4>2. OneDecides(k)' /\ DecisionsHold(k)'
        BY <2>4, <3>2, <4>1, NobodyDecides DEF SuccessLookup
      <4>3. /\ UNCHANGED failed_logins
            /\ since' = since
            /\ Present(k) => consec'[k] = consec[k]
            /\ ~Present(k) => consec'[k] = 0
        BY <2>4, <3>2 DEF SuccessLookup, LoginHappens, TypeOK, LockedOut
      <4>4. Exact(k)'
        BY <2>t, <2>i, <4>1, <4>3 DEF Exact, Present
      <4> QED
        BY <4>2, <4>4
    <3>3. CASE task[t].key = k /\ Present(k) /\ ~LockedOut(k)
      <4>1. /\ ~raced[k]
            /\ \A u \in Tasks : u # t => ~Deciding(u, k)
            /\ k \notin sweep.expired
        BY <2>4, <3>3, LooksAlone DEF SuccessLookup
      <4>2. /\ Becomes(t, "remove")
            /\ UNCHANGED <<failed_logins, consec, since, sweep>>
        BY <2>4, <3>3 DEF SuccessLookup
      <4>3. /\ task'[t] = [pc |-> "remove", key |-> k]
            /\ \A u \in Tasks : u # t => task'[u] = task[u]
        BY <3>3, <4>2 DEF Becomes, TypeOK
      <4>4. \A u \in Tasks : u # t => ~Deciding(u, k)'
        BY <4>1, <4>3 DEF Deciding
      <4>5. Exact(k)'
        BY <2>i, <4>1, <4>2 DEF Exact, Present
      <4>6. OneDecides(k)'
        BY <4>1, <4>2, <4>4 DEF OneDecides
      <4>7. consec[k] < MaxAttempts \/ since[k] > ExpiresAfter
        BY <2>t, <2>i, <3>3, <4>1, PolicyAssumption
        DEF Exact, LockedOut, is_locked, is_expired, Ages
      <4>8. DecisionsHold(k)'
        BY <4>1, <4>2, <4>3, <4>4, <4>7 DEF DecisionsHold, Deciding, Present
      <4> QED
        BY <4>5, <4>6, <4>8
    <3> QED
      BY <3>1, <3>2, <3>3
  <2>5. ASSUME NEW t \in Tasks, SuccessRemove(t)
        PROVE  Exact(k)' /\ OneDecides(k)' /\ DecisionsHold(k)'
    <3>0. Exact(k) /\ OneDecides(k) /\ DecisionsHold(k)
      BY <2>5, <2>i DEF SuccessRemove
    <3>1. CASE task[t].key # k
      <4>1. /\ failed_logins'[k] = failed_logins[k]
            /\ consec'[k] = consec[k]
            /\ since'[k] = since[k]
        BY <2>5, <3>1 DEF SuccessRemove, LoginHappens, TypeOK
      <4> QED
        BY <2>5, <3>0, <3>1, <4>1, OtherKey DEF SuccessRemove
    <3>2. CASE task[t].key = k
      <4>1. Deciding(t, k)
        BY <2>5, <3>2 DEF SuccessRemove, Deciding
      <4>2. /\ \A u \in Tasks : u # t => ~Deciding(u, k)
            /\ k \notin sweep.expired
        BY <3>0, <4>1 DEF OneDecides
      <4>3. OneDecides(k)' /\ DecisionsHold(k)'
        BY <2>5, <4>2, NobodyDecides DEF SuccessRemove
      <4>4. failed_logins'[k] = Absent /\ consec'[k] = 0
        BY <2>5, <3>2 DEF SuccessRemove, LoginHappens, TypeOK
      <4>5. Exact(k)'
        BY <4>4 DEF Exact, Present, Absent
      <4> QED
        BY <4>3, <4>5
    <3> QED
      BY <3>1, <3>2
  <2>6. CASE SweepBegin
    BY <2>6, <2>i DEF SweepBegin, Exact, OneDecides, DecisionsHold, Deciding, Present
  <2>7. ASSUME NEW j \in Keys, SweepCheck(j)
        PROVE  Exact(k)' /\ OneDecides(k)' /\ DecisionsHold(k)'
    <3>1. ~raced[k]
      BY <2>7 DEF SweepCheck, TypeOK
    <3>2. k \in sweep'.expired =>
            \/ k \in sweep.expired
            \/ /\ is_expired(failed_logins[k].age)
               /\ \A t \in Tasks : ~Deciding(t, k)
      <4>1. CASE ~is_expired(failed_logins[j].age)
        BY <2>7, <4>1 DEF SweepCheck, TypeOK
      <4>2. CASE is_expired(failed_logins[j].age)
        <5>1. sweep'.expired = sweep.expired \union {j}
          BY <2>7, <4>2 DEF SweepCheck, TypeOK
        <5>2. k = j => \A t \in Tasks : ~Deciding(t, k)
          BY <2>7, <4>2 DEF SweepCheck, TypeOK, Deciding
        <5> QED
          BY <4>2, <5>1, <5>2
      <4> QED
        BY <4>1, <4>2
    <3> QED
      BY <2>7, <2>i, <3>1, <3>2
      DEF SweepCheck, Exact, OneDecides, DecisionsHold, Deciding, Present
  <2>8. CASE SweepScanned \/ SweepShutdown
    <3>1. sweep'.expired = sweep.expired
      BY <2>8 DEF SweepScanned, SweepShutdown, TypeOK
    <3> QED
      BY <2>8, <2>i, <3>1
      DEF SweepScanned, SweepShutdown, Exact, OneDecides, DecisionsHold, Deciding, Present
  <2>9. CASE SweepRemove
    <3>0. Exact(k) /\ OneDecides(k) /\ DecisionsHold(k)
      BY <2>9, <2>i DEF SweepRemove
    <3>1. /\ UNCHANGED <<task, consec, since>>
          /\ sweep'.expired = {}
          /\ failed_logins'[k] = IF k \in sweep.expired THEN Absent ELSE failed_logins[k]
      BY <2>9 DEF SweepRemove
    <3>2. Exact(k)'
      BY <2>t, <3>0, <3>1, PolicyAssumption
      DEF Exact, DecisionsHold, Present, Absent, is_expired, Ages
    <3>3. OneDecides(k)' /\ DecisionsHold(k)'
      BY <3>0, <3>1 DEF OneDecides, DecisionsHold, Deciding, Present, Absent
    <3> QED
      BY <3>2, <3>3
  <2>10. CASE Tick
    <3>0. Exact(k) /\ OneDecides(k) /\ DecisionsHold(k)
      BY <2>10, <2>i DEF Tick
    <3>1. /\ UNCHANGED <<task, consec, sweep>>
          /\ since'[k] = Older(since[k])
          /\ failed_logins'[k].attempts = failed_logins[k].attempts
          /\ Present(k) => failed_logins'[k].age = Older(failed_logins[k].age)
      BY <2>10 DEF Tick, Present, Absent, TypeOK
    <3>2. Exact(k)'
      BY <2>t, <3>0, <3>1, PolicyAssumption DEF Exact, Present, Older, is_expired, Ages
    <3>3. OneDecides(k)' /\ DecisionsHold(k)'
      BY <2>t, <3>0, <3>1, PolicyAssumption
      DEF OneDecides, DecisionsHold, Deciding, Present, Older, is_expired, Ages
    <3> QED
      BY <3>2, <3>3
  <2>11. CASE UNCHANGED vars
    BY <2>11, <2>i DEF vars, Exact, OneDecides, DecisionsHold, Deciding, Present
  <2> QED
    BY <2>1, <2>2, <2>3, <2>4, <2>5, <2>6, <2>7, <2>8, <2>9, <2>10, <2>11
    DEF Next, TaskStep, SweepStep
<1> QED
  BY <1>1, <1>2, TypeCorrect, AlwaysTracks, PTL DEF Spec

(***************************************************************************)
(* Absent races on its entry, a key's failures are counted exactly.        *)
(***************************************************************************)
THEOREM ExactlyCounted == Spec => []ExactWhenUncontended
<1>1. UncontendedInv => ExactWhenUncontended
  BY DEF UncontendedInv, ExactWhenUncontended, Exact
<1> QED
  BY <1>1, AlwaysUncontendedInv, PTL

(***************************************************************************)
(* Absent races on its entry, a key with max_attempts failures in the      *)
(* window does not log in: a task about to remove the entry checked it.    *)
(***************************************************************************)
THEOREM LockoutHolds == Spec => UncontendedLockoutHolds
<1> DEFINE StaysOut == \A k \in Keys :
             ~raced'[k] /\ consec[k] >= MaxAttempts /\ since[k] <= ExpiresAfter => consec'[k] # 0
<1>1. TypeOK /\ Tracks /\ UncontendedInv /\ [Next]_vars => [StaysOut]_vars
  <2> SUFFICES ASSUME TypeOK, Tracks, UncontendedInv, Next, NEW k \in Keys, ~raced'[k],
                      consec[k] >= MaxAttempts, since[k] <= ExpiresAfter
               PROVE  consec'[k] # 0
    OBVIOUS
  <2>t. consec[k] \in Nat /\ consec[k] # 0
    BY PolicyAssumption DEF TypeOK
  <2>1. ASSUME NEW t \in Tasks, FailedLookup(t) \/ FailedInsert(t)
        PROVE  consec'[k] # 0
    <3>1. task[t].key \in Keys
      BY DEF TypeOK
    <3> QED
      BY <2>1, <2>t, <3>1 DEF FailedLookup, FailedInsert, FailureHappens, TypeOK
  <2>2. ASSUME NEW t \in Tasks, SuccessLookup(t)
        PROVE  consec'[k] # 0
    <3>1. CASE task[t].key = k
      <4>1. ~raced[k]
        BY <2>2, <3>1, LooksAlone DEF SuccessLookup
      <4>2. failed_logins[k].attempts = consec[k]
        BY <4>1, PolicyAssumption DEF UncontendedInv, Exact, TypeOK, Ages
      <4>3. Present(k)
        BY <2>t, <4>2 DEF Present
      <4> QED
        BY <2>2, <2>t, <3>1, <4>3 DEF SuccessLookup
    <3>2. CASE task[t].key # k
      BY <2>2, <2>t, <3>2 DEF SuccessLookup, LoginHappens, TypeOK
    <3> QED
      BY <3>1, <3>2
  <2>3. ASSUME NEW t \in Tasks, SuccessRemove(t)
        PROVE  consec'[k] # 0
    <3>1. task[t].key # k
      BY <2>3, PolicyAssumption
      DEF SuccessRemove, UncontendedInv, DecisionsHold, TypeOK, Ages
    <3> QED
      BY <2>3, <2>t, <3>1 DEF SuccessRemove, LoginHappens, TypeOK
  <2>4. CASE \/ \E t \in Tasks, ip \in Ips, user \in Users : Authenticate(t, ip, user)
             \/ SweepStep \/ SweepShutdown \/ Tick
    BY <2>4, <2>t
    DEF Authenticate, SweepStep, SweepBegin, SweepCheck, SweepScanned, SweepRemove,
        SweepShutdown, Tick
  <2> QED
    BY <2>1, <2>2, <2>3, <2>4 DEF Next, TaskStep
<1> QED
  BY <1>1, TypeCorrect, AlwaysTracks, AlwaysUncontendedInv, PTL
  DEF Spec, UncontendedLockoutHolds

=============================================================================
