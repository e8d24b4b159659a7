---------------------------- MODULE FailedLogins ----------------------------
(***************************************************************************)
(* The failed-logins cache (src/src/server/failed_logins.rs) and the tasks *)
(* that use it: one task per PASS command in flight, on any number of      *)
(* control connections, and the sweeper.                                   *)
(*                                                                         *)
(* The cache is a map behind an RwLock, each entry behind a Mutex.  An     *)
(* action is what happens between two lock acquisitions: failed() and      *)
(* success() look an entry up under the read lock, let go of it, and       *)
(* change the map later under the write lock; the sweeper scans the map    *)
(* entry by entry under one read guard and removes what it found expired   *)
(* under a write guard it takes afterwards.                                *)
(***************************************************************************)
EXTENDS Integers

CONSTANTS
  Users, Ips,       \* user names and client addresses
  Tasks,            \* PASS tasks that may be in flight together
  MaxAttempts,      \* policy.max_attempts
  ExpiresAfter,     \* policy.expires_after, in ticks
  BlockBy,          \* policy.block_by: "UserAndIP", "IP" or "User"
  NoPart,              \* the None of FailedLoginsKey
  FailureCap        \* bound: no PASS starts for a key with this many failures

ASSUME PolicyAssumption ==
  /\ MaxAttempts \in Nat \ {0}
  /\ ExpiresAfter \in Nat
  /\ BlockBy \in {"UserAndIP", "IP", "User"}
  /\ FailureCap \in Nat

VARIABLES
  failed_logins,    \* the map: attempts = 0 stands for "no entry"
  task,             \* the PASS tasks
  sweep,            \* the sweeper task
  consec,           \* history: consecutive failed logins of a key, whatever
                    \*   the cache remembers of them
  since,            \* history: ticks since the last failed login of a key
  raced             \* history: two calls worked on the key's entry at once

vars == <<failed_logins, task, sweep, consec, since, raced>>

getkey(ip, user) ==
  [ip       |-> IF BlockBy = "User" THEN NoPart ELSE ip,
   username |-> IF BlockBy = "IP" THEN NoPart ELSE user]

Keys == {getkey(ip, user) : ip \in Ips, user \in Users}

\* Time is counted up to the first tick at which an entry has expired.
Ages == 0..(ExpiresAfter + 1)
Older(age) == IF age <= ExpiresAfter THEN age + 1 ELSE age

Absent == [attempts |-> 0, age |-> 0]
\* Mutant of FirstFailure: an entry dated ahead of the clock.
FutureEntry == [attempts |-> 1, age |-> -1]

FirstFailure == [attempts |-> 1, age |-> 0]

Present(k) == failed_logins[k].attempts # 0

is_expired(age) == age > ExpiresAfter
\* Mutants of is_locked: one attempt too early, one too late.
LocksEarly(attempts) == attempts + 1 >= MaxAttempts
LocksLate(attempts) == attempts > MaxAttempts

is_locked(attempts) == attempts >= MaxAttempts

\* What success() answers AlreadyLocked to.
LockedOut(k) == Present(k) /\ is_locked(failed_logins[k].attempts)
                           /\ ~is_expired(failed_logins[k].age)

-----------------------------------------------------------------------------
(* History: the policy as the options document it, kept beside the cache.  *)

FailureHappens(k) ==
  /\ consec' = [consec EXCEPT ![k] = IF since[k] > ExpiresAfter THEN 1 ELSE @ + 1]
  /\ since' = [since EXCEPT ![k] = 0]

LoginHappens(k) ==
  /\ consec' = [consec EXCEPT ![k] = 0]
  /\ UNCHANGED since

\* Somebody other than t decided on k's entry and has yet to write.
Undecided(k, t) ==
  \/ \E u \in Tasks \ {t} : task[u].pc \in {"insert", "remove"} /\ task[u].key = k
  \/ k \in sweep.expired

Looks(k, t) == raced' = [raced EXCEPT ![k] = @ \/ Undecided(k, t)]

-----------------------------------------------------------------------------
Becomes(t, pc) == task' = [task EXCEPT ![t].pc = pc]

\* No read guard outlives a step but the sweeper's.
WriteLockFree == sweep.pc # "scan"

(***************************************************************************)
(* The task a PASS command spawns asks the authenticator, whose answer is  *)
(* Ok, an error that counts as a failed login, or BadUser, which does not. *)
(***************************************************************************)
Authenticate(t, ip, user) ==
  /\ task[t].pc = "idle"
  /\ consec[getkey(ip, user)] < FailureCap
  /\ \E pc \in {"success", "failed"} :
       task' = [task EXCEPT ![t] = [pc |-> pc, key |-> getkey(ip, user)]]
  /\ UNCHANGED <<failed_logins, sweep, consec, since, raced>>

\* Mutant of FailedLookup: an expired entry is not started afresh.
KeepsCounting(t) ==
  LET k == task[t].key IN
  /\ task[t].pc = "failed"
  /\ Looks(k, t)
  /\ \/ /\ Present(k)
        /\ failed_logins' = [failed_logins EXCEPT ![k] = [attempts |-> @.attempts + 1, age |-> 0]]
        /\ Becomes(t, "idle")
        /\ FailureHappens(k)
     \/ /\ ~Present(k)
        /\ Becomes(t, "insert")
        /\ UNCHANGED <<failed_logins, consec, since>>
  /\ UNCHANGED sweep

\* failed(), up to the end of its read guard.
FailedLookup(t) ==
  LET k == task[t].key
      e == failed_logins[k] IN
  /\ task[t].pc = "failed"
  /\ Looks(k, t)
  /\ \/ /\ Present(k)
        /\ failed_logins' = [failed_logins EXCEPT ![k] =
             [attempts |-> IF is_expired(e.age) THEN 1 ELSE e.attempts + 1,
              age      |-> 0]]
        /\ Becomes(t, "idle")
        /\ FailureHappens(k)
     \/ /\ ~Present(k)
        /\ Becomes(t, "insert")
        /\ UNCHANGED <<failed_logins, consec, since>>
  /\ UNCHANGED sweep

\* failed(), the write guard: insert replaces whatever is there by now.
FailedInsert(t) ==
  LET k == task[t].key IN
  /\ task[t].pc = "insert"
  /\ WriteLockFree
  /\ failed_logins' = [failed_logins EXCEPT ![k] = FirstFailure]
  /\ Becomes(t, "idle")
  /\ FailureHappens(k)
  /\ UNCHANGED <<sweep, raced>>

\* success(), up to the end of its read guard.
SuccessLookup(t) ==
  LET k == task[t].key IN
  /\ task[t].pc = "success"
  /\ Looks(k, t)
  /\ \/ /\ ~Present(k)
        /\ Becomes(t, "idle")
        /\ LoginHappens(k)
     \/ /\ LockedOut(k)
        /\ Becomes(t, "idle")
        /\ UNCHANGED <<consec, since>>
     \/ /\ Present(k) /\ ~LockedOut(k)
        /\ Becomes(t, "remove")
        /\ UNCHANGED <<consec, since>>
  /\ UNCHANGED <<failed_logins, sweep>>

\* success(), the write guard.
SuccessRemove(t) ==
  LET k == task[t].key IN
  /\ task[t].pc = "remove"
  /\ WriteLockFree
  /\ failed_logins' = [failed_logins EXCEPT ![k] = Absent]
  /\ Becomes(t, "idle")
  /\ LoginHappens(k)
  /\ UNCHANGED <<sweep, raced>>

-----------------------------------------------------------------------------
(* sweeper(): sleep, scan under a read guard, remove under a write guard.  *)

SweepBegin ==
  /\ sweep.pc = "sleep"
  /\ sweep' = [pc |-> "scan", todo |-> {k \in Keys : Present(k)}, expired |-> {}]
  /\ UNCHANGED <<failed_logins, task, consec, since, raced>>

SweepCheck(k) ==
  /\ sweep.pc = "scan"
  /\ k \in sweep.todo
  /\ IF is_expired(failed_logins[k].age)
     THEN /\ sweep' = [sweep EXCEPT !.todo = @ \ {k}, !.expired = @ \union {k}]
          /\ raced' = [raced EXCEPT ![k] = @ \/
               \E t \in Tasks : task[t].pc \in {"insert", "remove"} /\ task[t].key = k]
     ELSE /\ sweep' = [sweep EXCEPT !.todo = @ \ {k}]
          /\ UNCHANGED raced
  /\ UNCHANGED <<failed_logins, task, consec, since>>

\* Mutant of SweepScanned: the expired keys are found and forgotten.
ForgetsExpired ==
  /\ sweep.pc = "scan"
  /\ sweep.todo = {}
  /\ sweep' = [sweep EXCEPT !.pc = "sleep"]
  /\ UNCHANGED <<failed_logins, task, consec, since, raced>>

SweepScanned ==
  /\ sweep.pc = "scan"
  /\ sweep.todo = {}
  /\ sweep' = [sweep EXCEPT !.pc = IF sweep.expired = {} THEN "sleep" ELSE "remove"]
  /\ UNCHANGED <<failed_logins, task, consec, since, raced>>

SweepRemove ==
  /\ sweep.pc = "remove"
  /\ failed_logins' = [k \in Keys |-> IF k \in sweep.expired THEN Absent
                                                         ELSE failed_logins[k]]
  /\ sweep' = [pc |-> "sleep", todo |-> {}, expired |-> {}]
  /\ UNCHANGED <<task, consec, since, raced>>

SweepShutdown ==
  /\ sweep.pc = "sleep"
  /\ sweep' = [sweep EXCEPT !.pc = "stopped"]
  /\ UNCHANGED <<failed_logins, task, consec, since, raced>>

\* The clock entries are dated by (std::time::Instant).
Tick ==
  /\ failed_logins' = [k \in Keys |->
       IF Present(k) THEN [failed_logins[k] EXCEPT !.age = Older(@)] ELSE Absent]
  /\ since' = [k \in Keys |-> Older(since[k])]
  /\ UNCHANGED <<task, sweep, consec, raced>>

-----------------------------------------------------------------------------
Init ==
  /\ failed_logins = [k \in Keys |-> Absent]
  /\ \E k \in Keys : task = [t \in Tasks |-> [pc |-> "idle", key |-> k]]
  /\ sweep = [pc |-> "sleep", todo |-> {}, expired |-> {}]
  /\ consec = [k \in Keys |-> 0]
  /\ since = [k \in Keys |-> ExpiresAfter + 1]
  /\ raced = [k \in Keys |-> FALSE]

TaskStep(t) == FailedLookup(t) \/ FailedInsert(t) \/ SuccessLookup(t) \/ SuccessRemove(t)

SweepStep == SweepBegin \/ (\E k \in Keys : SweepCheck(k)) \/ SweepScanned \/ SweepRemove

Next ==
  \/ \E t \in Tasks, ip \in Ips, user \in Users : Authenticate(t, ip, user)
  \/ \E t \in Tasks : TaskStep(t)
  \/ SweepStep
  \/ SweepShutdown
  \/ Tick

Fairness == WF_vars(Tick) /\ WF_vars(SweepStep) /\ \A t \in Tasks : WF_vars(TaskStep(t))

Spec == Init /\ [][Next]_vars /\ Fairness

-----------------------------------------------------------------------------
(***************************************************************************)
(* The values the variables take.                                          *)
(***************************************************************************)
TypeOK ==
  /\ failed_logins \in [Keys -> [attempts : Nat, age : Ages]]
  /\ task \in [Tasks -> [pc  : {"idle", "failed", "insert", "success", "remove"},
                         key : Keys]]
  /\ sweep \in [pc      : {"sleep", "scan", "remove", "stopped"},
                todo    : SUBSET Keys,
                expired : SUBSET Keys]
  /\ consec \in [Keys -> Nat]
  /\ since \in [Keys -> Ages]
  /\ raced \in [Keys -> BOOLEAN]

(***************************************************************************)
(* However failed(), success() and the sweeper interleave, an account that *)
(* success() refuses has had at least max_attempts consecutive failed      *)
(* logins, the last one no longer ago than expires_after: races lose       *)
(* counts, they never invent any.                                          *)
(***************************************************************************)
NoEarlyLockout ==
  \A k \in Keys : LockedOut(k) => consec[k] >= MaxAttempts /\ since[k] <= ExpiresAfter

(***************************************************************************)
(* As long as no two calls have worked on a key's entry at once, the cache *)
(* knows exactly how many consecutive failures are still in their window.  *)
(***************************************************************************)
ExactWhenUncontended ==
  \A k \in Keys : ~raced[k] =>
    IF since[k] > ExpiresAfter THEN Present(k) => is_expired(failed_logins[k].age)
                               ELSE failed_logins[k].attempts = consec[k]

(***************************************************************************)
(* As long as no two calls have worked on a key's entry at once, nobody    *)
(* logs in while max_attempts consecutive failures are within the window.  *)
(***************************************************************************)
UncontendedLockoutHolds ==
  [][\A k \in Keys : ~raced'[k] /\ consec[k] >= MaxAttempts /\ since[k] <= ExpiresAfter
       => consec'[k] # 0]_vars

(***************************************************************************)
(* Once nobody tries to log in under a key any more, its entry is removed: *)
(* the sweeper, while it lives, keeps the map from growing.                *)
(***************************************************************************)
EventuallySwept ==
  \A k \in Keys :
    <>[](\A t \in Tasks : task[t].pc = "idle" \/ task[t].key # k)
      => []<>(~Present(k)) \/ <>(sweep.pc = "stopped")
=============================================================================
