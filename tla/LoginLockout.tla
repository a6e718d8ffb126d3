---------------------------- MODULE LoginLockout ----------------------------
(***************************************************************************)
(* The lockout of one account: login and registerFailedAttempt of          *)
(* apps/api/src/auth/auth.service.ts.  A login reads the row, spends its   *)
(* time in bcrypt, and then decides and writes on what it read: the write  *)
(* of a failure is the counter it read plus one, not an increment.         *)
(*                                                                         *)
(* The counter is only ever compared with MaxFailedAttempts, so it         *)
(* saturates there.  lockedUntil is kept as the time that is left of it,   *)
(* in units of Tick; the copy a request holds runs out at the same pace.   *)
(***************************************************************************)
EXTENDS Combinatorics, FiniteSets, Naturals

CONSTANTS
    Requests,           \* slots for the logins the API is serving at one time
    MaxFailedAttempts,  \* AUTH_MAX_FAILED_ATTEMPTS
    LockTicks           \* AUTH_LOCKOUT_MINUTES

ASSUME ConfigAssumption ==
    MaxFailedAttempts \in Nat \ {0} /\ LockTicks \in Nat \ {0}

VARIABLES
    failed,     \* users.failedLoginAttempts, saturated
    left,       \* time until users.lockedUntil; 0 if null or past
    usable,     \* whether the user and the tenant are ACTIVE
    req,        \* per request: the row as it read it, while bcrypt runs
    (* History variables *)
    streak,     \* wrong passwords since the last login, saturated
    unpunished, \* those of them that did not lock the account
    overtaken,  \* requests whose snapshot another request's write has falsified
    raced       \* whether an overtaken request has counted a failure since the last login

vars == <<failed, left, usable, req, streak, unpunished, overtaken, raced>>

Attempts == 0 .. MaxFailedAttempts
Times    == 0 .. LockTicks

Done     == [at |-> "idle"]
Pending  == [at: {"compare"}, failed: Attempts, left: Times, usable: BOOLEAN]

\* Type correctness.
TypeOK ==
    /\ failed \in Attempts
    /\ left \in Times
    /\ usable \in BOOLEAN
    /\ req \in [Requests -> {Done} \cup Pending]
    /\ streak \in Attempts
    /\ unpunished \in Nat
    /\ overtaken \subseteq Requests
    /\ raced \in BOOLEAN

-----------------------------------------------------------------------------
OneMore(n) == IF n < MaxFailedAttempts THEN n + 1 ELSE n

Earlier(t) == IF t > 0 THEN t - 1 ELSE 0

Goto(r, next) == req' = [req EXCEPT ![r] = next]

\* Request r has written the row, or ended without doing so.
Finish(r) ==
    /\ Goto(r, Done)
    /\ overtaken' =
         IF failed' = failed /\ left' = left THEN overtaken \ {r}
         ELSE {q \in Requests \ {r} : q \in overtaken \/ req[q] # Done}

-----------------------------------------------------------------------------
Init ==
    /\ failed = 0 /\ left = 0
    /\ usable \in BOOLEAN
    /\ req = [r \in Requests |-> Done]
    /\ streak = 0 /\ unpunished = 0
    /\ overtaken = {}
    /\ raced = FALSE

\* login: user.findMany, and into bcrypt.compare.
Read(r) ==
    /\ req[r] = Done
    /\ Goto(r, [at |-> "compare", failed |-> failed, left |-> left, usable |-> usable])
    /\ UNCHANGED <<failed, left, usable, streak, unpunished, overtaken, raced>>

\* Mutated: a locked account is told apart only if the password is right.
NeverLocked(r) == FALSE

\* The lock check comes after bcrypt, on the row as it was read.
Locked(r) == req[r].left > 0

\* 403, and nothing is counted: the account is locked, or the password is right
\* and the account or its office is not in order.  A statement that fails, or a
\* container that stops, ends the request the same way.
Refuse(r) ==
    /\ req[r].at = "compare"
    /\ UNCHANGED <<failed, left, usable, streak, unpunished, raced>>
    /\ Finish(r)

\* Mutated: the failure that reaches the limit does not lock yet.
ShouldLockLate(attempts) == attempts > MaxFailedAttempts

ShouldLock(attempts) == attempts >= MaxFailedAttempts

\* Mutated: the lock starts where the one in force ends.
LockAppended(attempts) == IF ShouldLock(attempts) THEN left + LockTicks ELSE left

\* lockedUntil after a failure; undefined leaves the column as it is.
LockedUntil(attempts) == IF ShouldLock(attempts) THEN LockTicks ELSE left

\* A wrong password: registerFailedAttempt, with the counter that was read.
Fail(r) ==
    LET attempts == OneMore(req[r].failed) IN
    /\ req[r].at = "compare"
    /\ ~Locked(r)
    /\ failed' = attempts
    /\ left' = LockedUntil(attempts)
    /\ streak' = OneMore(streak)
    /\ unpunished' = IF ShouldLock(attempts) THEN unpunished ELSE unpunished + 1
    /\ raced' = (raced \/ r \in overtaken)
    /\ Finish(r)
    /\ UNCHANGED usable

\* Mutated: a login leaves the counter alone.
SuccessWithoutReset(r) ==
    /\ req[r].at = "compare"
    /\ ~Locked(r) /\ req[r].usable
    /\ failed' = failed /\ left' = 0
    /\ streak' = 0 /\ unpunished' = 0
    /\ raced' = FALSE
    /\ Finish(r)
    /\ UNCHANGED usable

\* The right password, and the account and its office are in order.  What
\* follows, the issue of a token, is in RefreshTokens.
Succeed(r) ==
    /\ req[r].at = "compare"
    /\ ~Locked(r) /\ req[r].usable
    /\ failed' = 0 /\ left' = 0
    /\ streak' = 0 /\ unpunished' = 0
    /\ raced' = FALSE
    /\ Finish(r)
    /\ UNCHANGED usable

\* The status of the user or of the tenant is changed; the lock is not.
SetUsable ==
    /\ usable' = ~usable
    /\ UNCHANGED <<failed, left, req, streak, unpunished, overtaken, raced>>

\* Time passes, for the row and for every copy of it.
Tick ==
    /\ left > 0 \/ \E r \in Requests : req[r] # Done /\ req[r].left > 0
    /\ left' = Earlier(left)
    /\ req' = [r \in Requests |->
                 IF req[r] = Done THEN Done ELSE [req[r] EXCEPT !.left = Earlier(@)]]
    /\ UNCHANGED <<failed, usable, streak, unpunished, overtaken, raced>>

Next ==
    \/ \E r \in Requests : Read(r) \/ Refuse(r) \/ Fail(r) \/ Succeed(r)
    \/ SetUsable \/ Tick

Spec == Init /\ [][Next]_vars

-----------------------------------------------------------------------------
(* Properties *)

\* Unless concurrent logins have raced since the last one that succeeded, the
\* counter is the number of wrong passwords since then, and the account is
\* locked only if they have reached the limit.
LockIsEarned == ~raced => failed = streak /\ (left > 0 => streak = MaxFailedAttempts)

\* A lock in force is neither lifted nor prolonged by anybody who arrives
\* while it is: only by time, or by a request overtaken by the lock itself.
LockIsInert ==
    [][left > 0 /\ left' # left => Tick \/ \E r \in overtaken : Fail(r) \/ Succeed(r)]_vars

\* The counter is written, not incremented: concurrent failures can count as one
\* and a late one sets it back.  Even so the account is bound to lock: this is
\* how many wrong passwords since the last login can go without locking it, and
\* no more - MaxFailedAttempts - 1 when logins come one at a time.
UnpunishedFailuresAreBounded ==
    unpunished <
        choose(Cardinality(Requests) + MaxFailedAttempts - 1, MaxFailedAttempts - 1)
=============================================================================
