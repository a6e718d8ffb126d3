------------------------- MODULE LoginLockoutProofs -------------------------
(***************************************************************************)
(* Proofs about LoginLockout, for any limit, any length of the lock and    *)
(* any set of concurrent logins; for how many wrong passwords can go       *)
(* without a lock, any finite set.                                         *)
(***************************************************************************)
EXTENDS LoginLockout, Integers, FiniteSetTheorems, WellFoundedInduction, TLAPS

LEMMA OneMoreType == \A n \in Attempts : OneMore(n) \in Attempts
  BY ConfigAssumption DEF OneMore, Attempts

LEMMA EarlierType == \A t \in Times : Earlier(t) \in Times
  BY ConfigAssumption DEF Earlier, Times

LEMMA LockedUntilType ==
  ASSUME TypeOK, NEW n \in Attempts PROVE LockedUntil(n) \in Times
  BY ConfigAssumption DEF LockedUntil, TypeOK, Times

\* A login between its read and its write holds a full copy of the row.
LEMMA Snapshot ==
  ASSUME TypeOK, NEW r \in Requests, req[r] # Done
  PROVE  /\ req[r] \in Pending /\ req[r].failed \in Attempts /\ req[r].left \in Times
         /\ req[r].usable \in BOOLEAN
  BY DEF TypeOK, Pending

LEMMA FinishFacts ==
  ASSUME TypeOK, NEW r \in Requests, Finish(r)
  PROVE  /\ req'[r] = Done /\ \A q \in Requests \ {r} : req'[q] = req[q]
         /\ req' \in [Requests -> {Done} \cup Pending] /\ overtaken' \subseteq Requests
         /\ \A q \in Requests \ {r} :
              req[q] # Done /\ q \notin overtaken' =>
                q \notin overtaken /\ failed' = failed /\ left' = left
  BY DEF Finish, Goto, TypeOK

(***************************************************************************)
(* Type correctness.                                                       *)
(***************************************************************************)
LEMMA ZeroType == 0 \in Attempts /\ 0 \in Times
  BY ConfigAssumption DEF Attempts, Times

LEMMA InitTypeOK == Init => TypeOK
<1> SUFFICES ASSUME Init PROVE TypeOK
  OBVIOUS
<1>1. raced \in BOOLEAN
  BY DEF Init
<1>. QED  BY <1>1, ZeroType DEF Init, TypeOK

LEMMA NextTypeOK == TypeOK /\ [Next]_vars => TypeOK'
<1> SUFFICES ASSUME TypeOK, [Next]_vars PROVE TypeOK'
  OBVIOUS
<1>1. ASSUME NEW r \in Requests, Read(r) PROVE TypeOK'
  BY <1>1 DEF Read, Goto, TypeOK, Pending
<1>2. ASSUME NEW r \in Requests, Refuse(r) PROVE TypeOK'
  BY <1>2, FinishFacts DEF Refuse, TypeOK
<1>3. ASSUME NEW r \in Requests, Fail(r) PROVE TypeOK'
  <2> DEFINE attempts == OneMore(req[r].failed)
  <2>1. attempts \in Attempts /\ OneMore(streak) \in Attempts
    BY <1>3, Snapshot, OneMoreType DEF Fail, Done, TypeOK
  <2>2. failed' \in Attempts /\ left' \in Times /\ streak' \in Attempts
    BY <1>3, <2>1, LockedUntilType DEF Fail
  <2>3. unpunished' \in Nat /\ raced' \in BOOLEAN
    BY <1>3 DEF Fail, TypeOK
  <2>. QED  BY <1>3, <2>2, <2>3, FinishFacts DEF Fail, TypeOK
<1>4. ASSUME NEW r \in Requests, Succeed(r) PROVE TypeOK'
  <2>1. raced' \in BOOLEAN
    BY <1>4 DEF Succeed
  <2>. QED  BY <1>4, <2>1, FinishFacts, ZeroType DEF Succeed, TypeOK
<1>5. CASE SetUsable
  BY <1>5 DEF SetUsable, TypeOK
<1>6. CASE Tick
  <2>1. ASSUME NEW r \in Requests, req[r] # Done
        PROVE  [req[r] EXCEPT !.left = Earlier(@)] \in Pending
    BY <2>1, Snapshot, EarlierType DEF Pending
  <2>. QED  BY <1>6, <2>1, EarlierType DEF Tick, TypeOK
<1>7. CASE UNCHANGED vars
  BY <1>7 DEF vars, TypeOK
<1>. QED  BY <1>1, <1>2, <1>3, <1>4, <1>5, <1>6, <1>7 DEF Next

\* The counter and the lock stay within their ranges.
THEOREM TypeCorrect == Spec => []TypeOK
  BY InitTypeOK, NextTypeOK, PTL DEF Spec

-----------------------------------------------------------------------------
(***************************************************************************)
(* The inductive invariant: a request that is not overtaken holds the row  *)
(* as it is, and without a race the counter is the streak.                 *)
(***************************************************************************)
Fresh ==
    \A r \in Requests \ overtaken :
        req[r] # Done => req[r].failed = failed /\ req[r].left = left

IInv == TypeOK /\ Fresh /\ LockIsEarned

LEMMA InitIInv == Init => IInv
  BY InitTypeOK DEF Init, IInv, Fresh, LockIsEarned

\* A request that writes or ends leaves no stale copy unmarked.
LEMMA FinishKeepsFresh ==
  ASSUME IInv, NEW r \in Requests, Finish(r)
  PROVE  Fresh'
<1> SUFFICES ASSUME NEW q \in Requests \ overtaken', req'[q] # Done
             PROVE  req'[q].failed = failed' /\ req'[q].left = left'
  BY DEF Fresh
<1>1. q # r /\ req'[q] = req[q] /\ q \notin overtaken /\ failed' = failed /\ left' = left
  BY FinishFacts DEF IInv
<1>. QED  BY <1>1 DEF IInv, Fresh

LEMMA FailIInv ==
  ASSUME IInv, TypeOK', NEW r \in Requests, Fail(r)
  PROVE  IInv'
<1>1. Fresh'
  BY FinishKeepsFresh DEF Fail
<1>2. LockIsEarned'
  <2> SUFFICES ASSUME ~raced'
               PROVE  failed' = streak' /\ (left' > 0 => streak' = MaxFailedAttempts)
    BY DEF LockIsEarned
  <2>0. ~raced /\ r \notin overtaken
    BY Zenon DEF Fail
  <2>1. ~raced /\ r \notin overtaken /\ req[r] # Done
    BY <2>0 DEF Fail, Done
  <2>2. req[r].failed = failed /\ req[r].left = left /\ failed = streak
    BY <2>1 DEF IInv, Fresh, LockIsEarned
  <2>3. failed' = streak' /\ failed' \in Attempts
    BY <2>2 DEF Fail, TypeOK
  <2>4. left = 0
    BY <2>2 DEF Fail, Locked, IInv, TypeOK, Times
  <2>5. left' > 0 => failed' >= MaxFailedAttempts
    BY <2>4 DEF Fail, LockedUntil, ShouldLock
  <2>. QED  BY <2>3, <2>5, ConfigAssumption DEF Attempts
<1>. QED  BY <1>1, <1>2 DEF IInv

LEMMA NextIInv == IInv /\ [Next]_vars => IInv'
<1> SUFFICES ASSUME IInv, [Next]_vars PROVE IInv'
  OBVIOUS
<1>0. TypeOK'
  BY NextTypeOK DEF IInv
<1>1. ASSUME NEW r \in Requests, Read(r) PROVE IInv'
  BY <1>0, <1>1 DEF Read, Goto, IInv, TypeOK, Fresh, LockIsEarned
<1>2. ASSUME NEW r \in Requests, Refuse(r) PROVE IInv'
  BY <1>0, <1>2, FinishKeepsFresh DEF Refuse, IInv, LockIsEarned
<1>3. ASSUME NEW r \in Requests, Succeed(r) PROVE IInv'
  BY <1>0, <1>3, FinishKeepsFresh DEF Succeed, IInv, LockIsEarned
<1>4. CASE SetUsable
  BY <1>0, <1>4 DEF SetUsable, IInv, Fresh, LockIsEarned
<1>5. CASE Tick
  <2>1. Fresh'
    <3> SUFFICES ASSUME NEW r \in Requests \ overtaken, req'[r] # Done
                 PROVE  req'[r].failed = failed /\ req'[r].left = Earlier(left)
      BY <1>5 DEF Tick, Fresh
    <3>1. req[r] # Done /\ req'[r] = [req[r] EXCEPT !.left = Earlier(@)]
      BY <1>5 DEF Tick
    <3>. QED  BY <3>1, Snapshot DEF IInv, Fresh, Pending
  <2>2. left' > 0 => left > 0
    BY <1>5 DEF Tick, Earlier
  <2>. QED  BY <1>0, <1>5, <2>1, <2>2 DEF Tick, IInv, LockIsEarned
<1>6. CASE UNCHANGED vars
  BY <1>0, <1>6 DEF vars, IInv, Fresh, LockIsEarned
<1>. QED  BY <1>0, <1>1, <1>2, <1>3, <1>4, <1>5, <1>6, FailIInv DEF Next

THEOREM InvariantHolds == Spec => []IInv
  BY InitIInv, NextIInv, PTL DEF Spec

\* Nobody is locked out who has not given MaxFailedAttempts wrong passwords
\* since their last login, unless logins have raced.
THEOREM LocksAreEarned == Spec => []LockIsEarned
<1>1. IInv => LockIsEarned
  BY DEF IInv
<1>. QED  BY <1>1, InvariantHolds, PTL

\* While the lock is in force no new login attempt can lift or prolong it.
THEOREM LocksAreInert == Spec => LockIsInert
<1>1. ASSUME IInv, [Next]_vars, left > 0, left' # left, ~Tick
      PROVE  \E r \in overtaken : Fail(r) \/ Succeed(r)
  <2>1. PICK r \in Requests : Fail(r) \/ Succeed(r)
    BY <1>1 DEF Next, Read, Refuse, SetUsable, vars
  <2>2. r \in overtaken
    BY <1>1, <2>1 DEF Fail, Succeed, Locked, IInv, Fresh, Done
  <2>. QED  BY <2>1, <2>2
<1>2. IInv /\ [Next]_vars =>
        [left > 0 /\ left' # left => Tick \/ \E r \in overtaken : Fail(r) \/ Succeed(r)]_vars
  BY <1>1
<1>. QED  BY <1>2, InvariantHolds, PTL DEF Spec, LockIsInert

-----------------------------------------------------------------------------
(***************************************************************************)
(* Arithmetic: factorials, and choose, in which the bound on the failures  *)
(* without a lock is expressed.  Induction is here for sets of numbers,    *)
(* since the library's theorem about predicates cannot be instantiated.    *)
(***************************************************************************)

\* The order of the numbers is well-founded: of some numbers one is the least.
LEMMA LeastNumber ==
  ASSUME NEW T \in SUBSET Nat, T # {}
  PROVE  \E x \in T : \A y \in T : x <= y
<1>1. PICK x \in T : \A y \in T : ~ (<<y, x>> \in OpToRel(<, Nat))
  BY NatLessThanWellFounded, WFMin, Zenon
<1>2. \A y \in T : ~ (y < x)
  BY <1>1 DEF OpToRel
<1>. QED  BY <1>2

\* Induction, for sets of numbers.
LEMMA AllNumbers ==
  ASSUME NEW S, 0 \in S, \A n \in Nat : n \in S => n + 1 \in S
  PROVE  \A n \in Nat : n \in S
<1>. SUFFICES ASSUME Nat \ S # {} PROVE FALSE
  OBVIOUS
<1>1. PICK x \in Nat \ S : \A y \in Nat \ S : x <= y
  BY LeastNumber
<1>2. x # 0 /\ x - 1 \in Nat
  BY <1>1
<1>3. x - 1 \in S
  BY <1>1, <1>2
<1>. QED  BY <1>2, <1>3

-----------------------------------------------------------------------------
\* The factorials of 0 .. n, and their only table.
Table(n) == {g \in [0 .. n -> Nat] : \A i \in 0 .. n : g[i] = IF i = 0 THEN 1 ELSE i * g[i - 1]}

LEMMA TablesExist == \A n \in Nat : Table(n) # {}
<1>. DEFINE S == {n \in Nat : Table(n) # {}}
<1>1. 0 \in S
  <2>1. [i \in 0 .. 0 |-> 1] \in Table(0)
    BY DEF Table
  <2>. QED  BY <2>1
<1>2. ASSUME NEW n \in Nat, n \in S PROVE n + 1 \in S
  <2>1. PICK g \in Table(n) : TRUE
    BY <1>2
  <2>. DEFINE h == [i \in 0 .. n + 1 |-> IF i = n + 1 THEN (n + 1) * g[n] ELSE g[i]]
  <2>2. h \in [0 .. n + 1 -> Nat]
    BY <2>1 DEF Table
  <2>3. ASSUME NEW i \in 0 .. n + 1 PROVE h[i] = IF i = 0 THEN 1 ELSE i * h[i - 1]
    <3>1. CASE i = n + 1
      BY <3>1
    <3>2. CASE i # n + 1
      <4>1. i \in 0 .. n /\ (i # 0 => i - 1 \in 0 .. n)
        BY <3>2
      <4>2. g[i] = IF i = 0 THEN 1 ELSE i * g[i - 1]
        BY <2>1, <4>1 DEF Table
      <4>. QED  BY <4>1, <4>2
    <3>. QED  BY <3>1, <3>2
  <2>4. h \in Table(n + 1)
    BY <2>2, <2>3 DEF Table
  <2>. QED  BY <2>4
<1>. HIDE DEF S
<1>3. \A n \in Nat : n \in S
  BY <1>1, <1>2, AllNumbers
<1>. QED  BY <1>3 DEF S

LEMMA TablesAgree ==
  ASSUME NEW m \in Nat, NEW n \in Nat, NEW g \in Table(m), NEW h \in Table(n)
  PROVE  \A i \in Nat : i <= m /\ i <= n => g[i] = h[i]
<1>. DEFINE S == {i \in Nat : i <= m /\ i <= n => g[i] = h[i]}
<1>1. 0 \in S
  BY DEF Table
<1>2. ASSUME NEW i \in Nat, i \in S PROVE i + 1 \in S
  <2>. SUFFICES ASSUME i + 1 <= m, i + 1 <= n PROVE g[i + 1] = h[i + 1]
    OBVIOUS
  <2>1. g[i + 1] = (i + 1) * g[i] /\ h[i + 1] = (i + 1) * h[i]
    <3>1. i + 1 \in 0 .. m /\ i + 1 \in 0 .. n /\ i + 1 # 0 /\ (i + 1) - 1 = i
      OBVIOUS
    <3>. QED  BY <3>1 DEF Table
  <2>. QED  BY <1>2, <2>1
<1>. HIDE DEF S
<1>3. \A i \in Nat : i \in S
  BY <1>1, <1>2, AllNumbers
<1>. QED  BY <1>3 DEF S

LEMMA Factorial ==
  /\ factorial[0] = 1
  /\ \A n \in Nat : factorial[n + 1] = (n + 1) * factorial[n]
  /\ \A n \in Nat : factorial[n] \in Nat \ {0}
<1>. DEFINE F == [n \in Nat |-> (CHOOSE g \in Table(n) : TRUE)[n]]
<1>1. ASSUME NEW n \in Nat, NEW g \in Table(n) PROVE \A i \in 0 .. n : F[i] = g[i]
  <2>. TAKE i \in 0 .. n
  <2>1. (CHOOSE h \in Table(i) : TRUE) \in Table(i)
    BY TablesExist
  <2>. QED  BY <2>1, TablesAgree
<1>2. ASSUME NEW n \in Nat PROVE F[n] \in Nat /\ F[n] = IF n = 0 THEN 1 ELSE n * F[n - 1]
  <2>1. PICK g \in Table(n) : TRUE
    BY TablesExist
  <2>2. g[n] = (IF n = 0 THEN 1 ELSE n * g[n - 1]) /\ g[n] \in Nat
    BY <2>1 DEF Table
  <2>3. F[n] = g[n] /\ (n # 0 => F[n - 1] = g[n - 1])
    BY <1>1, <2>1
  <2>. QED  BY <2>2, <2>3
<1>0. F = [n \in Nat |-> F[n]]
  OBVIOUS
<1>. HIDE DEF F
<1>3. F = [n \in Nat |-> IF n = 0 THEN 1 ELSE n * F[n - 1]]
  <2>1. \A n \in Nat : F[n] = IF n = 0 THEN 1 ELSE n * F[n - 1]
    BY <1>2
  <2>. QED  BY <1>0, <2>1
<1>4. factorial = [n \in Nat |-> IF n = 0 THEN 1 ELSE n * factorial[n - 1]]
  <2>1. \E f : f = [n \in Nat |-> IF n = 0 THEN 1 ELSE n * f[n - 1]]
    BY <1>3
  <2>. QED  BY <2>1 DEF factorial
<1>5. factorial[0] = 1 /\ \A n \in Nat : factorial[n + 1] = (n + 1) * factorial[n]
  <2>1. ASSUME NEW n \in Nat PROVE factorial[n + 1] = (n + 1) * factorial[n]
    <3>1. factorial[n + 1] = IF n + 1 = 0 THEN 1 ELSE (n + 1) * factorial[(n + 1) - 1]
      BY <1>4
    <3>2. n + 1 # 0 /\ (n + 1) - 1 = n
      OBVIOUS
    <3>. QED  BY <3>1, <3>2
  <2>. QED  BY <1>4, <2>1
<1>. DEFINE S == {n \in Nat : factorial[n] \in Nat \ {0}}
<1>6. 0 \in S
  BY <1>5
<1>7. ASSUME NEW n \in Nat, n \in S PROVE n + 1 \in S
  <2>1. factorial[n] \in Nat \ {0} /\ factorial[n + 1] = (n + 1) * factorial[n]
    BY <1>5, <1>7
  <2>2. \A m \in Nat \ {0} : (n + 1) * m \in Nat \ {0}
    OBVIOUS
  <2>. QED  BY <2>1, <2>2
<1>. HIDE DEF S
<1>8. \A n \in Nat : n \in S
  BY <1>6, <1>7, AllNumbers
<1>. QED  BY <1>5, <1>8 DEF S

-----------------------------------------------------------------------------
\* choose divides without remainder, and is Pascal's triangle.
LEMMA Quotient == \A c \in Nat, d \in Nat \ {0} : (c * d) \div d = c
OBVIOUS

LEMMA SumOfProducts ==
  ASSUME NEW k \in Nat, NEW j \in Nat, NEW a \in Nat, NEW b \in Nat, NEW kf \in Nat, NEW jf \in Nat,
         NEW nf \in Nat, nf = a * (kf * ((j + 1) * jf)), nf = b * (((k + 1) * kf) * jf)
  PROVE  (k + j + 2) * nf = (a + b) * (((k + 1) * kf) * ((j + 1) * jf))
<1>1. (k + 1) * nf = a * (((k + 1) * kf) * ((j + 1) * jf))
  OBVIOUS
<1>2. (j + 1) * nf = b * (((k + 1) * kf) * ((j + 1) * jf))
  OBVIOUS
<1>3. (k + j + 2) * nf = (k + 1) * nf + (j + 1) * nf
  OBVIOUS
<1>4. \A x \in Nat : a * x + b * x = (a + b) * x
  OBVIOUS
<1>. QED  BY <1>1, <1>2, <1>3, <1>4

\* How often k! j! goes into (k + j)!.
IsChoice(c, k, j) == c \in Nat /\ factorial[k + j] = c * (factorial[k] * factorial[j])

LEMMA ChoiceIsChoose ==
  ASSUME NEW c, NEW k \in Nat, NEW j \in Nat, IsChoice(c, k, j)
  PROVE  choose(k + j, k) = c
<1>1. factorial[k] * factorial[j] \in Nat \ {0}
  <2>1. \A x \in Nat \ {0}, y \in Nat \ {0} : x * y \in Nat \ {0}
    OBVIOUS
  <2>. QED  BY <2>1, Factorial
<1>2. (k + j) - k = j
  OBVIOUS
<1>. QED  BY <1>1, <1>2, Quotient DEF choose, IsChoice

LEMMA ChoiceOfNone ==
  ASSUME NEW n \in Nat PROVE IsChoice(1, 0, n) /\ IsChoice(1, n, 0)
BY Factorial DEF IsChoice

LEMMA ChoicesAdd ==
  ASSUME NEW k \in Nat, NEW j \in Nat, NEW a, NEW b, IsChoice(a, k, j + 1), IsChoice(b, k + 1, j)
  PROVE  IsChoice(a + b, k + 1, j + 1)
<1>. DEFINE kf == factorial[k]
            jf == factorial[j]
            nf == factorial[k + j + 1]
<1>1. kf \in Nat /\ jf \in Nat /\ nf \in Nat /\ k + j + 1 \in Nat
  BY Factorial
<1>2. factorial[k + 1] = (k + 1) * kf /\ factorial[j + 1] = (j + 1) * jf
  BY Factorial
<1>3. factorial[(k + 1) + (j + 1)] = (k + j + 2) * nf
  <2>1. (k + 1) + (j + 1) = (k + j + 1) + 1 /\ k + j + 2 = (k + j + 1) + 1
    OBVIOUS
  <2>. QED  BY <1>1, <2>1, Factorial
<1>4. k + (j + 1) = k + j + 1 /\ (k + 1) + j = k + j + 1
  OBVIOUS
<1>5. a \in Nat /\ b \in Nat /\ nf = a * (kf * ((j + 1) * jf)) /\ nf = b * (((k + 1) * kf) * jf)
  BY <1>2, <1>4 DEF IsChoice
<1>. HIDE DEF kf, jf, nf
<1>6. (k + j + 2) * nf = (a + b) * (((k + 1) * kf) * ((j + 1) * jf))
  BY <1>1, <1>5, SumOfProducts
<1>. QED  BY <1>2, <1>3, <1>5, <1>6 DEF IsChoice

LEMMA ChoicesExist == \A k, j \in Nat : \E c : IsChoice(c, k, j)
<1>. DEFINE S == {n \in Nat : \A k, j \in Nat : k + j = n => \E c : IsChoice(c, k, j)}
<1>1. 0 \in S
  <2>1. \A k, j \in Nat : k + j = 0 => k = 0 /\ j = 0
    OBVIOUS
  <2>. QED  BY <2>1, ChoiceOfNone
<1>2. ASSUME NEW n \in Nat, n \in S PROVE n + 1 \in S
  <2>. SUFFICES ASSUME NEW k \in Nat, NEW j \in Nat, k + j = n + 1 PROVE \E c : IsChoice(c, k, j)
    OBVIOUS
  <2>1. CASE k = 0 \/ j = 0
    BY <2>1, ChoiceOfNone
  <2>2. CASE k # 0 /\ j # 0
    <3>0. /\ k - 1 \in Nat /\ j - 1 \in Nat /\ k = (k - 1) + 1 /\ j = (j - 1) + 1
          /\ (k - 1) + j = n /\ k + (j - 1) = n
      BY <2>2
    <3>1. PICK a : IsChoice(a, k - 1, j)
      BY <1>2, <3>0
    <3>2. PICK b : IsChoice(b, k, j - 1)
      BY <1>2, <3>0
    <3>. QED  BY <3>0, <3>1, <3>2, ChoicesAdd
  <2>. QED  BY <2>1, <2>2
<1>. HIDE DEF S
<1>3. \A n \in Nat : n \in S
  BY <1>1, <1>2, AllNumbers
<1>4. \A k, j \in Nat : k + j \in Nat
  OBVIOUS
<1>. QED  BY <1>3, <1>4 DEF S

LEMMA Pascal ==
  /\ \A k, j \in Nat : choose(k + j, k) \in Nat \ {0}
  /\ \A n \in Nat : choose(n, 0) = 1 /\ choose(n, n) = 1
  /\ \A k, j \in Nat : choose(k + j + 2, k + 1) = choose(k + j + 1, k) + choose(k + j + 1, k + 1)
<1>1. ASSUME NEW k \in Nat, NEW j \in Nat PROVE choose(k + j, k) \in Nat \ {0}
  <2>1. PICK c : IsChoice(c, k, j)
    BY ChoicesExist
  <2>2. c # 0
    <3>1. k + j \in Nat /\ factorial[k + j] # 0
      BY Factorial
    <3>2. factorial[k] * factorial[j] \in Nat
      BY Factorial
    <3>. QED  BY <2>1, <3>1, <3>2 DEF IsChoice
  <2>. QED  BY <2>1, <2>2, ChoiceIsChoose DEF IsChoice
<1>2. ASSUME NEW n \in Nat PROVE choose(n, 0) = 1 /\ choose(n, n) = 1
  <2>1. 0 + n = n /\ n + 0 = n
    OBVIOUS
  <2>2. choose(0 + n, 0) = 1 /\ choose(n + 0, n) = 1
    BY ChoiceOfNone, ChoiceIsChoose
  <2>. QED  BY <2>1, <2>2
<1>3. ASSUME NEW k \in Nat, NEW j \in Nat
      PROVE  choose(k + j + 2, k + 1) = choose(k + j + 1, k) + choose(k + j + 1, k + 1)
  <2>1. PICK a : IsChoice(a, k, j + 1)
    BY ChoicesExist
  <2>2. PICK b : IsChoice(b, k + 1, j)
    BY ChoicesExist
  <2>3. IsChoice(a + b, k + 1, j + 1)
    BY <2>1, <2>2, ChoicesAdd
  <2>4. /\ choose(k + (j + 1), k) = a /\ choose((k + 1) + j, k + 1) = b
        /\ choose((k + 1) + (j + 1), k + 1) = a + b
    BY <2>1, <2>2, <2>3, ChoiceIsChoose
  <2>5. k + (j + 1) = k + j + 1 /\ (k + 1) + j = k + j + 1 /\ (k + 1) + (j + 1) = k + j + 2
    OBVIOUS
  <2>. QED  BY <2>4, <2>5
<1>. QED  BY <1>1, <1>2, <1>3

-----------------------------------------------------------------------------
(***************************************************************************)
(* How many failures go unpunished.  Each request has a level, no higher   *)
(* than the counter that it holds, or would read now.  A failure on level  *)
(* a takes the request to a + 1 and sets the counter, so that we can count *)
(* everybody as no higher than that.                                       *)
(*                                                                         *)
(* Left(n, a) - 1 is how often n requests on level a can fail unpunished:  *)
(* the j-th of them to fail makes j that can go on from a + 1, so Left(n,  *)
(* a) is the sum of Left(j, a + 1) for j from 0 to n: Pascal's triangle.   *)
(***************************************************************************)
Last == MaxFailedAttempts - 1

Left(n, a) == choose(n + (Last - a), Last - a)

\* The triangle, in terms of the level.
LEMMA LeftFacts ==
  /\ Last \in Nat
  /\ \A n \in Nat, a \in 0 .. Last : Left(n, a) \in Nat \ {0}
  /\ \A n \in Nat : Left(n, Last) = 1
  /\ \A a \in 0 .. Last : Left(0, a) = 1
  /\ \A n \in Nat, a \in 0 .. Last :
        a # Last => a + 1 \in 0 .. Last /\ Left(n + 1, a) = Left(n, a) + Left(n + 1, a + 1)
<1>0. Last \in Nat
  BY ConfigAssumption DEF Last
<1>1. ASSUME NEW n \in Nat, NEW a \in 0 .. Last PROVE Left(n, a) \in Nat \ {0}
  <2>1. Last - a \in Nat /\ n + (Last - a) = (Last - a) + n
    BY <1>0
  <2>. QED  BY <2>1, Pascal DEF Left
<1>2. ASSUME NEW n \in Nat PROVE Left(n, Last) = 1
  <2>1. Last - Last = 0 /\ n + 0 = n
    BY <1>0
  <2>. QED  BY <2>1, Pascal DEF Left
<1>3. ASSUME NEW a \in 0 .. Last PROVE Left(0, a) = 1
  <2>1. Last - a \in Nat /\ 0 + (Last - a) = Last - a
    BY <1>0
  <2>. QED  BY <2>1, Pascal DEF Left
<1>4. ASSUME NEW n \in Nat, NEW a \in 0 .. Last, a # Last
      PROVE  a + 1 \in 0 .. Last /\ Left(n + 1, a) = Left(n, a) + Left(n + 1, a + 1)
  <2>1. PICK k \in Nat : k = Last - (a + 1)
    BY <1>0, <1>4
  <2>2. /\ Last - a = k + 1 /\ (n + 1) + (k + 1) = k + n + 2
        /\ n + (k + 1) = k + n + 1 /\ (n + 1) + k = k + n + 1
    BY <1>0, <2>1
  <2>3. /\ Left(n + 1, a) = choose(k + n + 2, k + 1) /\ Left(n, a) = choose(k + n + 1, k + 1)
        /\ Left(n + 1, a + 1) = choose(k + n + 1, k)
    BY <2>1, <2>2 DEF Left
  <2>4. choose(k + n + 2, k + 1) = choose(k + n + 1, k) + choose(k + n + 1, k + 1)
    BY Pascal
  <2>5. choose(k + n + 1, k) \in Nat /\ choose(k + n + 1, k + 1) \in Nat
    <3>1. k + n + 1 = k + (n + 1) /\ k + n + 1 = (k + 1) + n /\ k + 1 \in Nat /\ n + 1 \in Nat
      OBVIOUS
    <3>2. choose(k + (n + 1), k) \in Nat /\ choose((k + 1) + n, k + 1) \in Nat
      BY <3>1, Pascal
    <3>. QED  BY <3>1, <3>2
  <2>6. a + 1 \in 0 .. Last
    BY <1>0, <1>4
  <2>. QED  BY <2>3, <2>4, <2>5, <2>6
<1>. QED  BY <1>0, <1>1, <1>2, <1>3, <1>4

LEMMA LeftGrows ==
  ASSUME NEW m \in Nat, NEW n \in Nat, m <= n, NEW a \in 0 .. Last
  PROVE  Left(m, a) <= Left(n, a)
<1>. DEFINE S == {d \in Nat : Left(m, a) <= Left(m + d, a)}
<1>1. 0 \in S
  BY LeftFacts
<1>2. ASSUME NEW d \in Nat, d \in S PROVE d + 1 \in S
  <2>1. m + d \in Nat /\ m + (d + 1) = (m + d) + 1 /\ m + (d + 1) \in Nat
    OBVIOUS
  <2>2. Left(m + d, a) <= Left((m + d) + 1, a)
    <3>1. CASE a = Last
      BY <2>1, <3>1, LeftFacts
    <3>2. CASE a # Last
      <4>1. Left((m + d) + 1, a) = Left(m + d, a) + Left((m + d) + 1, a + 1) /\ a + 1 \in 0 .. Last
        BY <2>1, <3>2, LeftFacts
      <4>2. Left((m + d) + 1, a + 1) \in Nat /\ Left(m + d, a) \in Nat
        BY <2>1, <4>1, LeftFacts
      <4>. QED  BY <4>1, <4>2
    <3>. QED  BY <3>1, <3>2
  <2>3. Left(m, a) \in Nat /\ Left(m + d, a) \in Nat /\ Left((m + d) + 1, a) \in Nat
    BY <2>1, LeftFacts
  <2>. QED  BY <1>2, <2>1, <2>2, <2>3
<1>. HIDE DEF S
<1>3. n - m \in S
  BY <1>1, <1>2, AllNumbers
<1>4. m + (n - m) = n
  OBVIOUS
<1>. QED  BY <1>3, <1>4 DEF S

\* How many requests have reached level a.
Reached(level, a) == Cardinality({r \in Requests : level[r] >= a})

\* spent[a] is room enough for the failures on levels below a.
Budget(level, spent) ==
  /\ \A a, b \in 0 .. Last : a <= b => spent[a] <= spent[b]
  /\ \A a \in 0 .. Last : a # Last =>
        spent[a] + Left(Reached(level, a), a) <= spent[a + 1] + Left(Reached(level, a + 1), a)

LEMMA ReachedFacts ==
  ASSUME IsFiniteSet(Requests), NEW level, NEW a
  PROVE  /\ Reached(level, a) \in Nat
         /\ (\A r \in Requests : ~ (level[r] >= a)) => Reached(level, a) = 0
         /\ (\A r \in Requests : level[r] >= a) => Reached(level, a) = Cardinality(Requests)
<1>. DEFINE S == {r \in Requests : level[r] >= a}
<1>1. IsFiniteSet(S)
  BY FS_Subset
<1>2. Cardinality(S) \in Nat
  BY <1>1, FS_CardinalityType
<1>3. (\A r \in Requests : ~ (level[r] >= a)) => S = {}
  OBVIOUS
<1>4. (\A r \in Requests : level[r] >= a) => S = Requests
  OBVIOUS
<1>. QED  BY <1>2, <1>3, <1>4, FS_EmptySet DEF Reached

\* A budget for a fresh start: every request on level 0.
LEMMA FreshBudget ==
  ASSUME IsFiniteSet(Requests)
  PROVE  \E spent \in [0 .. Last -> Nat] :
            /\ Budget([r \in Requests |-> 0], spent)
            /\ spent[Last] < Left(Cardinality(Requests), 0)
<1>. DEFINE N == Cardinality(Requests)
            level == [r \in Requests |-> 0]
            spent == [a \in 0 .. Last |-> IF a = 0 THEN 0 ELSE Left(N, 0) - 1]
<1>0. N \in Nat /\ 0 \in 0 .. Last /\ Left(N, 0) \in Nat \ {0} /\ Last \in Nat
  <2>1. N \in Nat /\ Last \in Nat
    BY FS_CardinalityType, LeftFacts
  <2>. QED  BY <2>1, LeftFacts
<1>1. spent \in [0 .. Last -> Nat]
  BY <1>0
<1>2. Reached(level, 0) = N /\ \A a \in 0 .. Last : a # 0 => Reached(level, a) = 0
  <2>1. \A r \in Requests : level[r] >= 0 /\ \A a \in 0 .. Last : a # 0 => ~ (level[r] >= a)
    BY <1>0
  <2>. QED  BY <2>1, ReachedFacts
<1>. HIDE DEF level
<1>3. Budget(level, spent)
  <2>1. \A a, b \in 0 .. Last : a <= b => spent[a] <= spent[b]
    BY <1>0
  <2>2. ASSUME NEW a \in 0 .. Last, a # Last
        PROVE  spent[a] + Left(Reached(level, a), a) <= spent[a + 1] + Left(Reached(level, a + 1), a)
    <3>1. a + 1 \in 0 .. Last /\ a + 1 # 0 /\ Left(0, a) = 1
      BY <1>0, <2>2, LeftFacts
    <3>. QED  BY <1>0, <1>2, <3>1
  <2>. QED  BY <2>1, <2>2 DEF Budget
<1>4. spent[Last] < Left(N, 0)
  BY <1>0
<1>. QED  BY <1>1, <1>3, <1>4 DEF level

\* A failure on level t, for which one unit of the budget is set free.
LEMMA FailureIsPaid ==
  ASSUME IsFiniteSet(Requests), NEW level \in [Requests -> Attempts], NEW spent \in [0 .. Last -> Nat],
         Budget(level, spent), NEW r \in Requests, level[r] < Last,
         NEW next \in [Requests -> Attempts], next[r] = level[r] + 1,
         \A q \in Requests \ {r} :
            next[q] = IF level[q] > level[r] + 1 THEN level[r] + 1 ELSE level[q]
  PROVE  \E after \in [0 .. Last -> Nat] : Budget(next, after) /\ after[Last] < spent[Last]
<1>. PICK t \in 0 .. Last : t = level[r] /\ t # Last
  BY LeftFacts DEF Attempts
<1>0. Last \in Nat /\ t + 1 \in 0 .. Last /\ \A q \in Requests : level[q] \in Nat /\ next[q] \in Nat
  <2>1. Last \in Nat /\ t + 1 \in 0 .. Last
    BY LeftFacts
  <2>2. Attempts \subseteq Nat
    BY DEF Attempts
  <2>. QED  BY <2>1, <2>2
<1>1. ASSUME NEW a \in 0 .. Last, a <= t PROVE Reached(next, a) = Reached(level, a)
  <2>0. a \in Nat /\ t \in Nat
    BY <1>0
  <2>1. ASSUME NEW q \in Requests PROVE next[q] >= a <=> level[q] >= a
    <3>1. CASE q = r
      <4>1. next[q] = t + 1 /\ level[q] = t
        BY <3>1
      <4>. QED  BY <1>1, <2>0, <4>1
    <3>2. CASE q # r
      <4>1. next[q] = IF level[q] > t + 1 THEN t + 1 ELSE level[q]
        BY <3>2
      <4>. QED  BY <1>0, <1>1, <2>0, <4>1
    <3>. QED  BY <3>1, <3>2
  <2>. QED  BY <2>1 DEF Reached
<1>2. Reached(next, t + 1) = Reached(level, t + 1) + 1
  <2>. DEFINE S == {q \in Requests : level[q] >= t + 1}
  <2>0. ASSUME NEW q \in Requests PROVE next[q] >= t + 1 <=> q = r \/ level[q] >= t + 1
    <3>1. q # r => next[q] = IF level[q] > t + 1 THEN t + 1 ELSE level[q]
      OBVIOUS
    <3>. QED  BY <1>0, <3>1
  <2>1. {q \in Requests : next[q] >= t + 1} = S \cup {r}
    BY <2>0
  <2>2. r \notin S /\ IsFiniteSet(S)
    BY <1>0, FS_Subset
  <2>. QED  BY <2>1, <2>2, FS_AddElement DEF Reached
<1>3. ASSUME NEW a \in 0 .. Last, a > t + 1 PROVE Reached(next, a) = 0
  <2>1. ASSUME NEW q \in Requests PROVE ~ (next[q] >= a)
    <3>1. next[q] = t + 1 \/ next[q] <= t + 1
      BY <1>0
    <3>. QED  BY <1>0, <1>3, <3>1
  <2>. QED  BY <2>1, ReachedFacts
<1>4. Reached(level, t) \in Nat /\ Reached(level, t + 1) \in Nat /\ Reached(level, t + 1) + 1 <= Reached(level, t)
  <2>1. Reached(level, t) \in Nat /\ Reached(level, t + 1) \in Nat
    BY ReachedFacts
  <2>. DEFINE S == {q \in Requests : level[q] >= t + 1}
              T == {q \in Requests : level[q] >= t}
  <2>2. S \cup {r} \subseteq T /\ r \notin S /\ IsFiniteSet(S) /\ IsFiniteSet(T)
    BY <1>0, FS_Subset
  <2>3. Cardinality(S \cup {r}) = Cardinality(S) + 1 /\ Cardinality(S \cup {r}) <= Cardinality(T)
    BY <2>2, FS_AddElement, FS_Subset
  <2>. QED  BY <2>1, <2>3 DEF Reached
<1>. DEFINE x == Left(Reached(level, t), t)
            y == Left(Reached(level, t + 1), t)
            z == Left(Reached(level, t + 1) + 1, t + 1)
            here == spent[t] + x - (y + z)
            after == [a \in 0 .. Last |-> IF a <= t THEN spent[a] ELSE IF a = t + 1 THEN here ELSE here + z - 1]
<1>5. /\ x \in Nat /\ y \in Nat /\ z \in Nat \ {0} /\ y + z <= x
      /\ Left(Reached(level, t + 1) + 1, t) = y + z
  <2>1. Left(Reached(level, t + 1) + 1, t) = y + z
    BY <1>4, LeftFacts
  <2>2. x \in Nat /\ y \in Nat /\ z \in Nat \ {0}
    <3>1. Reached(level, t + 1) + 1 \in Nat
      BY <1>4
    <3>. QED  BY <1>0, <1>4, <3>1, LeftFacts
  <2>3. Left(Reached(level, t + 1) + 1, t) <= x
    BY <1>4, LeftGrows
  <2>. QED  BY <2>1, <2>2, <2>3
<1>6. spent[t] + x <= spent[t + 1] + y /\ spent[t + 1] <= spent[Last]
  BY <1>0 DEF Budget
<1>. HIDE DEF x, y, z
<1>7. here \in Nat /\ spent[t] <= here /\ here + z <= spent[t + 1]
  <2>1. ASSUME NEW m \in Nat, NEW n \in Nat, m + x <= n + y
        PROVE  /\ m + x - (y + z) \in Nat /\ m <= m + x - (y + z)
               /\ m + x - (y + z) + z <= n
    BY <1>5, <2>1
  <2>2. spent[t] \in Nat /\ spent[t + 1] \in Nat
    BY <1>0
  <2>. QED  BY <1>6, <2>1, <2>2
<1>8. after \in [0 .. Last -> Nat]
  BY <1>5, <1>7
<1>9. \A a, b \in 0 .. Last : a <= b => after[a] <= after[b]
  <2>. TAKE a, b \in 0 .. Last
  <2>. HAVE a <= b
  <2>1. (b <= t => spent[a] <= spent[b]) /\ (a <= t => spent[a] <= spent[t])
    BY DEF Budget
  <2>. HIDE DEF here
  <2>. QED  BY <1>0, <1>5, <1>7, <2>1
<1>. HIDE DEF here
<1>10. ASSUME NEW a \in 0 .. Last, a # Last
       PROVE  after[a] + Left(Reached(next, a), a) <= after[a + 1] + Left(Reached(next, a + 1), a)
  <2>0. a + 1 \in 0 .. Last
    BY <1>0, <1>10
  <2>1. CASE a < t
    <3>1. /\ a <= t /\ a + 1 <= t /\ Reached(next, a) = Reached(level, a)
          /\ Reached(next, a + 1) = Reached(level, a + 1)
      BY <1>0, <1>1, <2>0, <2>1
    <3>. QED  BY <1>10, <2>0, <3>1 DEF Budget
  <2>2. CASE a = t
    <3>0. Reached(next, t) = Reached(level, t)
      BY <1>0, <1>1
    <3>1. Left(Reached(next, a), a) = x /\ Left(Reached(next, a + 1), a) = y + z
      BY <1>2, <1>5, <2>2, <3>0 DEF x
    <3>2. after[a] = spent[t] /\ after[a + 1] = here
      BY <1>0, <2>0, <2>2
    <3>. QED  BY <1>5, <3>1, <3>2 DEF here
  <2>3. CASE a = t + 1
    <3>0. Reached(next, a + 1) = 0
      BY <1>0, <1>3, <2>0, <2>3
    <3>1. Left(Reached(next, a), a) = z /\ Left(Reached(next, a + 1), a) = 1
      BY <1>2, <2>3, <3>0, LeftFacts DEF z
    <3>2. after[a] = here /\ after[a + 1] = here + z - 1
      BY <1>0, <2>0, <2>3
    <3>. QED  BY <1>5, <1>7, <3>1, <3>2
  <2>4. CASE a > t + 1
    <3>1. Reached(next, a) = 0 /\ Reached(next, a + 1) = 0
      BY <1>0, <1>3, <2>0, <2>4
    <3>2. after[a] = here + z - 1 /\ after[a + 1] = here + z - 1
      BY <1>0, <2>0, <2>4
    <3>3. Left(0, a) = 1
      BY LeftFacts
    <3>. QED  BY <1>5, <1>7, <3>1, <3>2, <3>3
  <2>. QED  BY <1>0, <2>1, <2>2, <2>3, <2>4
<1>11. after[Last] < spent[Last]
  BY <1>0, <1>5, <1>6, <1>7
<1>. QED  BY <1>8, <1>9, <1>10, <1>11 DEF Budget

\* No request can fail below its level: it holds a counter that is no lower, or
\* will read one.
Levels(level) ==
  \A r \in Requests : level[r] <= failed /\ (req[r] # Done => level[r] <= req[r].failed)

RoomIsLeft(level, spent) ==
  /\ level \in [Requests -> Attempts] /\ spent \in [0 .. Last -> Nat]
  /\ Levels(level) /\ Budget(level, spent)
  /\ unpunished + spent[Last] < Left(Cardinality(Requests), 0)

BudgetInv == \E level, spent : RoomIsLeft(level, spent)

LEMMA FreshStart ==
  ASSUME IsFiniteSet(Requests)
  PROVE  unpunished = 0 /\ TypeOK => BudgetInv
<1>. SUFFICES ASSUME unpunished = 0, TypeOK PROVE BudgetInv
  OBVIOUS
<1>. DEFINE level == [r \in Requests |-> 0]
<1>1. PICK spent \in [0 .. Last -> Nat] :
         Budget(level, spent) /\ spent[Last] < Left(Cardinality(Requests), 0)
  BY FreshBudget
<1>2. level \in [Requests -> Attempts]
  BY ZeroType
<1>3. Levels(level)
  <2>1. failed \in Nat /\ \A r \in Requests : req[r] # Done => req[r].failed \in Nat
    BY Snapshot DEF TypeOK, Attempts
  <2>. QED  BY <2>1 DEF Levels
<1>4. unpunished + spent[Last] < Left(Cardinality(Requests), 0)
  <2>1. spent[Last] \in Nat
    BY LeftFacts
  <2>. QED  BY <1>1, <2>1
<1>. HIDE DEF level
<1>5. RoomIsLeft(level, spent)
  BY <1>1, <1>2, <1>3, <1>4 DEF RoomIsLeft, level
<1>. QED  BY <1>5 DEF BudgetInv

\* A step that counts no failure, and leaves the counter or raises it to its maximum.
LEMMA RoomStays ==
  ASSUME NEW level, NEW spent, RoomIsLeft(level, spent), unpunished' = unpunished,
         failed' \in {failed, MaxFailedAttempts},
         \A r \in Requests : req'[r] # Done =>
            req'[r].failed = IF req[r] = Done THEN failed ELSE req[r].failed
  PROVE  BudgetInv'
<1>1. Levels(level)'
  <2>1. \A r \in Requests : level[r] <= MaxFailedAttempts
    BY ConfigAssumption DEF RoomIsLeft, Attempts
  <2>. QED  BY <2>1 DEF RoomIsLeft, Levels
<1>2. RoomIsLeft(level, spent)'
  BY <1>1 DEF RoomIsLeft
<1>. QED  BY <1>2 DEF BudgetInv

\* The levels of all are cut to what the failure, by its level, sets the counter to.
LEMMA FailKeepsBudget ==
  ASSUME IsFiniteSet(Requests), TypeOK, BudgetInv, NEW r \in Requests, Fail(r)
  PROVE  BudgetInv'
<1>. DEFINE s == req[r].failed
<1>0. /\ s \in Attempts /\ req[r] # Done /\ failed' = OneMore(s)
      /\ req'[r] = Done /\ \A q \in Requests \ {r} : req'[q] = req[q]
  BY Snapshot, FinishFacts DEF Fail, Done
<1>1. PICK level, spent : RoomIsLeft(level, spent)
  BY DEF BudgetInv
<1>2. CASE s >= Last
  <2>1. failed' = MaxFailedAttempts /\ unpunished' = unpunished
    BY <1>0, <1>2, ConfigAssumption DEF Fail, OneMore, ShouldLock, Attempts, Last
  <2>. QED  BY <1>0, <1>1, <2>1, RoomStays
<1>3. CASE ~ (s >= Last)
  <2>. DEFINE t == level[r]
              next == [q \in Requests |-> IF q = r THEN t + 1
                                          ELSE IF level[q] > t + 1 THEN t + 1 ELSE level[q]]
  <2>1. failed' = s + 1 /\ unpunished' = unpunished + 1 /\ s < Last /\ s \in Nat
    BY <1>0, <1>3, ConfigAssumption DEF Fail, OneMore, ShouldLock, Attempts, Last
  <2>2. level \in [Requests -> Attempts] /\ t \in Nat /\ t <= s /\ t + 1 \in Attempts
    <3>1. level \in [Requests -> Attempts] /\ t <= s
      BY <1>0, <1>1 DEF RoomIsLeft, Levels
    <3>. QED  BY <2>1, <3>1, ConfigAssumption DEF Attempts, Last
  <2>3. next \in [Requests -> Attempts]
    BY <2>2
  <2>4. PICK after \in [0 .. Last -> Nat] : Budget(next, after) /\ after[Last] < spent[Last]
    <3>1. t < Last
      BY <2>1, <2>2, LeftFacts
    <3>2. next[r] = t + 1 /\ \A q \in Requests \ {r} :
             next[q] = IF level[q] > t + 1 THEN t + 1 ELSE level[q]
      OBVIOUS
    <3>3. Budget(level, spent) /\ spent \in [0 .. Last -> Nat]
      BY <1>1 DEF RoomIsLeft
    <3>. HIDE DEF next
    <3>. QED  BY <2>2, <2>3, <3>1, <3>2, <3>3, FailureIsPaid
  <2>5. Levels(next)'
    <3>1. ASSUME NEW q \in Requests PROVE next[q] <= t + 1 /\ (q # r => next[q] <= level[q])
      BY <2>2 DEF Attempts
    <3>2. ASSUME NEW q \in Requests PROVE next[q] \in Nat /\ level[q] \in Nat
      BY <2>2, <2>3 DEF Attempts
    <3>. HIDE DEF next, t
    <3>3. ASSUME NEW q \in Requests PROVE next[q] <= failed'
      BY <2>1, <2>2, <3>1, <3>2
    <3>4. ASSUME NEW q \in Requests, req'[q] # Done PROVE next[q] <= req'[q].failed
      <4>1. q # r /\ req'[q] = req[q] /\ level[q] <= req[q].failed /\ req[q].failed \in Nat
        BY <1>0, <1>1, <3>4, Snapshot DEF RoomIsLeft, Levels, Attempts
      <4>. QED  BY <3>1, <3>2, <4>1
    <3>. QED  BY <3>3, <3>4 DEF Levels
  <2>6. (unpunished + after[Last] < Left(Cardinality(Requests), 0))'
    <3>1. unpunished \in Nat /\ after[Last] \in Nat /\ spent[Last] \in Nat
          /\ Left(Cardinality(Requests), 0) \in Nat
      <4>1. Cardinality(Requests) \in Nat /\ 0 \in 0 .. Last
        BY FS_CardinalityType, LeftFacts
      <4>. QED  BY <1>1, <2>4, <4>1, LeftFacts DEF RoomIsLeft, TypeOK
    <3>2. unpunished + spent[Last] < Left(Cardinality(Requests), 0)
      BY <1>1 DEF RoomIsLeft
    <3>. QED  BY <2>1, <2>4, <3>1, <3>2
  <2>. HIDE DEF next
  <2>7. RoomIsLeft(next, after)'
    BY <2>3, <2>4, <2>5, <2>6 DEF RoomIsLeft
  <2>. QED  BY <2>7 DEF BudgetInv
<1>. QED  BY <1>2, <1>3

LEMMA NextBudget ==
  ASSUME IsFiniteSet(Requests), TypeOK, TypeOK', BudgetInv, [Next]_vars
  PROVE  BudgetInv'
<1>1. PICK level, spent : RoomIsLeft(level, spent)
  BY DEF BudgetInv
<1>2. ASSUME NEW r \in Requests, Read(r) PROVE BudgetInv'
  BY <1>1, <1>2, RoomStays DEF Read, Goto, TypeOK
<1>3. ASSUME NEW r \in Requests, Refuse(r) PROVE BudgetInv'
  <2>1. req'[r] = Done /\ \A q \in Requests \ {r} : req'[q] = req[q]
    BY <1>3, FinishFacts DEF Refuse
  <2>. QED  BY <1>1, <1>3, <2>1, RoomStays DEF Refuse
<1>4. ASSUME NEW r \in Requests, Succeed(r) PROVE BudgetInv'
  <2>1. (unpunished = 0 /\ TypeOK)'
    BY <1>4 DEF Succeed
  <2>. QED  BY <2>1, FreshStart, PTL
<1>5. CASE SetUsable
  BY <1>1, <1>5, RoomStays DEF SetUsable
<1>6. CASE Tick
  <2>1. ASSUME NEW r \in Requests, req'[r] # Done PROVE req[r] # Done /\ req'[r].failed = req[r].failed
    <3>1. req[r] # Done /\ req'[r] = [req[r] EXCEPT !.left = Earlier(@)]
      BY <1>6, <2>1 DEF Tick
    <3>. QED  BY <3>1, Snapshot DEF Pending
  <2>. QED  BY <1>1, <1>6, <2>1, RoomStays DEF Tick
<1>7. CASE UNCHANGED vars
  BY <1>1, <1>7, RoomStays DEF vars
<1>. QED  BY <1>2, <1>3, <1>4, <1>5, <1>6, <1>7, FailKeepsBudget DEF Next

\* registerFailedAttempt writes what it has read plus one: the account is bound to
\* lock all the same, and this is how many wrong passwords since the last login can
\* go without locking it, for any limit and any number of concurrent logins.
THEOREM UnpunishedFailuresStayBounded ==
  ASSUME IsFiniteSet(Requests)
  PROVE  Spec => []UnpunishedFailuresAreBounded
<1>1. Init => TypeOK /\ BudgetInv
  <2>1. Init => unpunished = 0
    BY DEF Init
  <2>. QED  BY <2>1, InitTypeOK, FreshStart
<1>2. TypeOK /\ BudgetInv /\ [Next]_vars => (TypeOK /\ BudgetInv)'
  BY NextTypeOK, NextBudget
<1>3. TypeOK /\ BudgetInv => UnpunishedFailuresAreBounded
  <2>. SUFFICES ASSUME TypeOK, BudgetInv PROVE UnpunishedFailuresAreBounded
    OBVIOUS
  <2>1. PICK level, spent : RoomIsLeft(level, spent)
    BY DEF BudgetInv
  <2>2. /\ unpunished \in Nat /\ spent[Last] \in Nat
        /\ unpunished + spent[Last] < Left(Cardinality(Requests), 0)
    BY <2>1, LeftFacts DEF RoomIsLeft, TypeOK
  <2>3. Cardinality(Requests) \in Nat /\ 0 \in 0 .. Last /\ Last \in Nat
    BY FS_CardinalityType, LeftFacts
  <2>4. Left(Cardinality(Requests), 0) =
           choose(Cardinality(Requests) + MaxFailedAttempts - 1, MaxFailedAttempts - 1)
    <3>1. Last - 0 = MaxFailedAttempts - 1
          /\ Cardinality(Requests) + (Last - 0) = Cardinality(Requests) + MaxFailedAttempts - 1
      BY <2>3, ConfigAssumption DEF Last
    <3>. QED  BY <3>1 DEF Left
  <2>5. Left(Cardinality(Requests), 0) \in Nat
    BY <2>3, LeftFacts
  <2>6. unpunished < Left(Cardinality(Requests), 0)
    BY <2>2, <2>5
  <2>. QED  BY <2>4, <2>6 DEF UnpunishedFailuresAreBounded
<1>. QED  BY <1>1, <1>2, <1>3, PTL DEF Spec
=============================================================================
