------------------------- MODULE AuthorizationProofs -------------------------
(***************************************************************************)
(* What a request may do.  The first part is about its permissions: how    *)
(* long a decision taken from the caches of RbacCache may lag behind the   *)
(* tables, whatever the number of processes, members, roles and codes.     *)
(* The second is about its office: what the scoped client of TenantScope   *)
(* guarantees for every table, statement and caller, and what follows for  *)
(* the requests of TenantRequests, whose handlers use the raw client too.  *)
(***************************************************************************)
EXTENDS RbacCache, TenantRequests, TLAPS

-----------------------------------------------------------------------------
(* PART ONE: permissions *)

-----------------------------------------------------------------------------
(* Types *)

SlotState == {Idle} \cup Lookup \cup Replace \cup Committed

PutMatrix == [at: {"put_matrix"}, proc: Processes, role: Roles, age: 0 .. Latency,
              kept: SUBSET Codes, old: SUBSET Codes]
PutMarks  == [at: {"put_marks"}, proc: Processes, user: Users, role: Roles,
              age: 0 .. Latency, list: [Codes -> Mark], kept: [Codes -> Mark]]
RoleDrops == [at: {"drop_role"}, proc: Processes, role: Roles, age: 0 .. Latency]
UserDrops == [at: {"drop_user"}, proc: Processes, user: Users, role: Roles,
              age: 0 .. Latency]

\* Where a request is says what it holds.
LEMMA Kinds ==
    ASSUME NEW q \in SlotState
    PROVE  /\ q.at = "idle" => q = Idle
           /\ q.at \in {"fill", "set"} => q \in Lookup
           /\ q.at = "put_matrix" => q \in PutMatrix
           /\ q.at = "put_marks" => q \in PutMarks
           /\ q.at = "drop_role" => q \in RoleDrops
           /\ q.at = "drop_user" => q \in UserDrops
           /\ q.at \in {"idle", "fill", "set", "put_matrix", "put_marks", "drop_role", "drop_user"}
           /\ q # Idle => q.at # "idle" /\ q.proc \in Processes /\ q.role \in Roles /\ q.age \in 0 .. Latency
  <1>1. CASE q = Idle
    BY <1>1 DEF Idle
  <1>2. CASE q \in Lookup
    BY <1>2 DEF Lookup, Idle
  <1>3. CASE q \in PutMatrix
    BY <1>3 DEF PutMatrix, Idle
  <1>4. CASE q \in PutMarks
    BY <1>4 DEF PutMarks, Idle
  <1>5. CASE q \in RoleDrops
    BY <1>5 DEF RoleDrops, Idle
  <1>6. CASE q \in UserDrops
    BY <1>6 DEF UserDrops, Idle
  <1> QED
    BY <1>1, <1>2, <1>3, <1>4, <1>5, <1>6
    DEF SlotState, Replace, Committed, PutMatrix, PutMarks, RoleDrops, UserDrops

LEMMA KindsBack ==
    Lookup \cup PutMatrix \cup PutMarks \cup RoleDrops \cup UserDrops \cup {Idle} \subseteq SlotState
  BY DEF SlotState, Replace, Committed, PutMatrix, PutMarks, RoleDrops, UserDrops

LEMMA EntryFacts ==
    /\ Blank \in Entry /\ Blank.left = 0
    /\ \A perms \in SUBSET Codes, clean \in BOOLEAN : NewEntry(perms, clean) \in Entry
    /\ \A e \in Entry : Soil(e) \in Entry /\ Older(e) \in Entry
  <1>0. TTL \in Nat \ {0}
    BY ConfigAssumption
  <1>1. Blank \in Entry /\ Blank.left = 0
    BY <1>0 DEF Blank, Entry
  <1>2. \A perms \in SUBSET Codes, clean \in BOOLEAN : NewEntry(perms, clean) \in Entry
    BY <1>0 DEF NewEntry, Entry
  <1>3. ASSUME NEW e \in Entry
        PROVE  Soil(e) \in Entry
    BY <1>3 DEF Soil, Entry
  <1>4. ASSUME NEW e \in Entry
        PROVE  Older(e) \in Entry
    <2>1. CASE e.left <= 1
      BY <1>1, <2>1 DEF Older
    <2>2. CASE ~ (e.left <= 1)
      BY <1>0, <2>2 DEF Older, Entry
    <2> QED BY <2>1, <2>2
  <1> QED BY <1>1, <1>2, <1>3, <1>4

LEMMA PermsFacts ==
    /\ \A rows \in SUBSET Codes, R \in Roles : Granted(rows, R) \in SUBSET Codes
    /\ \A perms, mark : Effective(perms, mark) \in SUBSET Codes
    /\ \A list \in [Codes -> Mark] : \A perms : Meaningful(list, perms) \in [Codes -> Mark]
    /\ \A a \in [Codes -> Mark], b \in [Codes -> Mark] : Overlay(a, b) \in [Codes -> Mark]
    /\ NoMark \in [Codes -> Mark]
  <1>1. \A rows \in SUBSET Codes, R \in Roles : Granted(rows, R) \in SUBSET Codes
    BY ConfigAssumption DEF Granted
  <1>2. \A perms, mark : Effective(perms, mark) \in SUBSET Codes
    BY DEF Effective
  <1>3. \A list \in [Codes -> Mark] : \A perms : Meaningful(list, perms) \in [Codes -> Mark]
    BY DEF Meaningful, Mark
  <1>4. \A a \in [Codes -> Mark], b \in [Codes -> Mark] : Overlay(a, b) \in [Codes -> Mark]
    BY DEF Overlay
  <1>5. NoMark \in [Codes -> Mark]
    BY DEF NoMark, Mark
  <1> QED BY <1>1, <1>2, <1>3, <1>4, <1>5

LEMMA GotoOne ==
    ASSUME TypeOK, NEW r \in Requests, NEW next \in SlotState, Goto(r, next)
    PROVE  /\ req' \in [Requests -> SlotState]
           /\ req'[r] = next
           /\ \A s \in Requests : s # r => req'[s] = req[s]
  BY DEF TypeOK, SlotState, Goto

LEMMA AskingIsLookup ==
    ASSUME TypeOK, NEW at \in {"fill", "set"}, NEW p \in Processes, NEW u \in Users, NEW R \in Roles
    PROVE  Asking(at, p, u, R) \in Lookup
  <1>1. roleCache[p][R] \in Entry
    BY DEF TypeOK
  <1>2. roleCache[p][R].perms \in SUBSET Codes
    BY <1>1 DEF Entry
  <1>3. 0 \in 0 .. Latency
    BY ConfigAssumption
  <1> QED BY <1>2, <1>3, PermsFacts DEF Asking, Lookup

LEMMA SoilTypes ==
    ASSUME TypeOK, NEW procs, NEW R, NEW u, SoilRole(procs, R) \/ SoilUser(procs, u)
    PROVE  /\ roleCache' \in [Processes -> [Roles -> Entry]]
           /\ userCache' \in [Processes -> [Users -> [Roles -> Entry]]]
  <1>1. ASSUME NEW p \in Processes, NEW S \in Roles
        PROVE  roleCache'[p][S] \in Entry
    <2>1. roleCache'[p][S] \in {roleCache[p][S], Soil(roleCache[p][S])}
      BY DEF TypeOK, SoilRole, SoilUser
    <2> QED BY <2>1, EntryFacts DEF TypeOK
  <1>2. ASSUME NEW p \in Processes, NEW v \in Users, NEW S \in Roles
        PROVE  userCache'[p][v][S] \in Entry
    <2>1. userCache'[p][v][S] \in {userCache[p][v][S], Soil(userCache[p][v][S])}
      BY DEF TypeOK, SoilRole, SoilUser
    <2> QED BY <2>1, EntryFacts DEF TypeOK
  <1>3. roleCache' = [p \in Processes |-> [S \in Roles |-> roleCache'[p][S]]]
    BY DEF TypeOK, SoilRole, SoilUser
  <1>4. userCache' = [p \in Processes |-> [v \in Users |-> [S \in Roles |-> userCache'[p][v][S]]]]
    BY DEF TypeOK, SoilRole, SoilUser
  <1> QED BY <1>1, <1>2, <1>3, <1>4

\* What it is to store an entry for a member.
LEMMA MemberStored ==
    ASSUME NEW cache \in [Processes -> [Users -> [Roles -> Entry]]],
           NEW p \in Processes, NEW u \in Users, NEW R \in Roles, NEW e \in Entry
    PROVE  /\ [cache EXCEPT ![p][u][R] = e] \in [Processes -> [Users -> [Roles -> Entry]]]
           /\ [cache EXCEPT ![p][u][R] = e][p][u][R] = e
           /\ \A o \in Processes, v \in Users, S \in Roles :
                 ~ (o = p /\ v = u /\ S = R) => [cache EXCEPT ![p][u][R] = e][o][v][S] = cache[o][v][S]
  <1>1. [cache[p][u] EXCEPT ![R] = e] \in [Roles -> Entry]
    OBVIOUS
  <1>2. [cache[p] EXCEPT ![u] = [cache[p][u] EXCEPT ![R] = e]] \in [Users -> [Roles -> Entry]]
    BY <1>1
  <1>3. [cache EXCEPT ![p][u][R] = e] =
           [cache EXCEPT ![p] = [cache[p] EXCEPT ![u] = [cache[p][u] EXCEPT ![R] = e]]]
    OBVIOUS
  <1> QED BY <1>1, <1>2, <1>3

LEMMA RestartType ==
    ASSUME NEW S, NEW N, 0 \in N, NEW ages \in [S -> N], NEW value \in S, NEW now \in S
    PROVE  Restart(ages, value, now) \in [S -> N]
  BY DEF Restart

LEMMA WindowFacts ==
    /\ RoleWindow \in Nat /\ MarkWindow \in Nat
    /\ 0 \in RoleAge /\ 0 \in MarkAge /\ RoleAge \subseteq Nat /\ MarkAge \subseteq Nat
    /\ \A a \in RoleAge, b \in BOOLEAN : Aged(a, RoleWindow, b) \in RoleAge
    /\ \A a \in MarkAge, b \in BOOLEAN : Aged(a, MarkWindow, b) \in MarkAge
  <1>1. RoleWindow \in Nat /\ MarkWindow \in Nat
    BY ConfigAssumption DEF RoleWindow, MarkWindow
  <1> QED BY <1>1 DEF RoleAge, MarkAge, Aged

LEMMA TypeInit ==
    ASSUME Init
    PROVE  TypeOK
  <1>1. matrix \in [Roles -> SUBSET Codes]
    BY ConfigAssumption DEF Init
  <1>2. roleAge \in [Roles -> [Codes -> [BOOLEAN -> RoleAge]]]
    BY WindowFacts DEF Init, RoleAge
  <1>3. markAge \in [Users -> [Codes -> [Mark -> MarkAge]]]
    BY WindowFacts DEF Init, MarkAge
  <1>4. asked \in [Roles -> SUBSET Codes]
    BY <1>1 DEF Init
  <1>5. req \in [Requests -> SlotState]
    BY DEF Init, SlotState
  <1>6. /\ roleCache \in [Processes -> [Roles -> Entry]]
        /\ userCache \in [Processes -> [Users -> [Roles -> Entry]]]
    BY EntryFacts DEF Init
  <1>7. override \in [Users -> [Codes -> Mark]]
    BY PermsFacts DEF Init
  <1> QED BY <1>1, <1>2, <1>3, <1>4, <1>5, <1>6, <1>7 DEF TypeOK, SlotState

LEMMA TypeStep ==
    ASSUME TypeOK, Next
    PROVE  TypeOK'
  <1> USE DEF tables, caches, history
  <1>0. /\ req \in [Requests -> SlotState]
        /\ \A r \in Requests : req[r] \in SlotState
        /\ Idle \in SlotState /\ 0 \in 0 .. Latency
    BY ConfigAssumption DEF TypeOK, SlotState
  <1>1. ASSUME NEW r \in Requests, NEW p \in Processes, NEW u \in Users, NEW R \in Roles,
               StartFill(r, p, u, R) \/ StartSet(r, p, u, R)
        PROVE  TypeOK'
    <2>1. \E at \in {"fill", "set"} : Goto(r, Asking(at, p, u, R))
      BY <1>1 DEF StartFill, StartSet
    <2>2. req' \in [Requests -> SlotState]
      BY <2>1, AskingIsLookup, KindsBack, GotoOne
    <2> QED BY <1>1, <2>2 DEF TypeOK, SlotState, StartFill, StartSet
  <1>2. ASSUME NEW r \in Requests, NEW p \in Processes, NEW R \in Roles, DeleteMatrix(r, p, R)
        PROVE  TypeOK'
    <2> DEFINE next == [at |-> "put_matrix", proc |-> p, role |-> R, age |-> 0, kept |-> {},
                        old |-> asked[R]]
    <2>1. next \in SlotState
      <3>1. next \in PutMatrix
        BY <1>0 DEF PutMatrix, TypeOK
      <3> QED BY <3>1, KindsBack
    <2>2. req' \in [Requests -> SlotState]
      BY <1>2, <2>1, GotoOne DEF DeleteMatrix
    <2> QED BY <1>2, <2>2 DEF TypeOK, SlotState, DeleteMatrix
  <1>3. ASSUME NEW r \in Requests, ReadRole(r)
        PROVE  TypeOK'
    <2> DEFINE q == req[r]
               next == [q EXCEPT !.rows = "read", !.perms = Granted(matrix[q.role], q.role)]
    <2>1. q \in Lookup
      BY <1>0, <1>3, Kinds DEF ReadRole
    <2>2. Granted(matrix[q.role], q.role) \in SUBSET Codes
      BY <2>1, PermsFacts DEF Lookup, TypeOK
    <2>3. next \in Lookup
      BY <2>1, <2>2 DEF Lookup
    <2>4. req' \in [Requests -> SlotState]
      BY <1>3, <2>3, KindsBack, GotoOne DEF ReadRole
    <2> QED BY <1>3, <2>4 DEF TypeOK, SlotState, ReadRole
  <1>4. ASSUME NEW r \in Requests, RoleArrives(r)
        PROVE  TypeOK'
    <2> DEFINE q == req[r]
               next == CASE q.at = "fill" -> [q EXCEPT !.rows = "have"]
                         [] q.at = "set"  -> [q EXCEPT !.rows = "have", !.age = 0]
    <2>1. q \in Lookup
      BY <1>0, <1>4, Kinds DEF RoleArrives
    <2>2. next \in Lookup
      <3>1. CASE q.at = "fill"
        BY <2>1, <3>1 DEF Lookup
      <3>2. CASE q.at = "set"
        BY <1>0, <2>1, <3>2 DEF Lookup
      <3> QED BY <1>4, <3>1, <3>2 DEF RoleArrives
    <2>3. req' \in [Requests -> SlotState]
      BY <1>4, <2>2, KindsBack, GotoOne DEF RoleArrives
    <2>4. NewEntry(q.perms, q.rowsOk) \in Entry
      BY <2>1, EntryFacts DEF Lookup
    <2>5. roleCache' \in [Processes -> [Roles -> Entry]]
      BY <1>4, <2>4 DEF TypeOK, RoleArrives
    <2> QED BY <1>4, <2>3, <2>5 DEF TypeOK, SlotState, RoleArrives
  <1>5. ASSUME NEW r \in Requests, ReadMarks(r)
        PROVE  TypeOK'
    <2> DEFINE q == req[r]
               next == [q EXCEPT !.marks = TRUE, !.mark = override[q.user]]
    <2>1. q \in Lookup
      BY <1>0, <1>5, Kinds DEF ReadMarks
    <2>2. next \in Lookup
      BY <2>1 DEF Lookup, TypeOK
    <2>3. req' \in [Requests -> SlotState]
      BY <1>5, <2>2, KindsBack, GotoOne DEF ReadMarks
    <2> QED BY <1>5, <2>3 DEF TypeOK, SlotState, ReadMarks
  <1>6. ASSUME NEW r \in Requests, FillUser(r)
        PROVE  TypeOK'
    <2> DEFINE q == req[r]
    <2>1. q \in Lookup
      BY <1>0, <1>6, Kinds DEF FillUser
    <2>2. NewEntry(Effective(q.perms, q.mark), q.rowsOk /\ q.marksOk) \in Entry
      BY <2>1, EntryFacts, PermsFacts DEF Lookup
    <2>3. userCache' \in [Processes -> [Users -> [Roles -> Entry]]]
      <3>1. userCache \in [Processes -> [Users -> [Roles -> Entry]]]
        BY DEF TypeOK
      <3> QED BY <1>6, <2>1, <2>2, <3>1, MemberStored DEF FillUser, Lookup
    <2>4. req' \in [Requests -> SlotState]
      BY <1>0, <1>6, GotoOne DEF FillUser
    <2> QED BY <1>6, <2>3, <2>4 DEF TypeOK, SlotState, FillUser
  <1>7. ASSUME NEW r \in Requests, NEW codes \in Matrices, CommitMatrix(r, codes)
        PROVE  TypeOK'
    <2> DEFINE q == req[r]
               next == [at |-> "drop_role", proc |-> q.proc, role |-> q.role, age |-> 0]
    <2>1. q \in PutMatrix /\ codes \in SUBSET Codes
      BY <1>0, <1>7, Kinds, ConfigAssumption DEF CommitMatrix
    <2>2. next \in SlotState
      <3>1. next \in RoleDrops
        BY <1>0, <2>1 DEF RoleDrops, PutMatrix
      <3> QED BY <3>1, KindsBack
    <2>3. req' \in [Requests -> SlotState]
      <3>1. ASSUME NEW s \in Requests
            PROVE  req'[s] \in SlotState
        <4>1. MeetMatrix(r, codes, next)
          BY <1>7 DEF CommitMatrix
        <4>2. CASE s = r
          BY <2>2, <4>1, <4>2 DEF MeetMatrix
        <4>3. CASE s # r /\ req[s].at \in {"fill", "set"}
          <5>1. req[s] \in Lookup
            BY <1>0, <4>3, Kinds
          <5>2. req'[s] \in Lookup
            BY <4>1, <4>3, <5>1 DEF MeetMatrix, Lookup
          <5> QED BY <5>2, KindsBack
        <4>4. CASE s # r /\ req[s].at = "put_matrix"
          <5>1. req[s] \in PutMatrix
            BY <1>0, <4>4, Kinds
          <5>2. req'[s] \in PutMatrix
            BY <2>1, <4>1, <4>4, <5>1 DEF MeetMatrix, PutMatrix
          <5> QED BY <5>2, KindsBack
        <4>5. CASE s # r /\ req[s].at \notin {"fill", "set", "put_matrix"}
          BY <1>0, <4>1, <4>5 DEF MeetMatrix
        <4> QED BY <4>2, <4>3, <4>4, <4>5
      <3>2. req' = [s \in Requests |-> req'[s]]
        BY <1>7 DEF CommitMatrix, MeetMatrix
      <3> QED BY <3>1, <3>2
    <2>4. matrix' \in [Roles -> SUBSET Codes]
      BY <1>7, <2>1 DEF TypeOK, CommitMatrix, RowsAfter, PutMatrix
    <2>5. roleAge' \in [Roles -> [Codes -> [BOOLEAN -> RoleAge]]]
      <3>1. \A c \in Codes, a \in BOOLEAN, b \in BOOLEAN :
               Restart(roleAge[q.role][c], a, b) \in [BOOLEAN -> RoleAge]
        BY <2>1, RestartType, WindowFacts DEF TypeOK, PutMatrix
      <3>2. [c \in Codes |-> Restart(roleAge[q.role][c], c \in Granted(matrix[q.role], q.role),
                                     c \in Granted(matrix'[q.role], q.role))]
               \in [Codes -> [BOOLEAN -> RoleAge]]
        <4>1. \A c \in Codes : /\ (c \in Granted(matrix[q.role], q.role)) \in BOOLEAN
                               /\ (c \in Granted(matrix'[q.role], q.role)) \in BOOLEAN
          OBVIOUS
        <4> QED BY <3>1, <4>1
      <3> QED BY <1>7, <2>1, <3>2 DEF TypeOK, CommitMatrix, PutMatrix
    <2>6. /\ roleCache' \in [Processes -> [Roles -> Entry]]
          /\ userCache' \in [Processes -> [Users -> [Roles -> Entry]]]
      BY <1>7, SoilTypes DEF CommitMatrix
    <2>7. asked' \in [Roles -> SUBSET Codes]
      BY <1>7, <2>1 DEF TypeOK, CommitMatrix, PutMatrix
    <2> QED BY <1>7, <2>3, <2>4, <2>5, <2>6, <2>7 DEF TypeOK, SlotState, CommitMatrix
  <1>8. ASSUME NEW r \in Requests, NEW list \in Overrides, DeleteMarks(r, list)
        PROVE  TypeOK'
    <2> DEFINE q == req[r]
               next == [at |-> "put_marks", proc |-> q.proc, user |-> q.user, role |-> q.role,
                        age |-> q.age, list |-> Meaningful(list, q.perms), kept |-> NoMark]
    <2>1. q \in Lookup
      BY <1>0, <1>8, Kinds DEF DeleteMarks
    <2>2. next \in PutMarks
      BY <2>1, PermsFacts, ConfigAssumption DEF PutMarks, Lookup
    <2>3. req' \in [Requests -> SlotState]
      BY <1>8, <2>2, KindsBack, GotoOne DEF DeleteMarks
    <2> QED BY <1>8, <2>3 DEF TypeOK, SlotState, DeleteMarks
  <1>9. ASSUME NEW r \in Requests, CommitMarks(r)
        PROVE  TypeOK'
    <2> DEFINE q == req[r]
               next == [at |-> "drop_user", proc |-> q.proc, user |-> q.user, role |-> q.role, age |-> 0]
    <2>1. q \in PutMarks
      BY <1>0, <1>9, Kinds DEF CommitMarks
    <2>2. next \in SlotState
      <3>1. next \in UserDrops
        BY <1>0, <2>1 DEF UserDrops, PutMarks
      <3> QED BY <3>1, KindsBack
    <2>3. req' \in [Requests -> SlotState]
      <3>1. ASSUME NEW s \in Requests
            PROVE  req'[s] \in SlotState
        <4>1. MeetMarks(r, next)
          BY <1>9 DEF CommitMarks
        <4>2. CASE s = r
          BY <2>2, <4>1, <4>2 DEF MeetMarks
        <4>3. CASE s # r /\ req[s].at = "fill"
          <5>1. req[s] \in Lookup
            BY <1>0, <4>3, Kinds
          <5>2. req'[s] \in Lookup
            BY <4>1, <4>3, <5>1 DEF MeetMarks, Lookup
          <5> QED BY <5>2, KindsBack
        <4>4. CASE s # r /\ req[s].at = "put_marks"
          <5> DEFINE kept == Overlay([c \in Codes |-> IF q.kept[c] = "none" THEN "none" ELSE req[s].kept[c]], q.list)
          <5>1. req[s] \in PutMarks
            BY <1>0, <4>4, Kinds
          <5>2. [c \in Codes |-> IF q.kept[c] = "none" THEN "none" ELSE req[s].kept[c]] \in [Codes -> Mark]
            BY <5>1 DEF PutMarks, Mark
          <5>3. kept \in [Codes -> Mark]
            BY <2>1, <5>2, PermsFacts DEF PutMarks
          <5>4. req'[s] \in {req[s], [req[s] EXCEPT !.kept = kept]}
            BY <4>1, <4>4 DEF MeetMarks
          <5> HIDE DEF kept
          <5>5. req'[s] \in PutMarks
            BY <5>1, <5>3, <5>4 DEF PutMarks
          <5> QED BY <5>5, KindsBack
        <4>5. CASE s # r /\ req[s].at \notin {"fill", "put_marks"}
          BY <1>0, <4>1, <4>5 DEF MeetMarks
        <4> QED BY <4>2, <4>3, <4>4, <4>5
      <3>2. req' = [s \in Requests |-> req'[s]]
        BY <1>9 DEF CommitMarks, MeetMarks
      <3> QED BY <3>1, <3>2
    <2>4. override' \in [Users -> [Codes -> Mark]]
      BY <1>9, <2>1, PermsFacts DEF TypeOK, CommitMarks, PutMarks
    <2>5. markAge' \in [Users -> [Codes -> [Mark -> MarkAge]]]
      <3>1. \A c \in Codes : override[q.user][c] \in Mark /\ override'[q.user][c] \in Mark
        BY <2>1, <2>4 DEF TypeOK, PutMarks
      <3>2. ASSUME NEW c \in Codes
            PROVE  Restart(markAge[q.user][c], override[q.user][c], override'[q.user][c])
                      \in [Mark -> MarkAge]
        <4>1. markAge[q.user][c] \in [Mark -> MarkAge]
          BY <2>1 DEF TypeOK, PutMarks
        <4> QED BY <3>1, <4>1, RestartType, WindowFacts
      <3> QED BY <1>9, <2>1, <3>2 DEF TypeOK, CommitMarks, PutMarks
    <2>6. /\ roleCache' \in [Processes -> [Roles -> Entry]]
          /\ userCache' \in [Processes -> [Users -> [Roles -> Entry]]]
      BY <1>9, SoilTypes DEF CommitMarks
    <2> QED BY <1>9, <2>3, <2>4, <2>5, <2>6 DEF TypeOK, SlotState, CommitMarks
  <1>10. ASSUME NEW r \in Requests, InvalidateRole(r)
         PROVE  TypeOK'
    <2>1. req' \in [Requests -> SlotState]
      BY <1>0, <1>10, GotoOne DEF InvalidateRole
    <2>2. /\ roleCache' \in [Processes -> [Roles -> Entry]]
          /\ userCache' \in [Processes -> [Users -> [Roles -> Entry]]]
      BY <1>10, EntryFacts DEF TypeOK, InvalidateRole, DropRole
    <2> QED BY <1>10, <2>1, <2>2 DEF TypeOK, SlotState, InvalidateRole
  <1>11. ASSUME NEW r \in Requests, InvalidateUser(r)
         PROVE  TypeOK'
    <2>1. req[r] \in UserDrops
      BY <1>0, <1>11, Kinds DEF InvalidateUser
    <2>2. Asking("fill", req[r].proc, req[r].user, req[r].role) \in SlotState
      BY <2>1, AskingIsLookup, KindsBack DEF UserDrops
    <2>3. req' \in [Requests -> SlotState]
      BY <1>11, <2>2, GotoOne DEF InvalidateUser
    <2>4. userCache' \in [Processes -> [Users -> [Roles -> Entry]]]
      BY <1>11, EntryFacts DEF TypeOK, InvalidateUser, DropUser
    <2> QED BY <1>11, <2>3, <2>4 DEF TypeOK, SlotState, InvalidateUser
  <1>12. ASSUME NEW r \in Requests, Abort(r)
         PROVE  TypeOK'
    <2>1. req' \in [Requests -> SlotState]
      BY <1>0, <1>12, GotoOne DEF Abort
    <2>2. /\ roleCache' \in [Processes -> [Roles -> Entry]]
          /\ userCache' \in [Processes -> [Users -> [Roles -> Entry]]]
      BY <1>12, SoilTypes DEF TypeOK, Abort
    <2> QED BY <1>12, <2>1, <2>2 DEF TypeOK, SlotState, Abort
  <1>13. ASSUME NEW p \in Processes, NEW u \in Users, MemberChanged(p, u)
         PROVE  TypeOK'
    <2>1. userCache' \in [Processes -> [Users -> [Roles -> Entry]]]
      BY <1>13, EntryFacts DEF TypeOK, MemberChanged, DropUser
    <2> QED BY <1>13, <2>1 DEF TypeOK, MemberChanged
  <1>14. ASSUME NEW p \in Processes, Crash(p)
         PROVE  TypeOK'
    <2>1. req' \in [Requests -> SlotState]
      BY <1>0, <1>14 DEF Crash
    <2>2. /\ roleCache' \in [Processes -> [Roles -> Entry]]
          /\ userCache' \in [Processes -> [Users -> [Roles -> Entry]]]
      BY <1>14, EntryFacts DEF TypeOK, Crash
    <2> QED BY <1>14, <2>1, <2>2 DEF TypeOK, SlotState, Crash
  <1>15. ASSUME Tick
         PROVE  TypeOK'
    <2>1. /\ roleCache' \in [Processes -> [Roles -> Entry]]
          /\ userCache' \in [Processes -> [Users -> [Roles -> Entry]]]
      BY <1>15, EntryFacts DEF TypeOK, Tick
    <2>2. req' \in [Requests -> SlotState]
      <3>1. ASSUME NEW r \in Requests, req[r] # Idle
            PROVE  [req[r] EXCEPT !.age = @ + 1] \in SlotState
        <4> DEFINE q == req[r]
        <4>1. q.age + 1 \in 0 .. Latency
          BY <1>0, <1>15, <3>1, Kinds, ConfigAssumption DEF Tick
        <4>2. q \in Lookup \cup PutMatrix \cup PutMarks \cup RoleDrops \cup UserDrops
          BY <1>0, <3>1 DEF SlotState, Replace, Committed, PutMatrix, PutMarks, RoleDrops, UserDrops
        <4>3. [q EXCEPT !.age = @ + 1] \in Lookup \cup PutMatrix \cup PutMarks \cup RoleDrops \cup UserDrops
          BY <4>1, <4>2 DEF Lookup, PutMatrix, PutMarks, RoleDrops, UserDrops
        <4> QED BY <4>3, KindsBack
      <3> QED BY <1>0, <1>15, <3>1 DEF Tick
    <2>3. roleAge' \in [Roles -> [Codes -> [BOOLEAN -> RoleAge]]]
      <3>1. ASSUME NEW R \in Roles, NEW c \in Codes, NEW b \in BOOLEAN
            PROVE  Aged(roleAge[R][c][b], RoleWindow, b = (c \in Granted(matrix[R], R))) \in RoleAge
        <4>1. roleAge[R][c][b] \in RoleAge /\ (b = (c \in Granted(matrix[R], R))) \in BOOLEAN
          BY DEF TypeOK
        <4> QED BY <4>1, WindowFacts
      <3> QED BY <1>15, <3>1 DEF Tick
    <2>4. markAge' \in [Users -> [Codes -> [Mark -> MarkAge]]]
      <3>1. ASSUME NEW u \in Users, NEW c \in Codes, NEW m \in Mark
            PROVE  Aged(markAge[u][c][m], MarkWindow, m = override[u][c]) \in MarkAge
        <4>1. markAge[u][c][m] \in MarkAge /\ (m = override[u][c]) \in BOOLEAN
          BY DEF TypeOK
        <4> QED BY <4>1, WindowFacts
      <3> QED BY <1>15, <3>1 DEF Tick
    <2> QED BY <1>15, <2>1, <2>2, <2>3, <2>4 DEF TypeOK, SlotState, Tick
  <1> QED
    BY <1>1, <1>2, <1>3, <1>4, <1>5, <1>6, <1>7, <1>8, <1>9, <1>10, <1>11, <1>12, <1>13, <1>14, <1>15
    DEF Next, Begin, Proceed

-----------------------------------------------------------------------------
(* The inductive invariant *)

\* The role granted exactly perms, and the member had exactly these marks, at most n
\* ticks ago; code by code, the role or the marks may have changed in between.
RoleSince(rAge, R, perms, n) == \A c \in Codes : rAge[R][c][(c \in perms)] <= n
MarksSince(mAge, u, mark, n) == \A c \in Codes : mAge[u][c][mark[c]] <= n

\* The most a role's permissions lag behind when they are taken from the role's entry.
Lag == Latency + TTL - 1

\* A member's permissions rest on what was so at most n ticks ago, and where there
\* was no override on what was so when the role's permissions were taken.
Justified(rAge, mAge, u, R, perms, n) ==
    \A c \in Codes :
        \/ mAge[u][c][IF c \in perms THEN "grant" ELSE "revoke"] <= n
        \/ mAge[u][c]["none"] <= n /\ rAge[R][c][(c \in perms)] <= n + Lag

\* What is in force is of no age.
TablesAreNew ==
    /\ \A R \in Roles : RoleSince(roleAge, R, Granted(matrix[R], R), 0)
    /\ \A u \in Users : MarksSince(markAge, u, override[u], 0)

\* An entry was filled by one read, of at most Latency ticks, and has aged since.
RoleEntryInv(rAge, R, e) ==
    e.left > 0 => RoleSince(rAge, R, e.perms, Latency + (TTL - e.left))

MemberEntryInv(rAge, mAge, u, R, e) ==
    e.left > 0 => Justified(rAge, mAge, u, R, e.perms, Latency + (TTL - e.left))

EntriesInv ==
    /\ \A p \in Processes, R \in Roles : RoleEntryInv(roleAge, R, roleCache[p][R])
    /\ \A p \in Processes, u \in Users, R \in Roles :
          MemberEntryInv(roleAge, markAge, u, R, userCache[p][u][R])

\* What a request has read is as old as its await; what it found in the cache was as
\* old as an entry may be.  Unless it was overtaken, it is what is in force.
LookupInv(q, rows, marks, rAge, mAge) ==
    /\ q.rows = "read" => RoleSince(rAge, q.role, q.perms, q.age)
    /\ q.rows = "have" => RoleSince(rAge, q.role, q.perms, Lag + q.age)
    /\ q.rows # "sent" /\ q.rowsOk => q.perms = Granted(rows[q.role], q.role)
    /\ q.marks => q.at = "fill" /\ MarksSince(mAge, q.user, q.mark, q.age)
    /\ q.marks /\ q.marksOk => q.mark = marks[q.user]

\* The overrides to be stored differ from what the role granted not long ago.
ListInv(q, rAge) ==
    \A c \in Codes : q.list[c] # "none" => rAge[q.role][c][(q.list[c] = "revoke")] <= Lag + q.age

SlotInv(q, rows, marks, rAge, mAge) ==
    /\ q.at \in {"fill", "set"} => LookupInv(q, rows, marks, rAge, mAge)
    /\ q.at = "put_marks" => ListInv(q, rAge)

RequestInv == \A r \in Requests : SlotInv(req[r], matrix, override, roleAge, markAge)

IInv ==
    /\ TypeOK /\ TablesAreNew /\ EntriesInv /\ RequestInv
    /\ ChangesAreSeenAtOnce

-----------------------------------------------------------------------------
(* How it ages *)

RoleAges == [Roles -> [Codes -> [BOOLEAN -> Nat]]]
MarkAges == [Users -> [Codes -> [Mark -> Nat]]]

\* No age is more than d above what it was.
RolesGrown(later, rAge, d) ==
    \A R \in Roles, c \in Codes, b \in BOOLEAN : later[R][c][b] <= rAge[R][c][b] + d
MarksGrown(later, mAge, d) ==
    \A u \in Users, c \in Codes, m \in Mark : later[u][c][m] <= mAge[u][c][m] + d

\* An entry that is what another was d ticks ago, or gone.
Fades(next, e, d) ==
    next.left > 0 => /\ next.perms = e.perms /\ next.left + d <= e.left
                     /\ next.clean => e.clean

LEMMA RoleSinceLater ==
    ASSUME NEW rAge \in RoleAges, NEW later \in RoleAges, NEW d \in Nat, RolesGrown(later, rAge, d),
           NEW n \in Nat, NEW m \in Nat, n + d <= m,
           NEW R \in Roles, NEW perms, RoleSince(rAge, R, perms, n)
    PROVE  RoleSince(later, R, perms, m)
  <1> SUFFICES ASSUME NEW c \in Codes
               PROVE  later[R][c][(c \in perms)] <= m
    BY DEF RoleSince
  <1> DEFINE b == (c \in perms)
  <1>1. b \in BOOLEAN
    OBVIOUS
  <1>2. rAge[R][c][b] <= n
    BY DEF RoleSince
  <1> HIDE DEF b
  <1>3. rAge[R][c][b] \in Nat /\ later[R][c][b] \in Nat /\ later[R][c][b] <= rAge[R][c][b] + d
    BY <1>1 DEF RoleAges, RolesGrown
  <1>4. later[R][c][b] <= m
    BY <1>2, <1>3
  <1> QED BY <1>4 DEF b

LEMMA MarksSinceLater ==
    ASSUME NEW mAge \in MarkAges, NEW later \in MarkAges, NEW d \in Nat, MarksGrown(later, mAge, d),
           NEW n \in Nat, NEW m \in Nat, n + d <= m,
           NEW u \in Users, NEW mark \in [Codes -> Mark], MarksSince(mAge, u, mark, n)
    PROVE  MarksSince(later, u, mark, m)
  <1> SUFFICES ASSUME NEW c \in Codes
               PROVE  later[u][c][mark[c]] <= m
    BY DEF MarksSince
  <1>1. mAge[u][c][mark[c]] <= n
    BY DEF MarksSince
  <1>2. /\ mAge[u][c][mark[c]] \in Nat /\ later[u][c][mark[c]] \in Nat
        /\ later[u][c][mark[c]] <= mAge[u][c][mark[c]] + d
    BY DEF MarkAges, MarksGrown
  <1> QED BY <1>1, <1>2

LEMMA JustifiedLater ==
    ASSUME NEW rAge \in RoleAges, NEW rLater \in RoleAges, NEW d \in Nat, RolesGrown(rLater, rAge, d),
           NEW mAge \in MarkAges, NEW mLater \in MarkAges, MarksGrown(mLater, mAge, d),
           NEW n \in Nat, NEW m \in Nat, n + d <= m,
           NEW u \in Users, NEW R \in Roles, NEW perms, Justified(rAge, mAge, u, R, perms, n)
    PROVE  Justified(rLater, mLater, u, R, perms, m)
  <1> SUFFICES ASSUME NEW c \in Codes
               PROVE  \/ mLater[u][c][IF c \in perms THEN "grant" ELSE "revoke"] <= m
                      \/ mLater[u][c]["none"] <= m /\ rLater[R][c][(c \in perms)] <= m + Lag
    BY DEF Justified
  <1> DEFINE b == (c \in perms)
             x == IF c \in perms THEN "grant" ELSE "revoke"
  <1>1. b \in BOOLEAN /\ x \in Mark /\ "none" \in Mark
    BY DEF Mark
  <1>2. mAge[u][c][x] <= n \/ (mAge[u][c]["none"] <= n /\ rAge[R][c][b] <= n + Lag)
    BY DEF Justified
  <1>3. Lag \in Nat
    BY ConfigAssumption DEF Lag
  <1> HIDE DEF b, x
  <1>4. /\ rAge[R][c][b] \in Nat /\ rLater[R][c][b] \in Nat /\ rLater[R][c][b] <= rAge[R][c][b] + d
        /\ mAge[u][c][x] \in Nat /\ mLater[u][c][x] \in Nat /\ mLater[u][c][x] <= mAge[u][c][x] + d
        /\ mAge[u][c]["none"] \in Nat /\ mLater[u][c]["none"] \in Nat
        /\ mLater[u][c]["none"] <= mAge[u][c]["none"] + d
    BY <1>1 DEF RoleAges, RolesGrown, MarkAges, MarksGrown
  <1>5. mLater[u][c][x] <= m \/ (mLater[u][c]["none"] <= m /\ rLater[R][c][b] <= m + Lag)
    BY <1>2, <1>3, <1>4
  <1> QED BY <1>5 DEF b, x

LEMMA RoleEntryLater ==
    ASSUME NEW rAge \in RoleAges, NEW later \in RoleAges, NEW d \in Nat, RolesGrown(later, rAge, d),
           NEW R \in Roles, NEW e \in Entry, NEW next \in Entry, Fades(next, e, d),
           RoleEntryInv(rAge, R, e)
    PROVE  RoleEntryInv(later, R, next)
  <1> SUFFICES ASSUME next.left > 0
               PROVE  RoleSince(later, R, next.perms, Latency + (TTL - next.left))
    BY DEF RoleEntryInv
  <1>1. e.left \in 0 .. TTL /\ next.left \in 0 .. TTL /\ TTL \in Nat /\ Latency \in Nat
    BY ConfigAssumption DEF Entry
  <1>2. next.perms = e.perms /\ next.left + d <= e.left /\ e.left > 0
    BY <1>1 DEF Fades
  <1>3. RoleSince(rAge, R, e.perms, Latency + (TTL - e.left))
    BY <1>2 DEF RoleEntryInv
  <1>4. /\ Latency + (TTL - e.left) \in Nat /\ Latency + (TTL - next.left) \in Nat
        /\ (Latency + (TTL - e.left)) + d <= Latency + (TTL - next.left)
    BY <1>1, <1>2
  <1> QED BY <1>2, <1>3, <1>4, RoleSinceLater

LEMMA MemberEntryLater ==
    ASSUME NEW rAge \in RoleAges, NEW rLater \in RoleAges, NEW d \in Nat, RolesGrown(rLater, rAge, d),
           NEW mAge \in MarkAges, NEW mLater \in MarkAges, MarksGrown(mLater, mAge, d),
           NEW u \in Users, NEW R \in Roles, NEW e \in Entry, NEW next \in Entry, Fades(next, e, d),
           MemberEntryInv(rAge, mAge, u, R, e)
    PROVE  MemberEntryInv(rLater, mLater, u, R, next)
  <1> SUFFICES ASSUME next.left > 0
               PROVE  Justified(rLater, mLater, u, R, next.perms, Latency + (TTL - next.left))
    BY DEF MemberEntryInv
  <1>1. e.left \in 0 .. TTL /\ next.left \in 0 .. TTL /\ TTL \in Nat /\ Latency \in Nat
    BY ConfigAssumption DEF Entry
  <1>2. next.perms = e.perms /\ next.left + d <= e.left /\ e.left > 0
    BY <1>1 DEF Fades
  <1>3. Justified(rAge, mAge, u, R, e.perms, Latency + (TTL - e.left))
    BY <1>2 DEF MemberEntryInv
  <1>4. /\ Latency + (TTL - e.left) \in Nat /\ Latency + (TTL - next.left) \in Nat
        /\ (Latency + (TTL - e.left)) + d <= Latency + (TTL - next.left)
    BY <1>1, <1>2
  <1> QED BY <1>2, <1>3, <1>4, JustifiedLater

\* A request that is d ticks older and was not met by a change of what it has read.
Follows(next, q, d, rows, marks, rows2, marks2) ==
    /\ next.at = q.at
    /\ q.at \in {"fill", "set"} =>
          /\ next.role = q.role /\ next.user = q.user /\ next.age = q.age + d
          /\ next.rows = q.rows /\ next.perms = q.perms
          /\ next.marks = q.marks /\ next.mark = q.mark
          /\ q.rows # "sent" /\ next.rowsOk => q.rowsOk /\ rows2[q.role] = rows[q.role]
          /\ q.marks /\ next.marksOk => q.marksOk /\ marks2[q.user] = marks[q.user]
    /\ q.at = "put_marks" =>
          next.role = q.role /\ next.list = q.list /\ next.age = q.age + d

LEMMA SlotLater ==
    ASSUME NEW rAge \in RoleAges, NEW rLater \in RoleAges, NEW d \in Nat, RolesGrown(rLater, rAge, d),
           NEW mAge \in MarkAges, NEW mLater \in MarkAges, MarksGrown(mLater, mAge, d),
           NEW rows, NEW marks, NEW rows2, NEW marks2,
           NEW q \in SlotState, NEW next, Follows(next, q, d, rows, marks, rows2, marks2),
           SlotInv(q, rows, marks, rAge, mAge)
    PROVE  SlotInv(next, rows2, marks2, rLater, mLater)
  <1>0. Lag \in Nat /\ Latency \in Nat
    BY ConfigAssumption DEF Lag
  <1>1. ASSUME q.at \in {"fill", "set"}
        PROVE  LookupInv(next, rows2, marks2, rLater, mLater)
    <2>1. /\ q.role \in Roles /\ q.user \in Users /\ q.age \in Nat /\ q.mark \in [Codes -> Mark]
          /\ LookupInv(q, rows, marks, rAge, mAge)
      BY <1>0, <1>1, Kinds DEF Lookup, SlotInv
    <2>2. /\ next.at = q.at /\ next.role = q.role /\ next.user = q.user /\ next.age = q.age + d
          /\ next.rows = q.rows /\ next.perms = q.perms
          /\ next.marks = q.marks /\ next.mark = q.mark
          /\ q.rows # "sent" /\ next.rowsOk => q.rowsOk /\ rows2[q.role] = rows[q.role]
          /\ q.marks /\ next.marksOk => q.marksOk /\ marks2[q.user] = marks[q.user]
      BY <1>1 DEF Follows
    <2>3. q.age + d \in Nat /\ Lag + q.age \in Nat /\ Lag + (q.age + d) \in Nat
          /\ (Lag + q.age) + d <= Lag + (q.age + d) /\ q.age + d <= q.age + d
      BY <1>0, <2>1
    <2>4. q.rows = "read" => RoleSince(rLater, q.role, q.perms, q.age + d)
      BY <2>1, <2>3, RoleSinceLater DEF LookupInv
    <2>5. q.rows = "have" => RoleSince(rLater, q.role, q.perms, Lag + (q.age + d))
      BY <2>1, <2>3, RoleSinceLater DEF LookupInv
    <2>6. q.marks => q.at = "fill" /\ MarksSince(mLater, q.user, q.mark, q.age + d)
      BY <2>1, <2>3, MarksSinceLater DEF LookupInv
    <2> QED BY <2>1, <2>2, <2>4, <2>5, <2>6 DEF LookupInv
  <1>2. ASSUME q.at = "put_marks"
        PROVE  ListInv(next, rLater)
    <2>1. /\ q.role \in Roles /\ q.age \in Nat /\ ListInv(q, rAge)
          /\ next.role = q.role /\ next.list = q.list /\ next.age = q.age + d
      BY <1>0, <1>2, Kinds DEF PutMarks, SlotInv, Follows
    <2> SUFFICES ASSUME NEW c \in Codes, q.list[c] # "none"
                 PROVE  rLater[q.role][c][(q.list[c] = "revoke")] <= Lag + (q.age + d)
      BY <2>1 DEF ListInv
    <2> DEFINE b == (q.list[c] = "revoke")
    <2>2. b \in BOOLEAN
      OBVIOUS
    <2>3. rAge[q.role][c][b] <= Lag + q.age
      BY <2>1 DEF ListInv
    <2> HIDE DEF b
    <2>4. /\ rAge[q.role][c][b] \in Nat /\ rLater[q.role][c][b] \in Nat
          /\ rLater[q.role][c][b] <= rAge[q.role][c][b] + d
      BY <2>1, <2>2 DEF RoleAges, RolesGrown
    <2>5. rLater[q.role][c][b] <= Lag + (q.age + d)
      BY <1>0, <2>1, <2>3, <2>4
    <2> QED BY <2>5 DEF b
  <1>3. next.at = q.at
    BY DEF Follows
  <1> QED BY <1>1, <1>2, <1>3 DEF SlotInv

\* Ages are natural numbers, and none grows when none is changed.
LEMMA AgesAreAges ==
    /\ [Roles -> [Codes -> [BOOLEAN -> RoleAge]]] \subseteq RoleAges
    /\ [Users -> [Codes -> [Mark -> MarkAge]]] \subseteq MarkAges
    /\ \A rAge \in RoleAges : RolesGrown(rAge, rAge, 0)
    /\ \A mAge \in MarkAges : MarksGrown(mAge, mAge, 0)
  <1>1. [BOOLEAN -> RoleAge] \subseteq [BOOLEAN -> Nat] /\ [Mark -> MarkAge] \subseteq [Mark -> Nat]
    BY WindowFacts
  <1>2. /\ [Codes -> [BOOLEAN -> RoleAge]] \subseteq [Codes -> [BOOLEAN -> Nat]]
        /\ [Codes -> [Mark -> MarkAge]] \subseteq [Codes -> [Mark -> Nat]]
    BY <1>1
  <1>3. /\ \A rAge \in RoleAges : RolesGrown(rAge, rAge, 0)
        /\ \A mAge \in MarkAges : MarksGrown(mAge, mAge, 0)
    BY DEF RoleAges, MarkAges, RolesGrown, MarksGrown
  <1> QED BY <1>2, <1>3 DEF RoleAges, MarkAges

-----------------------------------------------------------------------------
(* Steps that leave the tables alone *)

\* An invalidation that is pending, for the same entries.
Remains(next, q) ==
    /\ next.at = q.at /\ next.proc = q.proc /\ next.role = q.role
    /\ q.at = "drop_user" => next.user = q.user

Dead(e) == e.left = 0 \/ ~ e.clean

\* No invalidation is over while entries that it is to drop are alive.
DropsAreDone(reqs, reqs2, roleEntries, memberEntries) ==
    \A r \in Requests :
        /\ reqs[r].at = "drop_role" =>
              \/ Remains(reqs2[r], reqs[r])
              \/ /\ Dead(roleEntries[reqs[r].proc][reqs[r].role])
                 /\ \A u \in Users : Dead(memberEntries[reqs[r].proc][u][reqs[r].role])
        /\ reqs[r].at = "drop_user" =>
              \/ Remains(reqs2[r], reqs[r])
              \/ \A R \in Roles : Dead(memberEntries[reqs[r].proc][reqs[r].user][R])

LEMMA SeenKept ==
    ASSUME TypeOK, TypeOK', ChangesAreSeenAtOnce, UNCHANGED tables, NEW d \in Nat,
           \A p \in Processes, R \in Roles : Fades(roleCache'[p][R], roleCache[p][R], d),
           \A p \in Processes, u \in Users, R \in Roles :
               Fades(userCache'[p][u][R], userCache[p][u][R], d),
           DropsAreDone(req, req', roleCache', userCache')
    PROVE  ChangesAreSeenAtOnce'
  <1>1. ASSUME NEW p \in Processes, NEW R \in Roles,
               roleCache'[p][R].left > 0, roleCache'[p][R].clean,
               ~ \E r \in Requests : req'[r].at = "drop_role" /\ req'[r].proc = p /\ req'[r].role = R
        PROVE  roleCache'[p][R].perms = Granted(matrix[R], R)
    <2>1. ~ RoleDropPending(p, R)
      BY <1>1 DEF RoleDropPending, DropsAreDone, Remains, Dead
    <2>2. /\ roleCache'[p][R].left \in Nat /\ roleCache[p][R].left \in Nat
          /\ roleCache'[p][R].left + d <= roleCache[p][R].left
      BY <1>1 DEF TypeOK, Entry, Fades
    <2>3. roleCache[p][R].left > 0
      BY <1>1, <2>2
    <2>4. roleCache[p][R].perms = Granted(matrix[R], R)
      BY <1>1, <2>1, <2>3 DEF ChangesAreSeenAtOnce, Fades
    <2> QED BY <1>1, <2>4 DEF Fades
  <1>2. ASSUME NEW p \in Processes, NEW u \in Users, NEW R \in Roles,
               userCache'[p][u][R].left > 0, userCache'[p][u][R].clean,
               ~ \E r \in Requests :
                    /\ req'[r].at \in {"drop_role", "drop_user"} /\ req'[r].proc = p
                    /\ IF req'[r].at = "drop_role" THEN req'[r].role = R ELSE req'[r].user = u
        PROVE  userCache'[p][u][R].perms = Effective(Granted(matrix[R], R), override[u])
    <2>1. ~ DropPending(p, u, R)
      BY <1>2 DEF DropPending, DropsAreDone, Remains, Dead
    <2>2. /\ userCache'[p][u][R].left \in Nat /\ userCache[p][u][R].left \in Nat
          /\ userCache'[p][u][R].left + d <= userCache[p][u][R].left
      BY <1>2 DEF TypeOK, Entry, Fades
    <2>3. userCache[p][u][R].left > 0
      BY <1>2, <2>2
    <2>4. userCache[p][u][R].perms = Effective(Granted(matrix[R], R), override[u])
      BY <1>2, <2>1, <2>3 DEF ChangesAreSeenAtOnce, Fades
    <2> QED BY <1>2, <2>4 DEF Fades
  <1> QED BY <1>1, <1>2 DEF ChangesAreSeenAtOnce, RoleDropPending, DropPending, tables

\* A step that neither changes the tables nor fills an entry keeps the invariant if
\* what it makes of its requests satisfies it.
LEMMA QuietStep ==
    ASSUME IInv, TypeOK', UNCHANGED <<tables, history>>,
           \A p \in Processes, R \in Roles : Fades(roleCache'[p][R], roleCache[p][R], 0),
           \A p \in Processes, u \in Users, R \in Roles :
               Fades(userCache'[p][u][R], userCache[p][u][R], 0),
           DropsAreDone(req, req', roleCache', userCache'),
           \A r \in Requests : SlotInv(req'[r], matrix, override, roleAge, markAge)
    PROVE  IInv'
  <1>1. TypeOK /\ TypeOK' /\ EntriesInv /\ UNCHANGED tables /\ UNCHANGED history
    BY DEF IInv
  <1>2. EntriesInv'
    <2>1. /\ roleAge \in RoleAges /\ markAge \in MarkAges
          /\ RolesGrown(roleAge, roleAge, 0) /\ MarksGrown(markAge, markAge, 0)
      BY <1>1, AgesAreAges DEF TypeOK
    <2>2. ASSUME NEW p \in Processes, NEW R \in Roles
          PROVE  RoleEntryInv(roleAge, R, roleCache'[p][R])
      <3>1. roleCache[p][R] \in Entry /\ roleCache'[p][R] \in Entry
        BY <1>1 DEF TypeOK
      <3> QED BY <1>1, <2>1, <3>1, RoleEntryLater DEF EntriesInv
    <2>3. ASSUME NEW p \in Processes, NEW u \in Users, NEW R \in Roles
          PROVE  MemberEntryInv(roleAge, markAge, u, R, userCache'[p][u][R])
      <3>1. userCache[p][u][R] \in Entry /\ userCache'[p][u][R] \in Entry
        BY <1>1 DEF TypeOK
      <3> QED BY <1>1, <2>1, <3>1, MemberEntryLater DEF EntriesInv
    <2> QED BY <1>1, <2>2, <2>3 DEF EntriesInv, history
  <1>3. ChangesAreSeenAtOnce'
    BY <1>1, SeenKept DEF IInv
  <1>4. RequestInv'
    BY <1>1 DEF RequestInv, tables, history
  <1>5. TablesAreNew'
    BY <1>1 DEF IInv, TablesAreNew, tables, history
  <1> QED BY <1>1, <1>2, <1>3, <1>4, <1>5 DEF IInv

\* Such a step of one request, which is not at an invalidation.
LEMMA QuietRequest ==
    ASSUME IInv, TypeOK', UNCHANGED <<tables, history, caches>>,
           NEW r \in Requests, req[r].at \notin {"drop_role", "drop_user"},
           NEW next \in SlotState, Goto(r, next),
           SlotInv(next, matrix, override, roleAge, markAge)
    PROVE  IInv'
  <1>1. TypeOK /\ RequestInv
    BY DEF IInv
  <1>2. /\ req'[r] = next
        /\ \A s \in Requests : s # r => req'[s] = req[s]
    BY <1>1, GotoOne
  <1>3. \A p \in Processes, R \in Roles : Fades(roleCache'[p][R], roleCache[p][R], 0)
    BY <1>1 DEF Fades, caches, TypeOK, Entry
  <1>4. \A p \in Processes, u \in Users, R \in Roles : Fades(userCache'[p][u][R], userCache[p][u][R], 0)
    BY <1>1 DEF Fades, caches, TypeOK, Entry
  <1>5. DropsAreDone(req, req', roleCache', userCache')
    BY <1>2 DEF DropsAreDone, Remains
  <1>6. \A s \in Requests : SlotInv(req'[s], matrix, override, roleAge, markAge)
    BY <1>1, <1>2 DEF RequestInv
  <1> QED BY <1>3, <1>4, <1>5, <1>6, QuietStep

-----------------------------------------------------------------------------
(* Lookups *)

\* A lookup that was just begun satisfies the invariant, be it a hit or not.
LEMMA AskingIsRight ==
    ASSUME IInv, NEW at \in {"fill", "set"}, NEW p \in Processes, NEW u \in Users, NEW R \in Roles
    PROVE  SlotInv(Asking(at, p, u, R), matrix, override, roleAge, markAge)
  <1> DEFINE e == roleCache[p][R]
             q == Asking(at, p, u, R)
  <1>1. /\ q.at = at /\ q.role = R /\ q.user = u /\ q.age = 0 /\ q.perms = e.perms /\ q.marks = FALSE
        /\ q.rows = IF e.left > 0 THEN "have" ELSE "sent"
        /\ q.rowsOk => e.clean /\ (e.left > 0 => ~ RoleDropPending(p, R))
    BY DEF Asking
  <1>2. e \in Entry /\ RoleEntryInv(roleAge, R, e) /\ TypeOK /\ ChangesAreSeenAtOnce
    BY DEF IInv, TypeOK, EntriesInv
  <1>3. q.rows = "have" => RoleSince(roleAge, R, e.perms, Lag + 0)
    <2> SUFFICES ASSUME e.left > 0
                 PROVE  RoleSince(roleAge, R, e.perms, Lag + 0)
      BY <1>1
    <2>1. RoleSince(roleAge, R, e.perms, Latency + (TTL - e.left))
      BY <1>2 DEF RoleEntryInv
    <2>2. e.left \in 1 .. TTL /\ TTL \in Nat /\ Latency \in Nat
      BY <1>2, ConfigAssumption DEF Entry
    <2>3. Latency + (TTL - e.left) \in Nat /\ Lag + 0 \in Nat /\ (Latency + (TTL - e.left)) + 0 <= Lag + 0
      BY <2>2 DEF Lag
    <2>4. roleAge \in RoleAges /\ RolesGrown(roleAge, roleAge, 0)
      BY <1>2, AgesAreAges DEF TypeOK
    <2> QED BY <2>1, <2>3, <2>4, RoleSinceLater
  <1>4. q.rows # "sent" /\ q.rowsOk => e.perms = Granted(matrix[R], R)
    BY <1>1, <1>2 DEF ChangesAreSeenAtOnce
  <1> HIDE DEF q, e
  <1>5. SlotInv(q, matrix, override, roleAge, markAge)
    BY <1>1, <1>3, <1>4 DEF SlotInv, LookupInv
  <1> QED BY <1>5 DEF q

LEMMA IdleIsRight ==
    SlotInv(Idle, matrix, override, roleAge, markAge) /\ Idle \in SlotState
  BY DEF SlotInv, Idle, SlotState

\* What a read finds is of no age.
LEMMA ReadsAreRight ==
    ASSUME IInv, NEW r \in Requests, ReadRole(r) \/ ReadMarks(r), TypeOK'
    PROVE  IInv'
  <1> DEFINE q == req[r]
  <1>1. q \in Lookup /\ q.at \in {"fill", "set"} /\ LookupInv(q, matrix, override, roleAge, markAge)
    <2>1. q \in SlotState
      BY DEF IInv, TypeOK, SlotState
    <2> QED BY <2>1, Kinds DEF ReadRole, ReadMarks, IInv, RequestInv, SlotInv
  <1>2. q.age \in Nat /\ q.role \in Roles /\ q.user \in Users /\ q.proc \in Processes
    BY <1>1, ConfigAssumption DEF Lookup
  <1>3. UNCHANGED <<tables, history, caches>>
    BY DEF ReadRole, ReadMarks
  <1>4. TypeOK /\ TablesAreNew /\ roleAge \in RoleAges /\ markAge \in MarkAges
        /\ RolesGrown(roleAge, roleAge, 0) /\ MarksGrown(markAge, markAge, 0)
    BY AgesAreAges DEF IInv, TypeOK
  <1>5. CASE ReadRole(r)
    <2> DEFINE next == [q EXCEPT !.rows = "read", !.perms = Granted(matrix[q.role], q.role)]
    <2>1. next \in Lookup
      BY <1>1, <1>4, PermsFacts DEF Lookup, TypeOK
    <2>2. /\ next.at = q.at /\ next.rows = "read" /\ next.perms = Granted(matrix[q.role], q.role)
          /\ next.age = q.age /\ next.role = q.role /\ next.user = q.user
          /\ next.marks = q.marks /\ next.mark = q.mark /\ next.marksOk = q.marksOk
      BY <1>1 DEF Lookup
    <2>3. RoleSince(roleAge, q.role, Granted(matrix[q.role], q.role), q.age)
      <3>1. RoleSince(roleAge, q.role, Granted(matrix[q.role], q.role), 0)
        BY <1>2, <1>4 DEF TablesAreNew
      <3> QED BY <1>2, <1>4, <3>1, RoleSinceLater
    <2>4. Goto(r, next)
      BY <1>5 DEF ReadRole
    <2> HIDE DEF next
    <2>5. SlotInv(next, matrix, override, roleAge, markAge)
      BY <1>1, <2>2, <2>3 DEF SlotInv, LookupInv
    <2> QED BY <1>1, <1>3, <2>1, <2>4, <2>5, KindsBack, QuietRequest
  <1>6. CASE ReadMarks(r)
    <2> DEFINE next == [q EXCEPT !.marks = TRUE, !.mark = override[q.user]]
    <2>1. next \in Lookup
      BY <1>1, <1>4 DEF Lookup, TypeOK
    <2>2. /\ next.at = "fill" /\ next.rows = q.rows /\ next.perms = q.perms /\ next.rowsOk = q.rowsOk
          /\ next.age = q.age /\ next.role = q.role /\ next.user = q.user
          /\ next.marks = TRUE /\ next.mark = override[q.user]
      BY <1>1, <1>6 DEF Lookup, ReadMarks
    <2>3. MarksSince(markAge, q.user, override[q.user], q.age)
      <3>1. MarksSince(markAge, q.user, override[q.user], 0)
        BY <1>2, <1>4 DEF TablesAreNew
      <3>2. override[q.user] \in [Codes -> Mark]
        BY <1>2, <1>4 DEF TypeOK
      <3> QED BY <1>2, <1>4, <3>1, <3>2, MarksSinceLater
    <2>4. Goto(r, next)
      BY <1>6 DEF ReadMarks
    <2> HIDE DEF next
    <2>5. SlotInv(next, matrix, override, roleAge, markAge)
      BY <1>1, <2>2, <2>3 DEF SlotInv, LookupInv
    <2> QED BY <1>1, <1>3, <2>1, <2>4, <2>5, KindsBack, QuietRequest
  <1> QED BY <1>5, <1>6

\* An entry that is filled is as old as its fill.
LEMMA RoleArrivalIsRight ==
    ASSUME IInv, NEW r \in Requests, RoleArrives(r), TypeOK'
    PROVE  IInv'
  <1> DEFINE q == req[r]
             e == NewEntry(q.perms, q.rowsOk)
  <1>1. /\ q \in Lookup /\ q.at \in {"fill", "set"} /\ q.rows = "read"
        /\ LookupInv(q, matrix, override, roleAge, markAge)
    <2>1. q \in SlotState
      BY DEF IInv, TypeOK, SlotState
    <2> QED BY <2>1, Kinds DEF RoleArrives, IInv, RequestInv, SlotInv
  <1>2. /\ q.age \in 0 .. Latency /\ q.role \in Roles /\ q.user \in Users /\ q.proc \in Processes
        /\ TTL \in Nat \ {0} /\ Latency \in Nat
    BY <1>1, ConfigAssumption DEF Lookup
  <1>3. TypeOK /\ roleAge \in RoleAges /\ markAge \in MarkAges
        /\ RolesGrown(roleAge, roleAge, 0) /\ MarksGrown(markAge, markAge, 0)
    BY AgesAreAges DEF IInv, TypeOK
  <1>4. UNCHANGED <<tables, userCache, history>>
    BY DEF RoleArrives
  <1>5. e \in Entry /\ e.perms = q.perms /\ e.left = TTL /\ e.clean = q.rowsOk
    BY <1>1, EntryFacts DEF Lookup, NewEntry
  <1>6. /\ roleCache'[q.proc][q.role] = e
        /\ \A p \in Processes, R \in Roles :
              ~ (p = q.proc /\ R = q.role) => roleCache'[p][R] = roleCache[p][R]
    <2>1. roleCache' = [roleCache EXCEPT ![q.proc][q.role] = e]
      BY DEF RoleArrives
    <2> HIDE DEF e, q
    <2>2. TypeOK /\ e \in Entry /\ q.proc \in Processes /\ q.role \in Roles
      BY <1>2, <1>3, <1>5
    <2>3. roleCache \in [Processes -> [Roles -> Entry]]
      BY <2>2 DEF TypeOK
    <2> QED BY <2>1, <2>2, <2>3
  <1>7. PICK age \in {0, q.age} :
            Goto(r, [q EXCEPT !.rows = "have", !.age = age]) /\ (q.at = "fill" => age = q.age)
    BY <1>1 DEF RoleArrives, Lookup
  <1> DEFINE next == [q EXCEPT !.rows = "have", !.age = age]
  <1>8. /\ next \in Lookup /\ next.at = q.at /\ next.proc = q.proc /\ next.role = q.role /\ next.user = q.user
        /\ next.rows = "have" /\ next.age = age /\ next.perms = q.perms /\ next.rowsOk = q.rowsOk
        /\ next.marks = q.marks /\ next.mark = q.mark /\ next.marksOk = q.marksOk
        /\ q.at = "fill" => age = q.age
    <2>1. age \in 0 .. Latency
      BY <1>2, <1>7
    <2> QED BY <1>1, <1>7, <2>1 DEF Lookup
  <1> HIDE DEF next, e
  <1>9. /\ req'[r] = next
        /\ \A s \in Requests : s # r => req'[s] = req[s]
    BY <1>3, <1>7, <1>8, KindsBack, GotoOne DEF next
  <1>10. EntriesInv'
    <2>1. RoleEntryInv(roleAge, q.role, e)
      <3>1. RoleSince(roleAge, q.role, q.perms, q.age)
        BY <1>1 DEF LookupInv
      <3>2. q.age \in Nat /\ Latency + (TTL - TTL) \in Nat /\ q.age + 0 <= Latency + (TTL - TTL)
        BY <1>2
      <3>3. RoleSince(roleAge, q.role, q.perms, Latency + (TTL - TTL))
        BY <1>2, <1>3, <3>1, <3>2, RoleSinceLater
      <3> QED BY <1>5, <3>3 DEF RoleEntryInv
    <2>2. \A p \in Processes, R \in Roles : RoleEntryInv(roleAge, R, roleCache'[p][R])
      BY <1>6, <2>1 DEF IInv, EntriesInv
    <2> QED BY <1>4, <2>2 DEF IInv, EntriesInv, history
  <1>11. SlotInv(next, matrix, override, roleAge, markAge)
    <2>1. RoleSince(roleAge, q.role, q.perms, Lag + age)
      <3>1. RoleSince(roleAge, q.role, q.perms, q.age)
        BY <1>1 DEF LookupInv
      <3>2. q.age \in Nat /\ Lag + age \in Nat /\ q.age + 0 <= Lag + age
        BY <1>2, <1>7 DEF Lag
      <3> QED BY <1>2, <1>3, <3>1, <3>2, RoleSinceLater
    <2> QED BY <1>1, <1>8, <2>1 DEF SlotInv, LookupInv
  <1>12. RequestInv'
    <2>1. \A s \in Requests : SlotInv(req'[s], matrix, override, roleAge, markAge)
      BY <1>9, <1>11 DEF IInv, RequestInv
    <2> QED BY <1>4, <2>1 DEF RequestInv, tables, history
  <1>13. \A s \in Requests : Remains(req'[s], req[s])
    BY <1>8, <1>9 DEF Remains
  <1>14. ChangesAreSeenAtOnce'
    <2>1. e.left > 0 /\ e.clean => e.perms = Granted(matrix[q.role], q.role)
      BY <1>1, <1>5 DEF LookupInv
    <2>2. ASSUME NEW p \in Processes, NEW R \in Roles,
                 roleCache'[p][R].left > 0, roleCache'[p][R].clean, ~ RoleDropPending(p, R)
          PROVE  roleCache'[p][R].perms = Granted(matrix[R], R)
      BY <1>6, <2>1, <2>2 DEF IInv, ChangesAreSeenAtOnce
    <2>3. \A p \in Processes, R \in Roles :
             RoleDropPending(p, R) => \E s \in Requests :
                 req'[s].at = "drop_role" /\ req'[s].proc = p /\ req'[s].role = R
      BY <1>13 DEF RoleDropPending, Remains
    <2>4. \A p \in Processes, u \in Users, R \in Roles :
             DropPending(p, u, R) => \E s \in Requests :
                 /\ req'[s].at \in {"drop_role", "drop_user"} /\ req'[s].proc = p
                 /\ IF req'[s].at = "drop_role" THEN req'[s].role = R ELSE req'[s].user = u
      BY <1>13 DEF DropPending, Remains
    <2>5. \A p \in Processes, R \in Roles :
             roleCache'[p][R].left > 0 /\ roleCache'[p][R].clean /\ ~ (RoleDropPending(p, R))'
                => roleCache'[p][R].perms = Granted(matrix[R], R)
      BY <2>2, <2>3 DEF RoleDropPending
    <2>6. \A p \in Processes, u \in Users, R \in Roles :
             userCache[p][u][R].left > 0 /\ userCache[p][u][R].clean /\ ~ (DropPending(p, u, R))'
                => userCache[p][u][R].perms = Effective(Granted(matrix[R], R), override[u])
      BY <2>4 DEF IInv, ChangesAreSeenAtOnce, DropPending
    <2> QED BY <1>4, <2>5, <2>6 DEF ChangesAreSeenAtOnce, tables
  <1> QED
    BY <1>4, <1>10, <1>12, <1>14
    DEF IInv, TablesAreNew, tables, history

\* What getEffectivePermissions stores is as old as its fill, and as the role's entry
\* that it was worked out from.
LEMMA MemberFillIsRight ==
    ASSUME IInv, NEW r \in Requests, FillUser(r), TypeOK'
    PROVE  IInv'
  <1> DEFINE q == req[r]
             e == NewEntry(Effective(q.perms, q.mark), q.rowsOk /\ q.marksOk)
  <1>1. /\ q \in Lookup /\ q.at = "fill" /\ q.rows = "have" /\ q.marks
        /\ LookupInv(q, matrix, override, roleAge, markAge)
    <2>1. q \in SlotState
      BY DEF IInv, TypeOK, SlotState
    <2> QED BY <2>1, Kinds DEF FillUser, IInv, RequestInv, SlotInv
  <1>2. /\ q.age \in 0 .. Latency /\ q.role \in Roles /\ q.user \in Users /\ q.proc \in Processes
        /\ q.perms \in SUBSET Codes /\ q.mark \in [Codes -> Mark]
        /\ TTL \in Nat \ {0} /\ Latency \in Nat
    BY <1>1, ConfigAssumption DEF Lookup
  <1>3. TypeOK /\ roleAge \in RoleAges /\ markAge \in MarkAges
        /\ RolesGrown(roleAge, roleAge, 0) /\ MarksGrown(markAge, markAge, 0)
    BY AgesAreAges DEF IInv, TypeOK
  <1>4. UNCHANGED <<tables, roleCache, history>>
    BY DEF FillUser
  <1>5. /\ e \in Entry /\ e.perms = Effective(q.perms, q.mark) /\ e.left = TTL
        /\ e.clean => q.rowsOk /\ q.marksOk
    BY <1>1, EntryFacts, PermsFacts DEF Lookup, NewEntry
  <1>6. /\ userCache'[q.proc][q.user][q.role] = e
        /\ \A p \in Processes, u \in Users, R \in Roles :
              ~ (p = q.proc /\ u = q.user /\ R = q.role) => userCache'[p][u][R] = userCache[p][u][R]
    <2>1. userCache' = [userCache EXCEPT ![q.proc][q.user][q.role] = e]
      BY DEF FillUser
    <2>2. userCache \in [Processes -> [Users -> [Roles -> Entry]]]
      BY <1>3 DEF TypeOK
    <2> HIDE DEF e, q
    <2> QED BY <1>2, <1>5, <2>1, <2>2, MemberStored
  <1>7. /\ req'[r] = Idle
        /\ \A s \in Requests : s # r => req'[s] = req[s]
    BY <1>3, IdleIsRight, GotoOne DEF FillUser
  <1> HIDE DEF e
  <1>8. Justified(roleAge, markAge, q.user, q.role, Effective(q.perms, q.mark), Latency)
    <2>1. MarksSince(markAge, q.user, q.mark, q.age) /\ RoleSince(roleAge, q.role, q.perms, Lag + q.age)
      BY <1>1 DEF LookupInv
    <2>2. /\ q.age + 0 <= Latency /\ q.age \in Nat
          /\ (Lag + q.age) + 0 <= Latency + Lag /\ Lag + q.age \in Nat /\ Latency + Lag \in Nat
      BY <1>2 DEF Lag
    <2>3. MarksSince(markAge, q.user, q.mark, Latency) /\ RoleSince(roleAge, q.role, q.perms, Latency + Lag)
      BY <1>2, <1>3, <2>1, <2>2, MarksSinceLater, RoleSinceLater
    <2> SUFFICES ASSUME NEW c \in Codes
                 PROVE  \/ markAge[q.user][c][IF c \in Effective(q.perms, q.mark) THEN "grant" ELSE "revoke"]
                              <= Latency
                        \/ /\ markAge[q.user][c]["none"] <= Latency
                           /\ roleAge[q.role][c][(c \in Effective(q.perms, q.mark))] <= Latency + Lag
      BY DEF Justified
    <2>4. markAge[q.user][c][q.mark[c]] <= Latency /\ roleAge[q.role][c][(c \in q.perms)] <= Latency + Lag
      BY <2>3 DEF MarksSince, RoleSince
    <2>5. CASE q.mark[c] = "none"
      <3>1. (c \in Effective(q.perms, q.mark)) = (c \in q.perms)
        BY <2>5 DEF Effective
      <3> QED BY <2>4, <2>5, <3>1
    <2>6. CASE q.mark[c] = "grant"
      BY <2>4, <2>6 DEF Effective
    <2>7. CASE q.mark[c] = "revoke"
      BY <2>4, <2>7 DEF Effective
    <2> QED BY <1>2, <2>5, <2>6, <2>7 DEF Mark
  <1>9. EntriesInv'
    <2>1. Latency + (TTL - TTL) = Latency
      BY <1>2
    <2>2. MemberEntryInv(roleAge, markAge, q.user, q.role, e)
      BY <1>5, <1>8, <2>1 DEF MemberEntryInv
    <2>3. \A p \in Processes, u \in Users, R \in Roles :
             MemberEntryInv(roleAge, markAge, u, R, userCache'[p][u][R])
      BY <1>6, <2>2 DEF IInv, EntriesInv
    <2> QED BY <1>4, <2>3 DEF IInv, EntriesInv, history
  <1>10. RequestInv'
    <2>1. \A s \in Requests : SlotInv(req'[s], matrix, override, roleAge, markAge)
      BY <1>7, IdleIsRight DEF IInv, RequestInv
    <2> QED BY <1>4, <2>1 DEF RequestInv, tables, history
  <1>11. ChangesAreSeenAtOnce'
    <2>1. e.left > 0 /\ e.clean => e.perms = Effective(Granted(matrix[q.role], q.role), override[q.user])
      BY <1>1, <1>5 DEF LookupInv
    <2>2. \A s \in Requests : req[s].at \in {"drop_role", "drop_user"} => req'[s] = req[s]
      BY <1>1, <1>7
    <2>3. \A p \in Processes, R \in Roles :
             roleCache[p][R].left > 0 /\ roleCache[p][R].clean /\ ~ (RoleDropPending(p, R))'
                => roleCache[p][R].perms = Granted(matrix[R], R)
      BY <2>2 DEF IInv, ChangesAreSeenAtOnce, RoleDropPending
    <2>4. ASSUME NEW p \in Processes, NEW u \in Users, NEW R \in Roles,
                 userCache'[p][u][R].left > 0, userCache'[p][u][R].clean, ~ (DropPending(p, u, R))'
          PROVE  userCache'[p][u][R].perms = Effective(Granted(matrix[R], R), override[u])
      <3>1. CASE p = q.proc /\ u = q.user /\ R = q.role
        BY <1>6, <2>1, <2>4, <3>1
      <3>2. CASE ~ (p = q.proc /\ u = q.user /\ R = q.role)
        <4>1. ~ DropPending(p, u, R)
          BY <2>2, <2>4 DEF DropPending
        <4> QED BY <1>6, <2>4, <3>2, <4>1 DEF IInv, ChangesAreSeenAtOnce
      <3> QED BY <3>1, <3>2
    <2> QED BY <1>4, <2>3, <2>4 DEF ChangesAreSeenAtOnce, tables
  <1> QED
    BY <1>4, <1>9, <1>10, <1>11
    DEF IInv, TablesAreNew, tables, history

\* The list that will be stored was compared with what the request has found.
LEMMA ListIsRight ==
    ASSUME IInv, NEW r \in Requests, NEW list \in Overrides, DeleteMarks(r, list), TypeOK'
    PROVE  IInv'
  <1> DEFINE q == req[r]
             next == [at |-> "put_marks", proc |-> q.proc, user |-> q.user, role |-> q.role,
                      age |-> q.age, list |-> Meaningful(list, q.perms), kept |-> NoMark]
  <1>1. /\ q \in Lookup /\ q.at = "set" /\ q.rows = "have"
        /\ LookupInv(q, matrix, override, roleAge, markAge)
    <2>1. q \in SlotState
      BY DEF IInv, TypeOK, SlotState
    <2> QED BY <2>1, Kinds DEF DeleteMarks, IInv, RequestInv, SlotInv
  <1>2. next \in PutMarks
    BY <1>1, PermsFacts, ConfigAssumption DEF PutMarks, Lookup
  <1>3. ListInv(next, roleAge)
    <2>1. RoleSince(roleAge, q.role, q.perms, Lag + q.age)
      BY <1>1 DEF LookupInv
    <2> SUFFICES ASSUME NEW c \in Codes, next.list[c] # "none"
                 PROVE  roleAge[q.role][c][(next.list[c] = "revoke")] <= Lag + q.age
      BY DEF ListInv
    <2>2. next.list[c] = list[c] /\ list[c] \in {"grant", "revoke"}
      BY ConfigAssumption DEF Meaningful, Mark
    <2>3. (next.list[c] = "revoke") = (c \in q.perms)
      BY <2>2 DEF Meaningful
    <2>4. roleAge[q.role][c][(c \in q.perms)] <= Lag + q.age
      BY <2>1 DEF RoleSince
    <2> QED BY <2>3, <2>4
  <1>4. next.at = "put_marks" /\ Goto(r, next)
    BY DEF DeleteMarks
  <1> HIDE DEF next
  <1>5. SlotInv(next, matrix, override, roleAge, markAge)
    BY <1>3, <1>4 DEF SlotInv
  <1> QED BY <1>1, <1>2, <1>4, <1>5, KindsBack, QuietRequest DEF DeleteMarks

-----------------------------------------------------------------------------
(* Invalidations, failures and the passing of time *)

LEMMA Fading ==
    /\ Dead(Blank)
    /\ \A e \in Entry : /\ Dead(Soil(e))
                        /\ Fades(e, e, 0) /\ Fades(Blank, e, 0) /\ Fades(Soil(e), e, 0)
                        /\ Fades(Older(e), e, 1)
  <1>1. Dead(Blank) /\ \A e : Fades(Blank, e, 0) /\ Fades(Blank, e, 1)
    BY DEF Dead, Fades, Blank
  <1>2. ASSUME NEW e \in Entry
        PROVE  /\ Dead(Soil(e)) /\ Fades(e, e, 0) /\ Fades(Soil(e), e, 0)
               /\ Fades(Older(e), e, 1)
    <2>1. e.left \in Int
      BY DEF Entry
    <2>2. Soil(e).left = e.left /\ Soil(e).perms = e.perms /\ (Soil(e).clean <=> e.left = 0)
      BY DEF Soil, Entry
    <2>3. Fades(Soil(e), e, 0) /\ Fades(e, e, 0)
      BY <2>1, <2>2 DEF Fades
    <2>4. Dead(Soil(e))
      BY <2>2 DEF Dead
    <2>5. Fades(Older(e), e, 1)
      BY <1>1, <2>1 DEF Older, Fades, Entry
    <2> QED BY <2>3, <2>4, <2>5
  <1> QED BY <1>1, <1>2

LEMMA SoilFades ==
    ASSUME TypeOK, NEW procs, NEW R, NEW u, SoilRole(procs, R) \/ SoilUser(procs, u)
    PROVE  /\ \A p \in Processes, S \in Roles : Fades(roleCache'[p][S], roleCache[p][S], 0)
           /\ \A p \in Processes, v \in Users, S \in Roles :
                 Fades(userCache'[p][v][S], userCache[p][v][S], 0)
  <1>1. ASSUME NEW p \in Processes, NEW S \in Roles
        PROVE  Fades(roleCache'[p][S], roleCache[p][S], 0)
    <2>1. roleCache'[p][S] \in {roleCache[p][S], Soil(roleCache[p][S])} /\ roleCache[p][S] \in Entry
      BY DEF TypeOK, SoilRole, SoilUser
    <2> QED BY <2>1, Fading
  <1>2. ASSUME NEW p \in Processes, NEW v \in Users, NEW S \in Roles
        PROVE  Fades(userCache'[p][v][S], userCache[p][v][S], 0)
    <2>1. userCache'[p][v][S] \in {userCache[p][v][S], Soil(userCache[p][v][S])} /\ userCache[p][v][S] \in Entry
      BY DEF TypeOK, SoilRole, SoilUser
    <2> QED BY <2>1, Fading
  <1> QED BY <1>1, <1>2

\* What a process has marked as overtaken is dead.
LEMMA SoiledIsDead ==
    ASSUME TypeOK, NEW procs, NEW p \in Processes, p \in procs
    PROVE  /\ \A R \in Roles : SoilRole(procs, R) =>
                 Dead(roleCache'[p][R]) /\ \A u \in Users : Dead(userCache'[p][u][R])
           /\ \A u \in Users : SoilUser(procs, u) => \A R \in Roles : Dead(userCache'[p][u][R])
  <1>1. ASSUME NEW R \in Roles, SoilRole(procs, R)
        PROVE  Dead(roleCache'[p][R]) /\ \A u \in Users : Dead(userCache'[p][u][R])
    <2>1. /\ roleCache'[p][R] = Soil(roleCache[p][R])
          /\ \A u \in Users : userCache'[p][u][R] = Soil(userCache[p][u][R])
      BY <1>1 DEF SoilRole
    <2> QED BY <2>1, Fading DEF TypeOK
  <1>2. ASSUME NEW u \in Users, SoilUser(procs, u)
        PROVE  \A R \in Roles : Dead(userCache'[p][u][R])
    <2>1. \A R \in Roles : userCache'[p][u][R] = Soil(userCache[p][u][R])
      BY <1>2 DEF SoilUser
    <2> QED BY <2>1, Fading DEF TypeOK
  <1> QED BY <1>1, <1>2

\* The step of one request that is quiet but for its own invalidation.
LEMMA QuietDrop ==
    ASSUME IInv, TypeOK', UNCHANGED <<tables, history>>,
           NEW r \in Requests, NEW next \in SlotState, Goto(r, next),
           SlotInv(next, matrix, override, roleAge, markAge),
           \A p \in Processes, R \in Roles : Fades(roleCache'[p][R], roleCache[p][R], 0),
           \A p \in Processes, u \in Users, R \in Roles :
               Fades(userCache'[p][u][R], userCache[p][u][R], 0),
           req[r].at = "drop_role" =>
               /\ Dead(roleCache'[req[r].proc][req[r].role])
               /\ \A u \in Users : Dead(userCache'[req[r].proc][u][req[r].role]),
           req[r].at = "drop_user" =>
               \A R \in Roles : Dead(userCache'[req[r].proc][req[r].user][R])
    PROVE  IInv'
  <1>1. TypeOK /\ RequestInv
    BY DEF IInv
  <1>2. /\ req'[r] = next
        /\ \A s \in Requests : s # r => req'[s] = req[s]
    BY <1>1, GotoOne
  <1>3. DropsAreDone(req, req', roleCache', userCache')
    BY <1>2 DEF DropsAreDone, Remains
  <1>4. \A s \in Requests : SlotInv(req'[s], matrix, override, roleAge, markAge)
    BY <1>1, <1>2 DEF RequestInv
  <1> QED BY <1>3, <1>4, QuietStep

LEMMA DropsAreRight ==
    ASSUME IInv, NEW r \in Requests, InvalidateRole(r) \/ InvalidateUser(r), TypeOK'
    PROVE  IInv'
  <1> DEFINE q == req[r]
  <1>1. TypeOK /\ q \in SlotState
    BY DEF IInv, TypeOK, SlotState
  <1>2. CASE InvalidateRole(r)
    <2>1. q \in RoleDrops /\ q.at = "drop_role"
      BY <1>1, <1>2, Kinds DEF InvalidateRole
    <2>2. q.proc \in Processes /\ q.role \in Roles
      BY <2>1 DEF RoleDrops
    <2>3. ASSUME NEW p \in Processes, NEW R \in Roles
          PROVE  /\ roleCache[p][R] \in Entry
                 /\ roleCache'[p][R] = IF p = q.proc /\ R = q.role THEN Blank ELSE roleCache[p][R]
      BY <1>1, <1>2, <2>2 DEF TypeOK, InvalidateRole, DropRole
    <2>4. ASSUME NEW p \in Processes, NEW u \in Users, NEW R \in Roles
          PROVE  /\ userCache[p][u][R] \in Entry
                 /\ userCache'[p][u][R] = IF p = q.proc /\ R = q.role THEN Blank ELSE userCache[p][u][R]
      BY <1>1, <1>2, <2>2 DEF TypeOK, InvalidateRole, DropRole
    <2>5. \A p \in Processes, R \in Roles : Fades(roleCache'[p][R], roleCache[p][R], 0)
      BY <2>3, Fading
    <2>6. \A p \in Processes, u \in Users, R \in Roles : Fades(userCache'[p][u][R], userCache[p][u][R], 0)
      BY <2>4, Fading
    <2>7. Dead(roleCache'[q.proc][q.role]) /\ \A u \in Users : Dead(userCache'[q.proc][u][q.role])
      BY <2>2, <2>3, <2>4, Fading
    <2> QED BY <1>2, <2>1, <2>5, <2>6, <2>7, IdleIsRight, QuietDrop DEF InvalidateRole
  <1>3. CASE InvalidateUser(r)
    <2>1. q \in UserDrops /\ q.at = "drop_user"
      BY <1>1, <1>3, Kinds DEF InvalidateUser
    <2>2. q.proc \in Processes /\ q.user \in Users /\ q.role \in Roles
      BY <2>1 DEF UserDrops
    <2>3. \A p \in Processes, R \in Roles : Fades(roleCache'[p][R], roleCache[p][R], 0)
      BY <1>1, <1>3, Fading DEF TypeOK, InvalidateUser
    <2>4. ASSUME NEW p \in Processes, NEW u \in Users, NEW R \in Roles
          PROVE  /\ userCache[p][u][R] \in Entry
                 /\ userCache'[p][u][R] = IF p = q.proc /\ u = q.user THEN Blank ELSE userCache[p][u][R]
      BY <1>1, <1>3, <2>2 DEF TypeOK, InvalidateUser, DropUser
    <2>5. \A p \in Processes, u \in Users, R \in Roles : Fades(userCache'[p][u][R], userCache[p][u][R], 0)
      BY <2>4, Fading
    <2>6. \A R \in Roles : Dead(userCache'[q.proc][q.user][R])
      BY <2>2, <2>4, Fading
    <2> DEFINE next == Asking("fill", q.proc, q.user, q.role)
    <2>7. next \in SlotState /\ SlotInv(next, matrix, override, roleAge, markAge)
      BY <1>1, <2>2, AskingIsLookup, AskingIsRight, KindsBack
    <2>8. Goto(r, next) /\ UNCHANGED <<tables, history>>
      BY <1>3 DEF InvalidateUser
    <2> HIDE DEF next
    <2> QED BY <2>1, <2>3, <2>5, <2>6, <2>7, <2>8, QuietDrop
  <1> QED BY <1>2, <1>3

LEMMA AbortIsRight ==
    ASSUME IInv, NEW r \in Requests, Abort(r), TypeOK'
    PROVE  IInv'
  <1> DEFINE q == req[r]
  <1>1. TypeOK /\ q \in SlotState /\ Goto(r, Idle) /\ UNCHANGED <<tables, history>> /\ q # Idle
    BY DEF IInv, TypeOK, SlotState, Abort
  <1>2. q.proc \in Processes /\ q.role \in Roles
    BY <1>1, Kinds
  <1>3. CASE q.at \notin {"drop_role", "drop_user"} /\ UNCHANGED caches
    BY <1>1, <1>3, IdleIsRight, QuietRequest
  <1>4. CASE q.at = "drop_role" /\ SoilRole({q.proc}, q.role)
    <2>1. Dead(roleCache'[q.proc][q.role]) /\ \A u \in Users : Dead(userCache'[q.proc][u][q.role])
      BY <1>1, <1>2, <1>4, SoiledIsDead
    <2> QED BY <1>1, <1>4, <2>1, IdleIsRight, SoilFades, QuietDrop
  <1>5. CASE q.at = "drop_user" /\ SoilUser({q.proc}, q.user)
    <2>1. q.user \in Users
      BY <1>1, <1>5, Kinds DEF UserDrops
    <2>2. \A R \in Roles : Dead(userCache'[q.proc][q.user][R])
      BY <1>1, <1>2, <1>5, <2>1, SoiledIsDead
    <2> QED BY <1>1, <1>5, <2>2, IdleIsRight, SoilFades, QuietDrop
  <1> QED BY <1>3, <1>4, <1>5 DEF Abort

LEMMA CrashIsRight ==
    ASSUME IInv, NEW p \in Processes, Crash(p), TypeOK'
    PROVE  IInv'
  <1>1. TypeOK /\ RequestInv /\ UNCHANGED <<tables, history>>
    BY DEF IInv, Crash
  <1>2. ASSUME NEW o \in Processes, NEW R \in Roles
        PROVE  /\ roleCache[o][R] \in Entry
               /\ roleCache'[o][R] = IF o = p THEN Blank ELSE roleCache[o][R]
    BY <1>1 DEF TypeOK, Crash
  <1>3. ASSUME NEW o \in Processes, NEW u \in Users, NEW R \in Roles
        PROVE  /\ userCache[o][u][R] \in Entry
               /\ userCache'[o][u][R] = IF o = p THEN Blank ELSE userCache[o][u][R]
    BY <1>1 DEF TypeOK, Crash
  <1>4. \A o \in Processes, R \in Roles : Fades(roleCache'[o][R], roleCache[o][R], 0)
    BY <1>2, Fading
  <1>5. \A o \in Processes, u \in Users, R \in Roles : Fades(userCache'[o][u][R], userCache[o][u][R], 0)
    BY <1>3, Fading
  <1>6. \A r \in Requests : req'[r] = IF req[r] # Idle /\ req[r].proc = p THEN Idle ELSE req[r]
    BY DEF Crash
  <1>7. DropsAreDone(req, req', roleCache', userCache')
    <2> SUFFICES ASSUME NEW r \in Requests, ~ Remains(req'[r], req[r]),
                        req[r].at \in {"drop_role", "drop_user"}
                 PROVE  \A R \in Roles : /\ Dead(roleCache'[req[r].proc][R])
                                         /\ \A u \in Users : Dead(userCache'[req[r].proc][u][R])
      <3>1. ASSUME NEW r \in Requests
            PROVE  /\ req[r].at = "drop_role" => req[r].role \in Roles
                   /\ req[r].at = "drop_user" => req[r].user \in Users
        <4>1. req[r] \in SlotState
          BY <1>1 DEF TypeOK, SlotState
        <4> QED BY <4>1, Kinds DEF RoleDrops, UserDrops
      <3> QED BY <3>1 DEF DropsAreDone
    <2>1. req[r].proc = p
      BY <1>6 DEF Remains
    <2> QED BY <1>2, <1>3, <2>1, Fading
  <1>8. \A r \in Requests : SlotInv(req'[r], matrix, override, roleAge, markAge)
    BY <1>1, <1>6, IdleIsRight DEF RequestInv
  <1> QED BY <1>1, <1>4, <1>5, <1>7, <1>8, QuietStep

LEMMA MemberChangeIsRight ==
    ASSUME IInv, NEW p \in Processes, NEW u \in Users, MemberChanged(p, u), TypeOK'
    PROVE  IInv'
  <1>1. TypeOK /\ RequestInv /\ UNCHANGED <<tables, history>> /\ req' = req /\ roleCache' = roleCache
    BY DEF IInv, MemberChanged
  <1>2. ASSUME NEW o \in Processes, NEW v \in Users, NEW R \in Roles
        PROVE  /\ userCache[o][v][R] \in Entry
               /\ userCache'[o][v][R] = IF o = p /\ v = u THEN Blank ELSE userCache[o][v][R]
    BY <1>1 DEF TypeOK, MemberChanged, DropUser
  <1>3. \A o \in Processes, R \in Roles : Fades(roleCache'[o][R], roleCache[o][R], 0)
    BY <1>1, Fading DEF TypeOK
  <1>4. \A o \in Processes, v \in Users, R \in Roles : Fades(userCache'[o][v][R], userCache[o][v][R], 0)
    BY <1>2, Fading
  <1>5. DropsAreDone(req, req', roleCache', userCache')
    BY <1>1 DEF DropsAreDone, Remains
  <1> QED BY <1>1, <1>3, <1>4, <1>5, QuietStep DEF RequestInv

\* A tick ages what rests on the past by one, and the past by no more.
LEMMA TickIsRight ==
    ASSUME IInv, Tick, TypeOK'
    PROVE  IInv'
  <1>1. TypeOK /\ RequestInv /\ UNCHANGED tables
    BY DEF IInv, Tick
  <1>2. /\ roleAge \in RoleAges /\ markAge \in MarkAges
        /\ roleAge' \in RoleAges /\ markAge' \in MarkAges
    BY <1>1, AgesAreAges DEF TypeOK
  <1>3. RolesGrown(roleAge', roleAge, 1)
    <2> SUFFICES ASSUME NEW R \in Roles, NEW c \in Codes, NEW b \in BOOLEAN
                 PROVE  roleAge'[R][c][b] <= roleAge[R][c][b] + 1
      BY DEF RolesGrown
    <2>1. roleAge[R][c][b] \in Nat
      BY <1>2 DEF RoleAges
    <2>2. roleAge'[R][c][b] = Aged(roleAge[R][c][b], RoleWindow, b = (c \in Granted(matrix[R], R)))
      BY DEF Tick
    <2> QED BY <2>1, <2>2 DEF Aged
  <1>4. MarksGrown(markAge', markAge, 1)
    <2> SUFFICES ASSUME NEW u \in Users, NEW c \in Codes, NEW m \in Mark
                 PROVE  markAge'[u][c][m] <= markAge[u][c][m] + 1
      BY DEF MarksGrown
    <2>1. markAge[u][c][m] \in Nat
      BY <1>2 DEF MarkAges
    <2>2. markAge'[u][c][m] = Aged(markAge[u][c][m], MarkWindow, m = override[u][c])
      BY DEF Tick
    <2> QED BY <2>1, <2>2 DEF Aged
  <1>5. TablesAreNew'
    <2>1. ASSUME NEW R \in Roles, NEW c \in Codes
          PROVE  roleAge'[R][c][(c \in Granted(matrix[R], R))] = 0
      BY DEF Tick, Aged
    <2>2. ASSUME NEW u \in Users, NEW c \in Codes
          PROVE  markAge'[u][c][override[u][c]] = 0
      <3>1. override[u][c] \in Mark
        BY <1>1 DEF TypeOK
      <3> QED BY <3>1 DEF Tick, Aged
    <2> QED BY <1>1, <2>1, <2>2 DEF TablesAreNew, RoleSince, MarksSince, tables
  <1>6. ASSUME NEW p \in Processes, NEW R \in Roles
        PROVE  /\ roleCache[p][R] \in Entry /\ roleCache'[p][R] \in Entry
               /\ Fades(roleCache'[p][R], roleCache[p][R], 1)
    <2>1. roleCache'[p][R] = Older(roleCache[p][R]) /\ roleCache[p][R] \in Entry
      BY <1>1 DEF TypeOK, Tick
    <2> QED BY <2>1, EntryFacts, Fading
  <1>7. ASSUME NEW p \in Processes, NEW u \in Users, NEW R \in Roles
        PROVE  /\ userCache[p][u][R] \in Entry /\ userCache'[p][u][R] \in Entry
               /\ Fades(userCache'[p][u][R], userCache[p][u][R], 1)
    <2>1. userCache'[p][u][R] = Older(userCache[p][u][R]) /\ userCache[p][u][R] \in Entry
      BY <1>1 DEF TypeOK, Tick
    <2> QED BY <2>1, EntryFacts, Fading
  <1>8. EntriesInv'
    <2>1. ASSUME NEW p \in Processes, NEW R \in Roles
          PROVE  RoleEntryInv(roleAge', R, roleCache'[p][R])
      BY <1>2, <1>3, <1>6, RoleEntryLater DEF IInv, EntriesInv
    <2>2. ASSUME NEW p \in Processes, NEW u \in Users, NEW R \in Roles
          PROVE  MemberEntryInv(roleAge', markAge', u, R, userCache'[p][u][R])
      BY <1>2, <1>3, <1>4, <1>7, MemberEntryLater DEF IInv, EntriesInv
    <2> QED BY <2>1, <2>2 DEF EntriesInv
  <1>9. ASSUME NEW r \in Requests
        PROVE  /\ Follows(req'[r], req[r], 1, matrix, override, matrix, override)
               /\ Remains(req'[r], req[r]) /\ req[r] \in SlotState
    <2>1. req[r] \in SlotState
      BY <1>1 DEF TypeOK, SlotState
    <2>2. CASE req[r] = Idle
      BY <2>1, <2>2 DEF Tick, Follows, Remains, Idle
    <2>3. CASE req[r] # Idle
      <3>1. req'[r] = [req[r] EXCEPT !.age = @ + 1]
        BY <2>3 DEF Tick
      <3>2. req[r] \in Lookup \cup PutMatrix \cup PutMarks \cup RoleDrops \cup UserDrops
        BY <2>1, <2>3 DEF SlotState, Replace, Committed, PutMatrix, PutMarks, RoleDrops, UserDrops
      <3> QED BY <2>1, <3>1, <3>2 DEF Follows, Remains, Lookup, PutMatrix, PutMarks, RoleDrops, UserDrops
    <2> QED BY <2>1, <2>2, <2>3
  <1>10. RequestInv'
    <2>1. ASSUME NEW r \in Requests
          PROVE  SlotInv(req'[r], matrix, override, roleAge', markAge')
      <3>1. SlotInv(req[r], matrix, override, roleAge, markAge)
        BY <1>1 DEF RequestInv
      <3> QED BY <1>2, <1>3, <1>4, <1>9, <3>1, SlotLater
    <2> QED BY <1>1, <2>1 DEF RequestInv, tables
  <1>11. ChangesAreSeenAtOnce'
    <2>1. DropsAreDone(req, req', roleCache', userCache')
      BY <1>9 DEF DropsAreDone
    <2>2. ChangesAreSeenAtOnce
      BY DEF IInv
    <2> QED BY <1>1, <1>6, <1>7, <2>1, <2>2, SeenKept
  <1> QED BY <1>1, <1>5, <1>8, <1>10, <1>11 DEF IInv, tables

-----------------------------------------------------------------------------
(* Changes of the tables *)

\* What comes into force, or was until now, starts over; nothing else changes.
LEMMA Restarting ==
    ASSUME NEW S, NEW ages \in [S -> Nat], NEW value \in S, NEW now \in S
    PROVE  /\ Restart(ages, value, now) \in [S -> Nat]
           /\ Restart(ages, value, now)[now] = 0
           /\ \A s \in S : Restart(ages, value, now)[s] <= ages[s] + 0
  BY DEF Restart

LEMMA MatrixCommitIsRight ==
    ASSUME IInv, NEW r \in Requests, NEW codes \in Matrices, CommitMatrix(r, codes), TypeOK'
    PROVE  IInv'
  <1> DEFINE q == req[r]
             R == q.role
             next == [at |-> "drop_role", proc |-> q.proc, role |-> R, age |-> 0]
  <1>1. TypeOK /\ q \in SlotState
    BY DEF IInv, TypeOK, SlotState
  <1>2. q \in PutMatrix /\ q.at = "put_matrix"
    BY <1>1, Kinds DEF CommitMatrix
  <1>3. q.proc \in Processes /\ R \in Roles /\ q.kept \in SUBSET Codes /\ codes \in SUBSET Codes
    BY <1>2, ConfigAssumption DEF PutMatrix
  <1>4. /\ matrix' = [matrix EXCEPT ![R] = q.kept \cup codes]
        /\ matrix \in [Roles -> SUBSET Codes]
        /\ UNCHANGED <<override, markAge>>
    BY <1>1 DEF CommitMatrix, RowsAfter, TypeOK
  <1>5. /\ roleAge \in RoleAges /\ markAge \in MarkAges
        /\ roleAge' \in RoleAges /\ MarksGrown(markAge, markAge, 0)
    BY <1>1, AgesAreAges DEF TypeOK
  <1>6. ASSUME NEW S \in Roles, NEW c \in Codes
        PROVE  roleAge'[S][c] = IF S = R
                  THEN Restart(roleAge[R][c], c \in Granted(matrix[R], R), c \in Granted(matrix'[R], R))
                  ELSE roleAge[S][c]
    BY <1>3, <1>5 DEF CommitMatrix, RoleAges
  <1> HIDE DEF next
  <1>7. RolesGrown(roleAge', roleAge, 0) /\ \A S \in Roles : RoleSince(roleAge', S, Granted(matrix'[S], S), 0)
    <2>1. ASSUME NEW S \in Roles, NEW c \in Codes
          PROVE  /\ \A b \in BOOLEAN : roleAge'[S][c][b] <= roleAge[S][c][b] + 0
                 /\ roleAge'[S][c][(c \in Granted(matrix'[S], S))] <= 0
      <3>1. roleAge[S][c] \in [BOOLEAN -> Nat]
        BY <1>5 DEF RoleAges
      <3>2. CASE S = R
        <4> DEFINE was == (c \in Granted(matrix[R], R))
                   now == (c \in Granted(matrix'[R], R))
        <4>1. was \in BOOLEAN /\ now \in BOOLEAN
          OBVIOUS
        <4>2. roleAge'[S][c] = Restart(roleAge[S][c], was, now)
          BY <1>6, <3>2
        <4> HIDE DEF was, now
        <4>3. /\ roleAge'[S][c][now] = 0
              /\ \A b \in BOOLEAN : roleAge'[S][c][b] <= roleAge[S][c][b] + 0
          BY <3>1, <4>1, <4>2, Restarting
        <4> QED BY <3>2, <4>3 DEF now
      <3>3. CASE S # R
        <4>1. roleAge'[S][c] = roleAge[S][c] /\ matrix'[S] = matrix[S]
          BY <1>4, <1>6, <3>3
        <4>2. roleAge[S][c][(c \in Granted(matrix[S], S))] <= 0
          BY DEF IInv, TablesAreNew, RoleSince
        <4>3. \A b \in BOOLEAN : roleAge[S][c][b] <= roleAge[S][c][b] + 0
          BY <3>1
        <4> QED BY <4>1, <4>2, <4>3
      <3> QED BY <3>2, <3>3
    <2> QED BY <2>1 DEF RolesGrown, RoleSince
  <1>8. TablesAreNew'
    BY <1>4, <1>7 DEF IInv, TablesAreNew
  <1>9. ASSUME NEW s \in Requests
        PROVE  req'[s] = IF s = r THEN next
                         ELSE IF req[s].at \in {"fill", "set"} /\ req[s].role = R /\ req[s].rows # "sent"
                         THEN [req[s] EXCEPT !.rowsOk = FALSE]
                         ELSE IF req[s].at = "put_matrix" /\ req[s].role = R
                         THEN [req[s] EXCEPT !.kept = (@ \cap q.kept) \cup codes, !.old = @ \ codes]
                         ELSE req[s]
    BY DEF CommitMatrix, MeetMatrix, next
  <1>10. ASSUME NEW s \in Requests, s # r
         PROVE  /\ Follows(req'[s], req[s], 0, matrix, override, matrix', override)
                /\ req[s].at \in {"drop_role", "drop_user"} => req'[s] = req[s]
                /\ req[s] \in SlotState
    <2>1. req[s] \in SlotState
      BY <1>1 DEF TypeOK, SlotState
    <2>2. CASE req[s].at \in {"fill", "set"}
      <3>1. req[s] \in Lookup
        BY <2>1, <2>2, Kinds
      <3>2. req[s].role = R \/ matrix'[req[s].role] = matrix[req[s].role]
        BY <1>4, <3>1 DEF Lookup
      <3>3. req[s].age + 0 = req[s].age
        BY <3>1, ConfigAssumption DEF Lookup
      <3>4. req'[s] = IF req[s].role = R /\ req[s].rows # "sent"
                      THEN [req[s] EXCEPT !.rowsOk = FALSE] ELSE req[s]
        BY <1>9, <1>10, <2>2
      <3> QED BY <2>1, <2>2, <3>1, <3>2, <3>3, <3>4 DEF Follows, Lookup
    <2>3. CASE req[s].at = "put_marks"
      <3>1. req[s] \in PutMarks
        BY <2>1, <2>3, Kinds
      <3>2. req[s].age + 0 = req[s].age
        BY <3>1, ConfigAssumption DEF PutMarks
      <3> QED BY <1>9, <1>10, <2>1, <2>3, <3>2 DEF Follows
    <2>4. CASE req[s].at = "put_matrix"
      <3>1. req[s] \in PutMatrix
        BY <2>1, <2>4, Kinds
      <3>2. req'[s].at = "put_matrix"
        BY <1>9, <1>10, <2>4, <3>1 DEF PutMatrix
      <3> QED BY <2>1, <2>4, <3>2 DEF Follows
    <2>5. CASE req[s].at \notin {"fill", "set", "put_marks", "put_matrix"}
      BY <1>9, <1>10, <2>1, <2>5 DEF Follows
    <2> QED BY <2>2, <2>3, <2>4, <2>5
  <1>11. RequestInv'
    <2>1. ASSUME NEW s \in Requests
          PROVE  SlotInv(req'[s], matrix', override, roleAge', markAge)
      <3>1. CASE s = r
        <4>1. req'[s] = next /\ next.at = "drop_role"
          BY <1>9, <3>1 DEF next
        <4> QED BY <4>1 DEF SlotInv
      <3>2. CASE s # r
        <4>1. SlotInv(req[s], matrix, override, roleAge, markAge)
          BY DEF IInv, RequestInv
        <4> QED BY <1>5, <1>7, <1>10, <3>2, <4>1, SlotLater
      <3> QED BY <3>1, <3>2
    <2> QED BY <1>4, <2>1 DEF RequestInv
  <1>12. SoilRole(Processes \ {q.proc}, R)
    BY DEF CommitMatrix
  <1>13. EntriesInv'
    <2>0. /\ \A p \in Processes, S \in Roles : Fades(roleCache'[p][S], roleCache[p][S], 0)
          /\ \A p \in Processes, u \in Users, S \in Roles : Fades(userCache'[p][u][S], userCache[p][u][S], 0)
      BY <1>1, <1>12, SoilFades
    <2>1. ASSUME NEW p \in Processes, NEW S \in Roles
          PROVE  RoleEntryInv(roleAge', S, roleCache'[p][S])
      <3>1. roleCache[p][S] \in Entry /\ roleCache'[p][S] \in Entry
        BY <1>1 DEF TypeOK
      <3> QED BY <1>5, <1>7, <2>0, <3>1, RoleEntryLater DEF IInv, EntriesInv
    <2>2. ASSUME NEW p \in Processes, NEW u \in Users, NEW S \in Roles
          PROVE  MemberEntryInv(roleAge', markAge, u, S, userCache'[p][u][S])
      <3>1. userCache[p][u][S] \in Entry /\ userCache'[p][u][S] \in Entry
        BY <1>1 DEF TypeOK
      <3> QED BY <1>5, <1>7, <2>0, <3>1, MemberEntryLater DEF IInv, EntriesInv
    <2> QED BY <1>4, <2>1, <2>2 DEF EntriesInv
  <1>14. req'[r].at = "drop_role" /\ req'[r].proc = q.proc /\ req'[r].role = R
    <2>1. req'[r] = next
      BY <1>9
    <2> QED BY <2>1 DEF next
  <1>15. \A s \in Requests : req[s].at \in {"drop_role", "drop_user"} => req'[s] = req[s]
    BY <1>2, <1>10
  <1>16. ChangesAreSeenAtOnce'
    <2>1. ASSUME NEW p \in Processes, NEW S \in Roles,
                 roleCache'[p][S].left > 0, roleCache'[p][S].clean, ~ (RoleDropPending(p, S))'
          PROVE  roleCache'[p][S].perms = Granted(matrix'[S], S)
      <3>1. ~ (p = q.proc /\ S = R)
        BY <1>14, <2>1 DEF RoleDropPending
      <3>2. S # R
        <4> SUFFICES ASSUME S = R, p \in Processes \ {q.proc} PROVE FALSE
          BY <3>1
        <4>1. roleCache'[p][R] = Soil(roleCache[p][R])
          BY <1>3, <1>12 DEF SoilRole
        <4>2. Dead(roleCache'[p][R])
          BY <1>1, <1>3, <4>1, Fading DEF TypeOK
        <4> QED BY <2>1, <4>2 DEF Dead
      <3>3. roleCache'[p][S] = roleCache[p][S] /\ matrix'[S] = matrix[S]
        BY <1>4, <1>12, <3>2 DEF SoilRole
      <3>4. ~ RoleDropPending(p, S)
        BY <1>15, <2>1 DEF RoleDropPending
      <3> QED BY <2>1, <3>3, <3>4 DEF IInv, ChangesAreSeenAtOnce
    <2>2. ASSUME NEW p \in Processes, NEW u \in Users, NEW S \in Roles,
                 userCache'[p][u][S].left > 0, userCache'[p][u][S].clean, ~ (DropPending(p, u, S))'
          PROVE  userCache'[p][u][S].perms = Effective(Granted(matrix'[S], S), override[u])
      <3>1. ~ (p = q.proc /\ S = R)
        BY <1>14, <2>2 DEF DropPending
      <3>2. S # R
        <4> SUFFICES ASSUME S = R, p \in Processes \ {q.proc} PROVE FALSE
          BY <3>1
        <4>1. userCache'[p][u][R] = Soil(userCache[p][u][R])
          BY <1>3, <1>12 DEF SoilRole
        <4>2. Dead(userCache'[p][u][R])
          BY <1>1, <1>3, <4>1, Fading DEF TypeOK
        <4> QED BY <2>2, <4>2 DEF Dead
      <3>3. userCache'[p][u][S] = userCache[p][u][S] /\ matrix'[S] = matrix[S]
        BY <1>4, <1>12, <3>2 DEF SoilRole
      <3>4. ~ DropPending(p, u, S)
        BY <1>15, <2>2 DEF DropPending
      <3> QED BY <2>2, <3>3, <3>4 DEF IInv, ChangesAreSeenAtOnce
    <2>3. override' = override
      BY <1>4
    <2> QED BY <2>1, <2>2, <2>3 DEF ChangesAreSeenAtOnce
  <1> QED BY <1>8, <1>11, <1>13, <1>16 DEF IInv

LEMMA MarksCommitIsRight ==
    ASSUME IInv, NEW r \in Requests, CommitMarks(r), TypeOK'
    PROVE  IInv'
  <1> DEFINE q == req[r]
             u == q.user
             next == [at |-> "drop_user", proc |-> q.proc, user |-> u, role |-> q.role, age |-> 0]
  <1>1. TypeOK /\ q \in SlotState
    BY DEF IInv, TypeOK, SlotState
  <1>2. q \in PutMarks /\ q.at = "put_marks"
    BY <1>1, Kinds DEF CommitMarks
  <1>3. q.proc \in Processes /\ u \in Users /\ Overlay(q.kept, q.list) \in [Codes -> Mark]
    BY <1>2, PermsFacts DEF PutMarks
  <1>4. /\ override' = [override EXCEPT ![u] = Overlay(q.kept, q.list)]
        /\ override \in [Users -> [Codes -> Mark]] /\ override' \in [Users -> [Codes -> Mark]]
        /\ UNCHANGED <<matrix, roleAge>>
    BY <1>1 DEF CommitMarks, TypeOK
  <1>5. /\ roleAge \in RoleAges /\ markAge \in MarkAges
        /\ markAge' \in MarkAges /\ RolesGrown(roleAge, roleAge, 0)
    BY <1>1, AgesAreAges DEF TypeOK
  <1>6. ASSUME NEW v \in Users, NEW c \in Codes
        PROVE  markAge'[v][c] = IF v = u THEN Restart(markAge[u][c], override[u][c], override'[u][c])
                                ELSE markAge[v][c]
    BY <1>3, <1>5 DEF CommitMarks, MarkAges
  <1> HIDE DEF next
  <1>7. MarksGrown(markAge', markAge, 0) /\ \A v \in Users : MarksSince(markAge', v, override'[v], 0)
    <2>1. ASSUME NEW v \in Users, NEW c \in Codes
          PROVE  /\ \A m \in Mark : markAge'[v][c][m] <= markAge[v][c][m] + 0
                 /\ markAge'[v][c][override'[v][c]] <= 0
      <3> DEFINE was == override[v][c]
                 now == override'[v][c]
      <3>1. markAge[v][c] \in [Mark -> Nat]
        BY <1>5 DEF MarkAges
      <3>2. was \in Mark /\ now \in Mark
        <4>1. override[v] \in [Codes -> Mark] /\ override'[v] \in [Codes -> Mark]
          BY <1>4
        <4> QED BY <4>1
      <3>3. CASE v = u
        <4>1. markAge'[v][c] = Restart(markAge[v][c], was, now)
          BY <1>6, <3>3
        <4> HIDE DEF was, now
        <4>2. /\ markAge'[v][c][now] = 0
              /\ \A m \in Mark : markAge'[v][c][m] <= markAge[v][c][m] + 0
          BY <3>1, <3>2, <4>1, Restarting
        <4> QED BY <4>2 DEF now
      <3>4. CASE v # u
        <4>1. markAge'[v][c] = markAge[v][c] /\ override'[v] = override[v]
          BY <1>4, <1>6, <3>4
        <4>2. markAge[v][c][override[v][c]] <= 0
          BY DEF IInv, TablesAreNew, MarksSince
        <4>3. \A m \in Mark : markAge[v][c][m] <= markAge[v][c][m] + 0
          BY <3>1
        <4> QED BY <4>1, <4>2, <4>3
      <3> QED BY <3>3, <3>4
    <2> QED BY <2>1 DEF MarksGrown, MarksSince
  <1>8. TablesAreNew'
    BY <1>4, <1>7 DEF IInv, TablesAreNew
  <1> DEFINE keptOf(s) == Overlay([c \in Codes |-> IF q.kept[c] = "none" THEN "none" ELSE req[s].kept[c]], q.list)
  <1>9. ASSUME NEW s \in Requests
        PROVE  req'[s] = IF s = r THEN next
                         ELSE IF req[s].at = "fill" /\ req[s].user = u /\ req[s].marks
                         THEN [req[s] EXCEPT !.marksOk = FALSE]
                         ELSE IF req[s].at = "put_marks" /\ req[s].user = u
                         THEN [req[s] EXCEPT !.kept = keptOf(s)]
                         ELSE req[s]
    BY DEF CommitMarks, MeetMarks, next
  <1> HIDE DEF keptOf
  <1>10. ASSUME NEW s \in Requests, s # r
         PROVE  /\ Follows(req'[s], req[s], 0, matrix, override, matrix, override')
                /\ req[s].at \in {"drop_role", "drop_user"} => req'[s] = req[s]
                /\ req[s] \in SlotState
    <2>1. req[s] \in SlotState
      BY <1>1 DEF TypeOK, SlotState
    <2>2. CASE req[s].at \in {"fill", "set"}
      <3>1. req[s] \in Lookup
        BY <2>1, <2>2, Kinds
      <3>2. req[s].user = u \/ override'[req[s].user] = override[req[s].user]
        BY <1>4, <3>1 DEF Lookup
      <3>3. req[s].age + 0 = req[s].age
        BY <3>1, ConfigAssumption DEF Lookup
      <3>4. req[s].marks => req[s].at = "fill"
        <4>1. LookupInv(req[s], matrix, override, roleAge, markAge)
          BY <2>2 DEF IInv, RequestInv, SlotInv
        <4> QED BY <4>1 DEF LookupInv
      <3>5. req'[s] = IF req[s].user = u /\ req[s].marks
                      THEN [req[s] EXCEPT !.marksOk = FALSE] ELSE req[s]
        BY <1>9, <1>10, <2>2, <3>4
      <3> QED BY <2>1, <2>2, <3>1, <3>2, <3>3, <3>5 DEF Follows, Lookup
    <2>3. CASE req[s].at = "put_marks"
      <3>1. req[s] \in PutMarks
        BY <2>1, <2>3, Kinds
      <3>2. req[s].age + 0 = req[s].age
        BY <3>1, ConfigAssumption DEF PutMarks
      <3>3. req'[s] \in {req[s], [req[s] EXCEPT !.kept = keptOf(s)]}
        BY <1>9, <1>10, <2>3
      <3> QED BY <2>1, <2>3, <3>1, <3>2, <3>3 DEF Follows, PutMarks
    <2>4. CASE req[s].at \notin {"fill", "set", "put_marks"}
      BY <1>9, <1>10, <2>1, <2>4 DEF Follows
    <2> QED BY <2>2, <2>3, <2>4
  <1>11. RequestInv'
    <2>1. ASSUME NEW s \in Requests
          PROVE  SlotInv(req'[s], matrix, override', roleAge, markAge')
      <3>1. CASE s = r
        <4>1. req'[s] = next /\ next.at = "drop_user"
          BY <1>9, <3>1 DEF next
        <4> QED BY <4>1 DEF SlotInv
      <3>2. CASE s # r
        <4>1. SlotInv(req[s], matrix, override, roleAge, markAge)
          BY DEF IInv, RequestInv
        <4> QED BY <1>5, <1>7, <1>10, <3>2, <4>1, SlotLater
      <3> QED BY <3>1, <3>2
    <2> QED BY <1>4, <2>1 DEF RequestInv
  <1>12. SoilUser(Processes \ {q.proc}, u)
    BY DEF CommitMarks
  <1>13. EntriesInv'
    <2>0. /\ \A p \in Processes, S \in Roles : Fades(roleCache'[p][S], roleCache[p][S], 0)
          /\ \A p \in Processes, v \in Users, S \in Roles : Fades(userCache'[p][v][S], userCache[p][v][S], 0)
      BY <1>1, <1>12, SoilFades
    <2>1. ASSUME NEW p \in Processes, NEW S \in Roles
          PROVE  RoleEntryInv(roleAge, S, roleCache'[p][S])
      <3>1. roleCache[p][S] \in Entry /\ roleCache'[p][S] \in Entry
        BY <1>1 DEF TypeOK
      <3> QED BY <1>5, <2>0, <3>1, RoleEntryLater DEF IInv, EntriesInv
    <2>2. ASSUME NEW p \in Processes, NEW v \in Users, NEW S \in Roles
          PROVE  MemberEntryInv(roleAge, markAge', v, S, userCache'[p][v][S])
      <3>1. userCache[p][v][S] \in Entry /\ userCache'[p][v][S] \in Entry
        BY <1>1 DEF TypeOK
      <3> QED BY <1>5, <1>7, <2>0, <3>1, MemberEntryLater DEF IInv, EntriesInv
    <2> QED BY <1>4, <2>1, <2>2 DEF EntriesInv
  <1>14. req'[r].at = "drop_user" /\ req'[r].proc = q.proc /\ req'[r].user = u
    <2>1. req'[r] = next
      BY <1>9
    <2> QED BY <2>1 DEF next
  <1>15. \A s \in Requests : req[s].at \in {"drop_role", "drop_user"} => req'[s] = req[s]
    BY <1>2, <1>10
  <1>16. ChangesAreSeenAtOnce'
    <2>1. ASSUME NEW p \in Processes, NEW S \in Roles,
                 roleCache'[p][S].left > 0, roleCache'[p][S].clean, ~ (RoleDropPending(p, S))'
          PROVE  roleCache'[p][S].perms = Granted(matrix'[S], S)
      <3>1. ~ RoleDropPending(p, S)
        BY <1>15, <2>1 DEF RoleDropPending
      <3>2. roleCache' = roleCache
        BY <1>12 DEF SoilUser
      <3> QED BY <1>4, <2>1, <3>1, <3>2 DEF IInv, ChangesAreSeenAtOnce
    <2>2. ASSUME NEW p \in Processes, NEW v \in Users, NEW S \in Roles,
                 userCache'[p][v][S].left > 0, userCache'[p][v][S].clean, ~ (DropPending(p, v, S))'
          PROVE  userCache'[p][v][S].perms = Effective(Granted(matrix'[S], S), override'[v])
      <3>1. ~ (p = q.proc /\ v = u)
        BY <1>14, <2>2 DEF DropPending
      <3>2. v # u
        <4> SUFFICES ASSUME v = u, p \in Processes \ {q.proc} PROVE FALSE
          BY <3>1
        <4>1. Dead(userCache'[p][u][S])
          BY <1>1, <1>3, <1>12, SoiledIsDead
        <4> QED BY <2>2, <4>1 DEF Dead
      <3>3. userCache'[p][v][S] = userCache[p][v][S] /\ override'[v] = override[v] /\ matrix' = matrix
        BY <1>4, <1>12, <3>2 DEF SoilUser
      <3>4. ~ DropPending(p, v, S)
        BY <1>15, <2>2 DEF DropPending
      <3> QED BY <2>2, <3>3, <3>4 DEF IInv, ChangesAreSeenAtOnce
    <2> QED BY <2>1, <2>2 DEF ChangesAreSeenAtOnce
  <1> QED BY <1>8, <1>11, <1>13, <1>16 DEF IInv

-----------------------------------------------------------------------------
(* The theorems *)

LEMMA StartIsRight ==
    ASSUME Init
    PROVE  IInv
  <1>1. TypeOK
    BY TypeInit
  <1>2. TablesAreNew
    <2>1. ASSUME NEW R \in Roles, NEW c \in Codes
          PROVE  roleAge[R][c][(c \in Granted(matrix[R], R))] = 0
      BY DEF Init
    <2>2. ASSUME NEW u \in Users, NEW c \in Codes
          PROVE  markAge[u][c][override[u][c]] = 0
      BY DEF Init, NoMark, Mark
    <2> QED BY <2>1, <2>2 DEF TablesAreNew, RoleSince, MarksSince
  <1>3. EntriesInv /\ ChangesAreSeenAtOnce
    BY DEF Init, EntriesInv, RoleEntryInv, MemberEntryInv, ChangesAreSeenAtOnce, Blank
  <1>4. RequestInv
    BY IdleIsRight DEF Init, RequestInv
  <1> QED BY <1>1, <1>2, <1>3, <1>4 DEF IInv

LEMMA Invariance == Spec => []IInv
  <1>1. Init => IInv
    BY StartIsRight
  <1>2. IInv /\ [Next]_vars => IInv'
    <2>1. ASSUME IInv, UNCHANGED vars
          PROVE  IInv'
      BY <2>1
      DEF vars, IInv, TypeOK, TablesAreNew, EntriesInv, RequestInv, ChangesAreSeenAtOnce,
          RoleDropPending, DropPending
    <2>2. ASSUME IInv, Next
          PROVE  IInv'
      <3>1. TypeOK'
        BY <2>2, TypeStep DEF IInv
      <3>2. ASSUME NEW r \in Requests, Begin(r)
            PROVE  IInv'
        <4>1. ASSUME NEW p \in Processes, NEW R \in Roles, NEW u \in Users,
                     StartFill(r, p, u, R) \/ StartSet(r, p, u, R)
              PROVE  IInv'
          <5>1. PICK at \in {"fill", "set"} : Goto(r, Asking(at, p, u, R))
            BY <4>1 DEF StartFill, StartSet
          <5>2. req[r].at = "idle" /\ UNCHANGED <<tables, history, caches>>
            BY <4>1 DEF StartFill, StartSet, Idle
          <5>3. Asking(at, p, u, R) \in SlotState
            BY <2>2, AskingIsLookup, KindsBack DEF IInv
          <5>4. SlotInv(Asking(at, p, u, R), matrix, override, roleAge, markAge)
            BY <2>2, AskingIsRight
          <5> QED BY <2>2, <3>1, <5>1, <5>2, <5>3, <5>4, QuietRequest
        <4>2. ASSUME NEW p \in Processes, NEW R \in Roles, DeleteMatrix(r, p, R)
              PROVE  IInv'
          <5> DEFINE next == [at |-> "put_matrix", proc |-> p, role |-> R, age |-> 0, kept |-> {},
                              old |-> asked[R]]
          <5>1. Goto(r, next) /\ req[r].at = "idle" /\ UNCHANGED <<tables, history, caches>>
            BY <4>2 DEF DeleteMatrix, Idle
          <5>2. next \in PutMatrix /\ SlotInv(next, matrix, override, roleAge, markAge)
            BY <2>2, ConfigAssumption DEF PutMatrix, SlotInv, IInv, TypeOK
          <5> HIDE DEF next
          <5> QED BY <2>2, <3>1, <5>1, <5>2, KindsBack, QuietRequest
        <4> QED BY <3>2, <4>1, <4>2 DEF Begin
      <3>3. ASSUME NEW r \in Requests, Proceed(r)
            PROVE  IInv'
        BY <2>2, <3>1, <3>3, ReadsAreRight, RoleArrivalIsRight, MemberFillIsRight, MatrixCommitIsRight,
           ListIsRight, MarksCommitIsRight, DropsAreRight, AbortIsRight DEF Proceed
      <3> QED
        BY <2>2, <3>1, <3>2, <3>3, CrashIsRight, MemberChangeIsRight, TickIsRight DEF Next
    <2> QED BY <2>1, <2>2
  <1> QED BY <1>1, <1>2, PTL DEF Spec

\* The tables, the caches and what the requests hold stay well typed.
THEOREM TypeCorrect == Spec => []TypeOK
  <1>1. IInv => TypeOK
    BY DEF IInv
  <1> QED BY <1>1, Invariance, PTL

\* rbac.service.ts, CACHE_TTL_MS: however many processes there are, and in whatever
\* order fills, changes, failures and restarts come, no decision rests on an override
\* older than MarkWindow, or on a grant of the role older than RoleWindow.
THEOREM EntriesStayRecent == Spec => []EntriesAreRecent
  <1>1. ASSUME IInv
        PROVE  EntriesAreRecent
    <2> SUFFICES ASSUME NEW p \in Processes, NEW u \in Users, NEW R \in Roles, NEW c \in Codes,
                        userCache[p][u][R].left > 0
                 PROVE  \/ markAge[u][c][IF c \in userCache[p][u][R].perms THEN "grant" ELSE "revoke"] <= MarkWindow
                        \/ /\ markAge[u][c]["none"] <= MarkWindow
                           /\ roleAge[R][c][(c \in userCache[p][u][R].perms)] <= RoleWindow
      BY DEF EntriesAreRecent
    <2> DEFINE e == userCache[p][u][R]
               b == (c \in e.perms)
               x == IF c \in e.perms THEN "grant" ELSE "revoke"
               n == Latency + (TTL - e.left)
    <2>1. e \in Entry /\ roleAge \in RoleAges /\ markAge \in MarkAges /\ MemberEntryInv(roleAge, markAge, u, R, e)
      BY <1>1, AgesAreAges DEF IInv, TypeOK, EntriesInv
    <2>2. markAge[u][c][x] <= n \/ (markAge[u][c]["none"] <= n /\ roleAge[R][c][b] <= n + Lag)
      BY <2>1 DEF MemberEntryInv, Justified
    <2>3. e.left \in 1 .. TTL /\ TTL \in Nat \ {0} /\ Latency \in Nat
      BY <2>1, ConfigAssumption DEF Entry
    <2>4. n \in Int /\ n <= MarkWindow /\ n + Lag <= RoleWindow /\ Lag \in Int
          /\ MarkWindow \in Int /\ RoleWindow \in Int
      BY <2>3 DEF Lag, MarkWindow, RoleWindow
    <2>5. b \in BOOLEAN /\ x \in Mark /\ "none" \in Mark
      BY DEF Mark
    <2> HIDE DEF e, b, x, n
    <2>6. markAge[u][c][x] \in Nat /\ markAge[u][c]["none"] \in Nat /\ roleAge[R][c][b] \in Nat
      BY <2>1, <2>5 DEF RoleAges, MarkAges
    <2>7. markAge[u][c][x] <= MarkWindow \/ (markAge[u][c]["none"] <= MarkWindow /\ roleAge[R][c][b] <= RoleWindow)
      BY <2>2, <2>4, <2>6
    <2> QED BY <2>7 DEF e, b, x
  <1> QED BY <1>1, Invariance, PTL

\* rbac.service.ts, invalidate and invalidateUser: on the process that makes the
\* changes none outlives its invalidation, but for fills that it overtakes.
THEOREM ChangesAreAlwaysSeenAtOnce == Spec => []ChangesAreSeenAtOnce
  <1>1. IInv => ChangesAreSeenAtOnce
    BY DEF IInv
  <1> QED BY <1>1, Invariance, PTL

\* A replacement that is half-way keeps of the rows there are those that were not
\* there, or have been asked for again, since it deleted what it saw.
HalvesInv(slots, rows) ==
    \A r \in Requests :
        slots[r].at = "put_matrix" => slots[r].kept = rows[slots[r].role] \ slots[r].old

\* Nothing is begun, and nothing half-way is touched.
NoneBegun(slots, next) ==
    \A r \in Requests :
        next[r].at = "put_matrix" =>
            /\ slots[r].at = "put_matrix" /\ next[r].role = slots[r].role
            /\ next[r].kept = slots[r].kept /\ next[r].old = slots[r].old

AskedInv == TypeOK /\ RowsWereAskedFor /\ HalvesInv(req, matrix)

LEMMA GotoBeginsNone ==
    ASSUME TypeOK, NEW r \in Requests, NEW next, next.at # "put_matrix", Goto(r, next)
    PROVE  NoneBegun(req, req')
  BY DEF NoneBegun, Goto, TypeOK

\* Every step but the two halves of a replacement.
LEMMA OthersBeginNone ==
    ASSUME TypeOK, Next,
           ~ \E r \in Requests, p \in Processes, R \in Roles : DeleteMatrix(r, p, R),
           ~ \E r \in Requests, codes \in Matrices : CommitMatrix(r, codes)
    PROVE  NoneBegun(req, req') /\ UNCHANGED <<matrix, asked>>
  <1> USE DEF tables, history
  <1>0. \A r \in Requests : req[r] \in SlotState
    BY DEF TypeOK, SlotState
  <1>1. ASSUME NEW r \in Requests, NEW p \in Processes, NEW u \in Users, NEW R \in Roles,
               StartFill(r, p, u, R) \/ StartSet(r, p, u, R)
        PROVE  NoneBegun(req, req') /\ UNCHANGED <<matrix, asked>>
    <2>1. PICK at \in {"fill", "set"} : Goto(r, Asking(at, p, u, R))
      BY <1>1 DEF StartFill, StartSet
    <2>2. Asking(at, p, u, R).at # "put_matrix"
      BY DEF Asking
    <2> QED BY <1>1, <2>1, <2>2, GotoBeginsNone DEF StartFill, StartSet
  <1>2. ASSUME NEW r \in Requests, ReadRole(r) \/ RoleArrives(r) \/ ReadMarks(r)
        PROVE  NoneBegun(req, req') /\ UNCHANGED <<matrix, asked>>
    <2>1. req[r] \in Lookup
      BY <1>0, <1>2, Kinds DEF ReadRole, RoleArrives, ReadMarks
    <2>2. req'[r].at # "put_matrix"
      <3>1. \A q \in Lookup : \A perms, mark :
               /\ [q EXCEPT !.rows = "read", !.perms = perms].at = q.at
               /\ [q EXCEPT !.rows = "have"].at = q.at
               /\ [q EXCEPT !.rows = "have", !.age = 0].at = q.at
               /\ [q EXCEPT !.marks = TRUE, !.mark = mark].at = q.at
        BY DEF Lookup
      <3>2. req[r].at \in {"fill", "set"}
        BY <2>1 DEF Lookup
      <3>3. CASE ReadRole(r)
        BY <2>1, <3>1, <3>2, <3>3 DEF ReadRole, Goto, TypeOK
      <3>4. CASE RoleArrives(r)
        <4>1. req'[r] \in {[req[r] EXCEPT !.rows = "have"], [req[r] EXCEPT !.rows = "have", !.age = 0]}
          BY <3>2, <3>4 DEF RoleArrives, Goto, TypeOK
        <4> QED BY <2>1, <3>1, <3>2, <4>1
      <3>5. CASE ReadMarks(r)
        BY <2>1, <3>1, <3>2, <3>5 DEF ReadMarks, Goto, TypeOK
      <3> QED BY <1>2, <3>3, <3>4, <3>5
    <2>3. \A s \in Requests : s # r => req'[s] = req[s]
      BY <1>2 DEF ReadRole, RoleArrives, ReadMarks, Goto, TypeOK
    <2> QED BY <1>2, <2>2, <2>3 DEF ReadRole, RoleArrives, ReadMarks, NoneBegun
  <1>3. ASSUME NEW r \in Requests, FillUser(r) \/ InvalidateRole(r) \/ Abort(r)
        PROVE  NoneBegun(req, req') /\ UNCHANGED <<matrix, asked>>
    BY <1>3, GotoBeginsNone DEF FillUser, InvalidateRole, Abort, Idle
  <1>4. ASSUME NEW r \in Requests, NEW list \in Overrides, DeleteMarks(r, list)
        PROVE  NoneBegun(req, req') /\ UNCHANGED <<matrix, asked>>
    BY <1>4, GotoBeginsNone DEF DeleteMarks
  <1>5. ASSUME NEW r \in Requests, InvalidateUser(r)
        PROVE  NoneBegun(req, req') /\ UNCHANGED <<matrix, asked>>
    BY <1>5, GotoBeginsNone DEF InvalidateUser, Asking
  <1>6. ASSUME NEW r \in Requests, CommitMarks(r)
        PROVE  NoneBegun(req, req') /\ UNCHANGED <<matrix, asked>>
    <2> DEFINE q == req[r]
               next == [at |-> "drop_user", proc |-> q.proc, user |-> q.user, role |-> q.role, age |-> 0]
    <2>1. MeetMarks(r, next) /\ next.at # "put_matrix"
      BY <1>6 DEF CommitMarks
    <2> HIDE DEF next
    <2>2. ASSUME NEW s \in Requests, req'[s].at = "put_matrix"
          PROVE  req'[s] = req[s]
      <3>1. s # r
        BY <2>1, <2>2 DEF MeetMarks
      <3>2. CASE req[s].at = "fill"
        <4>1. req[s] \in Lookup
          BY <1>0, <3>2, Kinds
        <4> QED BY <2>1, <2>2, <3>1, <3>2, <4>1 DEF MeetMarks, Lookup
      <3>3. CASE req[s].at = "put_marks"
        <4>1. req[s] \in PutMarks
          BY <1>0, <3>3, Kinds
        <4> QED BY <2>1, <2>2, <3>1, <3>3, <4>1 DEF MeetMarks, PutMarks
      <3> QED BY <2>1, <3>1, <3>2, <3>3 DEF MeetMarks
    <2>3. NoneBegun(req, req')
      BY <2>2 DEF NoneBegun
    <2> QED BY <1>6, <2>3 DEF CommitMarks
  <1>7. ASSUME NEW p \in Processes, Crash(p) \/ \E u \in Users : MemberChanged(p, u)
        PROVE  NoneBegun(req, req') /\ UNCHANGED <<matrix, asked>>
    BY <1>7 DEF Crash, MemberChanged, NoneBegun, Idle
  <1>8. CASE Tick
    <2>1. ASSUME NEW s \in Requests, req'[s].at = "put_matrix"
          PROVE  /\ req[s].at = "put_matrix" /\ req'[s].role = req[s].role
                 /\ req'[s].kept = req[s].kept /\ req'[s].old = req[s].old
      <3>1. req[s] # Idle /\ req'[s] = [req[s] EXCEPT !.age = @ + 1]
        BY <1>8, <2>1 DEF Tick, Idle
      <3>2. req[s] \in Lookup \cup PutMatrix \cup PutMarks \cup RoleDrops \cup UserDrops
        BY <1>0, <3>1 DEF SlotState, Replace, Committed, PutMatrix, PutMarks, RoleDrops, UserDrops
      <3>3. req'[s].at = req[s].at
        BY <3>1, <3>2 DEF Lookup, PutMatrix, PutMarks, RoleDrops, UserDrops
      <3>4. req[s] \in PutMatrix
        BY <1>0, <2>1, <3>3, Kinds
      <3> QED BY <2>1, <3>1, <3>3, <3>4 DEF PutMatrix
    <2> QED BY <1>8, <2>1 DEF Tick, NoneBegun
  <1> QED
    BY <1>1, <1>2, <1>3, <1>4, <1>5, <1>6, <1>7, <1>8 DEF Next, Begin, Proceed

\* What a commit leaves of the rows is what the others that are half-way keep, but
\* for what they have deleted, and what has just been asked for.
LEMMA MeetingKeepsHalves ==
    ASSUME AskedInv, NEW r \in Requests, NEW codes \in Matrices, CommitMatrix(r, codes)
    PROVE  RowsWereAskedFor' /\ HalvesInv(req', matrix')
  <1> DEFINE q == req[r]
             R == q.role
             next == [at |-> "drop_role", proc |-> q.proc, role |-> R, age |-> 0]
  <1>1. TypeOK /\ \A s \in Requests : req[s] \in SlotState
    BY DEF AskedInv, TypeOK, SlotState
  <1>2. q \in PutMatrix /\ q.at = "put_matrix"
    BY <1>1, Kinds DEF CommitMatrix
  <1>3. R \in Roles /\ q.kept = matrix[R] \ q.old /\ asked[R] = matrix[R]
    BY <1>2 DEF PutMatrix, AskedInv, HalvesInv, RowsWereAskedFor
  <1>4. /\ matrix' = [matrix EXCEPT ![R] = q.kept \cup codes]
        /\ asked' = [asked EXCEPT ![R] = (@ \ q.old) \cup codes]
        /\ matrix \in [Roles -> SUBSET Codes] /\ asked \in [Roles -> SUBSET Codes]
        /\ MeetMatrix(r, codes, next)
    BY <1>1 DEF CommitMatrix, RowsAfter, TypeOK
  <1> HIDE DEF next
  <1>5. RowsWereAskedFor'
    BY <1>3, <1>4 DEF AskedInv, RowsWereAskedFor
  <1>6. ASSUME NEW s \in Requests, req'[s].at = "put_matrix"
        PROVE  req'[s].kept = matrix'[req'[s].role] \ req'[s].old
    <2>1. s # r
      BY <1>4, <1>6 DEF MeetMatrix, next
    <2>2. CASE req[s].at \in {"fill", "set"}
      <3>1. req[s] \in Lookup
        BY <1>1, <2>2, Kinds
      <3> QED BY <1>4, <1>6, <2>1, <2>2, <3>1 DEF MeetMatrix, Lookup
    <2>3. CASE req[s].at = "put_matrix" /\ req[s].role = R
      <3>1. req[s] \in PutMatrix
        BY <1>1, <2>3, Kinds
      <3>2. /\ req'[s].role = R /\ req'[s].old = req[s].old \ codes
            /\ req'[s].kept = (req[s].kept \cap q.kept) \cup codes
        BY <1>4, <2>1, <2>3, <3>1 DEF MeetMatrix, PutMatrix
      <3>3. req[s].kept = matrix[R] \ req[s].old
        BY <2>3 DEF AskedInv, HalvesInv
      <3>4. matrix'[R] = q.kept \cup codes
        BY <1>3, <1>4
      <3> QED BY <1>3, <3>2, <3>3, <3>4
    <2>4. CASE req[s].at = "put_matrix" /\ req[s].role # R
      <3>1. req'[s] = req[s]
        BY <1>4, <2>1, <2>4 DEF MeetMatrix
      <3>2. req[s].kept = matrix[req[s].role] \ req[s].old
        BY <2>4 DEF AskedInv, HalvesInv
      <3>3. matrix'[req[s].role] = matrix[req[s].role]
        <4>1. req[s] \in PutMatrix
          BY <1>1, <2>4, Kinds
        <4> QED BY <1>4, <2>4, <4>1 DEF PutMatrix
      <3> QED BY <3>1, <3>2, <3>3
    <2>5. CASE req[s].at \notin {"fill", "set", "put_matrix"}
      BY <1>4, <1>6, <2>1, <2>5 DEF MeetMatrix
    <2> QED BY <2>2, <2>3, <2>4, <2>5
  <1> QED BY <1>5, <1>6 DEF HalvesInv

\* rbac.controller.ts, updateMatrix: for any number of requests, processes and codes,
\* however replacements overlap and fail, a role has exactly the codes that one asked
\* for and that none which began after its commit has done without.
THEOREM RowsWereAlwaysAskedFor == Spec => []RowsWereAskedFor
  <1>1. Init => AskedInv
    <2>1. Init => RowsWereAskedFor /\ HalvesInv(req, matrix)
      BY DEF Init, RowsWereAskedFor, HalvesInv, Idle
    <2> QED BY <2>1, TypeInit DEF AskedInv
  <1>2. AskedInv /\ [Next]_vars => AskedInv'
    <2>1. ASSUME AskedInv, UNCHANGED vars PROVE AskedInv'
      BY <2>1 DEF vars, AskedInv, TypeOK, RowsWereAskedFor, HalvesInv
    <2>2. ASSUME AskedInv, Next PROVE AskedInv'
      <3>1. TypeOK'
        BY <2>2, TypeStep DEF AskedInv
      <3>2. ASSUME NEW r \in Requests, NEW codes \in Matrices, CommitMatrix(r, codes)
            PROVE  AskedInv'
        BY <2>2, <3>1, <3>2, MeetingKeepsHalves DEF AskedInv, HalvesInv
      <3>3. ASSUME NEW r \in Requests, NEW p \in Processes, NEW R \in Roles, DeleteMatrix(r, p, R)
            PROVE  AskedInv'
        <4> DEFINE next == [at |-> "put_matrix", proc |-> p, role |-> R, age |-> 0, kept |-> {},
                            old |-> asked[R]]
        <4>1. Goto(r, next) /\ UNCHANGED <<matrix, asked>> /\ asked[R] = matrix[R]
          BY <2>2, <3>3 DEF DeleteMatrix, tables, history, AskedInv, RowsWereAskedFor
        <4>2. next.at = "put_matrix" /\ next.kept = matrix[next.role] \ next.old
          BY <4>1
        <4> HIDE DEF next
        <4>3. \A s \in Requests : req'[s] = IF s = r THEN next ELSE req[s]
          BY <2>2, <4>1 DEF Goto, AskedInv, TypeOK
        <4> QED BY <2>2, <3>1, <4>1, <4>2, <4>3 DEF AskedInv, RowsWereAskedFor, HalvesInv
      <3>4. CASE ~ (\/ \E r \in Requests, p \in Processes, R \in Roles : DeleteMatrix(r, p, R)
                    \/ \E r \in Requests, codes \in Matrices : CommitMatrix(r, codes))
        <4>1. NoneBegun(req, req') /\ UNCHANGED <<matrix, asked>>
          BY <2>2, <3>4, OthersBeginNone DEF AskedInv
        <4> QED BY <2>2, <3>1, <4>1 DEF AskedInv, RowsWereAskedFor, HalvesInv, NoneBegun
      <3> QED BY <3>2, <3>3, <3>4
    <2> QED BY <2>1, <2>2
  <1>3. AskedInv => RowsWereAskedFor
    BY DEF AskedInv
  <1> QED BY <1>1, <1>2, <1>3, PTL DEF Spec

\* team.service.ts, setMemberPermissions: an override that is about to be stored
\* differs from what the role granted within the last RoleWindow.
THEOREM OverridesAlwaysDiffer == Spec => []OverridesDiffer
  <1>1. ASSUME IInv
        PROVE  OverridesDiffer
    <2> SUFFICES ASSUME NEW r \in Requests, req[r].at = "put_marks", NEW c \in Codes, req[r].list[c] # "none"
                 PROVE  roleAge[req[r].role][c][(req[r].list[c] = "revoke")] <= RoleWindow
      BY DEF OverridesDiffer
    <2> DEFINE q == req[r]
               b == (q.list[c] = "revoke")
    <2>1. q \in PutMarks /\ roleAge \in RoleAges
      <3>1. q \in SlotState
        BY <1>1 DEF IInv, TypeOK, SlotState
      <3> QED BY <1>1, <3>1, Kinds, AgesAreAges DEF IInv, TypeOK
    <2>2. roleAge[q.role][c][b] <= Lag + q.age
      BY <1>1 DEF IInv, RequestInv, SlotInv, ListInv
    <2>3. b \in BOOLEAN
      OBVIOUS
    <2> HIDE DEF b
    <2>4. q.role \in Roles /\ q.age \in 0 .. Latency /\ TTL \in Nat \ {0} /\ Latency \in Nat
      BY <2>1, ConfigAssumption DEF PutMarks
    <2>5. roleAge[q.role][c][b] \in Nat
      BY <2>1, <2>3, <2>4 DEF RoleAges
    <2>6. roleAge[q.role][c][b] <= RoleWindow
      BY <2>2, <2>4, <2>5 DEF Lag, RoleWindow
    <2> QED BY <2>6 DEF b
  <1> QED BY <1>1, Invariance, PTL

-----------------------------------------------------------------------------
(* PART TWO: offices *)

\* The rows of a narrowed condition are the caller's.
LEMMA NarrowedMatches ==
    ASSUME NEW table, NEW args \in Args, NEW t,
           NEW i \in Matching(table, Narrowed(args.where, t))
    PROVE  i \in DOMAIN table /\ table[i].tenant = t
  <1>1. args.where \in [ids: SUBSET Ids, tenants: SUBSET Tenants]
    BY DEF Args
  <1>2. Narrowed(args.where, t).tenants = {t}
    BY <1>1 DEF Narrowed
  <1> QED BY <1>2 DEF Matching

\* Rows to be created get the caller's office, whatever they carried.
LEMMA StampedRows ==
    ASSUME NEW args \in Args, NEW t
    PROVE  /\ DOMAIN Stamped(args.create, t) = DOMAIN args.create
           /\ \A i \in DOMAIN args.create : Stamped(args.create, t)[i].tenant = t
  <1>1. \A i \in DOMAIN args.create : args.create[i] \in Data
    BY DEF Args
  <1>2. \A i \in DOMAIN args.create : [args.create[i] EXCEPT !.tenant = t].tenant = t
    BY <1>1 DEF Data
  <1> QED BY <1>2 DEF Stamped

\* prisma.service.ts, WHERE_SCOPED_OPS: no statement reads, counts, updates or
\* deletes a row of another office, whatever condition the caller wrote, be it that
\* it names the row's key or its office.
THEOREM ReadsStayInside ==
    ASSUME NEW op \in Ops, NEW table \in Tables, NEW args \in Args,
           NEW t \in Tenants \cup {NoTenant}
    PROVE  RowsSeen(op, table, args, t) \cap Foreign(table, t) = {}
  <1> SUFFICES ASSUME NEW i \in RowsSeen(op, table, args, t)
               PROVE  i \notin Foreign(table, t)
    OBVIOUS
  <1>1. op \notin CreateOps /\ i \in Matching(table, Rewritten(op, args, t).where)
    BY DEF RowsSeen, Touched
  <1>2. Rewritten(op, args, t).where = Narrowed(args.where, t)
    BY <1>1 DEF Rewritten, Ops
  <1>3. table[i].tenant = t
    BY <1>1, <1>2, NarrowedMatches
  <1> QED BY <1>3 DEF Foreign

\* "Fail closed": without a context nothing is read and nothing changes.
THEOREM FailsClosed ==
    ASSUME NEW op \in Ops, NEW table \in Tables, NEW args \in Args
    PROVE  /\ RowsSeen(op, table, args, NoTenant) = {}
           /\ TableAfter(op, table, args, NoTenant) = table
  BY DEF RowsSeen, TableAfter, Refused

\* What it takes for a table to differ from another only inside an office.
SameOutside(after, table, t) ==
    /\ Foreign(after, t) = Foreign(table, t)
    /\ \A i \in Foreign(table, t) : after[i] = table[i]

LEMMA UpdatesStayInside ==
    ASSUME NEW table \in Tables, NEW args \in Args, NEW t \in Tenants,
           args.data.tenant \in {NoTenant, t},
           NEW next, next.where = Narrowed(args.where, t), next.data = args.data
    PROVE  SameOutside(Updated(table, next), table, t)
  <1> DEFINE after == Updated(table, next)
  <1>1. DOMAIN after = DOMAIN table
    BY DEF Updated
  <1>2. ASSUME NEW i \in DOMAIN table, i \in Matching(table, next.where)
        PROVE  table[i].tenant = t /\ after[i].tenant = t
    <2>1. table[i].tenant = t
      BY <1>2, NarrowedMatches
    <2>2. after[i] = Written(table[i], args.data)
      BY <1>2 DEF Updated
    <2> QED BY <2>1, <2>2 DEF Written
  <1>3. ASSUME NEW i \in DOMAIN table, i \notin Matching(table, next.where)
        PROVE  after[i] = table[i]
    BY <1>3 DEF Updated
  <1> HIDE DEF after
  <1>4. Foreign(after, t) = Foreign(table, t)
    BY <1>1, <1>2, <1>3 DEF Foreign
  <1>5. \A i \in Foreign(table, t) : after[i] = table[i]
    BY <1>1, <1>2, <1>3 DEF Foreign
  <1> QED BY <1>4, <1>5 DEF SameOutside, after

LEMMA DeletionsStayInside ==
    ASSUME NEW table \in Tables, NEW args \in Args, NEW t \in Tenants,
           NEW next, next.where = Narrowed(args.where, t)
    PROVE  SameOutside(Deleted(table, next), table, t)
  <1> DEFINE after == Deleted(table, next)
  <1>1. \A i \in Matching(table, next.where) : table[i].tenant = t
    BY NarrowedMatches
  <1>2. DOMAIN after = DOMAIN table \ Matching(table, next.where)
    BY DEF Deleted
  <1>3. \A i \in DOMAIN after : after[i] = table[i]
    BY DEF Deleted
  <1> HIDE DEF after
  <1> QED BY <1>1, <1>2, <1>3 DEF SameOutside, Foreign, after

LEMMA CreationsStayInside ==
    ASSUME NEW table \in Tables, NEW args \in Args, NEW t \in Tenants,
           NEW next, next.create = Stamped(args.create, t)
    PROVE  SameOutside(Created(table, next), table, t)
  <1> DEFINE after == Created(table, next)
  <1>1. DOMAIN after = DOMAIN table \cup DOMAIN args.create
    BY StampedRows DEF Created
  <1>2. \A i \in DOMAIN table : after[i] = table[i]
    BY <1>1 DEF Created
  <1>3. \A i \in DOMAIN args.create \ DOMAIN table : after[i].tenant = t
    BY <1>1, StampedRows DEF Created
  <1> HIDE DEF after
  <1> QED BY <1>1, <1>2, <1>3 DEF SameOutside, Foreign, after

\* A statement leaves the rows of other offices as they are and adds none to them,
\* whatever tenantId the rows to be created carry - as long as the data of an
\* update does not name another office, for that is passed on.
THEOREM WritesStayInside ==
    ASSUME NEW op \in Ops, NEW table \in Tables, NEW args \in Args, NEW t \in Tenants,
           NoTenant \notin Tenants, args.data.tenant \in {NoTenant, t}
    PROVE  SameOutside(TableAfter(op, table, args, t), table, t)
  <1> DEFINE next == Rewritten(op, args, t)
  <1>1. TableAfter(op, table, args, t) = Executed(op, table, next)
    BY DEF TableAfter, Refused
  <1>2. next.data = args.data
    BY DEF Rewritten
  <1>3. op \in WHERE_SCOPED_OPS \cup {"upsert"} => next.where = Narrowed(args.where, t)
    BY DEF Rewritten
  <1>4. op \in CreateOps \cup {"upsert"} => next.create = Stamped(args.create, t)
    BY DEF Rewritten
  <1> HIDE DEF next
  <1>5. CASE op \in {"update", "updateMany"}
    <2>1. Executed(op, table, next) = Updated(table, next)
      BY <1>5 DEF Executed, CreateOps
    <2>2. next.where = Narrowed(args.where, t)
      BY <1>3, <1>5 DEF WHERE_SCOPED_OPS
    <2> QED BY <1>1, <1>2, <2>1, <2>2, UpdatesStayInside
  <1>6. CASE op \in {"delete", "deleteMany"}
    <2>1. Executed(op, table, next) = Deleted(table, next)
      BY <1>6 DEF Executed, CreateOps
    <2>2. next.where = Narrowed(args.where, t)
      BY <1>3, <1>6 DEF WHERE_SCOPED_OPS
    <2> QED BY <1>1, <2>1, <2>2, DeletionsStayInside
  <1>7. CASE op \in CreateOps
    <2>1. Executed(op, table, next) = Created(table, next)
      BY <1>7 DEF Executed, CreateOps
    <2> QED BY <1>1, <1>4, <1>7, <2>1, CreationsStayInside
  <1>8. CASE op = "upsert"
    <2>1. SameOutside(Updated(table, next), table, t)
      BY <1>2, <1>3, <1>8, UpdatesStayInside
    <2>2. SameOutside(Created(table, next), table, t)
      BY <1>4, <1>8, CreationsStayInside
    <2>3. Executed(op, table, next) = Updated(table, next) \/ Executed(op, table, next) = Created(table, next)
      BY <1>8 DEF Executed, CreateOps
    <2> QED BY <1>1, <2>1, <2>2, <2>3
  <1>9. CASE op \notin {"update", "updateMany", "delete", "deleteMany", "upsert"} \cup CreateOps
    <2>1. Executed(op, table, next) = table
      BY <1>9 DEF Executed
    <2> QED BY <1>1, <2>1 DEF SameOutside
  <1> QED BY <1>5, <1>6, <1>7, <1>8, <1>9

-----------------------------------------------------------------------------
(* Tables stay tables *)

LEMMA TableShape ==
    ASSUME NEW table
    PROVE  table \in Tables <=> /\ DOMAIN table \subseteq Ids
                                /\ table \in [DOMAIN table -> Row]
  <1>1. ASSUME table \in Tables
        PROVE  DOMAIN table \subseteq Ids /\ table \in [DOMAIN table -> Row]
    <2>1. PICK ids \in SUBSET Ids : table \in [ids -> Row]
      BY <1>1 DEF Tables
    <2> QED BY <2>1
  <1>2. ASSUME DOMAIN table \subseteq Ids, table \in [DOMAIN table -> Row]
        PROVE  table \in Tables
    BY <1>2 DEF Tables
  <1> QED BY <1>1, <1>2

LEMMA CreatedShape ==
    ASSUME NEW args \in Args, NEW t \in Tenants
    PROVE  /\ DOMAIN args.create \subseteq Ids
           /\ \A i \in DOMAIN args.create : Stamped(args.create, t)[i] \in Row
  <1>1. PICK ids \in SUBSET Ids : args.create \in [ids -> Data]
    BY DEF Args
  <1>2. \A i \in ids : args.create[i].value \in Values /\ args.create[i] \in Data
    BY <1>1 DEF Data
  <1>3. \A i \in ids : [args.create[i] EXCEPT !.tenant = t] \in Row
    BY <1>2 DEF Data, Row
  <1> QED BY <1>1, <1>3 DEF Stamped

\* A statement leaves a table with rows of the right form, each of one office.
LEMMA StatementKeepsTables ==
    ASSUME NEW op \in Ops, NEW table \in Tables, NEW args \in Args,
           NEW t \in Tenants \cup {NoTenant}
    PROVE  TableAfter(op, table, args, t) \in Tables
  <1> DEFINE next == Rewritten(op, args, t)
             after == Executed(op, table, next)
  <1>0. CASE t = NoTenant
    BY <1>0 DEF TableAfter, Refused
  <1> SUFFICES ASSUME t # NoTenant PROVE after \in Tables
    BY <1>0 DEF TableAfter, Refused
  <1>1. DOMAIN table \subseteq Ids /\ table \in [DOMAIN table -> Row]
    BY TableShape
  <1>2. next.data \in Data
    BY DEF Rewritten, Args
  <1>3. op \in CreateOps \cup {"upsert"} => next.create = Stamped(args.create, t)
    BY DEF Rewritten
  <1> HIDE DEF next
  <1>4. Updated(table, next) \in Tables
    <2>1. ASSUME NEW i \in DOMAIN table PROVE Written(table[i], next.data) \in Row
      BY <1>1, <1>2 DEF Written, Row, Data
    <2>2. DOMAIN Updated(table, next) = DOMAIN table
      BY DEF Updated
    <2>3. Updated(table, next) \in [DOMAIN table -> Row]
      BY <1>1, <2>1 DEF Updated
    <2> QED BY <1>1, <2>2, <2>3, TableShape
  <1>5. Deleted(table, next) \in Tables
    <2>1. DOMAIN Deleted(table, next) \subseteq Ids
      BY <1>1 DEF Deleted
    <2>2. Deleted(table, next) \in [DOMAIN Deleted(table, next) -> Row]
      BY <1>1 DEF Deleted
    <2> QED BY <2>1, <2>2, TableShape
  <1>6. ASSUME op \in CreateOps \cup {"upsert"} PROVE Created(table, next) \in Tables
    <2>1. DOMAIN next.create = DOMAIN args.create
      BY <1>3, <1>6, StampedRows
    <2>2. \A i \in DOMAIN next.create : next.create[i] \in Row /\ i \in Ids
      BY <1>3, <1>6, <2>1, CreatedShape
    <2>3. DOMAIN Created(table, next) \subseteq Ids
      BY <1>1, <2>2 DEF Created
    <2>4. Created(table, next) \in [DOMAIN Created(table, next) -> Row]
      BY <1>1, <2>2 DEF Created
    <2> QED BY <2>3, <2>4, TableShape
  <1>7. after \in {table, Updated(table, next), Deleted(table, next)}
          \/ (op \in CreateOps \cup {"upsert"} /\ after = Created(table, next))
    BY DEF Executed
  <1> QED BY <1>4, <1>5, <1>6, <1>7

LEMMA ArgsAreArgs ==
    ASSUME NEW op \in Ops, NEW args \in ArgsOf(op)
    PROVE  args \in Args /\ args.data.tenant = NoTenant
  <1>1. OneRow \subseteq UNION {[ids -> Data] : ids \in SUBSET Ids}
    BY DEF OneRow
  <1>2. NoRows \in UNION {[ids -> Data] : ids \in SUBSET Ids}
    <2>1. NoRows \in [{} -> Data] /\ {} \in SUBSET Ids
      BY DEF NoRows
    <2> QED BY <2>1
  <1>3. Wheres \cup {[ids |-> {}, tenants |-> {}]} \subseteq [ids: SUBSET Ids, tenants: SUBSET Tenants]
    BY DEF Wheres
  <1>4. [tenant: {NoTenant}, value: Values] \subseteq Data
    BY DEF Data
  <1> QED BY <1>1, <1>2, <1>3, <1>4 DEF ArgsOf, Args

-----------------------------------------------------------------------------
(* The requests *)

\* A raw statement that finds an invitation by its id finds that of the office it
\* was read in: no row of an invitation is deleted or moved.
FoundInvitation(q) ==
    \A f \in q.found : f.id \in DOMAIN invitations /\ invitations[f.id].tenant = f.tenant

\* What a request with a context has found, and been given, is its office's.
FoundInside(q) ==
    /\ q.tenant # NoTenant => \A f \in q.found : f.tenant = q.tenant
    /\ q.at = "revoke" => q.tenant # NoTenant
    /\ q.at = "accept" => q.tenant = NoTenant

CallInv == \A r \in Calls : FoundInvitation(call[r]) /\ FoundInside(call[r])

TenantInv == TenantsAssumption /\ TenantTypeOK /\ CallInv /\ AnswersStayInside

LEMMA AddedShape ==
    ASSUME TenantsAssumption,
           NEW table \in Tables, NEW i \in Ids, NEW t \in Tenants, NEW e \in Emails
    PROVE  Added(table, i, t, e) \in Tables
  <1>1. DOMAIN table \subseteq Ids /\ table \in [DOMAIN table -> Row]
    BY TableShape
  <1>2. [tenant |-> t, value |-> [email |-> e, done |-> FALSE]] \in Row
    BY DEF TenantsAssumption, Row
  <1>3. DOMAIN Added(table, i, t, e) = DOMAIN table \cup {i}
    BY DEF Added
  <1>4. Added(table, i, t, e) \in [DOMAIN table \cup {i} -> Row]
    BY <1>1, <1>2 DEF Added
  <1> QED BY <1>1, <1>3, <1>4, TableShape

LEMMA DoneShape ==
    ASSUME TenantsAssumption, NEW table \in Tables, NEW i \in DOMAIN table
    PROVE  [table EXCEPT ![i].value.done = TRUE] \in Tables
  <1> DEFINE after == [table EXCEPT ![i].value.done = TRUE]
  <1>1. DOMAIN table \subseteq Ids /\ table \in [DOMAIN table -> Row]
    BY TableShape
  <1>2. table[i] \in [tenant: Tenants, value: [email: Emails, done: BOOLEAN]]
    BY <1>1 DEF TenantsAssumption, Row
  <1>3. [table[i] EXCEPT !.value.done = TRUE] \in Row
    BY <1>2 DEF TenantsAssumption, Row
  <1>4. after = [table EXCEPT ![i] = [table[i] EXCEPT !.value.done = TRUE]]
    OBVIOUS
  <1>5. DOMAIN after = DOMAIN table
    OBVIOUS
  <1>6. after \in [DOMAIN table -> Row]
    BY <1>1, <1>3, <1>4
  <1> QED BY <1>1, <1>5, <1>6, TableShape

LEMMA DoneKeepsTenants ==
    ASSUME TenantsAssumption, NEW table \in Tables, NEW i \in DOMAIN table
    PROVE  /\ DOMAIN [table EXCEPT ![i].value.done = TRUE] = DOMAIN table
           /\ \A j \in DOMAIN table : [table EXCEPT ![i].value.done = TRUE][j].tenant = table[j].tenant
           /\ \A j \in DOMAIN table \ {i} : [table EXCEPT ![i].value.done = TRUE][j] = table[j]
  <1>1. table \in [DOMAIN table -> Row]
    BY TableShape
  <1> QED BY <1>1 DEF TenantsAssumption, Row

LEMMA SnapshotShape ==
    ASSUME TenantsAssumption, TenantTypeOK, NEW j \in DOMAIN invitations
    PROVE  Snapshot(j) \in Found
  <1>1. DOMAIN invitations \subseteq Ids /\ invitations \in [DOMAIN invitations -> Row]
    BY TableShape DEF TenantTypeOK
  <1>2. invitations[j] \in [tenant: Tenants, value: [email: Emails, done: BOOLEAN]]
    BY <1>1 DEF TenantsAssumption, Row
  <1> QED BY <1>1, <1>2 DEF Snapshot, Found

LEMMA TenantInitHolds ==
    ASSUME TenantsAssumption, TenantInit
    PROVE  TenantInv
  <1>1. NoRows \in Tables
    <2>1. DOMAIN NoRows = {} /\ NoRows \in [{} -> Row]
      BY DEF NoRows
    <2> QED BY <2>1, TableShape
  <1>2. TenantTypeOK
    BY <1>1 DEF TenantInit, TenantTypeOK, NoCall, Call
  <1>3. CallInv
    BY DEF TenantInit, NoCall, CallInv, FoundInvitation, FoundInside
  <1>4. AnswersStayInside
    BY DEF TenantInit, AnswersStayInside
  <1> QED BY <1>2, <1>3, <1>4 DEF TenantInv

\* A statement on the scoped client.
LEMMA StatementIsScoped ==
    ASSUME TenantInv, NEW r \in Calls, Statement(r)
    PROVE  /\ users' \in Tables
           /\ SameOutside(users', users, call[r].tenant) \/ users' = users
           /\ seen' \in [Calls -> SUBSET Tenants]
           /\ \A q \in Calls : seen'[q] \subseteq {call[q].tenant}
  <1> DEFINE t == call[r].tenant
  <1>9. TenantsAssumption
    BY DEF TenantInv
  <1>0. PICK op \in Ops : \E args \in ArgsOf(op) :
           /\ users' = TableAfter(op, users, args, t)
           /\ seen' = [seen EXCEPT ![r] = @ \cup {users[i].tenant : i \in RowsSeen(op, users, args, t)}]
    BY DEF Statement
  <1>1. PICK args \in ArgsOf(op) :
           /\ users' = TableAfter(op, users, args, t)
           /\ seen' = [seen EXCEPT ![r] = @ \cup {users[i].tenant : i \in RowsSeen(op, users, args, t)}]
    BY <1>0
  <1>2. args \in Args /\ args.data.tenant = NoTenant
    BY ArgsAreArgs
  <1>3. users \in Tables /\ t \in Tenants \cup {NoTenant} /\ seen \in [Calls -> SUBSET Tenants]
    BY DEF TenantInv, TenantTypeOK, Call
  <1>4. users' \in Tables
    BY <1>1, <1>2, <1>3, StatementKeepsTables
  <1>5. SameOutside(users', users, t) \/ users' = users
    <2>1. CASE t = NoTenant
      BY <1>1, <1>2, <1>3, <2>1, FailsClosed
    <2>2. CASE t # NoTenant
      BY <1>1, <1>2, <1>3, <2>2, <1>9, WritesStayInside DEF TenantsAssumption
    <2> QED BY <2>1, <2>2
  <1>6. \A i \in RowsSeen(op, users, args, t) : users[i].tenant = t /\ t \in Tenants
    <2> SUFFICES ASSUME NEW i \in RowsSeen(op, users, args, t)
                 PROVE  users[i].tenant = t /\ t \in Tenants
      OBVIOUS
    <2>1. i \notin Foreign(users, t)
      BY <1>2, <1>3, ReadsStayInside
    <2>2. t # NoTenant /\ i \in DOMAIN users
      BY DEF RowsSeen, Refused, Touched, Matching
    <2> QED BY <1>3, <2>1, <2>2 DEF Foreign
  <1>7. seen' \in [Calls -> SUBSET Tenants]
    BY <1>1, <1>3, <1>6
  <1>8. \A q \in Calls : seen'[q] \subseteq {call[q].tenant}
    BY <1>1, <1>3, <1>6 DEF TenantInv, AnswersStayInside
  <1> QED BY <1>4, <1>5, <1>7, <1>8

\* Outside an office, a table that differs only inside it is the same.
LEMMA OutsideIsTheSame ==
    ASSUME NEW after, NEW table, NEW t, SameOutside(after, table, t),
           NEW u, u # t
    PROVE  RowsOf(after, u) = RowsOf(table, u)
  <1>1. {j \in DOMAIN after : after[j].tenant = u} \subseteq Foreign(after, t)
    BY DEF Foreign
  <1>2. {j \in DOMAIN table : table[j].tenant = u} \subseteq Foreign(table, t)
    BY DEF Foreign
  <1>3. {j \in DOMAIN after : after[j].tenant = u} = {j \in DOMAIN table : table[j].tenant = u}
    BY <1>1, <1>2 DEF SameOutside, Foreign
  <1>4. \A j \in {k \in DOMAIN table : table[k].tenant = u} : after[j] = table[j]
    BY <1>2 DEF SameOutside
  <1> QED BY <1>3, <1>4 DEF RowsOf

\* What a step of r leaves alone.
Isolated(r) ==
    \A t \in Tenants \ OfficesOf(call[r]) :
        RowsOf(users', t) = RowsOf(users, t) /\ RowsOf(invitations', t) = RowsOf(invitations, t)

LEMMA AddedIsInside ==
    ASSUME NEW table, NEW i, i \notin DOMAIN table, NEW t, NEW e
    PROVE  SameOutside(Added(table, i, t, e), table, t)
  <1>1. DOMAIN Added(table, i, t, e) = DOMAIN table \cup {i}
    BY DEF Added
  <1>2. Added(table, i, t, e)[i].tenant = t
    BY DEF Added
  <1>3. \A j \in DOMAIN table : Added(table, i, t, e)[j] = table[j]
    BY DEF Added
  <1> QED BY <1>1, <1>2, <1>3 DEF SameOutside, Foreign

LEMMA DoneIsInside ==
    ASSUME TenantsAssumption, NEW table \in Tables, NEW i \in DOMAIN table
    PROVE  SameOutside([table EXCEPT ![i].value.done = TRUE], table, table[i].tenant)
  <1> DEFINE after == [table EXCEPT ![i].value.done = TRUE]
  <1>1. /\ DOMAIN after = DOMAIN table
        /\ \A j \in DOMAIN table : after[j].tenant = table[j].tenant
        /\ \A j \in DOMAIN table \ {i} : after[j] = table[j]
    BY DoneKeepsTenants
  <1> HIDE DEF after
  <1>2. SameOutside(after, table, table[i].tenant)
    BY <1>1 DEF SameOutside, Foreign
  <1> QED BY <1>2 DEF after

\* The requests keep what is known of them if invitations only grow or change in
\* place, and only r changes, to a request of which the same is known.
LEMMA CallsStayRight ==
    ASSUME TenantInv, NEW r \in Calls, NEW q \in Call, call' = [call EXCEPT ![r] = q],
           DOMAIN invitations \subseteq DOMAIN invitations',
           \A j \in DOMAIN invitations : invitations'[j].tenant = invitations[j].tenant,
           FoundInvitation(q), FoundInside(q)
    PROVE  call' \in [Calls -> Call] /\ CallInv'
  <1>1. call \in [Calls -> Call]
    BY DEF TenantInv, TenantTypeOK
  <1>2. ASSUME NEW p \in Calls
        PROVE  (FoundInvitation(call[p]) /\ FoundInside(call[p]))'
    <2>1. call'[p] \in {q, call[p]}
      BY <1>1
    <2>2. FoundInvitation(call'[p]) /\ FoundInside(call'[p])
      BY <2>1 DEF TenantInv, CallInv
    <2> QED BY <2>2 DEF FoundInvitation, FoundInside
  <1> QED BY <1>1, <1>2 DEF CallInv

\* The invariant is kept, and isolation holds, in each step.
LEMMA TenantStepIsGood ==
    ASSUME TenantInv, NEW r \in Calls, TenantStep(r)
    PROVE  TenantInv' /\ Isolated(r)
  <1>0. TenantsAssumption
    BY DEF TenantInv
  <1>1. /\ users \in Tables /\ invitations \in Tables
        /\ call \in [Calls -> Call] /\ seen \in [Calls -> SUBSET Tenants]
        /\ call[r] \in Call
        /\ FoundInvitation(call[r]) /\ FoundInside(call[r])
    BY DEF TenantInv, TenantTypeOK, CallInv
  <1>2. ASSUME NEW t \in Tenants \cup {NoTenant}, Enter(r, t)
        PROVE  TenantInv' /\ Isolated(r)
    <2> DEFINE q == [at |-> "handler", tenant |-> t, found |-> {}]
    <2>1. q \in Call /\ FoundInvitation(q) /\ FoundInside(q)
      BY DEF Call, FoundInvitation, FoundInside
    <2>2. call' \in [Calls -> Call] /\ CallInv'
      BY <1>2, <2>1, CallsStayRight DEF Enter
    <2>3. TenantTypeOK'
      BY <1>1, <1>2, <2>2 DEF Enter, TenantTypeOK
    <2>4. AnswersStayInside'
      BY <1>1, <1>2 DEF Enter, TenantInv, AnswersStayInside
    <2> QED BY <1>2, <2>2, <2>3, <2>4 DEF Enter, TenantInv, Isolated
  <1>3. ASSUME Leave(r)
        PROVE  TenantInv' /\ Isolated(r)
    <2>1. NoCall \in Call /\ FoundInvitation(NoCall) /\ FoundInside(NoCall)
      BY DEF NoCall, Call, FoundInvitation, FoundInside
    <2>2. call' \in [Calls -> Call] /\ CallInv'
      BY <1>3, <2>1, CallsStayRight DEF Leave
    <2>3. TenantTypeOK'
      BY <1>1, <1>3, <2>2 DEF Leave, TenantTypeOK
    <2>4. AnswersStayInside'
      BY <1>1, <1>3 DEF Leave, TenantInv, AnswersStayInside
    <2> QED BY <1>3, <2>2, <2>3, <2>4 DEF Leave, TenantInv, Isolated
  <1>4. ASSUME Statement(r)
        PROVE  TenantInv' /\ Isolated(r)
    <2>1. /\ users' \in Tables
          /\ SameOutside(users', users, call[r].tenant) \/ users' = users
          /\ seen' \in [Calls -> SUBSET Tenants]
          /\ \A q \in Calls : seen'[q] \subseteq {call[q].tenant}
      BY <1>4, StatementIsScoped
    <2>2. invitations' = invitations /\ call' = call /\ call[r].at = "handler"
      BY <1>4 DEF Statement
    <2>3. TenantInv'
      BY <1>1, <2>1, <2>2
      DEF TenantInv, TenantTypeOK, CallInv, FoundInvitation, FoundInside, AnswersStayInside
    <2>4. ASSUME NEW t \in Tenants \ OfficesOf(call[r])
          PROVE  RowsOf(users', t) = RowsOf(users, t)
      <3>1. t # call[r].tenant
        BY <1>0 DEF TenantsAssumption, OfficesOf
      <3> QED BY <2>1, <3>1, OutsideIsTheSame
    <2> QED BY <2>2, <2>3, <2>4 DEF Isolated
  <1>5. ASSUME NEW i \in Ids, NEW j \in Ids, NEW e \in Emails, Invite(r, i, j, e)
        PROVE  TenantInv' /\ Isolated(r)
    <2> DEFINE t == call[r].tenant
    <2>1. t \in Tenants /\ i \notin DOMAIN users /\ j \notin DOMAIN invitations
      BY <1>1, <1>5 DEF Invite, Call
    <2>2. /\ users' = Added(users, i, t, e) /\ invitations' = Added(invitations, j, t, e)
          /\ call' = call /\ seen' = seen
      BY <1>5 DEF Invite
    <2>3. users' \in Tables /\ invitations' \in Tables
      BY <1>0, <1>1, <2>1, <2>2, AddedShape
    <2>4. /\ DOMAIN invitations \subseteq DOMAIN invitations'
          /\ \A k \in DOMAIN invitations : invitations'[k] = invitations[k]
      BY <2>1, <2>2 DEF Added
    <2>5. TenantInv'
      BY <1>1, <2>2, <2>3, <2>4
      DEF TenantInv, TenantTypeOK, CallInv, FoundInvitation, FoundInside, AnswersStayInside
    <2>6. SameOutside(users', users, t) /\ SameOutside(invitations', invitations, t)
      BY <2>1, <2>2, AddedIsInside
    <2>7. Isolated(r)
      <3> SUFFICES ASSUME NEW u \in Tenants \ OfficesOf(call[r])
                   PROVE  /\ RowsOf(users', u) = RowsOf(users, u)
                          /\ RowsOf(invitations', u) = RowsOf(invitations, u)
        BY DEF Isolated
      <3>1. u # t
        BY <2>1, <1>0 DEF TenantsAssumption, OfficesOf
      <3> QED BY <2>6, <3>1, OutsideIsTheSame
    <2> QED BY <2>5, <2>7
  <1>6. ASSUME NEW j \in Ids, RevokeRead(r, j)
        PROVE  TenantInv' /\ Isolated(r)
    <2> DEFINE t == call[r].tenant
               q == [call[r] EXCEPT !.at = "revoke", !.found = {Snapshot(j)}]
    <2>1. t \in Tenants /\ j \in DOMAIN invitations /\ invitations[j].tenant = t
      BY <1>1, <1>6 DEF RevokeRead, Refused, Matching, Narrowed, OpenWith, Call
    <2>2. Snapshot(j) \in Found /\ Snapshot(j).tenant = t /\ Snapshot(j).id = j
      BY <2>1, SnapshotShape DEF TenantInv, Snapshot
    <2>3. q \in Call
      BY <1>1, <2>2 DEF Call
    <2>4. q.at = "revoke" /\ q.tenant = t /\ q.found = {Snapshot(j)}
      BY <1>1 DEF Call
    <2>5. FoundInvitation(q) /\ FoundInside(q)
      BY <2>1, <2>2, <2>4, <1>0 DEF TenantsAssumption, FoundInvitation, FoundInside
    <2>6. /\ call' = [call EXCEPT ![r] = q] /\ users' = users /\ invitations' = invitations
          /\ seen' = [seen EXCEPT ![r] = @ \cup {t}]
      BY <1>1, <1>6, <2>1 DEF RevokeRead
    <2> HIDE DEF q
    <2>7. call' \in [Calls -> Call] /\ CallInv'
      BY <2>3, <2>5, <2>6, CallsStayRight
    <2>8. TenantTypeOK'
      BY <1>1, <2>1, <2>6, <2>7 DEF TenantTypeOK
    <2>9. AnswersStayInside'
      BY <1>1, <2>4, <2>6 DEF TenantInv, AnswersStayInside
    <2> QED BY <2>6, <2>7, <2>8, <2>9 DEF TenantInv, Isolated
  <1>7. ASSUME NEW j \in Ids, AcceptRead(r, j)
        PROVE  TenantInv' /\ Isolated(r)
    <2> DEFINE q == [call[r] EXCEPT !.at = "accept", !.found = {Snapshot(j)}]
    <2>1. call[r].tenant = NoTenant /\ j \in DOMAIN invitations
      BY <1>7 DEF AcceptRead
    <2>2. Snapshot(j) \in Found /\ Snapshot(j).tenant = invitations[j].tenant /\ Snapshot(j).id = j
      BY <2>1, SnapshotShape DEF TenantInv, Snapshot
    <2>3. q \in Call
      BY <1>1, <2>2 DEF Call
    <2>4. q.at = "accept" /\ q.tenant = NoTenant /\ q.found = {Snapshot(j)}
      BY <1>1, <2>1 DEF Call
    <2>5. FoundInvitation(q) /\ FoundInside(q)
      BY <2>1, <2>2, <2>4 DEF FoundInvitation, FoundInside
    <2>6. /\ call' = [call EXCEPT ![r] = q] /\ users' = users /\ invitations' = invitations
          /\ seen' = seen
      BY <1>1, <1>7 DEF AcceptRead
    <2> HIDE DEF q
    <2>7. call' \in [Calls -> Call] /\ CallInv'
      BY <2>3, <2>5, <2>6, CallsStayRight
    <2>8. TenantTypeOK'
      BY <1>1, <2>6, <2>7 DEF TenantTypeOK
    <2>9. AnswersStayInside'
      BY <1>1, <2>1, <2>4, <2>6 DEF TenantInv, AnswersStayInside
    <2> QED BY <2>6, <2>7, <2>8, <2>9 DEF TenantInv, Isolated
  <1>8. ASSUME NEW f \in call[r].found, RevokeWrite(r, f) \/ AcceptWrite(r, f)
        PROVE  TenantInv' /\ Isolated(r)
    <2> DEFINE q == [call[r] EXCEPT !.at = "handler", !.found = {}]
    <2>1. f.id \in DOMAIN invitations /\ invitations[f.id].tenant = f.tenant
      BY <1>1 DEF FoundInvitation
    <2>2. f.tenant \in OfficesOf(call[r])
      BY <1>1 DEF FoundInside, OfficesOf
    <2>3. invitations' = [invitations EXCEPT ![f.id].value.done = TRUE]
      BY <1>8 DEF RevokeWrite, AcceptWrite, Ended
    <2>4. invitations' \in Tables /\ SameOutside(invitations', invitations, f.tenant)
      BY <1>0, <1>1, <2>1, <2>3, DoneShape, DoneIsInside
    <2>5. /\ DOMAIN invitations' = DOMAIN invitations
          /\ \A k \in DOMAIN invitations : invitations'[k].tenant = invitations[k].tenant
      BY <1>0, <1>1, <2>1, <2>3, DoneKeepsTenants
    <2>6. users' \in Tables /\ SameOutside(users', users, f.tenant)
      <3>1. CASE RevokeWrite(r, f)
        <4> DEFINE gone == Placeholders(call[r].tenant, f.email)
        <4>1. users' = [k \in DOMAIN users \ gone |-> users[k]] /\ call[r].tenant = f.tenant
          BY <1>1, <3>1 DEF RevokeWrite, FoundInside
        <4>2. \A k \in gone : users[k].tenant = f.tenant
          BY <4>1 DEF Placeholders
        <4>3. DOMAIN users \subseteq Ids /\ users \in [DOMAIN users -> Row]
          BY <1>1, TableShape
        <4> HIDE DEF gone
        <4>4. DOMAIN users' \subseteq Ids /\ users' \in [DOMAIN users' -> Row]
          BY <4>1, <4>3
        <4>5. SameOutside(users', users, f.tenant)
          BY <4>1, <4>2 DEF SameOutside, Foreign
        <4> QED BY <4>4, <4>5, TableShape
      <3>2. CASE AcceptWrite(r, f)
        <4>1. PICK i \in DOMAIN users :
                 users[i].tenant = f.tenant /\ users' = [users EXCEPT ![i].value.done = TRUE]
          BY <3>2 DEF AcceptWrite
        <4> QED BY <1>0, <1>1, <4>1, DoneShape, DoneIsInside
      <3> QED BY <1>8, <3>1, <3>2
    <2>7. q \in Call /\ q.tenant = call[r].tenant /\ FoundInvitation(q) /\ FoundInside(q)
      BY <1>1 DEF Call, FoundInvitation, FoundInside
    <2>8. call' = [call EXCEPT ![r] = q] /\ seen' = seen
      BY <1>1, <1>8 DEF RevokeWrite, AcceptWrite
    <2> HIDE DEF q
    <2>9. call' \in [Calls -> Call] /\ CallInv'
      BY <2>5, <2>7, <2>8, CallsStayRight
    <2>10. TenantTypeOK'
      BY <1>1, <2>4, <2>6, <2>8, <2>9 DEF TenantTypeOK
    <2>11. AnswersStayInside'
      BY <1>1, <2>7, <2>8 DEF TenantInv, AnswersStayInside
    <2>12. Isolated(r)
      <3> SUFFICES ASSUME NEW u \in Tenants \ OfficesOf(call[r])
                   PROVE  /\ RowsOf(users', u) = RowsOf(users, u)
                          /\ RowsOf(invitations', u) = RowsOf(invitations, u)
        BY DEF Isolated
      <3>1. u # f.tenant
        BY <2>2
      <3> QED BY <2>4, <2>6, <3>1, OutsideIsTheSame
    <2> QED BY <2>9, <2>10, <2>11, <2>12 DEF TenantInv
  <1> QED BY <1>2, <1>3, <1>4, <1>5, <1>6, <1>7, <1>8 DEF TenantStep

LEMMA TenantInvariance ==
    ASSUME TenantsAssumption
    PROVE  TenantSpec => []TenantInv
  <1>1. TenantInit => TenantInv
    BY TenantInitHolds
  <1>2. TenantInv /\ [TenantNext]_tenantVars => TenantInv'
    <2>1. ASSUME TenantInv, UNCHANGED tenantVars PROVE TenantInv'
      BY <2>1 DEF TenantInv, TenantTypeOK, Unique, CallInv, FoundInvitation, FoundInside, AnswersStayInside, tenantVars
    <2> QED BY <2>1, TenantStepIsGood DEF TenantNext
  <1> QED BY <1>1, <1>2, PTL DEF TenantSpec

\* Tables and requests stay well typed; every row belongs to one office.
THEOREM TenantTypeCorrect ==
    ASSUME TenantsAssumption
    PROVE  TenantSpec => []TenantTypeOK
  <1>1. TenantInv => TenantTypeOK
    BY DEF TenantInv
  <1> QED BY <1>1, TenantInvariance, PTL

\* prisma.service.ts, "fail closed": a request is given no row of another office by
\* the scoped client, over all the statements it makes, and none without a context.
THEOREM AnswersAlwaysStayInside ==
    ASSUME TenantsAssumption
    PROVE  TenantSpec => []AnswersStayInside
  <1>1. TenantInv => AnswersStayInside
    BY DEF TenantInv
  <1> QED BY <1>1, TenantInvariance, PTL

\* No step of a request changes a row of another office, be it by the scoped client,
\* or by the raw one in the transactions of invite, revokeInvitation and
\* acceptInvitation.
THEOREM OfficesStayIsolated ==
    ASSUME TenantsAssumption
    PROVE  TenantSpec => OfficesAreIsolated
  <1>1. TenantInv /\ [TenantNext]_tenantVars =>
          [\E r \in Calls : \A t \in Tenants \ OfficesOf(call[r]) :
             RowsOf(users', t) = RowsOf(users, t) /\ RowsOf(invitations', t) = RowsOf(invitations, t)]_tenantVars
    BY TenantStepIsGood DEF TenantNext, Isolated
  <1> QED BY <1>1, TenantInvariance, PTL DEF TenantSpec, OfficesAreIsolated
=============================================================================
