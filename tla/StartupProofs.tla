---------------------------- MODULE StartupProofs ----------------------------
(***************************************************************************)
(* Proofs about Startup, for every number of servers, requests and faults. *)
(* The demo rows are always a prefix of the seed, each of them once, and   *)
(* at most one server is in the middle of it.                              *)
(***************************************************************************)
EXTENDS Startup, TLAPS

Prefix(n) == \A i \in Items : copies[i] = IF i <= n THEN 1 ELSE 0

MigrateInv == \A s \in Servers : at[s] = "migrate" => pos[s] <= Len(Tables)

\* The database is not reached from outside before init.sql is through or has died.
ScriptInv ==
  db \in {"fresh", "init"} => /\ \A s \in Servers : at[s] = "off"
                              /\ visitors = {}
                              /\ Prefix(script)

PrefixInv == \E n \in 0..12 : Prefix(n)

\* A server past its first account has inserted all there is, and is the only one.
SeederInv ==
  /\ \A s \in Servers : at[s] = "seed" /\ pos[s] > 1 => Prefix(pos[s] - 1)
  /\ \A s, t \in Servers :
       at[s] = "seed" /\ pos[s] > 1 /\ at[t] = "seed" /\ pos[t] > 1 => s = t

\* A server past the seed has seen or made the administrator.
AdminInv ==
  /\ visitors # {} => copies[Admin] = 1
  /\ \A s \in Servers : at[s] \in {"ping", "bucket", "listen"} => copies[Admin] = 1

IInv == TypeOK /\ MigrateInv /\ ScriptInv /\ PrefixInv /\ SeederInv /\ AdminInv

(***************************************************************************)
(* The tables and the phases.                                              *)
(***************************************************************************)
LEMMA TableCount == Len(Tables) = 10
BY DEF Tables

\* Moving a server on keeps the types.
LEMMA GoToType ==
  ASSUME TypeOK, NEW s \in Servers, NEW phase \in Phases, NEW p \in Items, GoTo(s, phase, p)
  PROVE  /\ at' \in [Servers -> Phases]
         /\ pos' \in [Servers -> Items]
         /\ at'[s] = phase /\ pos'[s] = p
         /\ \A t \in Servers : t # s => at'[t] = at[t] /\ pos'[t] = pos[t]
BY DEF TypeOK, GoTo

\* So does a server that dies or stops.
LEMMA GoneType ==
  ASSUME TypeOK, NEW s \in Servers, Gone(s)
  PROVE  /\ at' \in [Servers -> Phases]
         /\ pos' \in [Servers -> Items]
         /\ serving' \in [Servers -> 0..MaxRequests]
         /\ at'[s] = "off"
         /\ \A t \in Servers : t # s => at'[t] = at[t] /\ pos'[t] = pos[t]
<1> USE DEF TypeOK, Gone
<1>1. at' \in [Servers -> Phases]
  BY DEF Phases
<1>2. pos' \in [Servers -> Items]
  BY DEF Items
<1>3. serving' \in [Servers -> 0..MaxRequests]
  BY StartupAssumption DEF StartupAssumption
<1>4. at'[s] = "off" /\ \A t \in Servers : t # s => at'[t] = at[t] /\ pos'[t] = pos[t]
  OBVIOUS
<1> QED BY <1>1, <1>2, <1>3, <1>4

\* Every row is referred to only by rows that are inserted after it.
LEMMA RefersBack == \A i \in Items : \A j \in RefersTo[i] : j \in Items /\ j < i
<1>1. /\ RefersTo[1] = {} /\ RefersTo[2] = {} /\ RefersTo[3] = {}
      /\ RefersTo[4] = {3} /\ RefersTo[5] = {3} /\ RefersTo[6] = {4, 5}
  BY DEF RefersTo
<1>2. /\ RefersTo[7] = {2, 3, 4} /\ RefersTo[8] = {2, 3, 7} /\ RefersTo[9] = {2, 4, 5}
  BY DEF RefersTo
<1>3. /\ RefersTo[10] = {4, 9} /\ RefersTo[11] = {2, 4, 6} /\ RefersTo[12] = {2, 4, 11}
  BY DEF RefersTo
<1>4. \A i \in Items : i = 1 \/ i = 2 \/ i = 3 \/ i = 4 \/ i = 5 \/ i = 6
                       \/ i = 7 \/ i = 8 \/ i = 9 \/ i = 10 \/ i = 11 \/ i = 12
  BY DEF Items
<1> QED BY <1>1, <1>2, <1>3, <1>4 DEF Items

\* Nothing runs and nothing is stored: the empty prefix.
THEOREM StartupInit == Init => IInv
<1> SUFFICES ASSUME Init PROVE IInv
  OBVIOUS
<1> USE StartupAssumption DEF StartupAssumption
<1>1. TypeOK
  <2>1. 0 \in 0..Len(Tables)
    BY TableCount
  <2>2. script \in Items \cup {0} /\ copies \in [Items -> Nat]
    BY DEF Init
  <2>3. at \in [Servers -> Phases] /\ pos \in [Servers -> Items]
    BY DEF Init, Items, Phases
  <2>4. serving \in [Servers -> 0..MaxRequests] /\ wanted \in [Servers -> BOOLEAN]
    BY DEF Init
  <2>5. db \in {"fresh", "init", "up", "down"} /\ visitors \subseteq Names
    BY DEF Init
  <2>6. tables \in 0..Len(Tables) /\ faults \in 0..MaxFaults
    BY <2>1 DEF Init
  <2>7. bucket \in BOOLEAN
    BY Zenon DEF Init
  <2> QED BY <2>2, <2>3, <2>4, <2>5, <2>6, <2>7 DEF TypeOK
<1>2. Prefix(0)
  BY DEF Init, Prefix, Items
<1>3. ScriptInv
  BY <1>2 DEF Init, ScriptInv
<1>4. PrefixInv
  BY <1>2 DEF PrefixInv
<1>5. SeederInv /\ AdminInv
  BY DEF Init, SeederInv, AdminInv
<1>6. MigrateInv
  BY DEF Init, MigrateInv
<1> QED BY <1>1, <1>3, <1>4, <1>5, <1>6 DEF IInv

(***************************************************************************)
(* Types.                                                                  *)
(***************************************************************************)
LEMMA ScriptNextType ==
  ASSUME TypeOK, ScriptInsert
  PROVE  /\ script' \in Items
         /\ script < script'
         /\ copies' \in [Items -> Nat]
         /\ copies' = [i \in Items |-> IF i \in script+1..script' THEN copies[i] + 1 ELSE copies[i]]
<1>1. script \in 0..12 /\ copies \in [Items -> Nat]
  BY DEF TypeOK, Items
<1>2. PICK last \in ScriptEnds :
        /\ script < last
        /\ script' = last
        /\ copies' = [i \in Items |-> IF i \in script+1..last THEN copies[i] + 1 ELSE copies[i]]
  BY DEF ScriptInsert
<1>3. last \in Items
  BY DEF ScriptEnds, Items
<1>4. \A i \in Items : copies[i] \in Nat /\ copies[i] + 1 \in Nat
  BY <1>1
<1>5. copies' \in [Items -> Nat]
  BY <1>2, <1>4
<1> QED BY <1>2, <1>3, <1>5

\* An insert of the seed adds one row and goes on to the next.
LEMMA CreateType ==
  ASSUME TypeOK, NEW s \in Servers, CreateSeed(s)
  PROVE  /\ copies' \in [Items -> Nat]
         /\ copies' = [copies EXCEPT ![pos[s]] = copies[pos[s]] + 1]
         /\ GoTo(s, "seed", pos[s] + 1)
         /\ pos[s] + 1 \in Items
<1>1. pos[s] \in Items /\ copies[pos[s]] \in Nat
  BY DEF TypeOK
<1>2. copies' = [copies EXCEPT ![pos[s]] = copies[pos[s]] + 1]
  BY DEF CreateSeed
<1>3. copies' \in [Items -> Nat]
  BY <1>1, <1>2 DEF TypeOK
<1>4. GoTo(s, "seed", pos[s] + 1) /\ pos[s] # 12
  BY <1>1 DEF CreateSeed, Unstorable
<1> QED BY <1>1, <1>2, <1>3, <1>4 DEF Items

\* A migration goes from table to table, and after the last one to the users.
LEMMA MigrateType ==
  ASSUME TypeOK, MigrateInv, NEW s \in Servers, MigrateTable(s)
  PROVE  /\ tables' \in 0..Len(Tables)
         /\ \/ /\ GoTo(s, "migrate", pos[s] + 1)
               /\ pos[s] + 1 \in Items
               /\ pos[s] + 1 <= Len(Tables)
            \/ GoTo(s, "count", 1)
<1>1. pos[s] \in 1..10 /\ tables \in 0..10
  BY TableCount DEF TypeOK, MigrateInv, MigrateTable, Items
<1>2. /\ tables' = IF tables < pos[s] THEN pos[s] ELSE tables
      /\ IF pos[s] < 10 THEN GoTo(s, "migrate", pos[s] + 1) ELSE GoTo(s, "count", 1)
  BY TableCount DEF MigrateTable, NextTable
<1> QED BY <1>1, <1>2, TableCount DEF Items

\* One server moves, and what it is answering stays as it is.
LEMMA MoveType ==
  ASSUME TypeOK, MigrateInv, NEW s \in Servers, NEW phase \in Phases, NEW p \in Items,
         GoTo(s, phase, p), phase = "migrate" => p <= Len(Tables)
  PROVE  /\ at' \in [Servers -> Phases] /\ pos' \in [Servers -> Items]
         /\ serving' \in [Servers -> 0..MaxRequests]
         /\ MigrateInv'
<1>1. serving' \in [Servers -> 0..MaxRequests]
  BY DEF GoTo, TypeOK
<1> QED BY <1>1, GoToType, TableCount DEF MigrateInv

\* Stopping keeps the types.
LEMMA LeaveType ==
  ASSUME TypeOK, MigrateInv, NEW s \in Servers, Gone(s)
  PROVE  /\ at' \in [Servers -> Phases] /\ pos' \in [Servers -> Items]
         /\ serving' \in [Servers -> 0..MaxRequests]
         /\ MigrateInv'
BY GoneType, TableCount DEF MigrateInv

\* Faults keep the types.
LEMMA FaultType ==
  ASSUME TypeOK, faults < MaxFaults, faults' = faults + 1
  PROVE  faults' \in 0..MaxFaults
BY StartupAssumption DEF TypeOK, StartupAssumption

\* What a server finds wanted is a flag.
LEMMA WantedType ==
  ASSUME TypeOK, NEW s \in Servers, NEW b \in BOOLEAN, wanted' = [wanted EXCEPT ![s] = b]
  PROVE  wanted' \in [Servers -> BOOLEAN]
BY DEF TypeOK

\* Where a server goes next is one of the phases.
LEMMA PhaseNames == /\ {"migrate", "count", "seed", "ping", "bucket", "listen", "drain", "off"}
                         \subseteq Phases
                    /\ 1 \in Items
BY DEF Phases, Starting, Items

\* Every step keeps the types, and the migration within its tables.
LEMMA StartupType == TypeOK /\ MigrateInv /\ [Next]_vars => TypeOK' /\ MigrateInv'
<1> SUFFICES ASSUME TypeOK, MigrateInv, [Next]_vars PROVE TypeOK' /\ MigrateInv'
  OBVIOUS
<1>p. 1 <= Len(Tables)
  BY TableCount
<1>t. /\ db \in {"fresh", "init", "up", "down"} /\ tables \in 0..Len(Tables)
      /\ script \in Items \cup {0} /\ copies \in [Items -> Nat] /\ visitors \subseteq Names
      /\ at \in [Servers -> Phases] /\ pos \in [Servers -> Items]
      /\ serving \in [Servers -> 0..MaxRequests] /\ wanted \in [Servers -> BOOLEAN]
      /\ bucket \in BOOLEAN /\ faults \in 0..MaxFaults
  BY DEF TypeOK
<1>1. CASE DbStep \/ DbCrash
  <2>1. /\ UNCHANGED <<visitors, at, pos, serving, wanted, bucket>>
    BY <1>1 DEF DbStep, DbFirstStart, ScriptTable, ScriptInsert, ScriptDone, DbCrash,
                DbRestart, process
  <2>2. db' \in {"fresh", "init", "up", "down"}
    BY <1>1, <1>t DEF DbStep, DbFirstStart, ScriptTable, ScriptInsert, ScriptDone, DbCrash,
                      DbRestart
  <2>3. tables' \in 0..Len(Tables)
    BY <1>1, <1>t, TableCount DEF DbStep, DbFirstStart, ScriptTable, ScriptInsert, ScriptDone,
                                  DbCrash, DbRestart
  <2>4. script' \in Items \cup {0} /\ copies' \in [Items -> Nat]
    <3>1. CASE ScriptInsert
      BY <3>1, ScriptNextType
    <3>2. CASE ~ScriptInsert
      BY <1>1, <3>2, <1>t DEF DbStep, DbFirstStart, ScriptTable, ScriptDone, DbCrash, DbRestart
    <3> QED BY <3>1, <3>2
  <2>5. faults' \in 0..MaxFaults
    <3>1. CASE DbCrash
      BY <3>1, FaultType DEF DbCrash
    <3>2. CASE ~DbCrash
      BY <1>1, <3>2, <1>t DEF DbStep, DbFirstStart, ScriptTable, ScriptInsert, ScriptDone,
                              DbRestart
    <3> QED BY <3>1, <3>2
  <2>6. MigrateInv'
    BY <2>1 DEF MigrateInv
  <2>7. bucket' \in BOOLEAN
    BY <2>1, <1>t, Zenon
  <2> QED BY <2>1, <2>2, <2>3, <2>4, <2>5, <2>6, <2>7, <1>t DEF TypeOK
<1>2. ASSUME NEW s \in Servers, Main(s)
      PROVE  TypeOK' /\ MigrateInv'
  <2>1. /\ UNCHANGED <<db, script, visitors, wanted, faults>>
        /\ bucket' \in BOOLEAN
    <3>1. UNCHANGED <<db, script, visitors, wanted, faults>>
      BY <1>2 DEF Main, Start, MigrateTable, CountUsers, CreateSeed, CreateRefused, PingRedis,
                  EnsureBucket, Drained, GraceOver, database
    <3>2. bucket' = bucket \/ bucket' = TRUE
      BY <1>2, Zenon DEF Main, Start, MigrateTable, CountUsers, CreateSeed, CreateRefused,
                  PingRedis, EnsureBucket, Drained, GraceOver
    <3> QED BY <3>1, <3>2, <1>t, Zenon
  <2>2. /\ at' \in [Servers -> Phases] /\ pos' \in [Servers -> Items]
        /\ serving' \in [Servers -> 0..MaxRequests]
        /\ MigrateInv'
    <3>1. CASE Start(s)
      BY <3>1, MoveType, PhaseNames, <1>p DEF Start
    <3>2. CASE MigrateTable(s)
      <4>1. CASE GoTo(s, "count", 1)
        BY <4>1, MoveType, PhaseNames
      <4>2. CASE ~GoTo(s, "count", 1)
        BY <4>2, <3>2, MigrateType, MoveType, PhaseNames
      <4> QED BY <4>1, <4>2
    <3>3. CASE CountUsers(s)
      BY <3>3, MoveType, PhaseNames DEF CountUsers, SeedOrSkip
    <3>4. CASE CreateSeed(s)
      BY <3>4, CreateType, MoveType, PhaseNames
    <3>5. CASE CreateRefused(s) \/ PingRedis(s) \/ EnsureBucket(s) \/ Drained(s)
      BY <3>5, MoveType, PhaseNames DEF CreateRefused, OnError, PingRedis, EnsureBucket, Drained
    <3>6. CASE GraceOver(s)
      BY <3>6, LeaveType DEF GraceOver
    <3> QED BY <1>2, <3>1, <3>2, <3>3, <3>4, <3>5, <3>6 DEF Main
  <2>3. tables' \in 0..Len(Tables)
    <3>1. CASE MigrateTable(s)
      BY <3>1, MigrateType
    <3>2. CASE ~MigrateTable(s)
      BY <1>2, <3>2, <1>t DEF Main, Start, CountUsers, CreateSeed, CreateRefused, PingRedis,
                              EnsureBucket, Drained, GraceOver, database
    <3> QED BY <3>1, <3>2
  <2>4. copies' \in [Items -> Nat]
    <3>1. CASE CreateSeed(s)
      BY <3>1, CreateType
    <3>2. CASE ~CreateSeed(s)
      BY <1>2, <3>2, <1>t DEF Main, Start, MigrateTable, CountUsers, CreateRefused, PingRedis,
                              EnsureBucket, Drained, GraceOver, database
    <3> QED BY <3>1, <3>2
  <2> QED BY <2>1, <2>2, <2>3, <2>4, <1>t DEF TypeOK
<1>3. ASSUME NEW s \in Servers, Fail(s) \/ Kill(s)
      PROVE  TypeOK' /\ MigrateInv'
  <2>1. UNCHANGED <<db, tables, script, copies, visitors, wanted, bucket>>
    BY <1>3 DEF Fail, Kill, database
  <2>2. faults' \in 0..MaxFaults
    BY <1>3, FaultType, <1>t DEF Fail, Kill
  <2>3. /\ at' \in [Servers -> Phases] /\ pos' \in [Servers -> Items]
        /\ serving' \in [Servers -> 0..MaxRequests]
        /\ MigrateInv'
    BY <1>3, MoveType, LeaveType, PhaseNames DEF Fail, OnError, Kill
  <2>4. bucket' \in BOOLEAN
    BY <2>1, <1>t, Zenon
  <2> QED BY <2>1, <2>2, <2>3, <2>4, <1>t DEF TypeOK
<1>4. ASSUME NEW s \in Servers, Accept(s) \/ Finish(s)
      PROVE  TypeOK' /\ MigrateInv'
  <2>1. UNCHANGED <<db, tables, script, copies, visitors, at, pos, wanted, bucket, faults>>
    BY <1>4 DEF Accept, Finish, database
  <2>2. serving[s] \in 0..MaxRequests
    BY <1>t
  <2>3. serving' \in [Servers -> 0..MaxRequests]
    <3>1. ASSUME NEW r \in 0..MaxRequests, serving' = [serving EXCEPT ![s] = r]
          PROVE  serving' \in [Servers -> 0..MaxRequests]
      BY <3>1, <1>t
    <3>2. CASE Accept(s)
      <4>1. serving[s] + 1 \in 0..MaxRequests
        BY <3>2, <2>2, StartupAssumption DEF Accept, StartupAssumption
      <4>2. serving' = [serving EXCEPT ![s] = serving[s] + 1]
        BY <3>2 DEF Accept
      <4> QED BY <3>1, <4>1, <4>2
    <3>3. CASE Finish(s)
      <4>1. serving[s] - 1 \in 0..MaxRequests
        BY <3>3, <2>2, StartupAssumption DEF Finish, StartupAssumption
      <4>2. serving' = [serving EXCEPT ![s] = serving[s] - 1]
        BY <3>3 DEF Finish
      <4> QED BY <3>1, <4>1, <4>2
    <3> QED BY <1>4, <3>2, <3>3
  <2>4. bucket' \in BOOLEAN
    BY <2>1, <1>t, Zenon
  <2> QED BY <2>1, <2>3, <2>4, <1>t DEF TypeOK, MigrateInv
<1>5. ASSUME NEW s \in Servers, Stop(s) \/ Up(s)
      PROVE  TypeOK' /\ MigrateInv'
  <2>1. UNCHANGED <<db, tables, script, copies, visitors, bucket, faults>>
    BY <1>5 DEF Stop, Up, database
  <2>2. wanted' \in [Servers -> BOOLEAN]
    BY <1>5, WantedType DEF Stop, Up
  <2>3. /\ at' \in [Servers -> Phases] /\ pos' \in [Servers -> Items]
        /\ serving' \in [Servers -> 0..MaxRequests]
        /\ MigrateInv'
    <3>1. CASE Stop(s)
      BY <3>1, MoveType, PhaseNames DEF Stop
    <3>2. CASE Up(s)
      BY <3>2, <1>t DEF Up, process, MigrateInv
    <3> QED BY <1>5, <3>1, <3>2
  <2>4. bucket' \in BOOLEAN
    BY <2>1, <1>t, Zenon
  <2> QED BY <2>1, <2>2, <2>3, <2>4, <1>t DEF TypeOK
<1>6. ASSUME NEW s \in Servers, NEW n \in Names, Register(s, n)
      PROVE  TypeOK' /\ MigrateInv'
  <2>1. /\ UNCHANGED <<db, tables, script, copies, at, pos, serving, wanted, bucket, faults>>
        /\ visitors' \subseteq Names
    BY <1>6, <1>t DEF Register, database, process
  <2>2. bucket' \in BOOLEAN
    BY <2>1, <1>t, Zenon
  <2> QED BY <2>1, <2>2, <1>t DEF TypeOK, MigrateInv
<1>7. CASE UNCHANGED vars
  <2>1. bucket' \in BOOLEAN
    BY <1>7, <1>t, Zenon DEF vars
  <2> QED BY <2>1, <1>7, <1>t DEF vars, TypeOK, MigrateInv
<1> QED BY <1>1, <1>2, <1>3, <1>4, <1>5, <1>6, <1>7 DEF Next

(***************************************************************************)
(* The demo rows.                                                          *)
(***************************************************************************)
Rest == ScriptInv /\ PrefixInv /\ SeederInv /\ AdminInv

\* The rows that are stored determine how far the seed has come.
LEMMA PrefixUnique ==
  ASSUME NEW m \in 0..12, NEW n \in 0..12, Prefix(m), Prefix(n)
  PROVE  m = n
<1>1. CASE m < n
  <2>1. n \in Items /\ ~(n <= m)
    BY <1>1 DEF Items
  <2> QED BY <2>1 DEF Prefix
<1>2. CASE n < m
  <2>1. m \in Items /\ ~(m <= n)
    BY <1>2 DEF Items
  <2> QED BY <2>1 DEF Prefix
<1> QED BY <1>1, <1>2

\* Nothing is stored or lost in a step that leaves the rows alone.
LEMMA PrefixKept == ASSUME NEW n, copies' = copies, Prefix(n) PROVE Prefix(n)'
BY DEF Prefix

\* A server moves to a place that is not in the middle of the seed, and the rows stay.
LEMMA QuietMove ==
  ASSUME IInv, NEW s \in Servers, UNCHANGED <<db, script, copies, visitors>>,
         \A t \in Servers : t # s => at'[t] = at[t] /\ pos'[t] = pos[t],
         db = "up" \/ at'[s] = "off" \/ (at[s] # "off" /\ db \notin {"fresh", "init"}),
         at'[s] # "seed" \/ pos'[s] = 1,
         at'[s] \in {"ping", "bucket", "listen"} => copies[Admin] = 1
  PROVE  Rest'
<1> USE DEF IInv
<1>1. ScriptInv'
  BY PrefixKept DEF ScriptInv
<1>2. PrefixInv'
  BY PrefixKept DEF PrefixInv
<1>3. SeederInv'
  <2>1. ASSUME NEW t \in Servers, at'[t] = "seed", pos'[t] > 1
        PROVE  at[t] = "seed" /\ pos[t] > 1 /\ pos'[t] = pos[t]
    BY <2>1
  <2>2. \A t \in Servers : at'[t] = "seed" /\ pos'[t] > 1 => Prefix(pos'[t] - 1)
    BY <2>1 DEF SeederInv
  <2> QED BY <2>1, <2>2 DEF SeederInv, Prefix
<1>4. AdminInv'
  BY DEF AdminInv
<1> QED BY <1>1, <1>2, <1>3, <1>4 DEF Rest

\* The script stores the prefix while no server reaches the database.
LEMMA DbKeeps == ASSUME IInv, DbStep \/ DbCrash PROVE Rest'
<1> USE DEF IInv
<1>1. UNCHANGED <<visitors, at, pos>>
  BY DEF DbStep, DbFirstStart, ScriptTable, ScriptInsert, ScriptDone, DbCrash, DbRestart, process
<1>2. CASE ScriptInsert
  <2>1. /\ db = "init" /\ db' = db
        /\ script \in 0..12
        /\ \A i \in Items : copies[i] = IF i <= script THEN 1 ELSE 0
        /\ (\A t \in Servers : at[t] = "off") /\ visitors = {}
    <3>1. db = "init" /\ db' = db
      BY <1>2 DEF ScriptInsert
    <3>2. Prefix(script) /\ (\A t \in Servers : at[t] = "off") /\ visitors = {}
      BY <3>1 DEF ScriptInv
    <3> QED BY <3>1, <3>2 DEF Prefix, TypeOK, Items
  <2>2. /\ script' \in 0..12 /\ script < script'
        /\ \A i \in Items : copies'[i] = IF i \in script+1..script' THEN copies[i] + 1 ELSE copies[i]
    BY <1>2, ScriptNextType DEF Items
  <2>3. \A i \in Items : copies'[i] = IF i <= script' THEN 1 ELSE 0
    BY <2>1, <2>2 DEF Items
  <2>4. Prefix(script)'
    BY <2>3 DEF Prefix
  <2> QED BY <1>1, <2>1, <2>2, <2>4 DEF Rest, ScriptInv, PrefixInv, SeederInv, AdminInv
<1>3. CASE ~ScriptInsert
  <2>1. /\ UNCHANGED <<copies, script>>
        /\ db' \in {"fresh", "init"} => db \in {"fresh", "init"}
    BY <1>3 DEF DbStep, DbFirstStart, ScriptTable, ScriptDone, DbCrash, DbRestart
  <2>2. ScriptInv'
    BY <1>1, <2>1, PrefixKept DEF ScriptInv
  <2>3. PrefixInv'
    BY <2>1, PrefixKept DEF PrefixInv
  <2>4. SeederInv'
    BY <1>1, <2>1 DEF SeederInv, Prefix
  <2>5. AdminInv'
    BY <1>1, <2>1 DEF AdminInv
  <2> QED BY <2>2, <2>3, <2>4, <2>5 DEF Rest
<1> QED BY <1>2, <1>3

\* If the first account may be inserted, nothing has been; later items are inserted by the
\* one server that inserted all before them.
LEMMA CreateKeeps == ASSUME IInv, NEW s \in Servers, CreateSeed(s) PROVE Rest'
<1> USE DEF IInv
<1>1. /\ pos[s] \in 1..12 /\ at[s] = "seed" /\ db = "up" /\ ~Refused(pos[s])
      /\ UNCHANGED <<db, script, visitors>>
  BY DEF CreateSeed, TypeOK, Items
<1>2. Prefix(pos[s] - 1)
  <2>1. CASE pos[s] = 1
    <3>1. PICK n \in 0..12 : Prefix(n)
      BY DEF PrefixInv
    <3>2. copies[1] = 0
      BY <1>1, <2>1, <3>1 DEF Refused, Accounts, Prefix, Items
    <3>3. n = 0
      BY <3>1, <3>2 DEF Prefix, Items
    <3> QED BY <2>1, <3>1, <3>3
  <2>2. CASE pos[s] > 1
    BY <1>1, <2>2 DEF SeederInv
  <2> QED BY <1>1, <2>1, <2>2
<1>3. \A i \in Items : copies'[i] = IF i <= pos[s] THEN 1 ELSE 0
  <2>1. \A i \in Items : copies'[i] = IF i = pos[s] THEN copies[i] + 1 ELSE copies[i]
    BY CreateType DEF TypeOK
  <2> QED BY <1>1, <1>2, <2>1 DEF Prefix, Items
<1>4. copies'[Admin] = 1
  BY <1>1, <1>3 DEF Items, Admin
<1>5. \A t \in Servers : at[t] = "seed" /\ pos[t] > 1 => t = s
  <2> SUFFICES ASSUME NEW t \in Servers, at[t] = "seed", pos[t] > 1, t # s PROVE FALSE
    OBVIOUS
  <2>1. Prefix(pos[t] - 1) /\ pos[t] \in 1..12
    BY DEF SeederInv, TypeOK, Items
  <2>2. pos[s] = 1
    BY <1>1 DEF SeederInv
  <2>3. pos[t] - 1 = 0
    BY <1>1, <1>2, <2>1, <2>2, PrefixUnique
  <2> QED BY <2>1, <2>3
<1>6. /\ at'[s] = "seed" => pos'[s] = pos[s] + 1
      /\ \A t \in Servers : t # s => at'[t] = at[t] /\ pos'[t] = pos[t]
  BY CreateType, GoToType, PhaseNames
<1>7. ScriptInv'
  BY <1>1 DEF ScriptInv
<1>8. PrefixInv'
  <2>1. PICK n \in 0..12 : n = pos[s]
    BY <1>1
  <2>2. \A i \in Items : copies'[i] = IF i <= n THEN 1 ELSE 0
    BY <2>1, <1>3
  <2> QED BY <2>2 DEF PrefixInv, Prefix
<1>9. SeederInv'
  <2>1. \A t \in Servers : at'[t] = "seed" /\ pos'[t] > 1 => t = s
    BY <1>5, <1>6
  <2>2. at'[s] = "seed" =>
          \A i \in Items : copies'[i] = IF i <= pos'[s] - 1 THEN 1 ELSE 0
    <3>1. at'[s] = "seed" => pos'[s] - 1 = pos[s]
      BY <1>1, <1>6
    <3> QED BY <1>3, <3>1
  <2> QED BY <2>1, <2>2 DEF SeederInv, Prefix
<1>10. AdminInv'
  <2>1. \A t \in Servers : copies'[Admin] = 1
    BY <1>4
  <2> QED BY <1>4 DEF AdminInv
<1> QED BY <1>7, <1>8, <1>9, <1>10 DEF Rest

\* A server starts to seed only where there are no users.
LEMMA CountKeeps == ASSUME IInv, NEW s \in Servers, CountUsers(s) PROVE Rest'
<1> USE DEF IInv
<1>1. NoUsers \/ copies[Admin] = 1
  <2>1. PICK n \in 0..12 : Prefix(n)
    BY DEF PrefixInv
  <2>2. ASSUME NEW i \in Accounts, copies[i] # 0 PROVE copies[Admin] = 1
    BY <2>1, <2>2 DEF Prefix, Accounts, Items, Admin
  <2> QED BY <2>2 DEF NoUsers, AdminInv
<1>2. /\ at[s] = "count" /\ db = "up" /\ UNCHANGED <<db, script, copies, visitors>>
      /\ GoTo(s, SeedOrSkip, 1)
  BY DEF CountUsers, database
<1>3. SeedOrSkip \in Phases
  BY PhaseNames DEF SeedOrSkip
<1>4. /\ at'[s] = SeedOrSkip /\ pos'[s] = 1
      /\ \A t \in Servers : t # s => at'[t] = at[t] /\ pos'[t] = pos[t]
  BY <1>2, <1>3, PhaseNames, GoToType
<1>5. at'[s] \in {"ping", "bucket", "listen"} => copies[Admin] = 1
  BY <1>1, <1>4 DEF SeedOrSkip
<1> QED BY <1>2, <1>4, <1>5, QuietMove

\* The steps of main: only the seeder adds rows, and it adds the next one.
LEMMA MainKeeps == ASSUME IInv, NEW s \in Servers, Main(s) PROVE Rest'
<1> USE DEF IInv
<1>1. CASE CreateSeed(s)
  BY <1>1, CreateKeeps
<1>2. CASE CountUsers(s)
  BY <1>2, CountKeeps
<1>3. CASE Start(s) \/ CreateRefused(s) \/ MigrateTable(s)
  <2>1. UNCHANGED <<db, script, copies, visitors>> /\ db = "up"
    BY <1>3 DEF Start, CreateRefused, MigrateTable, database
  <2>2. /\ \A t \in Servers : t # s => at'[t] = at[t] /\ pos'[t] = pos[t]
        /\ at'[s] \in {"migrate", "off", "count"}
    BY <1>3, MigrateType, GoToType, PhaseNames DEF Start, CreateRefused, OnError
  <2> QED BY <2>1, <2>2, QuietMove
<1>4. CASE PingRedis(s) \/ EnsureBucket(s) \/ Drained(s)
  <2>1. UNCHANGED <<db, script, copies, visitors>> /\ at[s] # "off"
    BY <1>4 DEF PingRedis, EnsureBucket, Drained, database
  <2>2. /\ \A t \in Servers : t # s => at'[t] = at[t] /\ pos'[t] = pos[t]
        /\ at'[s] \in {"bucket", "listen", "off"}
        /\ at'[s] # "off" => at[s] \in {"ping", "bucket"}
    BY <1>4, GoToType, PhaseNames DEF PingRedis, EnsureBucket, Drained
  <2>3. db \notin {"fresh", "init"}
    BY <2>1 DEF ScriptInv
  <2>4. at'[s] \in {"ping", "bucket", "listen"} => copies[Admin] = 1
    BY <2>2 DEF AdminInv
  <2> QED BY <2>1, <2>2, <2>3, <2>4, QuietMove
<1>5. CASE GraceOver(s)
  <2>1. UNCHANGED <<db, script, copies, visitors>> /\ Gone(s)
    BY <1>5 DEF GraceOver, database
  <2> QED BY <2>1, GoneType, QuietMove
<1> QED BY <1>1, <1>2, <1>3, <1>4, <1>5 DEF Main

\* Faults, signals and visitors leave the prefix alone.
LEMMA OtherKeeps ==
  ASSUME IInv, NEW s \in Servers,
         \/ Fail(s) \/ Kill(s) \/ Accept(s) \/ Finish(s) \/ Stop(s) \/ Up(s)
         \/ \E n \in Names : Register(s, n)
  PROVE  Rest'
<1> USE DEF IInv
<1>1. CASE Fail(s) \/ Kill(s)
  <2>1. UNCHANGED <<db, script, copies, visitors>>
    BY <1>1 DEF Fail, Kill, database
  <2>2. at'[s] = "off" /\ \A t \in Servers : t # s => at'[t] = at[t] /\ pos'[t] = pos[t]
    BY <1>1, GoToType, GoneType, PhaseNames DEF Fail, OnError, Kill
  <2> QED BY <2>1, <2>2, QuietMove
<1>2. CASE Stop(s)
  <2>1. UNCHANGED <<db, script, copies, visitors>>
    BY <1>2 DEF Stop, database
  <2>2. /\ \A t \in Servers : t # s => at'[t] = at[t] /\ pos'[t] = pos[t]
        /\ at'[s] \in {"drain", "off"}
        /\ at'[s] = "drain" => at[s] # "off"
    BY <1>2, GoToType, PhaseNames DEF Stop
  <2>3. at[s] # "off" => db \notin {"fresh", "init"}
    BY DEF ScriptInv
  <2> QED BY <2>1, <2>2, <2>3, QuietMove
<1>3. CASE Accept(s) \/ Finish(s) \/ Up(s)
  <2>1. UNCHANGED <<db, script, copies, visitors, at, pos>>
    BY <1>3 DEF Accept, Finish, Up, database, process
  <2> QED BY <2>1 DEF Rest, ScriptInv, PrefixInv, SeederInv, AdminInv, Prefix
<1>4. ASSUME NEW n \in Names, Register(s, n) PROVE Rest'
  <2>1. UNCHANGED <<db, script, copies, at, pos>> /\ at[s] = "listen" /\ db = "up"
    BY <1>4 DEF Register, database, process
  <2>2. copies[Admin] = 1
    BY <2>1 DEF AdminInv
  <2>3. ScriptInv' /\ PrefixInv' /\ SeederInv'
    BY <2>1 DEF ScriptInv, PrefixInv, SeederInv, Prefix
  <2>4. AdminInv'
    BY <2>1, <2>2 DEF AdminInv
  <2> QED BY <2>3, <2>4 DEF Rest
<1> QED BY <1>1, <1>2, <1>3, <1>4

\* Every step keeps the invariant.
LEMMA StartupNext == IInv /\ [Next]_vars => IInv'
<1> SUFFICES ASSUME IInv, [Next]_vars PROVE IInv'
  OBVIOUS
<1>1. TypeOK' /\ MigrateInv'
  BY StartupType DEF IInv
<1>4. Rest'
  <2>1. CASE UNCHANGED vars
    BY <2>1 DEF vars, IInv, Rest, ScriptInv, PrefixInv, SeederInv, AdminInv, Prefix
  <2>2. CASE Next
    BY <2>2, DbKeeps, MainKeeps, OtherKeeps DEF Next
  <2> QED BY <2>1, <2>2
<1> QED BY <1>1, <1>4 DEF IInv, Rest

(***************************************************************************)
(* Theorems.                                                               *)
(***************************************************************************)
\* What is in the database is always a prefix of the seed, whoever is killed where; only the
\* server that found no users goes on with it.
THEOREM StartupInvariant == Spec => []IInv
BY StartupInit, StartupNext, PTL DEF Spec

\* Every variable keeps its type, whichever processes die.
THEOREM StartupTypeCorrect == Spec => []TypeOK
<1>1. IInv => TypeOK
  BY DEF IInv
<1> QED BY <1>1, StartupInvariant, PTL

\* No demo row is inserted twice by servers that start at the same time.
THEOREM SeedInsertedOnce == Spec => []SeededOnce
<1>1. IInv => SeededOnce
  BY DEF IInv, PrefixInv, Prefix, SeededOnce
<1> QED BY <1>1, StartupInvariant, PTL

\* A seed that was cut off anywhere leaves rows that refer only to rows that are there.
THEOREM RowsReferToRows == Spec => []ReferencesHold
<1>1. IInv => ReferencesHold
  <2> SUFFICES ASSUME IInv, NEW i \in Items, copies[i] > 0, NEW j \in RefersTo[i]
               PROVE  copies[j] > 0
    BY DEF ReferencesHold
  <2>1. PICK n \in 0..12 : Prefix(n)
    BY DEF IInv, PrefixInv
  <2>2. j \in Items /\ j < i
    BY RefersBack
  <2> QED BY <2>1, <2>2 DEF Prefix, Items
<1> QED BY <1>1, StartupInvariant, PTL

\* Nobody has registered before the administrator's account was there.
THEOREM AdministratorFirst == Spec => []AdminIsSeeded
<1>1. IInv => AdminIsSeeded
  BY DEF IInv, AdminInv, AdminIsSeeded
<1> QED BY <1>1, StartupInvariant, PTL

(***************************************************************************)
(* How far a server is from listening.                                     *)
(***************************************************************************)
\* The steps of its own that a server needs at most from where it is, if counting the
\* users and what comes of it takes another n.  The seed is refused at the posts
\* if not before, which costs the whole way again, but then there are users and no
\* second seed.
Away(phase, p, n) ==
  CASE phase = "listen"  -> 0
    [] phase = "bucket"  -> 1
    [] phase = "ping"    -> 2
    [] phase = "seed"    -> 27 - p
    [] phase = "count"   -> n
    [] phase = "migrate" -> n + 11 - p
    [] phase = "off"     -> n + 11
    [] phase = "drain"   -> n + 12

Counting == IF NoUsers THEN 27 ELSE 3

Remaining(s) == Away(at[s], pos[s], Counting)

\* The safety behind ComesUp: while the database is up and nothing fails, every step of
\* main brings its server nearer to listening, and nothing that others do (a rival seed,
\* visitors who take names) sets back a server that is wanted.
StartIsBounded ==
  [][\A s \in Servers :
       db = "up" /\ wanted'[s] /\ faults' = faults =>
         /\ Remaining(s)' <= Remaining(s)
         /\ Main(s) => Remaining(s)' < Remaining(s)]_vars

\* Users never go away, and their coming brings everybody nearer.
LEMMA UsersStay ==
  ASSUME TypeOK, visitors \subseteq visitors',
         \A i \in Accounts : copies[i] = 0 \/ copies'[i] # 0
  PROVE  Counting \in {3, 27} /\ Counting' \in {3, 27} /\ Counting' <= Counting
<1>1. NoUsers' => NoUsers
  BY DEF NoUsers
<1> QED BY <1>1 DEF Counting

\* A server that stays where it is comes no farther away.
LEMMA WaitsNoLonger ==
  ASSUME NEW phase \in Phases, NEW p \in Items, NEW m \in {3, 27}, NEW n \in {3, 27}, n <= m
  PROVE  Away(phase, p, n) <= Away(phase, p, m)
BY DEF Away, Phases, Starting, Items

\* No step removes a user.
LEMMA UsersGrow ==
  ASSUME IInv, [Next]_vars
  PROVE  visitors \subseteq visitors' /\ \A i \in Accounts : copies[i] = 0 \/ copies'[i] # 0
<1> USE DEF IInv
<1>1. \A i \in Accounts : i \in Items /\ copies[i] \in Nat
  <2>1. copies \in [Items -> Nat]
    BY DEF TypeOK
  <2>2. Accounts \subseteq Items
    BY DEF Accounts, Items
  <2> QED BY <2>1, <2>2
<1>2. CASE UNCHANGED <<visitors, copies>>
  BY <1>2
<1>3. CASE ScriptInsert
  BY <1>1, <1>3, ScriptNextType DEF ScriptInsert
<1>4. ASSUME NEW s \in Servers, CreateSeed(s)
      PROVE  visitors \subseteq visitors' /\ \A i \in Accounts : copies[i] = 0 \/ copies'[i] # 0
  <2>1. /\ visitors' = visitors
        /\ copies' = [copies EXCEPT ![pos[s]] = @ + 1]
    BY <1>4 DEF CreateSeed
  <2>2. copies \in [Items -> Nat] /\ pos[s] \in Items
    BY DEF TypeOK
  <2>3. \A i \in Accounts : copies'[i] = copies[i] \/ copies'[i] = copies[i] + 1
    BY <1>1, <2>1, <2>2
  <2> QED BY <1>1, <2>1, <2>3
<1>5. ASSUME NEW s \in Servers, NEW n \in Names, Register(s, n)
      PROVE  visitors \subseteq visitors' /\ copies' = copies
  BY <1>5 DEF Register, database
<1>6. CASE DbStep \/ DbCrash
  BY <1>2, <1>3, <1>6 DEF DbStep, DbCrash, DbFirstStart, ScriptTable, ScriptDone, DbRestart
<1>7. ASSUME NEW s \in Servers, Main(s)
      PROVE  visitors \subseteq visitors' /\ \A i \in Accounts : copies[i] = 0 \/ copies'[i] # 0
  <2>1. CreateSeed(s) \/ UNCHANGED <<visitors, copies>>
    BY <1>7 DEF Main, Start, MigrateTable, CountUsers, CreateRefused, PingRedis, EnsureBucket,
                Drained, GraceOver, database
  <2> QED BY <1>2, <1>4, <2>1
<1>8. ASSUME NEW s \in Servers,
             Fail(s) \/ Kill(s) \/ Accept(s) \/ Finish(s) \/ Stop(s) \/ Up(s)
      PROVE  UNCHANGED <<visitors, copies>>
  BY <1>8 DEF Fail, Kill, Accept, Finish, Stop, Up, database
<1>9. CASE UNCHANGED vars
  BY <1>2, <1>9 DEF vars
<1> QED BY <1>2, <1>5, <1>6, <1>7, <1>8, <1>9 DEF Next

\* Each step of main brings its server nearer.
LEMMA MainGoesOn ==
  ASSUME IInv, NEW s \in Servers, Main(s),
         Counting \in {3, 27}, Counting' \in {3, 27}, Counting' <= Counting
  PROVE  /\ Remaining(s)' < Remaining(s)
         /\ \A t \in Servers : t # s => at'[t] = at[t] /\ pos'[t] = pos[t]
<1> USE DEF IInv
<1>0. pos[s] \in 1..12
  BY DEF TypeOK, Items
<1>1. ASSUME NEW phase \in Phases, NEW p \in Items, GoTo(s, phase, p),
             Away(phase, p, Counting') < Remaining(s)
      PROVE  /\ Remaining(s)' < Remaining(s)
             /\ \A t \in Servers : t # s => at'[t] = at[t] /\ pos'[t] = pos[t]
  BY <1>1, GoToType DEF Remaining
<1>2. CASE Start(s)
  <2>1. at[s] = "off" /\ GoTo(s, "migrate", 1)
    BY <1>2 DEF Start
  <2>2. Away("migrate", 1, Counting') < Remaining(s)
    BY <2>1 DEF Remaining, Away
  <2> QED BY <1>1, <2>1, <2>2, PhaseNames
<1>3. CASE MigrateTable(s)
  <2>1. at[s] = "migrate"
    BY <1>3 DEF MigrateTable
  <2>2. /\ Away("migrate", pos[s] + 1, Counting') < Remaining(s)
        /\ Away("count", 1, Counting') < Remaining(s)
    <3>1. pos[s] <= 10
      BY <2>1, TableCount DEF MigrateInv
    <3> QED BY <1>0, <2>1, <3>1 DEF Remaining, Away
  <2> QED BY <1>1, <1>3, <2>2, MigrateType, PhaseNames
<1>4. CASE CountUsers(s)
  <2>1. GoTo(s, SeedOrSkip, 1) /\ at[s] = "count"
    BY <1>4 DEF CountUsers
  <2>2. Away(SeedOrSkip, 1, Counting') < Remaining(s) /\ SeedOrSkip \in {"seed", "ping"}
    BY <2>1 DEF SeedOrSkip, Counting, Remaining, Away
  <2> QED BY <1>1, <2>1, <2>2, PhaseNames
<1>5. CASE CreateSeed(s)
  <2>1. at[s] = "seed" /\ GoTo(s, "seed", pos[s] + 1) /\ pos[s] + 1 \in Items
    BY <1>5, CreateType DEF CreateSeed
  <2>2. Away("seed", pos[s] + 1, Counting') < Remaining(s)
    BY <1>0, <2>1 DEF Remaining, Away
  <2> QED BY <1>1, <2>1, <2>2, PhaseNames
<1>6. CASE CreateRefused(s)
  <2>1. at[s] = "seed" /\ GoTo(s, "off", 1) /\ UNCHANGED <<visitors, copies>>
    BY <1>6 DEF CreateRefused, OnError, database
  <2>2. ~NoUsers
    <3>1. CASE Refused(pos[s])
      <4>1. pos[s] \in Accounts /\ (copies[pos[s]] > 0 \/ visitors # {})
        BY <3>1 DEF Refused
      <4> QED BY <4>1 DEF NoUsers
    <3>2. CASE pos[s] \in Unstorable
      <4>1. Prefix(pos[s] - 1) /\ 1 \in Items /\ 1 <= pos[s] - 1
        BY <2>1, <3>2 DEF SeederInv, Unstorable, Items
      <4>2. copies[1] = 1 /\ 1 \in Accounts
        BY <4>1 DEF Prefix, Accounts
      <4> QED BY <4>2 DEF NoUsers
    <3> QED BY <1>6, <3>1, <3>2 DEF CreateRefused
  <2>3. Counting' = 3
    BY <2>1, <2>2 DEF NoUsers, Counting
  <2>4. Away("off", 1, Counting') < Remaining(s)
    BY <1>0, <2>1, <2>3 DEF Remaining, Away
  <2> QED BY <1>1, <2>1, <2>4, PhaseNames
<1>7. CASE PingRedis(s)
  <2>1. at[s] = "ping" /\ GoTo(s, "bucket", 1)
    BY <1>7 DEF PingRedis
  <2>2. Away("bucket", 1, Counting') < Remaining(s)
    BY <2>1 DEF Remaining, Away
  <2> QED BY <1>1, <2>1, <2>2, PhaseNames
<1>8. CASE EnsureBucket(s)
  <2>1. at[s] = "bucket" /\ GoTo(s, "listen", 1)
    BY <1>8 DEF EnsureBucket
  <2>2. Away("listen", 1, Counting') < Remaining(s)
    BY <2>1 DEF Remaining, Away
  <2> QED BY <1>1, <2>1, <2>2, PhaseNames
<1>9. CASE Drained(s)
  <2>1. at[s] = "drain" /\ GoTo(s, "off", 1)
    BY <1>9 DEF Drained
  <2>2. Away("off", 1, Counting') < Remaining(s)
    BY <2>1 DEF Remaining, Away
  <2> QED BY <1>1, <2>1, <2>2, PhaseNames
<1>10. CASE GraceOver(s)
  <2>1. at[s] = "drain" /\ at'[s] = "off"
    BY <1>10, GoneType DEF GraceOver
  <2>2. Remaining(s)' < Remaining(s)
    BY <2>1 DEF Remaining, Away
  <2> QED BY <1>10, <2>2, GoneType DEF GraceOver
<1> QED BY <1>2, <1>3, <1>4, <1>5, <1>6, <1>7, <1>8, <1>9, <1>10 DEF Main

\* While nothing fails, a server that is wanted needs fewer steps after each of its own and
\* never more after anybody else's, for any number of servers.
THEOREM EveryStartIsBounded == Spec => StartIsBounded
<1>1. ASSUME IInv, [Next]_vars
      PROVE  [\A s \in Servers :
                db = "up" /\ wanted'[s] /\ faults' = faults =>
                  /\ Remaining(s)' <= Remaining(s)
                  /\ Main(s) => Remaining(s)' < Remaining(s)]_vars
  <2> SUFFICES ASSUME NEW s \in Servers, db = "up", wanted'[s], faults' = faults
               PROVE  /\ Remaining(s)' <= Remaining(s)
                      /\ Main(s) => Remaining(s)' < Remaining(s)
    OBVIOUS
  <2>1. Counting \in {3, 27} /\ Counting' \in {3, 27} /\ Counting' <= Counting
    BY <1>1, UsersGrow, UsersStay DEF IInv
  <2>2. ASSUME NEW t \in Servers, Main(t)
        PROVE  /\ Remaining(t)' < Remaining(t)
               /\ \A u \in Servers : u # t => at'[u] = at[u] /\ pos'[u] = pos[u]
    BY <1>1, <2>1, <2>2, MainGoesOn
  <2>3. ASSUME at'[s] = at[s], pos'[s] = pos[s]
        PROVE  Remaining(s)' <= Remaining(s)
    BY <1>1, <2>1, <2>3, WaitsNoLonger DEF Remaining, IInv, TypeOK
  <2>4. ASSUME Main(s), Remaining(s)' < Remaining(s)
        PROVE  Remaining(s)' <= Remaining(s)
    <3>1. at[s] \in Phases /\ pos[s] \in 1..12 /\ at'[s] \in Phases /\ pos'[s] \in 1..12
      BY <1>1, StartupNext DEF IInv, TypeOK, Items
    <3>2. Remaining(s) \in Int /\ Remaining(s)' \in Int
      BY <2>1, <3>1 DEF Remaining, Away, Phases, Starting
    <3> QED BY <2>4, <3>2
  <2>5. CASE Main(s)
    BY <2>2, <2>4, <2>5
  <2>6. ASSUME NEW t \in Servers, t # s, Main(t)
        PROVE  at'[s] = at[s] /\ pos'[s] = pos[s]
    BY <2>2, <2>6
  <2>7. ASSUME NEW t \in Servers,
               Fail(t) \/ Kill(t) \/ Accept(t) \/ Finish(t) \/ Stop(t) \/ Up(t)
                 \/ \E n \in Names : Register(t, n)
        PROVE  at'[s] = at[s] /\ pos'[s] = pos[s]
    <3>1. CASE Fail(t) \/ Kill(t)
      <4>1. faults \in Nat
        BY <1>1, StartupAssumption DEF IInv, TypeOK
      <4> QED BY <3>1, <4>1 DEF Fail, Kill
    <3>2. CASE Accept(t) \/ Finish(t) \/ Up(t) \/ \E n \in Names : Register(t, n)
      BY <3>2 DEF Accept, Finish, Up, Register, process
    <3>3. CASE Stop(t)
      <4>1. s # t
        BY <1>1, <3>3 DEF Stop, IInv, TypeOK
      <4>2. GoTo(t, "drain", 1) \/ GoTo(t, "off", 1)
        BY <3>3 DEF Stop
      <4> QED BY <1>1, <4>1, <4>2, GoToType, PhaseNames DEF IInv
    <3> QED BY <2>7, <3>1, <3>2, <3>3
  <2>8. ASSUME DbStep \/ DbCrash \/ UNCHANGED vars
        PROVE  at'[s] = at[s] /\ pos'[s] = pos[s]
    <3>1. at' = at /\ pos' = pos
      BY <2>8 DEF DbStep, DbCrash, DbFirstStart, ScriptTable, ScriptInsert, ScriptDone,
                  DbRestart, process, vars
    <3> QED BY <3>1
  <2>9. CASE ~ Main(s)
    <3>1. at'[s] = at[s] /\ pos'[s] = pos[s]
      BY <1>1, <2>6, <2>7, <2>8, <2>9 DEF Next
    <3> QED BY <2>3, <2>9, <3>1
  <2> QED BY <2>5, <2>9
<1> QED BY <1>1, StartupInvariant, PTL DEF Spec, StartIsBounded
=============================================================================
