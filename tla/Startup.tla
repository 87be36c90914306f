------------------------------- MODULE Startup -------------------------------
(***************************************************************************)
(* From an empty database volume to a backend that answers requests, and   *)
(* back: init.sql, which the database container runs when its volume is    *)
(* new; main, which migrates the schema, seeds a database without users,   *)
(* connects to Redis and MinIO and listens; and the shutdown.              *)
(*                                                                         *)
(* Every CREATE TABLE and every INSERT commits by itself, and any process  *)
(* may die between two of them.  The containers are restarted.  Servers    *)
(* may run side by side: an instance beside the container, or a statement  *)
(* of a process that is dead already but not yet for the database.         *)
(***************************************************************************)
EXTENDS Integers, Sequences

CONSTANTS
  Servers,     \* processes that run main against the database
  MaxRequests, \* requests a server may be answering at a time (a bound)
  MaxFaults    \* crashes and errors that may happen in all (a bound)

ASSUME StartupAssumption == MaxRequests \in Nat /\ MaxFaults \in Nat

\* The tables in the order in which both init.sql and AutoMigrate create them.
Tables == <<"users", "organizations", "pets", "adoption_applications", "visit_reviews",
            "community_posts", "post_comments", "donations", "donation_usages", "favorites">>

\* The demo rows, by the calls of Create in seed: the three accounts admin, adopter and
\* shelter, two organizations, then pets, posts, comments, donations, usages,
\* applications and reviews, one call for all of a table.
Items    == 1..12
Accounts == 1..3
Admin    == 1

\* The items whose ids the rows of an item carry.
RefersTo == <<{}, {}, {}, {3}, {3}, {4, 5}, {2, 3, 4}, {2, 3, 7}, {2, 4, 5},
              {4, 9}, {2, 4, 6}, {2, 4, 11}>>

\* The calls of Create that cannot succeed: the posts and the reviews leave a column of
\* type json empty, gorm inserts '', and PostgreSQL refuses '' as json.
Unstorable == {7, 12}

\* init.sql inserts the same items in the same order with fewer statements: the items
\* at which one of its INSERTs ends.
ScriptEnds == {3} \cup 5..12

\* Names a visitor may register: those of the demo accounts, or another.
Names == Accounts \cup {0}

Starting == {"migrate", "count", "seed", "ping", "bucket"}
Phases   == {"off", "listen", "drain"} \cup Starting

VARIABLES
  db,       \* the database container: fresh, running init.sql, up or down
  tables,   \* how many of Tables exist
  script,   \* the last item init.sql has inserted
  copies,   \* how often each item is in the database
  visitors, \* names that visitors have registered
  at,       \* what each server is doing
  pos,      \* the table or the item a server has come to
  serving,  \* requests each server is answering
  wanted,   \* whether the operator wants a server to run
  bucket,   \* whether MinIO has the bucket
  faults    \* crashes and errors so far

database == <<db, tables, script, copies>>
process  == <<at, pos, serving>>
vars == <<db, tables, script, copies, visitors, at, pos, serving, wanted, bucket, faults>>

TypeOK ==
  /\ db \in {"fresh", "init", "up", "down"}
  /\ tables \in 0..Len(Tables)
  /\ script \in Items \cup {0}
  /\ copies \in [Items -> Nat]
  /\ visitors \subseteq Names
  /\ at \in [Servers -> Phases]
  /\ pos \in [Servers -> Items]
  /\ serving \in [Servers -> 0..MaxRequests]
  /\ wanted \in [Servers -> BOOLEAN]
  /\ bucket \in BOOLEAN
  /\ faults \in 0..MaxFaults

\* A new volume, on which the container will run init.sql, or an empty database
\* somebody else has created.
Init ==
  /\ db \in {"fresh", "up"}
  /\ tables = 0
  /\ script = 0
  /\ copies = [i \in Items |-> 0]
  /\ visitors = {}
  /\ at = [s \in Servers |-> "off"]
  /\ pos = [s \in Servers |-> 1]
  /\ serving = [s \in Servers |-> 0]
  /\ wanted = [s \in Servers |-> TRUE]
  /\ bucket = FALSE
  /\ faults = 0

(***************************************************************************)
(* The database container.  While it runs init.sql it accepts connections  *)
(* from itself only.  A volume with data in it is not initialised again,   *)
(* however far the script had come.                                        *)
(***************************************************************************)
DbFirstStart ==
  /\ db = "fresh"
  /\ db' = "init"
  /\ UNCHANGED <<tables, script, copies, visitors, process, wanted, bucket, faults>>

ScriptTable ==
  /\ db = "init"
  /\ tables < Len(Tables)
  /\ tables' = tables + 1
  /\ UNCHANGED <<db, script, copies, visitors, process, wanted, bucket, faults>>

ScriptInsert ==
  /\ db = "init"
  /\ tables = Len(Tables)
  /\ \E last \in ScriptEnds :
       /\ script < last
       /\ \A n \in ScriptEnds : script < n => last <= n
       /\ script' = last
       /\ copies' = [i \in Items |-> IF i \in script+1..last THEN copies[i] + 1 ELSE copies[i]]
  /\ UNCHANGED <<db, tables, visitors, process, wanted, bucket, faults>>

ScriptDone ==
  /\ db = "init"
  /\ script = 12
  /\ db' = "up"
  /\ UNCHANGED <<tables, script, copies, visitors, process, wanted, bucket, faults>>

DbCrash ==
  /\ db \in {"init", "up"}
  /\ faults < MaxFaults
  /\ db' = "down"
  /\ faults' = faults + 1
  /\ UNCHANGED <<tables, script, copies, visitors, process, wanted, bucket>>

DbRestart ==
  /\ db = "down"
  /\ db' = "up"
  /\ UNCHANGED <<tables, script, copies, visitors, process, wanted, bucket, faults>>

(***************************************************************************)
(* main, up to the moment it listens.                                      *)
(***************************************************************************)
GoTo(s, phase, p) ==
  /\ at' = [at EXCEPT ![s] = phase]
  /\ pos' = [pos EXCEPT ![s] = p]
  /\ UNCHANGED serving

\* gorm.Open connects.  A start that finds no database exits and is restarted: no step.
Start(s) ==
  /\ at[s] = "off"
  /\ wanted[s]
  /\ db = "up"
  /\ GoTo(s, "migrate", 1)
  /\ UNCHANGED <<database, visitors, wanted, bucket, faults>>

\* Wrong on purpose: one table too many.
PastLastTable(s) ==
  IF pos[s] <= Len(Tables) THEN GoTo(s, "migrate", pos[s] + 1) ELSE GoTo(s, "count", 1)

NextTable(s) ==
  IF pos[s] < Len(Tables) THEN GoTo(s, "migrate", pos[s] + 1) ELSE GoTo(s, "count", 1)

\* AutoMigrate creates the next table if there is none of this name.
MigrateTable(s) ==
  /\ at[s] = "migrate"
  /\ db = "up"
  /\ tables' = IF tables < pos[s] THEN pos[s] ELSE tables
  /\ NextTable(s)
  /\ UNCHANGED <<db, script, copies, visitors, wanted, bucket, faults>>

\* Wrong on purpose: the seed does not look whether there are users.
AnyUsers == TRUE

NoUsers == visitors = {} /\ \A i \in Accounts : copies[i] = 0

SeedOrSkip == IF NoUsers THEN "seed" ELSE "ping"

CountUsers(s) ==
  /\ at[s] = "count"
  /\ db = "up"
  /\ GoTo(s, SeedOrSkip, 1)
  /\ UNCHANGED <<database, visitors, wanted, bucket, faults>>

\* Wrong on purpose: no unique index.
NeverRefused(i) == FALSE

\* The unique index on users.username.
Refused(i) == i \in Accounts /\ (copies[i] > 0 \/ i \in visitors)

\* Wrong on purpose: the seed's errors are logged, and the start goes on.
LogOnError(s) ==
  CASE at[s] = "count" -> GoTo(s, "ping", 1)
    [] at[s] = "seed" /\ pos[s] < 12 -> GoTo(s, "seed", pos[s] + 1)
    [] OTHER -> GoTo(s, "off", 1)

\* What main does about an error: it exits, whatever it was doing.
OnError(s) == GoTo(s, "off", 1)

\* After an item comes the next one.  The seed gets as far as the posts, so what would
\* come after the last item is never reached: only init.sql inserts the rest.
CreateSeed(s) ==
  /\ at[s] = "seed"
  /\ db = "up"
  /\ ~Refused(pos[s]) /\ pos[s] \notin Unstorable
  /\ copies' = [copies EXCEPT ![pos[s]] = @ + 1]
  /\ GoTo(s, "seed", pos[s] + 1)
  /\ UNCHANGED <<db, tables, script, visitors, wanted, bucket, faults>>

\* A duplicate name, or rows that cannot be stored: seed returns the error.
CreateRefused(s) ==
  /\ at[s] = "seed"
  /\ db = "up"
  /\ Refused(pos[s]) \/ pos[s] \in Unstorable
  /\ OnError(s)
  /\ UNCHANGED <<database, visitors, wanted, bucket, faults>>

PingRedis(s) ==
  /\ at[s] = "ping"
  /\ GoTo(s, "bucket", 1)
  /\ UNCHANGED <<database, visitors, wanted, bucket, faults>>

EnsureBucket(s) ==
  /\ at[s] = "bucket"
  /\ bucket' = TRUE
  /\ GoTo(s, "listen", 1)
  /\ UNCHANGED <<database, visitors, wanted, faults>>

\* A statement, the ping or the bucket fails: because the database is not up, or by a
\* fault of its own (two servers that create one table or one bucket among them).
Fail(s) ==
  /\ at[s] \in Starting
  /\ \/ db # "up" /\ UNCHANGED faults
     \/ faults < MaxFaults /\ faults' = faults + 1
  /\ OnError(s)
  /\ UNCHANGED <<database, visitors, wanted, bucket>>

(***************************************************************************)
(* Answering requests, and the end.                                        *)
(***************************************************************************)
\* UserService.Register, the insert of a visitor's account.
Register(s, n) ==
  /\ at[s] = "listen"
  /\ db = "up"
  /\ ~Refused(n)
  /\ visitors' = visitors \cup {n}
  /\ UNCHANGED <<database, process, wanted, bucket, faults>>

Accept(s) ==
  /\ at[s] = "listen"
  /\ serving[s] < MaxRequests
  /\ serving' = [serving EXCEPT ![s] = @ + 1]
  /\ UNCHANGED <<database, visitors, at, pos, wanted, bucket, faults>>

Finish(s) ==
  /\ serving[s] > 0
  /\ serving' = [serving EXCEPT ![s] = @ - 1]
  /\ UNCHANGED <<database, visitors, at, pos, wanted, bucket, faults>>

\* SIGTERM.  It is handled from the moment main listens; before, it ends the process.
Stop(s) ==
  /\ wanted[s]
  /\ wanted' = [wanted EXCEPT ![s] = FALSE]
  /\ IF at[s] \in {"listen", "drain"} THEN GoTo(s, "drain", 1) ELSE GoTo(s, "off", 1)
  /\ UNCHANGED <<database, visitors, bucket, faults>>

\* Shutdown waits for the requests under way.
Drained(s) ==
  /\ at[s] = "drain"
  /\ serving[s] = 0
  /\ GoTo(s, "off", 1)
  /\ UNCHANGED <<database, visitors, wanted, bucket, faults>>

Gone(s) ==
  /\ at' = [at EXCEPT ![s] = "off"]
  /\ pos' = [pos EXCEPT ![s] = 1]
  /\ serving' = [serving EXCEPT ![s] = 0]

\* Wrong on purpose: Shutdown without a deadline.
NoGrace(s) == Drained(s)

\* ... but five seconds at most: main returns, and what is left is cut off.
GraceOver(s) ==
  /\ at[s] = "drain"
  /\ Gone(s)
  /\ UNCHANGED <<database, visitors, wanted, bucket, faults>>

\* The process dies, or ListenAndServe fails.
Kill(s) ==
  /\ at[s] # "off"
  /\ faults < MaxFaults
  /\ faults' = faults + 1
  /\ Gone(s)
  /\ UNCHANGED <<database, visitors, wanted, bucket>>

Up(s) ==
  /\ ~wanted[s]
  /\ wanted' = [wanted EXCEPT ![s] = TRUE]
  /\ UNCHANGED <<database, visitors, process, bucket, faults>>

DbStep == DbFirstStart \/ ScriptTable \/ ScriptInsert \/ ScriptDone \/ DbRestart

Main(s) ==
  \/ Start(s) \/ MigrateTable(s) \/ CountUsers(s) \/ CreateSeed(s) \/ CreateRefused(s)
  \/ PingRedis(s) \/ EnsureBucket(s) \/ Drained(s) \/ GraceOver(s)

Next ==
  \/ DbStep
  \/ DbCrash
  \/ \E s \in Servers :
       \/ Main(s) \/ Fail(s) \/ Kill(s)
       \/ Accept(s) \/ Finish(s) \/ Stop(s) \/ Up(s)
       \/ \E n \in Names : Register(s, n)

\* The containers run and are restarted, main goes on, and five seconds pass.  A request
\* may hang for ever, and nobody need ever send one.
Fairness == WF_vars(DbStep) /\ \A s \in Servers : WF_vars(Main(s))

Spec == Init /\ [][Next]_vars /\ Fairness

(***************************************************************************)
(* Properties.                                                             *)
(***************************************************************************)
\* No demo row is in the database twice, whoever else starts at the same time: the count
\* of users is not looked at again, so it is the unique name of the first account that
\* lets only one seed go on.
SeededOnce == \A i \in Items : copies[i] <= 1

\* However a seed or the script was cut off, no demo row refers to one that is missing.
ReferencesHold ==
  \A i \in Items : copies[i] > 0 => \A j \in RefersTo[i] : copies[j] > 0

\* Nobody gets in before the administrator: whoever registers finds the account "admin"
\* of the seed there, so the name is never free for a visitor to take.
AdminIsSeeded == visitors # {} => copies[Admin] > 0

\* A server that is wanted comes up and stays up once the faults are over, whatever
\* half-initialised database they left behind.
ComesUp == \A s \in Servers : <>[]wanted[s] => <>[](at[s] = "listen")

\* A shutdown ends, even when a request hangs.
StopEnds == \A s \in Servers : at[s] = "drain" ~> at[s] # "drain"
=============================================================================
