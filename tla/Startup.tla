------------------------------ MODULE Startup ------------------------------
(***************************************************************************)
(* DbSeeder.MigrateAndSeedAsync, which every web node runs before it       *)
(* serves requests: pending migrations, then the administrator.  The nodes *)
(* of the cluster start together on one database, with no lock between     *)
(* them.  A node whose start-up throws serves nothing until its            *)
(* application pool is recycled: it is hosted in process (web.config), so  *)
(* that no request starts it again.                                        *)
(*                                                                         *)
(* Everything between two database calls is one action; a migration, like  *)
(* SaveChangesAsync, is one transaction.                                   *)
(***************************************************************************)
EXTENDS Integers

CONSTANTS
    Nodes,          \* the web nodes
    Permissions,    \* Permissions.All
    Deployed,       \* stands for the node that ran an earlier release
    Migrations,     \* number of migrations of this release
    MaxCrashes      \* bound: how many nodes are stopped from outside

ASSUME NodesAssumption == Deployed \notin Nodes
ASSUME MigrationsAssumption == Migrations \in Nat \ {0}
ASSUME CrashesAssumption == MaxCrashes \in Nat

Accounts == Nodes \cup {Deployed}

VARIABLES
    schema,     \* 0: no tables; 1: the history table; 1 + m: m migrations
    admins,     \* rows of CDN.AppUsers with the administrator's name
    claims,     \* rows of CDN.UserClaims
    pc,         \* where each node is
    seen,       \* the schema as the node read it and brought it forward
    account,    \* the administrator's row the node read
    missing,    \* the permissions it found missing
    failures,   \* history variable: start-ups of the node that threw
    crashes     \* nodes stopped from outside so far

vars == <<schema, admins, claims, pc, seen, account, missing, failures, crashes>>

database == <<schema, admins, claims>>

NewestSchema == 1 + Migrations

Stages == {"starting", "creating", "migrating", "inserting", "completing"}

ClaimRow == [user : Accounts, permission : Permissions, by : Accounts]

(* Mutant of Granted: the columns are mixed up. *)
GrantedSwapped(user, permissions, node) ==
    [user : permissions, permission : {user}, by : {node}]

(* The rows that grant permissions to an account. *)
Granted(user, permissions, node) ==
    [user : {user}, permission : permissions, by : {node}]

Held(user) == {c.permission : c \in {d \in claims : d.user = user}}

TypeOK ==
    /\ schema \in 0 .. NewestSchema
    /\ admins \subseteq Accounts
    /\ claims \subseteq ClaimRow
    /\ pc \in [Nodes -> {"down", "running"} \cup Stages]
    /\ seen \in [Nodes -> 0 .. NewestSchema]
    /\ account \in [Nodes -> Accounts]
    /\ missing \in [Nodes -> SUBSET Permissions]
    /\ failures \in [Nodes -> Nat]
    /\ crashes \in 0 .. MaxCrashes

(* The database is empty, or an earlier release, with some of the          *)
(* migrations and of the permissions, has run on it.                       *)
Init ==
    /\ \/ schema = 0 /\ admins = {} /\ claims = {}
       \/ /\ schema \in 2 .. NewestSchema
          /\ admins = {Deployed}
          /\ \E old \in SUBSET Permissions :
                claims = Granted(Deployed, old, Deployed)
    /\ pc = [n \in Nodes |-> "down"]
    /\ seen = [n \in Nodes |-> 0]
    /\ account = [n \in Nodes |-> n]
    /\ missing = [n \in Nodes |-> {}]
    /\ failures = [n \in Nodes |-> 0]
    /\ crashes = 0

Goto(n, stage) == pc' = [pc EXCEPT ![n] = stage]

----------------------------------------------------------------------------
(* A node that is down is started: by the first request after a deployment *)
(* or a recycling of its pool.  Nothing in the system makes this happen.   *)
Start(n) ==
    /\ pc[n] = "down"
    /\ Goto(n, "starting")
    /\ UNCHANGED <<database, seen, account, missing, failures, crashes>>

(* An exception leaves Main: every request is answered with an error until *)
(* the node is started anew.                                               *)
Fail(n) ==
    /\ Goto(n, "down")
    /\ failures' = [failures EXCEPT ![n] = @ + 1]
    /\ UNCHANGED <<database, seen, account, missing, crashes>>

(* MigrateAsync reads the history table, or finds that there is none.      *)
ReadHistory(n) ==
    /\ pc[n] = "starting"
    /\ IF schema = 0
       THEN Goto(n, "creating") /\ UNCHANGED seen
       ELSE Goto(n, "migrating") /\ seen' = [seen EXCEPT ![n] = schema]
    /\ UNCHANGED <<database, account, missing, failures, crashes>>

(* CREATE TABLE throws if another node has been faster. *)
CreateHistory(n) ==
    /\ pc[n] = "creating"
    /\ \/ /\ schema = 0
          /\ schema' = 1
          /\ Goto(n, "starting")
          /\ UNCHANGED <<admins, claims, seen, account, missing, failures,
                         crashes>>
       \/ schema # 0 /\ Fail(n)

(* Mutant of Pending: the newest applied migration is pending. *)
PendingAgain(n) == seen[n]

(* The schema after the next of the pending migrations. *)
Pending(n) == seen[n] + 1

(* Mutant of Migrate: a conflict is tried again, as it stands. *)
MigrateStubbornly(n) ==
    /\ pc[n] = "migrating"
    /\ seen[n] # NewestSchema
    /\ \/ /\ schema + 1 = Pending(n)
          /\ schema' = Pending(n)
          /\ seen' = [seen EXCEPT ![n] = schema']
          /\ UNCHANGED <<admins, claims, pc, account, missing, failures,
                         crashes>>
       \/ schema + 1 # Pending(n) /\ UNCHANGED vars

(* The pending migrations are applied one by one, and one that another     *)
(* node has applied in the meantime throws: its tables and columns exist.  *)
Migrate(n) ==
    /\ pc[n] = "migrating"
    /\ seen[n] # NewestSchema
    /\ \/ /\ schema + 1 = Pending(n)
          /\ schema' = Pending(n)
          /\ seen' = [seen EXCEPT ![n] = schema']
          /\ UNCHANGED <<admins, claims, pc, account, missing, failures,
                         crashes>>
       \/ schema + 1 # Pending(n) /\ Fail(n)

(* Mutant of Lacking: an existing administrator is left as it is. *)
NothingLacking(user) == {}

(* The upgrade path: the permissions an existing administrator lacks.      *)
Lacking(user) == Permissions \ Held(user)

LookUpAdmin(n) ==
    /\ pc[n] = "migrating"
    /\ seen[n] = NewestSchema
    /\ \/ \E a \in admins :
             /\ account' = [account EXCEPT ![n] = a]
             /\ missing' = [missing EXCEPT ![n] = Lacking(a)]
             /\ Goto(n, IF Lacking(a) = {} THEN "running" ELSE "completing")
       \/ /\ admins = {}
          /\ Goto(n, "inserting")
          /\ UNCHANGED <<account, missing>>
    /\ UNCHANGED <<database, seen, failures, crashes>>

(* The unique index on UserName refuses a second administrator.            *)
InsertAdmin(n) ==
    /\ pc[n] = "inserting"
    /\ \/ /\ admins = {}
          /\ admins' = {n}
          /\ claims' = claims \cup Granted(n, Permissions, n)
          /\ Goto(n, "running")
          /\ UNCHANGED <<schema, seen, account, missing, failures, crashes>>
       \/ admins # {} /\ Fail(n)

(* No index refuses a claim that another node has added in the meantime:   *)
(* the administrator then holds it twice.                                  *)
CompleteAdmin(n) ==
    /\ pc[n] = "completing"
    /\ claims' = claims \cup Granted(account[n], missing[n], n)
    /\ Goto(n, "running")
    /\ UNCHANGED <<schema, admins, seen, account, missing, failures, crashes>>

(* A deployment, an operator or a failure of the machine stops a node.     *)
Crash(n) ==
    /\ crashes < MaxCrashes
    /\ pc[n] # "down"
    /\ Goto(n, "down")
    /\ crashes' = crashes + 1
    /\ UNCHANGED <<database, seen, account, missing, failures>>

----------------------------------------------------------------------------
MigrateAndSeed(n) ==
    \/ ReadHistory(n) \/ CreateHistory(n) \/ Migrate(n)
    \/ LookUpAdmin(n) \/ InsertAdmin(n) \/ CompleteAdmin(n)

Next == \E n \in Nodes : Start(n) \/ MigrateAndSeed(n) \/ Crash(n)

Spec == Init /\ [][Next]_vars

(* A process that was started runs on.  That a node is started, or started *)
(* again, is not assumed.                                                  *)
FairSpec == Spec /\ \A n \in Nodes : WF_vars(MigrateAndSeed(n))

----------------------------------------------------------------------------
(* A node that serves requests finds every table and one administrator,    *)
(* who can sign in with every permission: not one that another node is     *)
(* still completing, nor two of them.                                      *)
ReadyToServe ==
    \A n \in Nodes : pc[n] = "running" =>
       /\ schema = NewestSchema
       /\ \E a \in admins : admins = {a} /\ Held(a) = Permissions

(* A start-up throws only because another node has changed the database    *)
(* since this one read it: a node fails at most once for each table of the *)
(* history, each migration and the administrator.                          *)
Progress == schema + IF admins = {} THEN 0 ELSE 1

FailuresAreProgress == \A n \in Nodes : failures[n] <= Progress

(* "The database/tables are created on first run": a node that is started  *)
(* again whenever it went down runs in the end, however many of them start *)
(* at once and whatever the others were stopped at; a start-up never hangs *)
(* and no node fails over and over again.                                  *)
NodesStart ==
    \A n \in Nodes : []<>(pc[n] # "down") => <>[](pc[n] = "running")
=============================================================================
