--------------------------- MODULE StartupProofs ---------------------------
(***************************************************************************)
(* Proofs about Startup, for any number of nodes, migrations and           *)
(* permissions.                                                            *)
(***************************************************************************)
EXTENDS Startup, TLAPS

USE NodesAssumption, MigrationsAssumption, CrashesAssumption

(* What a node has read stays true of the database as it goes on: nothing  *)
(* is ever taken back.                                                     *)
Snapshots ==
    \A n \in Nodes :
       /\ pc[n] = "migrating" => seen[n] >= 1 /\ seen[n] <= schema
       /\ pc[n] \in {"inserting", "completing"} => schema = NewestSchema
       /\ pc[n] = "completing" =>
             /\ account[n] \in admins
             /\ Permissions \subseteq Held(account[n]) \cup missing[n]

OneAdmin == \A a, b \in admins : a = b

(* The next failure of a node needs a change that it has not seen.         *)
Failures ==
    \A n \in Nodes :
       /\ failures[n] <= Progress
       /\ admins = {} \/ schema < NewestSchema => failures[n] <= schema
       /\ pc[n] = "creating" => failures[n] = 0
       /\ pc[n] = "migrating" /\ seen[n] # NewestSchema
             => failures[n] <= seen[n]
       /\ pc[n] = "inserting" => failures[n] <= NewestSchema

IInv == TypeOK /\ Snapshots /\ OneAdmin /\ ReadyToServe /\ Failures

----------------------------------------------------------------------------
(* Permissions granted to an account are held, those of others unchanged.  *)
LEMMA GrantedIsHeld ==
    ASSUME claims \subseteq ClaimRow,
           NEW user \in Accounts, NEW new \in SUBSET Permissions,
           NEW node \in Accounts,
           claims' = claims \cup Granted(user, new, node)
    PROVE  /\ claims' \subseteq ClaimRow
           /\ Held(user)' = Held(user) \cup new
           /\ \A a : Held(a) \subseteq Held(a)'
           /\ \A a : Held(a)' \subseteq Permissions
<1>1. Granted(user, new, node) \subseteq ClaimRow
  BY DEF Granted, ClaimRow
<1>2. claims' \subseteq ClaimRow
  BY <1>1
<1>3. \A a : Held(a) \subseteq Held(a)'
  BY DEF Held
<1>4. \A a : Held(a)' \subseteq Permissions
  BY <1>2 DEF Held, ClaimRow
<1>5. ASSUME NEW p \in new PROVE p \in Held(user)'
  <2> DEFINE c == [user |-> user, permission |-> p, by |-> node]
  <2>1. c \in claims' /\ c.user = user /\ c.permission = p
    BY DEF Granted
  <2> QED
    BY <2>1 DEF Held
<1>6. ASSUME NEW p \in Held(user)' PROVE p \in Held(user) \cup new
  <2>1. PICK c \in claims' : c.user = user /\ c.permission = p
    BY DEF Held
  <2>2. CASE c \in claims
    BY <2>1, <2>2 DEF Held
  <2>3. CASE c \in Granted(user, new, node)
    BY <2>1, <2>3 DEF Granted
  <2> QED
    BY <2>2, <2>3
<1> QED
  BY <1>2, <1>3, <1>4, <1>5, <1>6

LEMMA InitIInv == Init => IInv
<1> SUFFICES ASSUME Init PROVE IInv
  OBVIOUS
<1>1. claims \subseteq ClaimRow
  <2>1. CASE claims = {}
    BY <2>1
  <2>2. CASE \E old \in SUBSET Permissions :
                claims = Granted(Deployed, old, Deployed)
    BY <2>2 DEF Granted, ClaimRow, Accounts
  <2> QED
    BY <2>1, <2>2 DEF Init
<1>2. TypeOK
  BY <1>1 DEF Init, TypeOK, Stages, NewestSchema, Accounts
<1> QED
  BY <1>2 DEF Init, IInv, Snapshots, OneAdmin, ReadyToServe, Failures,
     Progress, NewestSchema

----------------------------------------------------------------------------
(* A step of one node keeps the invariant: for that node, and for the      *)
(* others, which only see the database grow.                               *)

LEMMA StartKeeps == ASSUME IInv, NEW n \in Nodes, Start(n) PROVE IInv'
BY DEF IInv, TypeOK, Stages, Snapshots, OneAdmin, ReadyToServe, Failures,
   Progress, Start, Goto, database, Held

LEMMA FailKeeps ==
    ASSUME IInv, NEW n \in Nodes, Fail(n),
           \/ pc[n] = "creating" /\ schema # 0
           \/ pc[n] = "migrating" /\ seen[n] # NewestSchema
                /\ schema + 1 # Pending(n)
           \/ pc[n] = "inserting" /\ admins # {}
    PROVE IInv'
<1>1. TypeOK'
  BY DEF IInv, TypeOK, Stages, Fail, Goto, database
<1>2. /\ failures[n] + 1 <= Progress
      /\ admins = {} \/ schema < NewestSchema => failures[n] + 1 <= schema
  BY DEF IInv, TypeOK, Snapshots, Failures, Progress, Pending, NewestSchema
<1>3. Failures'
  BY <1>2 DEF IInv, TypeOK, Failures, Progress, Fail, Goto, database
<1> QED
  BY <1>1, <1>3
  DEF IInv, TypeOK, Snapshots, OneAdmin, ReadyToServe, Held, Fail, Goto,
      database

LEMMA ReadHistoryKeeps ==
    ASSUME IInv, NEW n \in Nodes, ReadHistory(n) PROVE IInv'
<1>1. TypeOK'
  BY DEF IInv, TypeOK, Stages, ReadHistory, Goto, database
<1>2. Failures'
  BY DEF IInv, TypeOK, Failures, Progress, NewestSchema, ReadHistory, Goto,
     database
<1> QED
  BY <1>1, <1>2
  DEF IInv, TypeOK, Snapshots, OneAdmin, ReadyToServe, Held, ReadHistory,
      Goto, database

LEMMA CreateHistoryKeeps ==
    ASSUME IInv, NEW n \in Nodes, CreateHistory(n) PROVE IInv'
<1>1. CASE schema # 0 /\ Fail(n)
  BY <1>1, FailKeeps DEF CreateHistory
<1>2. CASE ~ (schema # 0 /\ Fail(n))
  <2>1. /\ schema = 0 /\ schema' = 1 /\ Goto(n, "starting")
        /\ UNCHANGED <<admins, claims, seen, account, missing, failures,
                       crashes>>
    BY <1>2 DEF CreateHistory
  <2>2. TypeOK'
    BY <2>1 DEF IInv, TypeOK, Stages, Goto, NewestSchema
  <2>3. Failures'
    BY <2>1 DEF IInv, TypeOK, Failures, Progress, NewestSchema, Goto
  <2>4. Snapshots' /\ OneAdmin' /\ ReadyToServe'
    BY <2>1 DEF IInv, TypeOK, Snapshots, OneAdmin, ReadyToServe, Held,
       NewestSchema, Goto
  <2> QED
    BY <2>2, <2>3, <2>4 DEF IInv
<1> QED
  BY <1>1, <1>2

LEMMA MigrateKeeps == ASSUME IInv, NEW n \in Nodes, Migrate(n) PROVE IInv'
<1>1. CASE schema + 1 # Pending(n) /\ Fail(n)
  BY <1>1, FailKeeps DEF Migrate
<1>2. CASE ~ (schema + 1 # Pending(n) /\ Fail(n))
  <2>1. /\ pc[n] = "migrating" /\ seen[n] # NewestSchema
        /\ schema = seen[n] /\ schema' = schema + 1
        /\ seen' = [seen EXCEPT ![n] = schema']
        /\ UNCHANGED <<admins, claims, pc, account, missing, failures,
                       crashes>>
    BY <1>2 DEF Migrate, Pending, IInv, TypeOK, NewestSchema
  <2>2. TypeOK'
    BY <2>1 DEF IInv, TypeOK, NewestSchema
  <2>3. Failures'
    BY <2>1 DEF IInv, TypeOK, Failures, Progress, NewestSchema
  <2>4. Snapshots' /\ OneAdmin' /\ ReadyToServe'
    BY <2>1 DEF IInv, TypeOK, Snapshots, OneAdmin, ReadyToServe, Held,
       NewestSchema
  <2> QED
    BY <2>2, <2>3, <2>4 DEF IInv
<1> QED
  BY <1>1, <1>2

LEMMA LookUpAdminKeeps ==
    ASSUME IInv, NEW n \in Nodes, LookUpAdmin(n) PROVE IInv'
<1>1. /\ schema = NewestSchema
      /\ UNCHANGED <<schema, admins, claims, seen, failures, crashes>>
      /\ \A a : UNCHANGED Held(a)
  BY DEF IInv, TypeOK, Snapshots, NewestSchema, LookUpAdmin, database, Held
<1>2. \A a : Held(a) \subseteq Permissions
  BY DEF IInv, TypeOK, Held, ClaimRow
<1>3. TypeOK'
  BY <1>1 DEF IInv, TypeOK, Stages, LookUpAdmin, Goto, Lacking
<1>4. Failures'
  BY <1>1 DEF IInv, TypeOK, Failures, Progress, LookUpAdmin, Goto
<1>5. Snapshots'
  BY <1>1 DEF IInv, TypeOK, Snapshots, LookUpAdmin, Goto, Lacking
<1>6. OneAdmin'
  BY <1>1 DEF IInv, OneAdmin
<1>7. ReadyToServe'
  <2> SUFFICES ASSUME NEW m \in Nodes, pc'[m] = "running"
               PROVE  \E a \in admins :
                         admins = {a} /\ Held(a) = Permissions
    BY <1>1 DEF ReadyToServe
  <2>1. CASE pc[m] = "running"
    BY <2>1 DEF IInv, ReadyToServe
  <2>2. CASE pc[m] # "running"
    <3>1. PICK a \in admins : Lacking(a) = {}
      BY <2>2 DEF LookUpAdmin, Goto, IInv, TypeOK
    <3> QED
      BY <1>2, <3>1 DEF Lacking, IInv, OneAdmin
  <2> QED
    BY <2>1, <2>2
<1> QED
  BY <1>3, <1>4, <1>5, <1>6, <1>7 DEF IInv

LEMMA InsertAdminKeeps ==
    ASSUME IInv, NEW n \in Nodes, InsertAdmin(n) PROVE IInv'
<1>1. CASE admins # {} /\ Fail(n)
  BY <1>1, FailKeeps DEF InsertAdmin
<1>2. CASE ~ (admins # {} /\ Fail(n))
  <2>1. /\ pc[n] = "inserting" /\ admins = {} /\ admins' = {n}
        /\ claims' = claims \cup Granted(n, Permissions, n)
        /\ Goto(n, "running")
        /\ UNCHANGED <<schema, seen, account, missing, failures, crashes>>
    BY <1>2 DEF InsertAdmin
  <2>2. /\ claims' \subseteq ClaimRow
        /\ Held(n)' = Permissions
        /\ schema = NewestSchema
    <3>1. claims \subseteq ClaimRow /\ n \in Accounts
      BY DEF IInv, TypeOK, Accounts
    <3>2. /\ claims' \subseteq ClaimRow
          /\ Held(n)' = Held(n) \cup Permissions
          /\ Held(n)' \subseteq Permissions
      BY <2>1, <3>1, GrantedIsHeld
    <3> QED
      BY <2>1, <3>2 DEF IInv, Snapshots
  <2>3. TypeOK'
    BY <2>1, <2>2 DEF IInv, TypeOK, Accounts, Goto
  <2>4. Failures'
    BY <2>1 DEF IInv, TypeOK, Failures, Progress, NewestSchema, Goto
  <2>5. Snapshots'
    BY <2>1 DEF IInv, TypeOK, Snapshots, Goto
  <2>6. OneAdmin' /\ ReadyToServe'
    BY <2>1, <2>2 DEF OneAdmin, ReadyToServe, Goto
  <2> QED
    BY <2>3, <2>4, <2>5, <2>6 DEF IInv
<1> QED
  BY <1>1, <1>2

LEMMA CompleteAdminKeeps ==
    ASSUME IInv, NEW n \in Nodes, CompleteAdmin(n) PROVE IInv'
<1>1. /\ pc[n] = "completing"
      /\ claims' = claims \cup Granted(account[n], missing[n], n)
      /\ pc' = [pc EXCEPT ![n] = "running"]
      /\ UNCHANGED <<schema, admins, seen, account, missing, failures, crashes>>
  BY DEF CompleteAdmin, Goto
<1>2. /\ account[n] \in Accounts /\ missing[n] \in SUBSET Permissions
      /\ account[n] \in admins /\ schema = NewestSchema
      /\ Permissions \subseteq Held(account[n]) \cup missing[n]
  BY <1>1 DEF IInv, TypeOK, Snapshots
<1>3. /\ claims' \subseteq ClaimRow
      /\ Held(account[n])' = Held(account[n]) \cup missing[n]
      /\ \A a : Held(a) \subseteq Held(a)'
      /\ \A a : Held(a)' \subseteq Permissions
  BY <1>1, <1>2, GrantedIsHeld DEF IInv, TypeOK, Accounts
<1>4. TypeOK'
  BY <1>1, <1>3 DEF IInv, TypeOK
<1>5. Failures'
  BY <1>1 DEF IInv, TypeOK, Failures, Progress
<1>6. Snapshots'
  <2> SUFFICES ASSUME NEW m \in Nodes, pc'[m] = "completing"
               PROVE  Permissions \subseteq Held(account[m])' \cup missing[m]
    BY <1>1 DEF IInv, TypeOK, Snapshots
  <2>1. pc[m] = "completing"
    BY <1>1 DEF IInv, TypeOK
  <2>2. Held(account[m]) \subseteq Held(account[m])'
    BY <1>1, <1>3
  <2> QED
    BY <2>1, <2>2 DEF IInv, Snapshots
<1>7. OneAdmin'
  BY <1>1 DEF IInv, OneAdmin
<1>8. ReadyToServe'
  <2>1. admins = {account[n]} /\ Held(account[n])' = Permissions
    BY <1>2, <1>3 DEF IInv, OneAdmin
  <2> QED
    BY <1>1, <1>2, <2>1 DEF ReadyToServe
<1> QED
  BY <1>4, <1>5, <1>6, <1>7, <1>8 DEF IInv

LEMMA CrashKeeps == ASSUME IInv, NEW n \in Nodes, Crash(n) PROVE IInv'
BY DEF IInv, TypeOK, Stages, Snapshots, OneAdmin, ReadyToServe, Failures,
   Progress, Crash, Goto, database, Held

LEMMA NextKeepsIInv == IInv /\ [Next]_vars => IInv'
<1> SUFFICES ASSUME IInv, [Next]_vars PROVE IInv'
  OBVIOUS
<1>1. ASSUME NEW n \in Nodes, MigrateAndSeed(n) PROVE IInv'
  BY <1>1, ReadHistoryKeeps, CreateHistoryKeeps, MigrateKeeps,
     LookUpAdminKeeps, InsertAdminKeeps, CompleteAdminKeeps DEF MigrateAndSeed
<1>2. ASSUME NEW n \in Nodes, Start(n) \/ Crash(n) PROVE IInv'
  BY <1>2, StartKeeps, CrashKeeps
<1>3. CASE UNCHANGED vars
  BY <1>3 DEF vars, IInv, TypeOK, Snapshots, OneAdmin, ReadyToServe, Failures,
     Progress, Held
<1> QED
  BY <1>1, <1>2, <1>3 DEF Next

LEMMA Invariance == Spec => []IInv
  BY InitIInv, NextKeepsIInv, PTL DEF Spec

----------------------------------------------------------------------------
(* Whatever the nodes do, every one is at a step of MigrateAndSeedAsync,   *)
(* and what it holds of the database is of the kind that step reads.       *)
THEOREM StartupTypeCorrectness == Spec => []TypeOK
<1>1. IInv => TypeOK
  BY DEF IInv
<1> QED
  BY <1>1, Invariance, PTL

(* A node that serves requests finds the whole schema and one complete     *)
(* administrator, however many nodes run MigrateAndSeedAsync at once.      *)
THEOREM ReadinessCorrectness == Spec => []ReadyToServe
<1>1. IInv => ReadyToServe
  BY DEF IInv
<1> QED
  BY <1>1, Invariance, PTL

(* A node's start-up fails at most once for each change that the others    *)
(* make to the database: start-ups do not fail for ever.                   *)
THEOREM FailureBound == Spec => []FailuresAreProgress
<1>1. IInv => FailuresAreProgress
  BY DEF IInv, Failures, FailuresAreProgress
<1> QED
  BY <1>1, Invariance, PTL
=============================================================================
