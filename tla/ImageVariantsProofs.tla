------------------------- MODULE ImageVariantsProofs -------------------------
(***************************************************************************)
(* The images and their variants, whatever the names, the contents, the    *)
(* requests and the jobs are, with exceptions, crashes and deletions.      *)
(***************************************************************************)
EXTENDS ImageVariants, TLAPS

(***************************************************************************)
(* The inductive invariant.                                                *)
(***************************************************************************)

Workers == Requests \cup Jobs
Names == {sent[r][1] : r \in Requests}

Types ==
    /\ sent \in [Requests -> MaySend]
    /\ DOMAIN work = Workers
    /\ \A w \in Workers :
          work[w] = [at |-> work[w].at, todo |-> work[w].todo,
                     name |-> work[w].name, image |-> work[w].image]

(* A request works on the name it sends, a job on one that has a row.      *)
Tasks ==
    /\ \A r \in Requests :
          /\ work[r].name = sent[r][1]
          /\ work[r].at \in {"idle", "placed", "ended"} \cup Generating
    /\ \A j \in Jobs :
          /\ work[j].at \in {"idle", "scanning"} \cup Generating
          /\ work[j].at \in Generating => work[j].name \in Names
          /\ work[j].todo \subseteq Names
    /\ DOMAIN rows \subseteq Names

FullIsCurrent(n) ==
    Exists(Full(n)) /\ disk[Full(n)] = Encoded(disk[n])

ThumbIsCurrent(n) ==
    Exists(Thumb(n)) /\ disk[Thumb(n)] = Reduced(disk[n])

(* What the only worker at a name has done.                                *)
OnCourse(w, n) ==
    LET image == work[w].image IN
    /\ work[w].at = "placed" =>
          w \in Requests /\ Exists(n) /\ disk[n] = Uploaded(sent[w][2])
    /\ work[w].at \in {"encoding", "reducing"} => Exists(n) /\ image = disk[n]
    /\ work[w].at = "encoding" => EncodesFull(n)
    /\ work[w].at = "reducing" /\ EncodesFull(n) => FullIsCurrent(n)

(* OriginalsAreKept and VariantsAreCurrent speak of a name at rest.  How   *)
(* it comes to rest depends on who had it in hand: a name that is not      *)
(* disturbed is in the hand of at most one.                                *)
NameInOrder(n) ==
    /\ \A v, w \in Busy(n) : v = w
    /\ \A w \in Busy(n) : OnCourse(w, n)
    /\ n \in DOMAIN rows /\ (\A w \in Busy(n) : work[w].at # "placed")
          => Exists(n) /\ disk[n] = rows[n].hash
    /\ Busy(n) = {} /\ n \in DOMAIN rows /\ Decodable(disk[n])
          => ThumbIsCurrent(n) /\ (EncodesFull(n) => FullIsCurrent(n))

InOrder ==
    \A n \in Names : Alone(n) /\ n \notin disturbed => NameInOrder(n)

IInv == Types /\ Tasks /\ InOrder

LEMMA InitIInv == Init => IInv
<1> SUFFICES ASSUME Init PROVE IInv
  OBVIOUS
<1>1. /\ sent \in [Requests -> MaySend]
      /\ work = [w \in Workers |->
                   [at |-> "idle", todo |-> {},
                    name |-> IF w \in Jobs THEN None ELSE sent[w][1],
                    image |-> None]]
      /\ DOMAIN rows = {}
  BY DEF Init, Workers
<1>2. Types
  BY <1>1 DEF Types
<1>3. Tasks
  BY <1>1, WorkersAssumption DEF Tasks, Workers, Generating
<1>4. \A n : Busy(n) = {}
  BY <1>1 DEF Busy, Generating
<1>5. InOrder
  BY <1>1, <1>4 DEF InOrder, NameInOrder
<1> QED
  BY <1>2, <1>3, <1>5 DEF IInv

(***************************************************************************)
(* Lemmas about the operators of the model.                                *)
(***************************************************************************)

(* An image and its variants are different files, unless it is a .webp.    *)
LEMMA OwnFiles ==
    ASSUME Types, NEW n \in Names
    PROVE  /\ Thumb(n) # n /\ Thumb(n) # Full(n)
           /\ EncodesFull(n) => Full(n) # n
<1>1. PICK r \in Requests : n = sent[r][1]
  BY DEF Names
<1>2. sent[r] \in MaySend
  BY <1>1 DEF Types
<1>3. /\ n = [base |-> n.base, suffixes |-> n.suffixes, ext |-> n.ext]
      /\ n.suffixes \in Nat
  BY <1>1, <1>2, NamesAssumption
<1>4. PICK b, s, e : n = [base |-> b, suffixes |-> s, ext |-> e] /\ s \in Nat
  BY <1>3
<1>5. Thumb(n).suffixes = s + 1 /\ Full(n).suffixes = s /\ n.suffixes = s
  BY <1>4 DEF Thumb, Full
<1>6. Full(n).ext = "webp"
  BY <1>4 DEF Full
<1> QED
  BY <1>4, <1>5, <1>6 DEF EncodesFull

(* Another name that is sent has other files. *)
LEMMA OtherFiles ==
    ASSUME NEW n, Alone(n), NEW m \in Names, m # n
    PROVE  \A l \in {m, Full(m), Thumb(m)} : l \notin {n, Full(n), Thumb(n)}
  BY DEF Alone, Variants, Names

(* Nothing happens to a file. *)
SameFile(l) == /\ Exists(l) <=> Exists(l)'
               /\ Exists(l) => disk'[l] = disk[l]

LEMMA AfterWith ==
    ASSUME NEW l, NEW b, disk' = With(l, b)
    PROVE  /\ Exists(l)' /\ disk'[l] = b
           /\ \A k : k # l => SameFile(k)
  BY DEF With, Exists, SameFile

LEMMA SameDisk == ASSUME disk' = disk PROVE \A k : SameFile(k)
  BY DEF Exists, SameFile

(* What a step of w makes of what the workers are at.                      *)
Works(w, at, todo, name, image) ==
    /\ DOMAIN work' = Workers
    /\ work'[w] = [at |-> at, todo |-> todo, name |-> name, image |-> image]
    /\ \A v \in Workers : v # w => work'[v] = work[v]

LEMMA GotoWorks ==
    ASSUME Types, NEW w \in Workers, NEW stage, Goto(w, stage)
    PROVE  Works(w, stage, work[w].todo, work[w].name, work[w].image)
<1>1. work' = [work EXCEPT ![w] = [work[w] EXCEPT !.at = stage]]
  BY DEF Goto
<1>2. PICK a, t, n, i : work[w] = [at |-> a, todo |-> t, name |-> n, image |-> i]
  BY DEF Types
<1>3. /\ DOMAIN work' = Workers
      /\ \A v \in Workers : v # w => work'[v] = work[v]
      /\ work'[w] = [at |-> stage, todo |-> t, name |-> n, image |-> i]
  BY <1>1, <1>2 DEF Types
<1> QED
  BY <1>2, <1>3 DEF Works

LEMMA ReturnWorks ==
    ASSUME Types, NEW w \in Workers, Return(w)
    PROVE  Works(w, IF w \in Jobs THEN "scanning" ELSE "ended", work[w].todo,
                 IF w \in Jobs THEN None ELSE work[w].name, None)
<1>1. PICK a, t, n, i : work[w] = [at |-> a, todo |-> t, name |-> n, image |-> i]
  BY DEF Types
<1>2. PICK stage, name : /\ stage = IF w \in Jobs THEN "scanning" ELSE "ended"
                         /\ name = IF w \in Jobs THEN None ELSE n
  OBVIOUS
<1>3. work' = [work EXCEPT ![w].at = stage, ![w].name = name, ![w].image = None]
  BY <1>1, <1>2 DEF Return
<1>4. work' = [work EXCEPT ![w] = [[[work[w] EXCEPT !.at = stage]
                                       EXCEPT !.name = name]
                                       EXCEPT !.image = None]]
  BY <1>3
<1>5. [[at |-> a, todo |-> t, name |-> n, image |-> i] EXCEPT !.at = stage]
         = [at |-> stage, todo |-> t, name |-> n, image |-> i]
  OBVIOUS
<1>6. [[at |-> stage, todo |-> t, name |-> n, image |-> i] EXCEPT !.name = name]
         = [at |-> stage, todo |-> t, name |-> name, image |-> i]
  OBVIOUS
<1>7. [[at |-> stage, todo |-> t, name |-> name, image |-> i] EXCEPT !.image = None]
         = [at |-> stage, todo |-> t, name |-> name, image |-> None]
  OBVIOUS
<1>8. /\ DOMAIN work' = Workers
      /\ \A v \in Workers : v # w => work'[v] = work[v]
      /\ work'[w] = [at |-> stage, todo |-> t, name |-> name, image |-> None]
  BY <1>1, <1>4, <1>5, <1>6, <1>7 DEF Types
<1> QED
  BY <1>1, <1>2, <1>8 DEF Works

LEMMA CrashWorks ==
    ASSUME Types, NEW w \in Workers, Crash(w)
    PROVE  Works(w, IF w \in Jobs THEN "idle" ELSE "ended", {},
                 IF w \in Jobs THEN None ELSE work[w].name, None)
<1>1. PICK a, t, n, i : work[w] = [at |-> a, todo |-> t, name |-> n, image |-> i]
  BY DEF Types
<1>2. PICK stage, name : /\ stage = IF w \in Jobs THEN "idle" ELSE "ended"
                         /\ name = IF w \in Jobs THEN None ELSE n
  OBVIOUS
<1>3. work' = [work EXCEPT ![w].at = stage, ![w].todo = {}, ![w].name = name,
                           ![w].image = None]
  BY <1>1, <1>2 DEF Crash
<1>4. work' = [work EXCEPT ![w] = [[[[work[w] EXCEPT !.at = stage]
                                       EXCEPT !.todo = {}]
                                       EXCEPT !.name = name]
                                       EXCEPT !.image = None]]
  BY <1>3
<1>5. [[at |-> a, todo |-> t, name |-> n, image |-> i] EXCEPT !.at = stage]
         = [at |-> stage, todo |-> t, name |-> n, image |-> i]
  OBVIOUS
<1>6. [[at |-> stage, todo |-> t, name |-> n, image |-> i] EXCEPT !.todo = {}]
         = [at |-> stage, todo |-> {}, name |-> n, image |-> i]
  OBVIOUS
<1>7. [[at |-> stage, todo |-> {}, name |-> n, image |-> i] EXCEPT !.name = name]
         = [at |-> stage, todo |-> {}, name |-> name, image |-> i]
  OBVIOUS
<1>8. [[at |-> stage, todo |-> {}, name |-> name, image |-> i] EXCEPT !.image = None]
         = [at |-> stage, todo |-> {}, name |-> name, image |-> None]
  OBVIOUS
<1>9. /\ DOMAIN work' = Workers
      /\ \A v \in Workers : v # w => work'[v] = work[v]
      /\ work'[w] = [at |-> stage, todo |-> {}, name |-> name, image |-> None]
  BY <1>1, <1>4, <1>5, <1>6, <1>7, <1>8 DEF Types
<1> QED
  BY <1>1, <1>2, <1>9 DEF Works

(* A file that cannot be loaded ends the generation of its variants.       *)
LEMMA LoadWorks ==
    ASSUME Types, NEW w \in Workers, Load(w), NEW n, n = work[w].name
    PROVE  IF Exists(n) /\ Decodable(disk[n])
           THEN Works(w, IF EncodesFull(n) THEN "encoding" ELSE "reducing",
                      work[w].todo, n, disk[n])
           ELSE Return(w)
<1> SUFFICES ASSUME Exists(n) /\ Decodable(disk[n])
             PROVE  Works(w, IF EncodesFull(n) THEN "encoding" ELSE "reducing",
                          work[w].todo, n, disk[n])
  BY DEF Load
<1>1. PICK a, t, i : work[w] = [at |-> a, todo |-> t, name |-> n, image |-> i]
  BY DEF Types
<1>2. PICK stage, image :
         /\ stage = IF EncodesFull(n) THEN "encoding" ELSE "reducing"
         /\ image = disk[n]
  OBVIOUS
<1>3. work' = [work EXCEPT ![w].at = stage, ![w].image = image]
  BY <1>2 DEF Load
<1>4. work' = [work EXCEPT ![w] = [[work[w] EXCEPT !.at = stage]
                                       EXCEPT !.image = image]]
  BY <1>3
<1>5. [[at |-> a, todo |-> t, name |-> n, image |-> i] EXCEPT !.at = stage]
         = [at |-> stage, todo |-> t, name |-> n, image |-> i]
  OBVIOUS
<1>6. [[at |-> stage, todo |-> t, name |-> n, image |-> i] EXCEPT !.image = image]
         = [at |-> stage, todo |-> t, name |-> n, image |-> image]
  OBVIOUS
<1>7. /\ DOMAIN work' = Workers
      /\ \A v \in Workers : v # w => work'[v] = work[v]
      /\ work'[w] = [at |-> stage, todo |-> t, name |-> n, image |-> image]
  BY <1>1, <1>4, <1>5, <1>6 DEF Types
<1> QED
  BY <1>1, <1>2, <1>7 DEF Works

LEMMA FireWorks ==
    ASSUME Types, NEW j \in Workers, Fire(j)
    PROVE  Works(j, "scanning", {n \in DOMAIN rows : rows[n].recent},
                 work[j].name, work[j].image)
<1>1. PICK a, t, n, i : work[j] = [at |-> a, todo |-> t, name |-> n, image |-> i]
  BY DEF Types
<1>2. PICK todo : todo = {m \in DOMAIN rows : rows[m].recent}
  OBVIOUS
<1>3. work' = [work EXCEPT ![j].at = "scanning", ![j].todo = todo]
  BY <1>2 DEF Fire
<1>4. work' = [work EXCEPT ![j] = [[work[j] EXCEPT !.at = "scanning"]
                                       EXCEPT !.todo = todo]]
  BY <1>3
<1>5. [[at |-> a, todo |-> t, name |-> n, image |-> i] EXCEPT !.at = "scanning"]
         = [at |-> "scanning", todo |-> t, name |-> n, image |-> i]
  OBVIOUS
<1>6. [[at |-> "scanning", todo |-> t, name |-> n, image |-> i] EXCEPT !.todo = todo]
         = [at |-> "scanning", todo |-> todo, name |-> n, image |-> i]
  OBVIOUS
<1>7. /\ DOMAIN work' = Workers
      /\ \A v \in Workers : v # j => work'[v] = work[v]
      /\ work'[j] = [at |-> "scanning", todo |-> todo, name |-> n, image |-> i]
  BY <1>1, <1>4, <1>5, <1>6 DEF Types
<1> QED
  BY <1>1, <1>2, <1>7 DEF Works

LEMMA InspectWorks ==
    ASSUME Types, NEW j \in Workers, NEW n, Inspect(j, n)
    PROVE  IF Exists(n) /\ Missing(n)
           THEN Works(j, "loading", work[j].todo \ {n}, n, work[j].image)
           ELSE Works(j, work[j].at, work[j].todo \ {n}, work[j].name,
                      work[j].image)
<1>1. PICK a, t, m, i : work[j] = [at |-> a, todo |-> t, name |-> m, image |-> i]
  BY DEF Types
<1>2. PICK todo : todo = t \ {n}
  OBVIOUS
<1>3. CASE Exists(n) /\ Missing(n)
  <2>1. work' = [work EXCEPT ![j].at = "loading", ![j].name = n, ![j].todo = todo]
    BY <1>1, <1>2, <1>3 DEF Inspect
  <2>2. work' = [work EXCEPT ![j] = [[[work[j] EXCEPT !.at = "loading"]
                                         EXCEPT !.name = n]
                                         EXCEPT !.todo = todo]]
    BY <2>1
  <2>3. [[at |-> a, todo |-> t, name |-> m, image |-> i] EXCEPT !.at = "loading"]
           = [at |-> "loading", todo |-> t, name |-> m, image |-> i]
    OBVIOUS
  <2>4. [[at |-> "loading", todo |-> t, name |-> m, image |-> i] EXCEPT !.name = n]
           = [at |-> "loading", todo |-> t, name |-> n, image |-> i]
    OBVIOUS
  <2>5. [[at |-> "loading", todo |-> t, name |-> n, image |-> i] EXCEPT !.todo = todo]
           = [at |-> "loading", todo |-> todo, name |-> n, image |-> i]
    OBVIOUS
  <2>6. /\ DOMAIN work' = Workers
        /\ \A v \in Workers : v # j => work'[v] = work[v]
        /\ work'[j] = [at |-> "loading", todo |-> todo, name |-> n, image |-> i]
    BY <1>1, <2>2, <2>3, <2>4, <2>5 DEF Types
  <2> QED
    BY <1>1, <1>2, <1>3, <2>6 DEF Works
<1>4. CASE ~(Exists(n) /\ Missing(n))
  <2>1. work' = [work EXCEPT ![j] = [work[j] EXCEPT !.todo = todo]]
    BY <1>1, <1>2, <1>4 DEF Inspect
  <2>2. /\ DOMAIN work' = Workers
        /\ \A v \in Workers : v # j => work'[v] = work[v]
        /\ work'[j] = [at |-> a, todo |-> todo, name |-> m, image |-> i]
    BY <1>1, <2>1 DEF Types
  <2> QED
    BY <1>1, <1>2, <1>4, <2>2 DEF Works
<1> QED
  BY <1>3, <1>4

LEMMA BusyAfter ==
    ASSUME Types, NEW w \in Workers, NEW at, NEW todo, NEW name, NEW image,
           Works(w, at, todo, name, image), NEW n
    PROVE  /\ Busy(n)' \subseteq Workers /\ Busy(n) \subseteq Workers
           /\ w \in Busy(n)' <=> at \in {"placed"} \cup Generating /\ name = n
           /\ \A v \in Workers : v # w => (v \in Busy(n)' <=> v \in Busy(n))
  BY DEF Works, Busy, Types

(***************************************************************************)
(* What the workers are at.                                                *)
(***************************************************************************)

LEMMA TasksAfter ==
    ASSUME Types, Tasks, NEW w \in Workers, NEW at, NEW todo, NEW name, NEW image,
           Works(w, at, todo, name, image), sent' = sent,
           w \in Requests =>
              /\ name = work[w].name
              /\ at \in {"idle", "placed", "ended"} \cup Generating,
           w \in Jobs => /\ at \in {"idle", "scanning"} \cup Generating
                         /\ at \in Generating => name \in Names
                         /\ todo \subseteq Names,
           DOMAIN rows' \subseteq Names
    PROVE  Types' /\ Tasks'
<1>1. Types'
  <2> SUFFICES ASSUME NEW v \in Workers
               PROVE  work'[v] = [at |-> work'[v].at, todo |-> work'[v].todo,
                                  name |-> work'[v].name, image |-> work'[v].image]
    BY DEF Types, Works, Workers, Requests
  <2> QED
    BY DEF Types, Works
<1>2. Names' = Names
  BY DEF Names
<1>3. work'[w].at = at /\ work'[w].name = name /\ work'[w].todo = todo
  BY DEF Works
<1>4. ASSUME NEW r \in Requests
      PROVE  /\ work'[r].name = sent'[r][1]
             /\ work'[r].at \in {"idle", "placed", "ended"} \cup Generating
  BY <1>3, <1>4 DEF Tasks, Works, Workers
<1>5. ASSUME NEW j \in Jobs
      PROVE  /\ work'[j].at \in {"idle", "scanning"} \cup Generating
             /\ work'[j].at \in Generating => work'[j].name \in Names
             /\ work'[j].todo \subseteq Names
  BY <1>3, <1>5 DEF Tasks, Works, Workers
<1> QED
  BY <1>1, <1>2, <1>4, <1>5 DEF Tasks, Requests

LEMMA NextKeepsTasks ==
    ASSUME Types, Tasks, [Next]_vars PROVE Types' /\ Tasks'
<1> USE WorkersAssumption DEF Generating
<1>1. /\ \A r \in Requests : r \in Workers /\ r \notin Jobs
      /\ \A j \in Jobs : j \in Workers /\ j \notin Requests
      /\ Uploads \subseteq Requests
  BY DEF Workers, Requests
<1>2. \A r \in Requests : sent[r][1] \in Names
  BY DEF Names
<1>3. ASSUME NEW w \in Requests, Duplicate(w) \/ Alias(w) \/ Place(w) \/ Commit(w)
      PROVE  Types' /\ Tasks'
  <2>1. PICK stage \in {"ended", "placed", "loading"} :
           Goto(w, stage) /\ sent' = sent /\ DOMAIN rows' \subseteq Names
    BY <1>2, <1>3 DEF Duplicate, Alias, Place, Commit, Tasks
  <2>2. Works(w, stage, work[w].todo, work[w].name, work[w].image)
    BY <1>1, <2>1, GotoWorks
  <2> QED
    BY <1>1, <2>1, <2>2, TasksAfter
<1>4. ASSUME NEW w \in Workers, Return(w), sent' = sent, rows' = rows
      PROVE  Types' /\ Tasks'
  <2>1. Works(w, IF w \in Jobs THEN "scanning" ELSE "ended", work[w].todo,
              IF w \in Jobs THEN None ELSE work[w].name, None)
    BY <1>4, ReturnWorks
  <2>2. w \in Jobs => work[w].todo \subseteq Names
    BY DEF Tasks
  <2>3. DOMAIN rows' \subseteq Names
    BY <1>4 DEF Tasks
  <2> QED
    BY <1>1, <1>4, <2>1, <2>2, <2>3, TasksAfter DEF Workers
<1>5. ASSUME NEW w \in Workers, Generate(w)
      PROVE  Types' /\ Tasks'
  <2>1. sent' = sent /\ rows' = rows /\ DOMAIN rows' \subseteq Names
        /\ work[w].at \in Generating
    BY <1>5 DEF Generate, Load, SaveFull, SaveThumb, Tasks
  <2>2. w \in Jobs => work[w].name \in Names /\ work[w].todo \subseteq Names
    BY <2>1 DEF Tasks
  <2>3. CASE Return(w)
    BY <1>4, <2>1, <2>3
  <2>4. CASE Load(w) /\ ~Return(w)
    <3>1. PICK stage, n, i :
             /\ stage \in {"encoding", "reducing"}
             /\ n = work[w].name
             /\ Works(w, stage, work[w].todo, n, i)
      BY <2>4, LoadWorks
    <3> QED
      BY <1>1, <2>1, <2>2, <3>1, TasksAfter
  <2>5. CASE SaveFull(w)
    <3>1. Works(w, "reducing", work[w].todo, work[w].name, work[w].image)
      BY <2>5, GotoWorks DEF SaveFull
    <3> QED
      BY <1>1, <2>1, <2>2, <3>1, TasksAfter
  <2> QED
    BY <1>5, <2>3, <2>4, <2>5 DEF Generate, SaveThumb
<1>6. ASSUME NEW w \in Workers, Swallow(w)
      PROVE  Types' /\ Tasks'
  BY <1>4, <1>6 DEF Swallow
<1>7. ASSUME NEW w \in Workers, Crash(w)
      PROVE  Types' /\ Tasks'
  <2>1. Works(w, IF w \in Jobs THEN "idle" ELSE "ended", {},
              IF w \in Jobs THEN None ELSE work[w].name, None)
    BY <1>7, CrashWorks
  <2>2. sent' = sent /\ DOMAIN rows' \subseteq Names
    BY <1>7 DEF Crash, Tasks
  <2> QED
    BY <1>1, <2>1, <2>2, TasksAfter DEF Workers
<1>8. ASSUME NEW j \in Jobs, JobStep(j)
      PROVE  Types' /\ Tasks'
  <2>1. /\ sent' = sent /\ rows' = rows /\ DOMAIN rows \subseteq Names
        /\ work[j].todo \subseteq Names /\ j \in Workers
        /\ work[j].at \in {"idle", "scanning"}
    BY <1>1, <1>8 DEF JobStep, Fire, Inspect, Finish, Tasks
  <2>2. CASE Fire(j)
    BY <1>1, <2>1, <2>2, FireWorks, TasksAfter
  <2>3. ASSUME NEW n \in work[j].todo, Inspect(j, n)
        PROVE  Types' /\ Tasks'
    <3>1. n \in Names /\ work[j].todo \ {n} \subseteq Names /\ work[j].at = "scanning"
      BY <2>1, <2>3 DEF Inspect
    <3>2. CASE Exists(n) /\ Missing(n)
      <4>1. Works(j, "loading", work[j].todo \ {n}, n, work[j].image)
        BY <2>1, <2>3, <3>2, InspectWorks
      <4> QED
        BY <1>1, <2>1, <3>1, <4>1, TasksAfter
    <3>3. CASE ~(Exists(n) /\ Missing(n))
      <4>1. Works(j, work[j].at, work[j].todo \ {n}, work[j].name, work[j].image)
        BY <2>1, <2>3, <3>3, InspectWorks
      <4> QED
        BY <1>1, <2>1, <3>1, <4>1, TasksAfter
    <3> QED
      BY <3>2, <3>3
  <2>4. CASE Finish(j)
    BY <1>1, <2>1, <2>4, GotoWorks, TasksAfter DEF Finish
  <2> QED
    BY <1>8, <2>2, <2>3, <2>4 DEF JobStep
<1>9. ASSUME sent' = sent, work' = work, DOMAIN rows' \subseteq DOMAIN rows
      PROVE  Types' /\ Tasks'
  BY <1>9 DEF Types, Tasks, Names, Workers, Requests
<1>10. ASSUME NEW n \in DOMAIN rows, Age(n) \/ SoftDelete(n)
       PROVE  Types' /\ Tasks'
  BY <1>9, <1>10 DEF Age, SoftDelete
<1>11. CASE UNCHANGED vars
  BY <1>9, <1>11 DEF vars
<1> QED
  BY <1>1, <1>3, <1>5, <1>6, <1>7, <1>8, <1>10, <1>11 DEF Next, Workers

(***************************************************************************)
(* What a step does to a name that it leaves undisturbed.                  *)
(***************************************************************************)

LEMMA Untouched ==
    ASSUME NEW n, NameInOrder(n), sent' = sent,
           SameFile(n), SameFile(Full(n)), SameFile(Thumb(n)),
           \A v : v \in Busy(n)' <=> v \in Busy(n),
           \A v \in Busy(n) : work'[v] = work[v],
           n \in DOMAIN rows' => n \in DOMAIN rows /\ rows'[n].hash = rows[n].hash
    PROVE  NameInOrder(n)'
<1>1. PICK f, t : f = Full(n) /\ t = Thumb(n)
  OBVIOUS
<1>2. f' = f /\ t' = t /\ Full(n)' = f /\ Thumb(n)' = t
  BY <1>1 DEF Full, Thumb
<1>3. /\ FullIsCurrent(n) <=> Exists(f) /\ disk[f] = Encoded(disk[n])
      /\ ThumbIsCurrent(n) <=> Exists(t) /\ disk[t] = Reduced(disk[n])
      /\ FullIsCurrent(n)' <=> Exists(f)' /\ disk'[f] = Encoded(disk'[n])
      /\ ThumbIsCurrent(n)' <=> Exists(t)' /\ disk'[t] = Reduced(disk'[n])
  BY <1>1, <1>2 DEF FullIsCurrent, ThumbIsCurrent, Encoded, Reduced, Exists
<1>4. /\ Exists(n) /\ FullIsCurrent(n) => FullIsCurrent(n)'
      /\ Exists(n) /\ ThumbIsCurrent(n) => ThumbIsCurrent(n)'
  BY <1>1, <1>3 DEF SameFile
<1>5. ASSUME NEW v \in Busy(n) PROVE OnCourse(v, n)'
  <2>1. OnCourse(v, n) /\ work'[v] = work[v]
    BY DEF NameInOrder
  <2>2. Exists(n) => Exists(n)' /\ disk'[n] = disk[n]
    BY DEF SameFile
  <2> QED
    BY <1>4, <2>1, <2>2 DEF OnCourse, Uploaded, Exists, EncodesFull
<1>6. n \in DOMAIN rows' /\ (\A w \in Busy(n)' : work'[w].at # "placed")
          => Exists(n)' /\ disk'[n] = rows'[n].hash
  BY DEF NameInOrder, SameFile
<1>7. ASSUME Busy(n)' = {}, n \in DOMAIN rows', Decodable(disk[n])'
      PROVE  ThumbIsCurrent(n)' /\ (EncodesFull(n) => FullIsCurrent(n)')
  <2>1. Busy(n) = {} /\ n \in DOMAIN rows /\ Exists(n)
    BY <1>7 DEF NameInOrder
  <2>2. disk'[n] = disk[n]
    BY <2>1 DEF SameFile
  <2>3. Decodable(disk[n])
    BY <1>7, <2>2 DEF Decodable
  <2> QED
    BY <1>4, <2>1, <2>3 DEF NameInOrder
<1> QED
  BY <1>5, <1>6, <1>7 DEF NameInOrder, EncodesFull

(* A worker that has another name in hand, or none, leaves this one alone. *)
LEMMA Elsewhere ==
    ASSUME Types, NEW n, Alone(n), NameInOrder(n),
           NEW w \in Workers, NEW m, NEW at, NEW todo, NEW name, NEW image,
           Works(w, at, todo, name, image), sent' = sent,
           w \notin Busy(n), ~(at \in {"placed"} \cup Generating /\ name = n),
           \/ disk' = disk
           \/ /\ m \in Names /\ m # n
              /\ \E l \in {m, Full(m), Thumb(m)} : \E b : disk' = With(l, b),
           n \in DOMAIN rows' => n \in DOMAIN rows /\ rows'[n].hash = rows[n].hash
    PROVE  NameInOrder(n)'
<1>1. \A k \in {n, Full(n), Thumb(n)} : SameFile(k)
  <2>1. CASE disk' = disk
    BY <2>1, SameDisk
  <2>2. CASE /\ m \in Names /\ m # n
             /\ \E l \in {m, Full(m), Thumb(m)} : \E b : disk' = With(l, b)
    <3>1. PICK l \in {m, Full(m), Thumb(m)} : \E b : disk' = With(l, b)
      BY <2>2
    <3>2. l \notin {n, Full(n), Thumb(n)}
      BY <2>2, <3>1, OtherFiles
    <3> QED
      BY <3>1, <3>2, AfterWith
  <2> QED
    BY <2>1, <2>2
<1>2. \A v : v \in Busy(n)' <=> v \in Busy(n)
  BY BusyAfter
<1>3. \A v \in Busy(n) : work'[v] = work[v]
  BY BusyAfter DEF Works
<1> QED
  BY <1>1, <1>2, <1>3, Untouched

(* The steps of a request up to the commit. *)
LEMMA RequestStep ==
    ASSUME Types, Tasks, NEW n \in Names, Alone(n), n \notin disturbed',
           n \notin disturbed => NameInOrder(n),
           NEW w \in Requests, Duplicate(w) \/ Alias(w) \/ Place(w) \/ Commit(w)
    PROVE  NameInOrder(n)'
<1> USE DEF Generating
<1>1. PICK m : m = sent[w][1]
  OBVIOUS
<1>2. w \in Workers /\ m \in Names /\ m = work[w].name /\ sent' = sent
  BY <1>1 DEF Workers, Names, Tasks, Duplicate, Alias, Place, Commit
<1>3. CASE Duplicate(w) \/ Alias(w)
  <2>1. Works(w, "ended", work[w].todo, work[w].name, work[w].image)
    BY <1>2, <1>3, GotoWorks DEF Duplicate, Alias
  <2>2. w \notin Busy(n) /\ disk' = disk /\ n \notin disturbed
    BY <1>3 DEF Duplicate, Alias, Busy
  <2>3. n \in DOMAIN rows' => n \in DOMAIN rows /\ rows'[n].hash = rows[n].hash
    <3>1. CASE Duplicate(w)
      BY <3>1 DEF Duplicate
    <3>2. CASE Alias(w)
      <4>1. PICK k \in DOMAIN rows : /\ Stored(k, Uploaded(sent[w][2]))
                                     /\ rows' = [rows EXCEPT ![k].recent = TRUE]
        BY <3>2 DEF Alias
      <4>2. rows' = [rows EXCEPT ![k] = [rows[k] EXCEPT !.recent = TRUE]]
        BY <4>1
      <4>3. [rows[k] EXCEPT !.recent = TRUE].hash = rows[k].hash
        OBVIOUS
      <4> QED
        BY <4>2, <4>3
    <3> QED
      BY <1>3, <3>1, <3>2
  <2> QED
    BY <1>2, <2>1, <2>2, <2>3, Elsewhere
<1>4. CASE Place(w)
  <2>1. PICK b : b = Uploaded(sent[w][2])
    OBVIOUS
  <2>2. /\ Works(w, "placed", work[w].todo, m, work[w].image)
        /\ disk' = With(m, b) /\ rows' = rows /\ work[w].at = "idle"
        /\ disturbed' = IF Busy(m) = {} THEN disturbed \ {m}
                                        ELSE disturbed \cup {m}
    BY <1>1, <1>2, <1>4, <2>1, GotoWorks DEF Place
  <2>3. CASE m # n
    <3>1. w \notin Busy(n) /\ n \notin disturbed
      BY <2>2, <2>3 DEF Busy
    <3>2. /\ \E l \in {m, Full(m), Thumb(m)} : \E c : disk' = With(l, c)
          /\ n \in DOMAIN rows' => n \in DOMAIN rows /\ rows'[n].hash = rows[n].hash
          /\ NameInOrder(n)
      BY <2>2, <3>1
    <3> QED
      BY <1>2, <2>2, <2>3, <3>1, <3>2, Elsewhere
  <2>4. CASE m = n
    <3>1. Busy(n) = {}
      BY <2>2, <2>4
    <3>2. Busy(n)' = {w}
      BY <1>2, <2>2, <2>4, <3>1, BusyAfter
    <3>3. /\ Exists(n)' /\ disk'[n] = b /\ work'[w].at = "placed"
      BY <2>2, <2>4, AfterWith DEF Works
    <3>4. OnCourse(w, n)'
      BY <1>2, <2>1, <3>3 DEF OnCourse, Uploaded, Exists
    <3> QED
      BY <3>2, <3>3, <3>4 DEF NameInOrder
  <2> QED
    BY <2>3, <2>4
<1>5. CASE Commit(w)
  <2>1. /\ Works(w, "loading", work[w].todo, m, work[w].image)
        /\ disk' = disk /\ work[w].at = "placed" /\ n \notin disturbed
    BY <1>1, <1>2, <1>5, GotoWorks DEF Commit
  <2>2. \A k : k # m => /\ k \in DOMAIN rows' => k \in DOMAIN rows
                        /\ k \in DOMAIN rows' => rows'[k] = rows[k]
    BY <1>1, <1>5 DEF Commit
  <2>3. CASE m # n
    <3>1. w \notin Busy(n)
      BY <1>2, <2>3 DEF Busy
    <3> QED
      BY <1>2, <2>1, <2>2, <2>3, <3>1, Elsewhere
  <2>4. CASE m = n
    <3>1. w \in Busy(n) /\ NameInOrder(n)
      BY <1>2, <2>1, <2>4 DEF Busy, Types
    <3>2. \A v : v \in Busy(n)' <=> v = w
      BY <1>2, <2>1, <2>4, <3>1, BusyAfter DEF NameInOrder
    <3>3. Exists(n) /\ disk[n] = Uploaded(sent[w][2])
      BY <2>1, <3>1 DEF NameInOrder, OnCourse
    <3>4. rows'[n].hash = disk[n]
      BY <1>1, <1>5, <2>4, <3>3 DEF Commit
    <3>5. Exists(n)' /\ disk'[n] = disk[n] /\ work'[w].at = "loading"
      BY <2>1, <3>3 DEF Exists, Works
    <3>6. OnCourse(w, n)'
      BY <3>5 DEF OnCourse
    <3> QED
      BY <3>2, <3>4, <3>5, <3>6 DEF NameInOrder
  <2> QED
    BY <2>3, <2>4
<1> QED
  BY <1>3, <1>4, <1>5

(* Making the variants of a name that nobody else has in hand. *)
LEMMA GenerateStep ==
    ASSUME Types, Tasks, NEW n \in Names, Alone(n), n \notin disturbed',
           n \notin disturbed => NameInOrder(n),
           NEW w \in Workers, Generate(w)
    PROVE  NameInOrder(n)'
<1> USE DEF Generating
<1>1. PICK m, i, f, t : /\ m = work[w].name /\ i = work[w].image
                        /\ f = Full(n) /\ t = Thumb(n)
  OBVIOUS
<1>2. /\ sent' = sent /\ rows' = rows /\ NameInOrder(n)
      /\ work[w].at \in Generating
      /\ m \in Names
  <2>1. /\ sent' = sent /\ rows' = rows /\ NameInOrder(n)
        /\ work[w].at \in Generating
    BY DEF Generate, Load, SaveFull, SaveThumb
  <2> QED
    BY <1>1, <2>1 DEF Tasks, Workers, Names
<1>3. PICK at, todo, name, image :
         /\ Works(w, at, todo, name, image)
         /\ name \in {m, None}
         /\ \/ /\ work[w].at = "loading" /\ disk' = disk
               /\ IF Exists(m) /\ Decodable(disk[m])
                  THEN /\ at = IF EncodesFull(m) THEN "encoding" ELSE "reducing"
                       /\ name = m /\ image = disk[m]
                  ELSE at \in {"scanning", "ended"}
            \/ /\ work[w].at = "encoding" /\ disk' = With(Full(m), Encoded(i))
               /\ at = "reducing" /\ name = m /\ image = i
            \/ /\ work[w].at = "reducing" /\ disk' = With(Thumb(m), Reduced(i))
               /\ at \in {"scanning", "ended"}
  <2>1. CASE Return(w)
    <3>1. PICK stage \in {"scanning", "ended"}, name \in {m, None} :
             Works(w, stage, work[w].todo, name, None)
      BY <1>1, <2>1, ReturnWorks
    <3>2. \/ /\ work[w].at = "loading" /\ disk' = disk
             /\ ~(Exists(m) /\ Decodable(disk[m]))
          \/ work[w].at = "reducing" /\ disk' = With(Thumb(m), Reduced(i))
      <4>1. CASE Load(w) /\ Exists(m) /\ Decodable(disk[m])
        <5>1. Works(w, IF EncodesFull(m) THEN "encoding" ELSE "reducing",
                    work[w].todo, m, disk[m])
          BY <1>1, <4>1, LoadWorks
        <5> QED
          BY <3>1, <5>1 DEF Works
      <4>2. CASE SaveFull(w)
        <5>1. Works(w, "reducing", work[w].todo, work[w].name, work[w].image)
          BY <4>2, GotoWorks DEF SaveFull
        <5> QED
          BY <3>1, <5>1 DEF Works
      <4> QED
        BY <1>1, <4>1, <4>2 DEF Generate, Load, SaveThumb, Written
    <3> QED
      BY <3>1, <3>2
  <2>2. CASE Load(w) /\ ~Return(w)
    <3>1. Exists(m) /\ Decodable(disk[m]) /\ work[w].at = "loading" /\ disk' = disk
      BY <1>1, <2>2 DEF Load
    <3>2. Works(w, IF EncodesFull(m) THEN "encoding" ELSE "reducing",
                work[w].todo, m, disk[m])
      BY <1>1, <2>2, <3>1, LoadWorks
    <3> QED
      BY <3>1, <3>2
  <2>3. CASE SaveFull(w)
    <3>1. Works(w, "reducing", work[w].todo, m, i)
      BY <1>1, <2>3, GotoWorks DEF SaveFull
    <3> QED
      BY <1>1, <2>3, <3>1 DEF SaveFull, Written
  <2> QED
    BY <2>1, <2>2, <2>3 DEF Generate, SaveThumb
<1>4. CASE m # n
  <2>1. w \notin Busy(n)
    BY <1>1, <1>4 DEF Busy
  <2>2. ~(at \in {"placed"} \cup Generating /\ name = n)
    BY <1>3, <1>4
  <2>3. \/ disk' = disk
        \/ \E l \in {m, Full(m), Thumb(m)} : \E b : disk' = With(l, b)
    BY <1>3
  <2> QED
    BY <1>2, <1>3, <1>4, <2>1, <2>2, <2>3, Elsewhere
<1>5. CASE m = n
  <2>1. w \in Busy(n)
    BY <1>1, <1>2, <1>5 DEF Busy, Types
  <2>2. /\ \A v \in Busy(n) : v = w
        /\ OnCourse(w, n)
        /\ n \in DOMAIN rows => Exists(n) /\ disk[n] = rows[n].hash
    BY <1>2, <2>1 DEF NameInOrder
  <2>3. \A v : v \in Busy(n)' <=> v = w /\ at \in {"placed"} \cup Generating
                                       /\ name = n
    BY <1>3, <2>1, <2>2, BusyAfter
  <2>4. work'[w].at = at /\ work'[w].image = image
    BY <1>3 DEF Works
  <2>5. f # t /\ t # n /\ (EncodesFull(n) => f # n)
    BY <1>1, OwnFiles
  <2>6. /\ FullIsCurrent(n) <=> Exists(f) /\ disk[f] = Encoded(disk[n])
        /\ FullIsCurrent(n)' <=> Exists(f)' /\ disk'[f] = Encoded(disk'[n])
        /\ ThumbIsCurrent(n)' <=> Exists(t)' /\ disk'[t] = Reduced(disk'[n])
    <3>1. Full(n)' = f /\ Thumb(n)' = t
      BY <1>1 DEF Full, Thumb
    <3> QED
      BY <1>1, <3>1 DEF FullIsCurrent, ThumbIsCurrent, Encoded, Reduced, Exists
  <2>7. CASE work[w].at = "loading"
    <3>1. disk' = disk /\ (Exists(n)' <=> Exists(n))
      BY <1>3, <2>7 DEF Exists
    <3>2. CASE Exists(n) /\ Decodable(disk[n])
      <4>1. OnCourse(w, n)' /\ at # "placed"
        BY <1>3, <1>5, <2>4, <2>7, <3>1, <3>2 DEF OnCourse, EncodesFull
      <4>2. \A v : v \in Busy(n)' <=> v = w
        BY <1>3, <1>5, <2>3, <2>7, <3>2
      <4> QED
        BY <1>2, <2>2, <2>4, <3>1, <3>2, <4>1, <4>2 DEF NameInOrder
    <3>3. CASE ~(Exists(n) /\ Decodable(disk[n]))
      <4>1. Busy(n)' = {}
        BY <1>3, <1>5, <2>3, <2>7, <3>3
      <4>2. n \in DOMAIN rows' => ~Decodable(disk[n])'
        BY <1>2, <2>2, <3>1, <3>3 DEF Decodable
      <4> QED
        BY <1>2, <2>2, <3>1, <4>1, <4>2 DEF NameInOrder
    <3> QED
      BY <3>2, <3>3
  <2>8. CASE work[w].at = "encoding"
    <3>1. Exists(n) /\ i = disk[n] /\ EncodesFull(n)
      BY <1>1, <2>2, <2>8 DEF OnCourse
    <3>2. /\ disk' = With(f, Encoded(i)) /\ at = "reducing" /\ name = n /\ image = i
      BY <1>1, <1>3, <1>5, <2>8
    <3>3. Exists(f)' /\ disk'[f] = Encoded(i) /\ SameFile(n)
      BY <2>5, <3>1, <3>2, AfterWith
    <3>4. Exists(n)' /\ disk'[n] = disk[n]
      BY <3>1, <3>3 DEF SameFile
    <3>5. OnCourse(w, n)'
      BY <2>4, <2>6, <3>1, <3>2, <3>3, <3>4 DEF OnCourse
    <3>6. \A v : v \in Busy(n)' <=> v = w
      BY <2>3, <3>2
    <3> QED
      BY <1>2, <2>2, <3>4, <3>5, <3>6 DEF NameInOrder
  <2>9. CASE work[w].at = "reducing"
    <3>1. /\ Exists(n) /\ i = disk[n]
          /\ EncodesFull(n) => Exists(f) /\ disk[f] = Encoded(disk[n])
      BY <1>1, <2>2, <2>6, <2>9 DEF OnCourse
    <3>2. disk' = With(t, Reduced(i)) /\ at \in {"scanning", "ended"}
      BY <1>1, <1>3, <1>5, <2>9
    <3>3. Exists(t)' /\ disk'[t] = Reduced(i) /\ SameFile(n) /\ SameFile(f)
      BY <2>5, <3>2, AfterWith
    <3>4. /\ Exists(n)' /\ disk'[n] = disk[n]
          /\ EncodesFull(n) => Exists(f)' /\ disk'[f] = disk[f]
      BY <3>1, <3>3 DEF SameFile
    <3>5. Busy(n)' = {}
      BY <2>3, <3>2
    <3>6. ThumbIsCurrent(n)' /\ (EncodesFull(n) => FullIsCurrent(n)')
      BY <2>6, <3>1, <3>3, <3>4
    <3> QED
      BY <1>2, <2>2, <3>4, <3>5, <3>6 DEF NameInOrder, EncodesFull
  <2> QED
    BY <1>2, <2>7, <2>8, <2>9
<1> QED
  BY <1>4, <1>5

(* Who is at work on a name when a fault hits disturbs it, and the others  *)
(* have nothing to do with the file that is cut short.                     *)
LEMMA FaultStep ==
    ASSUME Types, Tasks, NEW n \in Names, Alone(n), n \notin disturbed',
           n \notin disturbed => NameInOrder(n),
           NEW w \in Workers, Swallow(w) \/ Crash(w)
    PROVE  NameInOrder(n)'
<1> USE DEF Generating
<1>1. PICK m : m = work[w].name
  OBVIOUS
<1>2. PICK at, todo, name, image :
         Works(w, at, todo, name, image) /\ at \in {"scanning", "idle", "ended"}
  BY ReturnWorks, CrashWorks DEF Swallow
<1>3. sent' = sent /\ rows' = rows /\ disk' \in {disk, Half(w)}
  BY DEF Swallow, Crash
<1>4. CASE work[w].at = "scanning"
  <2>1. disk' = disk /\ n \notin disturbed /\ w \notin Busy(n)
    BY <1>3, <1>4 DEF Swallow, Crash, Half, Busy
  <2> QED
    BY <1>2, <1>3, <2>1, Elsewhere
<1>5. CASE work[w].at # "scanning"
  <2>1. disturbed' = disturbed \cup {m} /\ n \notin disturbed /\ m # n
    BY <1>1, <1>5 DEF Swallow, Crash
  <2>2. w \notin Busy(n)
    BY <1>1, <2>1 DEF Busy
  <2>3. m \in Names
    BY <1>1, <1>5 DEF Swallow, Crash, Tasks, Workers, Names
  <2>4. \/ disk' = disk
        \/ \E l \in {m, Full(m), Thumb(m)} : \E b : disk' = With(l, b)
    <3>1. CASE work[w].at = "encoding"
      BY <1>1, <1>3, <3>1 DEF Half
    <3>2. CASE work[w].at = "reducing"
      BY <1>1, <1>3, <3>2 DEF Half
    <3>3. CASE work[w].at \notin {"encoding", "reducing"}
      BY <1>3, <3>3 DEF Half
    <3> QED
      BY <3>1, <3>2, <3>3
  <2> QED
    BY <1>2, <1>3, <2>1, <2>2, <2>3, <2>4, Elsewhere
<1> QED
  BY <1>4, <1>5

LEMMA ThumbnailJobStep ==
    ASSUME Types, Tasks, NEW n \in Names, Alone(n), n \notin disturbed',
           n \notin disturbed => NameInOrder(n),
           NEW j \in Jobs, JobStep(j)
    PROVE  NameInOrder(n)'
<1> USE DEF Generating
<1>1. /\ j \in Workers /\ sent' = sent /\ rows' = rows /\ disk' = disk
      /\ work[j].at \in {"idle", "scanning"}
  BY DEF Workers, JobStep, Fire, Inspect, Finish
<1>2. j \notin Busy(n)
  BY <1>1 DEF Busy
<1>3. ASSUME NEW at \in {"idle", "scanning"}, NEW todo, NEW name, NEW image,
             Works(j, at, todo, name, image), disturbed' = disturbed
      PROVE  NameInOrder(n)'
  BY <1>1, <1>2, <1>3, Elsewhere
<1>4. CASE Fire(j)
  <2>1. Works(j, "scanning", {k \in DOMAIN rows : rows[k].recent},
              work[j].name, work[j].image)
    BY <1>1, <1>4, FireWorks
  <2> QED
    BY <1>3, <1>4, <2>1 DEF Fire
<1>5. CASE Finish(j)
  <2>1. Works(j, "idle", work[j].todo, work[j].name, work[j].image)
    BY <1>1, <1>5, GotoWorks DEF Finish
  <2> QED
    BY <1>3, <1>5, <2>1 DEF Finish
<1>6. ASSUME NEW m \in work[j].todo, Inspect(j, m)
      PROVE  NameInOrder(n)'
  <2>1. CASE ~(Exists(m) /\ Missing(m))
    <3>1. Works(j, work[j].at, work[j].todo \ {m}, work[j].name, work[j].image)
      BY <1>1, <1>6, <2>1, InspectWorks
    <3> QED
      BY <1>1, <1>3, <1>6, <2>1, <3>1 DEF Inspect
  <2>2. CASE Exists(m) /\ Missing(m)
    <3>1. /\ Works(j, "loading", work[j].todo \ {m}, m, work[j].image)
          /\ disturbed' = IF Busy(m) = {} THEN disturbed
                                          ELSE disturbed \cup {m}
      BY <1>1, <1>6, <2>2, InspectWorks DEF Inspect
    <3>2. n \notin disturbed
      BY <3>1
    <3>3. CASE m # n
      BY <1>1, <1>2, <3>1, <3>2, <3>3, Elsewhere
    <3>4. CASE m = n
      <4>1. Busy(n) = {}
        BY <3>1, <3>4
      <4>2. \A v : v \in Busy(n)' <=> v = j
        BY <1>1, <3>1, <3>4, <4>1, BusyAfter
      <4>3. work'[j].at = "loading" /\ Exists(n)' /\ disk'[n] = disk[n]
        BY <1>1, <2>2, <3>1, <3>4 DEF Works, Exists
      <4>4. OnCourse(j, n)'
        BY <4>3 DEF OnCourse
      <4> QED
        BY <1>1, <3>2, <4>1, <4>2, <4>3, <4>4 DEF NameInOrder
    <3> QED
      BY <3>3, <3>4
  <2> QED
    BY <2>1, <2>2
<1> QED
  BY <1>4, <1>5, <1>6 DEF JobStep

LEMMA NextKeepsIInv == IInv /\ [Next]_vars => IInv'
<1> SUFFICES ASSUME Types, Tasks, InOrder, [Next]_vars PROVE IInv'
  BY DEF IInv
<1>1. Types' /\ Tasks'
  BY NextKeepsTasks
<1>2. sent' = sent
  BY DEF vars, Next, Duplicate, Alias, Place, Commit, Generate, Load, SaveFull,
     SaveThumb, Swallow, Crash, JobStep, Fire, Inspect, Finish, Age, SoftDelete
<1>3. Names' = Names /\ \A n : Alone(n)' <=> Alone(n)
  BY <1>2 DEF Names, Alone, Variants, Full, Thumb, Requests
<1>4. ASSUME NEW n \in Names, Alone(n), n \notin disturbed'
      PROVE  NameInOrder(n)'
  <2>1. n \notin disturbed => NameInOrder(n)
    BY <1>4 DEF InOrder
  <2>2. ASSUME work' = work, disk' = disk, disturbed' = disturbed,
               n \in DOMAIN rows' => /\ n \in DOMAIN rows
                                     /\ rows'[n].hash = rows[n].hash
        PROVE  NameInOrder(n)'
    <3>1. \A v : v \in Busy(n)' <=> v \in Busy(n)
      BY <2>2 DEF Busy
    <3> QED
      BY <1>2, <1>4, <2>1, <2>2, <3>1, SameDisk, Untouched
  <2>3. ASSUME NEW k \in DOMAIN rows, Age(k) \/ SoftDelete(k)
        PROVE  NameInOrder(n)'
    <3>1. CASE SoftDelete(k)
      BY <2>2, <3>1 DEF SoftDelete
    <3>2. CASE Age(k)
      <4>1. rows' = [rows EXCEPT ![k] = [rows[k] EXCEPT !.recent = FALSE]]
        BY <3>2 DEF Age
      <4>2. [rows[k] EXCEPT !.recent = FALSE].hash = rows[k].hash
        OBVIOUS
      <4> QED
        BY <2>2, <3>2, <4>1, <4>2 DEF Age
    <3> QED
      BY <2>3, <3>1, <3>2
  <2>4. CASE UNCHANGED vars
    BY <2>2, <2>4 DEF vars
  <2> QED
    BY <1>4, <2>1, <2>3, <2>4, RequestStep, GenerateStep, FaultStep,
       ThumbnailJobStep
    DEF Next, Workers, Requests
<1> QED
  BY <1>1, <1>3, <1>4 DEF IInv, InOrder

(* At rest, the file of an image is the one its row was written for: no    *)
(* generation of variants, no fault and no job puts another in its place.  *)
THEOREM OriginalsCorrectness == Spec => []OriginalsAreKept
<1>1. IInv => OriginalsAreKept
  BY DEF IInv, Tasks, InOrder, NameInOrder, OriginalsAreKept, AtRest
<1> QED
  BY <1>1, InitIInv, NextKeepsIInv, PTL DEF Spec

(* At rest, the variants beside an image are made of that image, whichever *)
(* requests, jobs and faults went before.                                  *)
THEOREM VariantsCorrectness == Spec => []VariantsAreCurrent
<1>1. IInv => VariantsAreCurrent
  <2> SUFFICES ASSUME IInv, NEW n \in DOMAIN disk, AtRest(n),
                      Decodable(disk[n]), n \in DOMAIN rows
               PROVE  ThumbIsCurrent(n) /\ (EncodesFull(n) => FullIsCurrent(n))
    BY DEF VariantsAreCurrent, ThumbIsCurrent, FullIsCurrent, EncodesFull
  <2> QED
    BY DEF IInv, Tasks, InOrder, NameInOrder, AtRest
<1> QED
  BY <1>1, InitIInv, NextKeepsIInv, PTL DEF Spec
=============================================================================
