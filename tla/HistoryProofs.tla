---------------------------- MODULE HistoryProofs ----------------------------
(***************************************************************************)
(* FileStorage implements VersionHistory: each commit of a first or of a   *)
(* new version is a Publish, and no other step changes a history.          *)
(***************************************************************************)
EXTENDS FileStorageProofs

(***************************************************************************)
(* The history of an asset, for any set of version rows: before a step and *)
(* after it.                                                               *)
(***************************************************************************)

RowsOf(rows, a) == {v \in rows : v.asset = a}

Length(rows, a) ==
    IF RowsOf(rows, a) = {} THEN 0
    ELSE CHOOSE n \in {v.number : v \in RowsOf(rows, a)} :
            \A m \in {v.number : v \in RowsOf(rows, a)} : m <= n

HashIn(rows, a, n) == (CHOOSE v \in RowsOf(rows, a) : v.number = n).hash

HistoryIn(rows, a) == [n \in 1 .. Length(rows, a) |-> HashIn(rows, a, n)]

LEMMA HistoryOfVersions ==
    /\ History!vars = <<[u \in Uploads |-> req[u].content],
                        [a \in Requests |-> HistoryIn(versions, a)],
                        {u \in Uploads : pc[u] \in {"stored", "versioned"}}>>
    /\ History!vars' = <<[u \in Uploads |-> req'[u].content],
                        [a \in Requests |-> HistoryIn(versions', a)],
                        {u \in Uploads : pc'[u] \in {"stored", "versioned"}}>>
  BY DEF History!vars, HistoryIn, HashIn, Length, RowsOf, MaxNumber,
     HashOfVersion, VersionsOf, NumbersOf

(* The rows that have the numbers 1 to m and the hashes h make the history *)
(* h.                                                                      *)
LEMMA HistoryOfRows ==
    ASSUME NEW rows, NEW a, NEW h \in Seq(Contents),
           \A v \in RowsOf(rows, a) : v.number \in 1 .. Len(h) /\ v.hash = h[v.number],
           \A n \in 1 .. Len(h) : \E v \in RowsOf(rows, a) : v.number = n
    PROVE HistoryIn(rows, a) = h
<1> DEFINE m == Len(h)
           N == {v.number : v \in RowsOf(rows, a)}
<1>1. N = 1 .. m
  OBVIOUS
<1>2. CASE m = 0
  <2>1. RowsOf(rows, a) = {}
    BY <1>2
  <2>2. h = <<>>
    BY <1>2
  <2> QED
    BY <1>2, <2>1, <2>2 DEF Length, HistoryIn
<1>3. CASE m # 0
  <2>1. RowsOf(rows, a) # {}
    BY <1>3
  <2>2. m \in N /\ \A n \in N : n <= m
    BY <1>1, <1>3
  <2> HIDE DEF N
  <2>3. \A n \in N : (\A k \in N : k <= n) => n = m
    BY <1>1, <2>2
  <2>4. (CHOOSE n \in N : \A k \in N : k <= n) = m
    BY <2>2, <2>3
  <2>5. Length(rows, a) = m
    BY <2>1, <2>4 DEF Length, N
  <2>6. \A n \in 1 .. m : HashIn(rows, a, n) = h[n]
    BY DEF HashIn
  <2>7. h = [n \in 1 .. m |-> h[n]]
    OBVIOUS
  <2> QED
    BY <2>5, <2>6, <2>7 DEF HistoryIn
<1> QED
  BY <1>2, <1>3

(***************************************************************************)
(* The histories there are, by the chain of the version rows.              *)
(***************************************************************************)

LEMMA HistoryNow ==
    ASSUME IInv, NEW a
    PROVE LET m == Length(versions, a) IN
          /\ m \in Nat
          /\ \A v \in RowsOf(versions, a) :
                v.number \in 1 .. m /\ v.hash = HistoryIn(versions, a)[v.number]
          /\ \A n \in 1 .. m : \E v \in RowsOf(versions, a) : v.number = n
          /\ HistoryIn(versions, a) \in Seq(Contents)
          /\ Len(HistoryIn(versions, a)) = m
<1> DEFINE m == Length(versions, a)
<1>1. \A v \in versions : v.number \in Nat /\ v.number >= 1 /\ v.hash \in Contents
  BY DEF IInv, Types, TypeOK, VersionRow, Chain, VersionChain, ContiguousNumbers
<1>2. /\ m \in Nat
      /\ \A v \in RowsOf(versions, a) : v.number <= m
      /\ \A n \in 1 .. m : \E v \in RowsOf(versions, a) : v.number = n
  <2>1. CASE RowsOf(versions, a) = {}
    BY <2>1 DEF Length
  <2>2. CASE RowsOf(versions, a) # {}
    <3> PICK v \in versions : v.asset = a /\ v.isCurrent
      BY <2>2 DEF RowsOf, IInv, Chain, HasCurrent, VersionsOf
    <3>1. m = v.number
      BY <2>2, MaxIsCurrent DEF IInv, Types, Length, RowsOf, MaxNumber,
         NumbersOf, VersionsOf
    <3> QED
      BY <1>1, <3>1 DEF RowsOf, IInv, Chain, VersionChain, CurrentIsLatest,
         VersionsOf, ContiguousNumbers
  <2> QED
    BY <2>1, <2>2
<1>3. \A v, w \in RowsOf(versions, a) : v.number = w.number => v = w
  BY DEF RowsOf, IInv, Chain, VersionChain, UniqueNumbers
<1>4. \A v \in RowsOf(versions, a) :
         v.number \in 1 .. m /\ v.hash = HashIn(versions, a, v.number)
  <2> SUFFICES ASSUME NEW v \in RowsOf(versions, a)
               PROVE  v.number \in 1 .. m /\ v.hash = HashIn(versions, a, v.number)
    OBVIOUS
  <2>1. v.number \in 1 .. m
    BY <1>1, <1>2 DEF RowsOf
  <2>2. (CHOOSE w \in RowsOf(versions, a) : w.number = v.number) = v
    BY <1>3
  <2> QED
    BY <2>1, <2>2 DEF HashIn
<1>5. \A n \in 1 .. m : HashIn(versions, a, n) \in Contents
  BY <1>1, <1>2, <1>4 DEF RowsOf
<1> HIDE DEF m
<1>6. HistoryIn(versions, a) = [n \in 1 .. m |-> HashIn(versions, a, n)]
  BY DEF HistoryIn, m
<1>7. HistoryIn(versions, a) \in Seq(Contents) /\ Len(HistoryIn(versions, a)) = m
  BY <1>2, <1>5, <1>6
<1> QED
  BY <1>2, <1>4, <1>6, <1>7 DEF m

(***************************************************************************)
(* What the two commits do to the histories.                               *)
(***************************************************************************)

LEMMA OtherHistories ==
    ASSUME NEW rows, NEW rows2, NEW a, RowsOf(rows, a) = RowsOf(rows2, a)
    PROVE HistoryIn(rows, a) = HistoryIn(rows2, a)
  BY DEF HistoryIn, HashIn, Length

LEMMA FirstVersion ==
    ASSUME IInv, NEW u \in Uploads, CommitNew(u)
    PROVE /\ HistoryIn(versions, u) = <<>>
          /\ HistoryIn(versions', u) = <<req[u].content>>
          /\ \A a : a # u => HistoryIn(versions', a) = HistoryIn(versions, a)
<1> DEFINE First == [asset |-> u, number |-> 1, hash |-> req[u].content,
                     archived |-> FALSE, isCurrent |-> TRUE]
<1>1. RowsOf(versions, u) = {}
  <2>1. u \in Requests /\ pc[u] \in Stages
    BY DEF CommitNew, Requests, Stages, UploadStages, BeforeVersions
  <2> QED
    BY <2>1, NoRowYet DEF RowsOf
<1>2. versions' = versions \cup {First}
  BY DEF CommitNew
<1>3. First.asset = u /\ First.number = 1 /\ First.hash = req[u].content
  OBVIOUS
<1> HIDE DEF First
<1>4. RowsOf(versions', u) = {First}
  BY <1>1, <1>2, <1>3 DEF RowsOf
<1>5. HistoryIn(versions, u) = <<>>
  <2> DEFINE h == <<>>
  <2>1. h \in Seq(Contents) /\ Len(h) = 0
    OBVIOUS
  <2> HIDE DEF h
  <2>2. /\ \A v \in RowsOf(versions, u) : v.number \in 1 .. Len(h) /\ v.hash = h[v.number]
        /\ \A n \in 1 .. Len(h) : \E v \in RowsOf(versions, u) : v.number = n
    BY <1>1, <2>1
  <2>3. h \in Seq(Contents)
    BY <2>1
  <2>4. HistoryIn(versions, u) = h
    BY <2>2, <2>3, HistoryOfRows
  <2> QED
    BY <2>4 DEF h
<1>6. HistoryIn(versions', u) = <<req[u].content>>
  <2> DEFINE h == <<req[u].content>>
  <2>1. h \in Seq(Contents) /\ Len(h) = 1 /\ h[1] = req[u].content
    <3>1. req[u].content \in Contents
      BY DEF IInv, Types, TypeOK, Locals, Requests
    <3> QED
      BY <3>1
  <2> HIDE DEF h
  <2>2. \A v \in RowsOf(versions', u) :
           v.number \in 1 .. Len(h) /\ v.hash = h[v.number]
    BY <1>3, <1>4, <2>1
  <2>3. \A n \in 1 .. Len(h) : \E v \in RowsOf(versions', u) : v.number = n
    BY <1>3, <1>4, <2>1
  <2>4. HistoryIn(versions', u) = h
    BY <2>1, <2>2, <2>3, HistoryOfRows, SMTT(60)
  <2> QED
    BY <2>4 DEF h
<1>7. \A a : a # u => RowsOf(versions', a) = RowsOf(versions, a)
  BY <1>2, <1>3 DEF RowsOf
<1> QED
  BY <1>5, <1>6, <1>7, OtherHistories

LEMMA Appended ==
    ASSUME NEW s \in Seq(Contents), NEW c \in Contents
    PROVE /\ Append(s, c) \in Seq(Contents) /\ Len(Append(s, c)) = Len(s) + 1
          /\ \A n \in 1 .. Len(s) : Append(s, c)[n] = s[n]
          /\ Append(s, c)[Len(s) + 1] = c
  OBVIOUS

(* Of an asset that has versions the history grows by the new content, of  *)
(* another by the content that its row had before, too.                    *)
LEMMA NextVersion ==
    ASSUME IInv, NEW u \in Uploads, CommitVersion(u)
    PROVE LET a == req[u].asset
              before == HistoryIn(versions, a)
              after == HistoryIn(versions', a)
              content == req[u].content
          IN /\ \/ after = before \o <<>> \o <<content>>
                \/ /\ before = <<>> /\ req[u].hash \in Contents
                   /\ after = before \o <<req[u].hash>> \o <<content>>
             /\ \A b : b # a => HistoryIn(versions', b) = HistoryIn(versions, b)
<1> DEFINE q == req[u]
           a == q.asset
           before == HistoryIn(versions, a)
           m == Length(versions, a)
<1>0. pc[u] = "committing" /\ UniqueIndexAllows(InsertedRows(u))
  BY DEF CommitVersion
<1>1. /\ q.last \in Nat /\ q.last >= 1
      /\ q.hash \in Contents /\ q.content \in Contents
      /\ \A v \in versions : v.asset = a => v.number <= q.last
      /\ q.legacy => q.last = 1 /\ VersionsOf(a) = {}
      /\ ~q.legacy => q.last \in NumbersOf(a)
  BY <1>0, SnapshotIsCurrent
<1>2. /\ m \in Nat
      /\ \A v \in RowsOf(versions, a) : v.number \in 1 .. m /\ v.hash = before[v.number]
      /\ \A n \in 1 .. m : \E v \in RowsOf(versions, a) : v.number = n
      /\ before \in Seq(Contents) /\ Len(before) = m
  BY HistoryNow
<1>3. /\ \A v \in RowsOf(versions', a) :
            /\ v.number \in Nat /\ v.number >= 1 /\ v.number <= q.last + 1
            /\ v.number = q.last + 1 => v.hash = q.content
            /\ \/ \E w \in RowsOf(versions, a) : v.number = w.number /\ v.hash = w.hash
               \/ v \in InsertedRows(u)
      /\ \A n \in 1 .. q.last + 1 : \E v \in RowsOf(versions', a) : v.number = n
  <2>1. /\ \A v \in versions' : v \in VersionRow
        /\ \A v \in versions' : v.asset = a =>
              /\ v.number >= 1 /\ v.number <= q.last + 1
              /\ v.isCurrent <=> v.number = q.last + 1
              /\ v.isCurrent => v.hash = q.content
        /\ \A n \in 1 .. q.last + 1 : \E v \in versions' : v.asset = a /\ v.number = n
    BY HistoryExtended
  <2>2. \A w \in versions' :
           \/ w \in InsertedRows(u)
           \/ \E v \in versions : Successor(v, w)
    BY RowsAreKept
  <2> QED
    BY <2>1, <2>2 DEF RowsOf, Successor, VersionRow
<1>4. \A b : b # a => RowsOf(versions', b) = RowsOf(versions, b)
  BY OtherAssetsUntouched DEF RowsOf
<1> HIDE DEF m, before
<1>5. CASE ~q.legacy
  <2>1. m = q.last
    BY <1>1, <1>2, <1>5 DEF NumbersOf, VersionsOf, RowsOf
  <2>2. \A v \in InsertedRows(u) : v.number = q.last + 1
    BY <1>5 DEF InsertedRows
  <2> DEFINE h == before \o <<>> \o <<q.content>>
  <2>3. h = Append(before, q.content)
    BY <1>2
  <2>4. /\ h \in Seq(Contents) /\ Len(h) = m + 1 /\ m + 1 \in Nat
        /\ \A n \in 1 .. m : h[n] = before[n]
        /\ h[m + 1] = q.content
    BY <1>1, <1>2, <2>3
  <2> HIDE DEF h
  <2>5. \A v \in RowsOf(versions', a) : v.number \in 1 .. m + 1 /\ v.hash = h[v.number]
    <3> SUFFICES ASSUME NEW v \in RowsOf(versions', a)
                 PROVE  v.number \in 1 .. m + 1 /\ v.hash = h[v.number]
      OBVIOUS
    <3>1. CASE v.number = m + 1
      BY <1>2, <1>3, <2>1, <2>4, <3>1
    <3>2. CASE v.number # m + 1
      <4> PICK w \in RowsOf(versions, a) : v.number = w.number /\ v.hash = w.hash
        BY <1>3, <2>1, <2>2, <3>2
      <4> QED
        BY <1>2, <2>4
    <3> QED
      BY <3>1, <3>2
  <2>6. HistoryIn(versions', a) = h
    <3>1. \A n \in 1 .. m + 1 : \E v \in RowsOf(versions', a) : v.number = n
      BY <1>3, <2>1
    <3> QED
      BY <2>4, <2>5, <3>1, HistoryOfRows
  <2> QED
    BY <1>4, <2>6, OtherHistories DEF h, before
<1>6. CASE q.legacy
  <2>1. RowsOf(versions, a) = {} /\ q.last = 1
    BY <1>1, <1>6 DEF VersionsOf, RowsOf
  <2>2. before = <<>>
    BY <1>2, <2>1
  <2>3. \A v \in InsertedRows(u) : v.number = 2 \/ (v.number = 1 /\ v.hash = q.hash)
    <3>1. InsertedRows(u) \subseteq
             {[asset |-> a, number |-> 2, hash |-> q.content,
               archived |-> FALSE, isCurrent |-> TRUE],
              [asset |-> a, number |-> 1, hash |-> q.hash,
               archived |-> q.archived, isCurrent |-> FALSE]}
      BY <1>1, <2>1 DEF InsertedRows
    <3> QED
      BY <3>1
  <2> DEFINE h == before \o <<q.hash>> \o <<q.content>>
  <2>4. h = Append(<<q.hash>>, q.content)
    <3>1. <<>> \o <<q.hash>> = <<q.hash>>
      BY <1>1
    <3>2. <<q.hash>> \o <<q.content>> = Append(<<q.hash>>, q.content)
      BY <1>1
    <3> QED
      BY <2>2, <3>1, <3>2
  <2> HIDE DEF h
  <2>5. /\ h \in Seq(Contents)
        /\ Len(h) = 2 /\ h[1] = q.hash /\ h[2] = q.content
    <3> DEFINE one == <<q.hash>>
    <3>1. one \in Seq(Contents) /\ Len(one) = 1 /\ one[1] = q.hash
      BY <1>1
    <3>2. h = Append(one, q.content)
      BY <2>4
    <3> HIDE DEF one
    <3>3. /\ h \in Seq(Contents) /\ Len(h) = Len(one) + 1
          /\ h[Len(one) + 1] = q.content /\ \A n \in 1 .. Len(one) : h[n] = one[n]
      BY <1>1, <3>1, <3>2, Appended
    <3> QED
      BY <3>1, <3>3
  <2>6. \A v \in RowsOf(versions', a) :
           v.number \in 1 .. Len(h) /\ v.hash = h[v.number]
    BY <1>3, <2>1, <2>3, <2>5
  <2>7. \A n \in 1 .. Len(h) : \E v \in RowsOf(versions', a) : v.number = n
    BY <1>3, <2>1, <2>5
  <2>8. HistoryIn(versions', a) = h
    <3>1. h \in Seq(Contents)
      BY <2>5
    <3> QED
      BY <2>6, <2>7, <3>1, HistoryOfRows
  <2> QED
    BY <1>1, <1>4, <2>2, <2>8, OtherHistories DEF h, before
<1> QED
  BY <1>5, <1>6

(***************************************************************************)
(* Steps and stutters.                                                     *)
(***************************************************************************)

(* Who has acknowledged is told by pc alone. *)
Acknowledged == {u \in Uploads : pc[u] \in {"stored", "versioned"}}

(* An upload that commits a version is acknowledged by that step. *)
LEMMA Acknowledges ==
    ASSUME IInv, NEW u \in Uploads, pc[u] \in Stages,
           NEW x \in {"stored", "versioned"}, pc' = [pc EXCEPT ![u] = x]
    PROVE u \notin Acknowledged /\ Acknowledged' = Acknowledged \cup {u}
<1>1. u \in Requests /\ Uploads \subseteq Requests
  BY DEF Requests
<1>2. pc \in [Requests -> {"idle"} \cup Stages \cup Outcomes]
  BY DEF IInv, Types, TypeOK
<1>3. pc[u] \notin {"stored", "versioned"}
  BY DEF Stages, UploadStages, RegisterStages, BeforeVersions, AfterVersions
<1>4. \A w \in Uploads : pc'[w] = IF w = u THEN x ELSE pc[w]
  BY <1>1, <1>2
<1> QED
  BY <1>3, <1>4 DEF Acknowledged

(* Any other outcome and any stage acknowledge nobody. *)
LEMMA AcknowledgesNobody ==
    ASSUME IInv, NEW r \in Requests, pc[r] \in {"idle"} \cup Stages,
           NEW x, x \notin {"stored", "versioned"}, pc' = [pc EXCEPT ![r] = x]
    PROVE Acknowledged' = Acknowledged
<1>1. Uploads \subseteq Requests
  BY DEF Requests
<1>2. pc \in [Requests -> {"idle"} \cup Stages \cup Outcomes]
  BY DEF IInv, Types, TypeOK
<1>3. pc[r] \notin {"stored", "versioned"}
  BY DEF Stages, UploadStages, RegisterStages, BeforeVersions, AfterVersions
<1>4. \A w \in Uploads : pc'[w] = IF w = r THEN x ELSE pc[w]
  BY <1>1, <1>2
<1> QED
  BY <1>3, <1>4 DEF Acknowledged

Sent == [u \in Uploads |-> req[u].content]
Histories == [a \in Requests |-> HistoryIn(versions, a)]

(* The refinement mapping in these terms. *)
LEMMA Mapping ==
    /\ History!vars = <<Sent, Histories, Acknowledged>>
    /\ History!vars' = <<Sent', Histories', Acknowledged'>>
    /\ \A c \in Uploads, a \in Requests :
          History!Publish(c, a) <=>
             /\ c \notin Acknowledged
             /\ Acknowledged' = Acknowledged \cup {c}
             /\ \E older \in {<<>>} \cup
                      {<<d>> : d \in IF Histories[a] = <<>> THEN Contents ELSE {}} :
                   Histories' = [Histories EXCEPT ![a] =
                                   Histories[a] \o older \o <<Sent[c]>>]
             /\ Sent' = Sent
  BY DEF History!vars, History!Publish, History!Older, Sent, Histories,
     Acknowledged, HistoryIn, HashIn, Length, RowsOf, MaxNumber, HashOfVersion,
     VersionsOf, NumbersOf

(* What no commit of a version disturbs. *)
LEMMA Stutter ==
    ASSUME versions' = versions, Acknowledged' = Acknowledged, Sent' = Sent
    PROVE UNCHANGED History!vars
  BY Mapping DEF Histories

LEMMA CommitNewPublishes ==
    ASSUME IInv, NEW u \in Uploads, CommitNew(u)
    PROVE History!Publish(u, u)
<1>1. u \in Requests /\ Uploads \subseteq Requests
  BY DEF Requests
<1>2. u \notin Acknowledged /\ Acknowledged' = Acknowledged \cup {u}
  BY Acknowledges DEF CommitNew, End, Goto, Stages, UploadStages, BeforeVersions
<1>3. Sent' = Sent /\ Sent[u] = req[u].content
  BY DEF CommitNew, Sent
<1>4. req[u].content \in Contents
  BY <1>1 DEF IInv, Types, TypeOK, Locals
<1>5. Histories[u] = <<>>
  BY <1>1, FirstVersion DEF Histories
<1>6. Histories[u] \o <<>> \o <<Sent[u]>> = <<req[u].content>>
  BY <1>3, <1>4, <1>5
<1>7. Histories' = [Histories EXCEPT ![u] = Histories[u] \o <<>> \o <<Sent[u]>>]
  BY <1>1, <1>6, FirstVersion DEF Histories
<1> QED
  BY <1>1, <1>2, <1>3, <1>7, Mapping

LEMMA CommitVersionPublishes ==
    ASSUME IInv, NEW u \in Uploads, CommitVersion(u)
    PROVE \E a \in Requests : History!Publish(u, a)
<1>0. u \in Requests /\ req[u].asset \in Requests
  BY DEF IInv, Types, TypeOK, Locals, Requests
<1> PICK a \in Requests : a = req[u].asset
  BY <1>0
<1>1. u \in Requests /\ a \in Requests
  BY <1>0
<1>2. u \notin Acknowledged /\ Acknowledged' = Acknowledged \cup {u}
  BY Acknowledges DEF CommitVersion, End, Goto, Stages, UploadStages, AfterVersions
<1>3. Sent' = Sent /\ Sent[u] = req[u].content
  BY DEF CommitVersion, Sent
<1>4. Histories[a] = HistoryIn(versions, a)
  BY <1>1 DEF Histories
<1>5. PICK older \in {<<>>} \cup
                    {<<d>> : d \in IF Histories[a] = <<>> THEN Contents ELSE {}} :
         HistoryIn(versions', a) = Histories[a] \o older \o <<Sent[u]>>
  BY <1>3, <1>4, NextVersion
<1>6. Histories' = [Histories EXCEPT ![a] = Histories[a] \o older \o <<Sent[u]>>]
  BY <1>1, <1>5, NextVersion DEF Histories
<1> QED
  BY <1>1, <1>2, <1>3, <1>6, Mapping

LEMMA LocalStutters ==
    ASSUME IInv, NEW r \in Requests, Local(r)
    PROVE UNCHANGED History!vars
<1>1. PICK x \in Stages \cup (Outcomes \ Committed) : pc' = [pc EXCEPT ![r] = x]
  BY DEF Local
<1>2. x \notin {"stored", "versioned"}
  BY DEF Committed, Stages, UploadStages, BeforeVersions, AfterVersions,
     RegisterStages
<1>3. Acknowledged' = Acknowledged
  BY <1>1, <1>2, AcknowledgesNobody DEF Local
<1>4. \A s \in Requests : req'[s].content = req[s].content
  BY DEF Local
<1>5. Sent' = Sent
  BY <1>4 DEF Sent, Requests
<1> QED
  BY <1>3, <1>5, Stutter DEF Local

LEMMA NextPublishes == IInv /\ [Next]_vars => [History!Next]_(History!vars)
<1> SUFFICES ASSUME IInv, [Next]_vars
             PROVE  History!Next \/ UNCHANGED History!vars
  OBVIOUS
<1>0. Uploads \subseteq Requests /\ Registrations \subseteq Requests
  BY DEF Requests
<1>1. ASSUME NEW u \in Uploads, CommitNew(u) PROVE History!Next
  BY <1>0, <1>1, CommitNewPublishes DEF History!Next
<1>2. ASSUME NEW u \in Uploads, CommitVersion(u) PROVE History!Next
  BY <1>2, CommitVersionPublishes DEF History!Next
<1>3. ASSUME NEW r \in Requests,
             \/ r \in Uploads /\ CommitAlias(r)
             \/ r \in Registrations /\ CommitEnrolment(r)
             \/ r \in Registrations /\ CommitUpdate(r)
      PROVE  UNCHANGED History!vars
  <2>1. /\ versions' = versions /\ req' = req /\ pc[r] \in Stages
        /\ \E x \in {"aliased", "enrolled", "updated"} : pc' = [pc EXCEPT ![r] = x]
    BY <1>3 DEF CommitAlias, CommitEnrolment, CommitUpdate, End, Goto, Stages,
       UploadStages, BeforeVersions, RegisterStages
  <2>2. Acknowledged' = Acknowledged
    BY <2>1, AcknowledgesNobody
  <2> QED
    BY <2>1, <2>2, Stutter DEF Sent
<1>4. CASE (\E a \in DOMAIN files : SoftDelete(a)) \/ CleanupTemp
  BY <1>4, Stutter DEF SoftDelete, CleanupTemp, Sent, Acknowledged
<1>5. CASE UNCHANGED vars
  BY <1>5, Stutter DEF vars, Sent, Acknowledged
<1>6. CASE Next
  BY <1>0, <1>1, <1>2, <1>3, <1>4, <1>6, Classified, LocalStutters
<1> QED
  BY <1>5, <1>6

LEMMA InitialHistory == Init => History!Init
<1> SUFFICES ASSUME Init PROVE History!Init
  OBVIOUS
<1>1. IInv /\ Uploads \subseteq Requests
  BY InitIInv DEF Requests
<1>2. Sent \in [Uploads -> Contents]
  BY <1>1 DEF Sent, IInv, Types, TypeOK, Locals
<1>3. \A a \in Requests : HistoryIn(versions, a) = <<>>
  <2>1. versions = {}
    BY DEF Init
  <2> QED
    BY <2>1 DEF HistoryIn, Length, RowsOf
<1>4. Acknowledged = {}
  BY <1>1 DEF Init, Acknowledged
<1> QED
  BY <1>2, <1>3, <1>4 DEF History!Init, Sent, Histories, Acknowledged,
     HistoryIn, HashIn, Length, RowsOf, MaxNumber, HashOfVersion, VersionsOf,
     NumbersOf

(* However many uploads, registrations and deletions run at once and       *)
(* whatever fails, the version rows are the append-only histories of       *)
(* VersionHistory, each acknowledged upload having extended one of them by *)
(* its content, once.                                                      *)
THEOREM Refinement == Spec => HistorySpec
<1> QED
  BY InitialHistory, NextPublishes, InitIInv, NextKeepsIInv, PTL
  DEF Spec, HistorySpec, History!Spec
=============================================================================
