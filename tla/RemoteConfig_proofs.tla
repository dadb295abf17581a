------------------------- MODULE RemoteConfig_proofs -------------------------
(***************************************************************************)
(* What RemoteConfig guarantees for every set of titles and for every      *)
(* value of its bounds: the types, that the app bar always has a name,     *)
(* that one fetch is under way at a time, though isFetchInProgress is set  *)
(* on the SDK's queue and cleared on other threads, and that the ETag, the *)
(* fetched and the active configuration and the apply time agree, also in  *)
(* a process that comes back to what the last one had put on disk, and     *)
(* that a fetch that reports success leaves its configuration active.      *)
(***************************************************************************)
EXTENDS RemoteConfig, FiniteSetTheorems, TLAPS

-----------------------------------------------------------------------------
(* The inductive invariant. *)

Tasks == [do : {"settings", "defaults", "read", "activate"}]
  \cup [do : {"fetch", "request", "answer", "tag", "failure"}, of : Nat]
  \cup [do : {"begin"}, of : Nat, changed : BOOLEAN]

IsOfFetch(t) == t.do \in {"fetch", "begin", "request", "answer", "tag", "failure"}

\* A task of a fetch finds it where the task before has left it.
Fits(t, f) ==
  /\ t.do \in {"fetch", "begin"} => f.stage = "asked"
  /\ t.do = "request" => f.stage = "request"
  /\ t.do \in {"answer", "tag", "failure"} => f.stage = "queued"
  /\ t.do \in {"answer", "tag"} => f.got # 0

TasksFit(q, f) ==
  \A k \in 1..Len(q) : IsOfFetch(q[k]) => q[k].of \in 1..Len(f) /\ Fits(q[k], f[q[k].of])

\* No task of fetch i is queued.
NotQueued(i, q) == \A k \in 1..Len(q) : IsOfFetch(q[k]) => q[k].of # i

OneTaskEach(q) ==
  \A k, l \in 1..Len(q) : IsOfFetch(q[k]) /\ IsOfFetch(q[l]) /\ k # l => q[k].of # q[l].of

QueueOK(q, f) == q \in Seq(Tasks) /\ TasksFit(q, f) /\ OneTaskEach(q)

InProgress(f) == f.stage \in {"token", "request", "sent", "answered", "refused"}

FlagOK(f, flag) ==
  /\ \A i, j \in 1..Len(f) : InProgress(f[i]) /\ InProgress(f[j]) => i = j
  /\ flag <=> \E i \in 1..Len(f) : InProgress(f[i])

\* The name is read behind the task that sets the defaults.
ReadsBehindDefaults(q, defaults) ==
  \A k \in 1..Len(q) :
    q[k].do = "read" => defaults \/ \E j \in 1..(k - 1) : q[j].do = "defaults"

DefaultsAreSet(q, defaults) == defaults \/ \E j \in 1..Len(q) : q[j].do = "defaults"

NameInv ==
  /\ ReadsBehindDefaults(queue, content.defaults)
  /\ settings.made => DefaultsAreSet(queue, content.defaults)

\* Nothing is under way before the SDK is made.
IdleInv ==
  ~settings.made =>
    queue = <<>> /\ main = <<>> /\ \A i \in 1..Len(fetches) : fetches[i].stage = "gone"

Fetch(n) == [stage : Stages, sent : 0..n, got : 0..n]

AnswersOK(f) ==
  \A i \in 1..Len(f) : f[i].stage \in {"answered", "arrived"} => f[i].got # 0

FetchesInv == fetches \in Seq(Fetch(Len(templates))) /\ AnswersOK(fetches)

WritesUpTo(n) == [write : {"fetched", "active"}, version : 0..n]
  \cup [write : {"drop"}]
  \cup [write : {"insert"}, row : Rows]
  \cup [write : {"update"}, time : Nat]

DiskUpTo(n) == [fetched : 0..n, active : 0..n, row : Rows]

StorageInv ==
  /\ userDefaults \in [tag : 0..Len(templates), tagTime : Nat, fetchTime : Nat]
  /\ (userDefaults.tag = 0) <=> (userDefaults.tagTime = 0)
  /\ disk \in DiskUpTo(Len(templates))
  /\ db \in Seq(WritesUpTo(Len(templates)))

Settings == [made : BOOLEAN, isFetchInProgress : BOOLEAN,
             lastFetchStatus : {"none", "success", "failure"},
             backoff : BOOLEAN, lastApplyTime : Nat, deviceContext : BOOLEAN]

MemoryInv ==
  /\ content \in [loaded : BOOLEAN, fetched : 0..Len(templates),
                  active : 0..Len(templates), defaults : BOOLEAN]
  /\ settings \in Settings
  /\ name \in Titles \cup {DefaultName}

MainInv ==
  /\ main \in Seq([of : Nat, ok : BOOLEAN])
  /\ \A k \in 1..Len(main) : main[k].of \in 1..Len(fetches)

TemplatesInv == templates \in Seq(Titles \cup {NoTitle}) /\ templates # <<>>

ClockInv ==
  clock \in Nat /\ incidents \in Nat /\ torn \in BOOLEAN /\ setBack \in BOOLEAN

DataInv == TemplatesInv /\ ClockInv /\ StorageInv /\ MemoryInv

FetchInv ==
  /\ FetchesInv
  /\ MainInv
  /\ QueueOK(queue, fetches)
  /\ FlagOK(fetches, settings.isFetchInProgress)
  /\ NameInv
  /\ IdleInv

ConfigInv == DataInv /\ FetchInv

-----------------------------------------------------------------------------
(* The queue. *)

LEMMA TaskHas ==
  ASSUME NEW t \in Tasks
  PROVE  /\ t.do \in Steps
         /\ IsOfFetch(t) => t.of \in Nat
BY DEF Tasks, Steps, IsOfFetch

LEMMA QueueTail ==
  ASSUME NEW q, NEW f, QueueOK(q, f), q # <<>>
  PROVE  /\ QueueOK(Tail(q), f)
         /\ Head(q) \in Tasks
         /\ IsOfFetch(Head(q)) => /\ Head(q).of \in 1..Len(f)
                                  /\ Fits(Head(q), f[Head(q).of])
                                  /\ NotQueued(Head(q).of, Tail(q))
<1>1. /\ q \in Seq(Tasks) /\ Len(q) \in Nat /\ Len(q) >= 1
      /\ Tail(q) \in Seq(Tasks) /\ Head(q) = q[1] /\ q[1] \in Tasks
      /\ Len(Tail(q)) = Len(q) - 1
      /\ \A k \in 1..(Len(q) - 1) : Tail(q)[k] = q[k + 1]
  BY DEF QueueOK
<1>2. \A k \in 1..Len(Tail(q)) : k + 1 \in 1..Len(q) /\ Tail(q)[k] = q[k + 1] /\ k + 1 # 1
  BY <1>1
<1>3. TasksFit(q, f) /\ OneTaskEach(q)
  BY DEF QueueOK
<1>4. TasksFit(Tail(q), f)
  BY <1>2, <1>3 DEF TasksFit
<1>5. OneTaskEach(Tail(q))
  <2> SUFFICES ASSUME NEW k \in 1..Len(Tail(q)), NEW l \in 1..Len(Tail(q)), k # l,
                      IsOfFetch(Tail(q)[k]), IsOfFetch(Tail(q)[l])
               PROVE  Tail(q)[k].of # Tail(q)[l].of
    BY DEF OneTaskEach
  <2>1. k + 1 # l + 1
    OBVIOUS
  <2> QED
    BY <1>2, <1>3, <2>1 DEF OneTaskEach
<1>6. 1 \in 1..Len(q)
  BY <1>1
<1>7. IsOfFetch(Head(q)) => NotQueued(Head(q).of, Tail(q))
  BY <1>1, <1>2, <1>3, <1>6 DEF OneTaskEach, NotQueued
<1> QED
  BY <1>1, <1>3, <1>4, <1>5, <1>6, <1>7 DEF QueueOK, TasksFit

LEMMA QueueAppend ==
  ASSUME NEW q, NEW f, QueueOK(q, f), NEW t \in Tasks,
         IsOfFetch(t) => /\ t.of \in 1..Len(f)
                         /\ Fits(t, f[t.of])
                         /\ NotQueued(t.of, q)
  PROVE  QueueOK(Append(q, t), f)
<1> DEFINE r == Append(q, t)
<1>1. /\ q \in Seq(Tasks) /\ Len(q) \in Nat /\ r \in Seq(Tasks)
      /\ Len(r) = Len(q) + 1 /\ r[Len(q) + 1] = t
      /\ \A k \in 1..Len(q) : r[k] = q[k]
  BY DEF QueueOK
<1> HIDE DEF r
<1>2. \A k \in 1..Len(r) : \/ k \in 1..Len(q) /\ r[k] = q[k]
                           \/ k = Len(q) + 1 /\ r[k] = t
  BY <1>1
<1>3. TasksFit(q, f) /\ OneTaskEach(q)
  BY DEF QueueOK
<1>4. TasksFit(r, f)
  BY <1>2, <1>3 DEF TasksFit
<1>5. OneTaskEach(r)
  BY <1>2, <1>3 DEF OneTaskEach, NotQueued
<1>6. QueueOK(r, f)
  BY <1>1, <1>4, <1>5 DEF QueueOK
<1> QED
  BY <1>6 DEF r

LEMMA QueuePrepend ==
  ASSUME NEW q, NEW f, QueueOK(q, f), NEW t \in Tasks,
         IsOfFetch(t) => /\ t.of \in 1..Len(f)
                         /\ Fits(t, f[t.of])
                         /\ NotQueued(t.of, q)
  PROVE  QueueOK(<<t>> \o q, f)
<1> DEFINE r == <<t>> \o q
<1>1. /\ q \in Seq(Tasks) /\ Len(q) \in Nat /\ r \in Seq(Tasks)
      /\ Len(r) = Len(q) + 1 /\ r[1] = t
      /\ \A k \in 2..(Len(q) + 1) : r[k] = q[k - 1]
  BY DEF QueueOK
<1> HIDE DEF r
<1>2. \A k \in 1..Len(r) : \/ k # 1 /\ k - 1 \in 1..Len(q) /\ r[k] = q[k - 1]
                           \/ k = 1 /\ r[k] = t
  BY <1>1
<1>3. TasksFit(q, f) /\ OneTaskEach(q)
  BY DEF QueueOK
<1>4. TasksFit(r, f)
  BY <1>2, <1>3 DEF TasksFit
<1>5. OneTaskEach(r)
  <2> SUFFICES ASSUME NEW k \in 1..Len(r), NEW l \in 1..Len(r), k # l,
                      IsOfFetch(r[k]), IsOfFetch(r[l])
               PROVE  r[k].of # r[l].of
    BY DEF OneTaskEach
  <2>1. k - 1 # l - 1
    OBVIOUS
  <2> QED
    BY <1>2, <1>3, <2>1 DEF OneTaskEach, NotQueued
<1>6. QueueOK(r, f)
  BY <1>1, <1>4, <1>5 DEF QueueOK
<1> QED
  BY <1>6 DEF r

\* A fetch with no task may move; others may be added.
LEMMA QueueMoved ==
  ASSUME NEW q, NEW f, NEW g, NEW i, QueueOK(q, f), NotQueued(i, q),
         1..Len(f) \subseteq 1..Len(g),
         \A j \in 1..Len(f) : j # i => g[j] = f[j]
  PROVE  QueueOK(q, g)
BY DEF QueueOK, TasksFit, NotQueued

LEMMA NotQueuedUnless ==
  ASSUME NEW q, NEW f, NEW i, QueueOK(q, f),
         f[i].stage \notin {"asked", "request", "queued"}
  PROVE  NotQueued(i, q)
BY DEF QueueOK, TasksFit, NotQueued, Fits, IsOfFetch

LEMMA NotQueuedAppend ==
  ASSUME NEW q \in Seq(Tasks), NEW t \in Tasks, NEW i, NotQueued(i, q),
         IsOfFetch(t) => t.of # i
  PROVE  NotQueued(i, Append(q, t))
<1>1. \A k \in 1..Len(Append(q, t)) : \/ k \in 1..Len(q) /\ Append(q, t)[k] = q[k]
                                      \/ Append(q, t)[k] = t
  OBVIOUS
<1> QED
  BY <1>1 DEF NotQueued

\* The order of the defaults and the reads.
LEMMA NameTail ==
  ASSUME NEW q \in Seq(Tasks), q # <<>>, NEW defaults \in BOOLEAN,
         ReadsBehindDefaults(q, defaults)
  PROVE  /\ Head(q).do = "read" => defaults
         /\ Head(q).do # "defaults" => ReadsBehindDefaults(Tail(q), defaults)
         /\ Head(q).do # "defaults" /\ DefaultsAreSet(q, defaults)
              => DefaultsAreSet(Tail(q), defaults)
<1>1. /\ Len(q) \in Nat /\ Len(q) >= 1 /\ Head(q) = q[1]
      /\ Len(Tail(q)) = Len(q) - 1
      /\ \A k \in 1..(Len(q) - 1) : Tail(q)[k] = q[k + 1]
  OBVIOUS
<1>2. Head(q).do = "read" => defaults
  <2>1. 1 \in 1..Len(q) /\ 1..(1 - 1) = {}
    BY <1>1
  <2> QED
    BY <1>1, <2>1 DEF ReadsBehindDefaults
<1>3. ASSUME Head(q).do # "defaults"
      PROVE  ReadsBehindDefaults(Tail(q), defaults)
  <2> SUFFICES ASSUME NEW k \in 1..Len(Tail(q)), Tail(q)[k].do = "read", ~defaults
               PROVE  \E j \in 1..(k - 1) : Tail(q)[j].do = "defaults"
    BY DEF ReadsBehindDefaults
  <2>1. k + 1 \in 1..Len(q) /\ q[k + 1].do = "read"
    BY <1>1
  <2>2. PICK j \in 1..((k + 1) - 1) : q[j].do = "defaults"
    BY <2>1 DEF ReadsBehindDefaults
  <2>3. j # 1
    BY <1>1, <1>3, <2>2
  <2>4. j - 1 \in 1..(k - 1) /\ Tail(q)[j - 1] = q[j]
    BY <1>1, <2>3
  <2> QED
    BY <2>2, <2>4
<1>4. ASSUME Head(q).do # "defaults", DefaultsAreSet(q, defaults), ~defaults
      PROVE  DefaultsAreSet(Tail(q), defaults)
  <2>1. PICK j \in 1..Len(q) : q[j].do = "defaults"
    BY <1>4 DEF DefaultsAreSet
  <2>2. j # 1
    BY <1>1, <1>4, <2>1
  <2>3. j - 1 \in 1..Len(Tail(q)) /\ Tail(q)[j - 1] = q[j]
    BY <1>1, <2>2
  <2> QED
    BY <2>1, <2>3 DEF DefaultsAreSet
<1> QED
  BY <1>2, <1>3, <1>4 DEF DefaultsAreSet

LEMMA NameAppend ==
  ASSUME NEW q \in Seq(Tasks), NEW t \in Tasks, NEW defaults \in BOOLEAN,
         ReadsBehindDefaults(q, defaults),
         t.do = "read" => DefaultsAreSet(q, defaults)
  PROVE  /\ ReadsBehindDefaults(Append(q, t), defaults)
         /\ DefaultsAreSet(q, defaults) \/ t.do = "defaults"
              => DefaultsAreSet(Append(q, t), defaults)
<1> DEFINE r == Append(q, t)
<1>1. /\ Len(q) \in Nat /\ Len(r) = Len(q) + 1 /\ r[Len(q) + 1] = t
      /\ \A k \in 1..Len(q) : r[k] = q[k]
  OBVIOUS
<1> HIDE DEF r
<1>2. DefaultsAreSet(q, defaults) \/ t.do = "defaults" => DefaultsAreSet(r, defaults)
  BY <1>1 DEF DefaultsAreSet
<1>3. ASSUME NEW k \in 1..Len(r), r[k].do = "read", ~defaults
      PROVE  \E j \in 1..(k - 1) : r[j].do = "defaults"
  <2>1. CASE k \in 1..Len(q)
    <3>1. PICK j \in 1..(k - 1) : q[j].do = "defaults"
      BY <1>1, <1>3, <2>1 DEF ReadsBehindDefaults
    <3>2. r[j] = q[j]
      BY <1>1, <2>1
    <3> QED
      BY <3>1, <3>2
  <2>2. CASE k = Len(q) + 1
    <3>1. PICK j \in 1..Len(q) : q[j].do = "defaults"
      BY <1>1, <1>3, <2>2 DEF DefaultsAreSet
    <3> QED
      BY <1>1, <2>2, <3>1
  <2> QED
    BY <1>1, <2>1, <2>2
<1>4. ReadsBehindDefaults(r, defaults)
  BY <1>3 DEF ReadsBehindDefaults
<1> QED
  BY <1>2, <1>4 DEF r

LEMMA NamePrepend ==
  ASSUME NEW q \in Seq(Tasks), NEW t \in Tasks, NEW defaults \in BOOLEAN,
         ReadsBehindDefaults(q, defaults), DefaultsAreSet(q, defaults), t.do # "read"
  PROVE  /\ ReadsBehindDefaults(<<t>> \o q, defaults)
         /\ DefaultsAreSet(<<t>> \o q, defaults)
<1> DEFINE r == <<t>> \o q
<1>1. /\ Len(q) \in Nat /\ Len(r) = Len(q) + 1 /\ r[1] = t
      /\ \A k \in 1..Len(q) : r[k + 1] = q[k]
      /\ \A k \in 2..(Len(q) + 1) : r[k] = q[k - 1]
  OBVIOUS
<1> HIDE DEF r
<1>2. DefaultsAreSet(r, defaults)
  <2>1. ASSUME NEW j \in 1..Len(q), q[j].do = "defaults"
        PROVE  j + 1 \in 1..Len(r) /\ r[j + 1].do = "defaults"
    BY <1>1, <2>1
  <2> QED
    BY <2>1 DEF DefaultsAreSet
<1>3. ASSUME NEW k \in 1..Len(r), r[k].do = "read", ~defaults
      PROVE  \E j \in 1..(k - 1) : r[j].do = "defaults"
  <2>1. k # 1
    BY <1>1, <1>3
  <2>2. k - 1 \in 1..Len(q) /\ r[k] = q[k - 1]
    BY <1>1, <2>1
  <2>3. PICK j \in 1..((k - 1) - 1) : q[j].do = "defaults"
    BY <1>3, <2>2 DEF ReadsBehindDefaults
  <2>4. j + 1 \in 1..(k - 1) /\ r[j + 1] = q[j]
    BY <1>1, <2>2
  <2> QED
    BY <2>3, <2>4
<1>4. ReadsBehindDefaults(r, defaults)
  BY <1>3 DEF ReadsBehindDefaults
<1> QED
  BY <1>2, <1>4 DEF r

-----------------------------------------------------------------------------
(* The fetches. *)

LEMMA FetchChanged ==
  ASSUME NEW n \in Nat, NEW f \in Seq(Fetch(n)), NEW i \in 1..Len(f), NEW h \in Fetch(n)
  PROVE  LET g == [f EXCEPT ![i] = h] IN
           /\ g \in Seq(Fetch(n))
           /\ Len(g) = Len(f)
           /\ g[i] = h
           /\ \A j \in 1..Len(f) : j # i => g[j] = f[j]
OBVIOUS

\* A step of a fetch that leaves its answer alone.
LEMMA FetchMoved ==
  ASSUME FetchesInv, Len(templates) \in Nat, NEW i \in 1..Len(fetches), NEW s \in Stages,
         s \in {"answered", "arrived"} => fetches[i].got # 0
  PROVE  /\ Moved(i, s) \in Seq(Fetch(Len(templates)))
         /\ AnswersOK(Moved(i, s))
         /\ Len(Moved(i, s)) = Len(fetches)
         /\ Moved(i, s)[i].stage = s
         /\ Moved(i, s)[i].got = fetches[i].got
         /\ \A j \in 1..Len(fetches) : j # i => Moved(i, s)[j] = fetches[j]
<1> DEFINE h == [fetches[i] EXCEPT !.stage = s]
<1>1. fetches \in Seq(Fetch(Len(templates))) /\ fetches[i] \in Fetch(Len(templates))
  BY DEF FetchesInv
<1>2. h \in Fetch(Len(templates)) /\ h.stage = s /\ h.got = fetches[i].got
  BY <1>1 DEF Fetch
<1>3. Moved(i, s) = [fetches EXCEPT ![i] = h]
  BY DEF Moved
<1> HIDE DEF h
<1>4. /\ Moved(i, s) \in Seq(Fetch(Len(templates)))
      /\ Len(Moved(i, s)) = Len(fetches)
      /\ Moved(i, s)[i] = h
      /\ \A j \in 1..Len(fetches) : j # i => Moved(i, s)[j] = fetches[j]
  BY <1>1, <1>2, <1>3, FetchChanged
<1>5. AnswersOK(Moved(i, s))
  BY <1>2, <1>4 DEF FetchesInv, AnswersOK
<1> QED
  BY <1>2, <1>4, <1>5

\* The flag follows the one fetch that is between its start and its answer.
LEMMA FlagStays ==
  ASSUME NEW f, NEW g, NEW flag, NEW i, FlagOK(f, flag), Len(g) = Len(f),
         InProgress(g[i]) <=> InProgress(f[i]),
         \A j \in 1..Len(f) : j # i => g[j] = f[j]
  PROVE  FlagOK(g, flag)
<1>1. \A j \in 1..Len(f) : InProgress(g[j]) <=> InProgress(f[j])
  OBVIOUS
<1> QED
  BY <1>1 DEF FlagOK

LEMMA FlagRises ==
  ASSUME NEW f, NEW g, NEW i \in 1..Len(f), FlagOK(f, FALSE), Len(g) = Len(f),
         InProgress(g[i]),
         \A j \in 1..Len(f) : j # i => g[j] = f[j]
  PROVE  FlagOK(g, TRUE)
<1>1. \A j \in 1..Len(f) : InProgress(g[j]) => j = i
  BY DEF FlagOK
<1> QED
  BY <1>1 DEF FlagOK

LEMMA FlagFalls ==
  ASSUME NEW f, NEW g, NEW flag, NEW i \in 1..Len(f), FlagOK(f, flag), Len(g) = Len(f),
         InProgress(f[i]), ~InProgress(g[i]),
         \A j \in 1..Len(f) : j # i => g[j] = f[j]
  PROVE  FlagOK(g, FALSE)
<1>1. \A j \in 1..Len(f) : ~InProgress(g[j])
  BY DEF FlagOK
<1> QED
  BY <1>1 DEF FlagOK

\* A completion is queued for the main thread with the end of the fetch.
LEMMA MainReported ==
  ASSUME MainInv, NEW i \in 1..Len(fetches), Len(fetches) \in Nat, NEW ok \in BOOLEAN,
         main' = Append(main, [of |-> i, ok |-> ok]), Len(fetches') = Len(fetches)
  PROVE  MainInv'
<1> DEFINE m == [of |-> i, ok |-> ok]
<1>1. m \in [of : Nat, ok : BOOLEAN] /\ m.of = i
  OBVIOUS
<1> HIDE DEF m
<1>2. main \in Seq([of : Nat, ok : BOOLEAN]) /\ main' = Append(main, m)
  BY DEF MainInv, m
<1>3. /\ main' \in Seq([of : Nat, ok : BOOLEAN])
      /\ \A k \in 1..Len(main') : \/ k \in 1..Len(main) /\ main'[k] = main[k]
                                  \/ main'[k] = m
  BY <1>1, <1>2
<1> QED
  BY <1>1, <1>3 DEF MainInv

-----------------------------------------------------------------------------
(* The disk and the operations on it. *)

LEMMA StoredIsDisk ==
  ASSUME NEW n \in Nat, NEW d \in DiskUpTo(n), NEW op \in WritesUpTo(n)
  PROVE  Stored(op, d) \in DiskUpTo(n)
<1> USE DEF DiskUpTo
<1>1. CASE op \in [write : {"fetched", "active"}, version : 0..n]
  BY <1>1 DEF Stored
<1>2. CASE op \in [write : {"drop"}]
  BY <1>2 DEF Stored, EmptyRow, Rows
<1>3. CASE op \in [write : {"insert"}, row : Rows]
  BY <1>3 DEF Stored
<1>4. CASE op \in [write : {"update"}, time : Nat]
  BY <1>4 DEF Stored, Rows
<1> QED
  BY <1>1, <1>2, <1>3, <1>4 DEF WritesUpTo

LEMMA ReplacesWrites ==
  ASSUME NEW n \in Nat, NEW v \in 0..n, NEW t \in Nat
  PROVE  /\ Replaces("fetched", v) \in Seq(WritesUpTo(n))
         /\ ActivationWrites(v, t) \in Seq(WritesUpTo(n))
<1>1. /\ \A table \in {"fetched", "active"}, w \in 0..n :
           [write |-> table, version |-> w] \in WritesUpTo(n)
      /\ [write |-> "update", time |-> t] \in WritesUpTo(n)
  BY DEF WritesUpTo
<1>2. \A table \in {"fetched", "active"} : Replaces(table, v) \in Seq(WritesUpTo(n))
  <2> TAKE table \in {"fetched", "active"}
  <2>1. /\ [write |-> table, version |-> 0] \in WritesUpTo(n)
        /\ [write |-> table, version |-> v] \in WritesUpTo(n)
    BY <1>1
  <2> QED
    BY <2>1 DEF Replaces
<1> QED
  BY <1>1, <1>2 DEF ActivationWrites

LEMMA ReplacesRowWrites ==
  ASSUME NEW n \in Nat, NEW s \in Settings
  PROVE  ReplacesRow(s) \in Seq(WritesUpTo(n))
<1>1. RowOf(s) \in Rows
  BY DEF RowOf, Rows, Settings
<1>2. /\ [write |-> "drop"] \in WritesUpTo(n)
      /\ [write |-> "insert", row |-> RowOf(s)] \in WritesUpTo(n)
  BY <1>1 DEF WritesUpTo
<1> QED
  BY <1>2 DEF ReplacesRow

\* What a template may name, later templates may name too.
LEMMA Monotonic ==
  ASSUME NEW n \in Nat, NEW m \in Nat, n <= m
  PROVE  /\ Seq(Fetch(n)) \subseteq Seq(Fetch(m))
         /\ Seq(WritesUpTo(n)) \subseteq Seq(WritesUpTo(m))
         /\ DiskUpTo(n) \subseteq DiskUpTo(m)
<1>1. 0..n \subseteq 0..m
  OBVIOUS
<1>2. Fetch(n) \subseteq Fetch(m)
  BY <1>1 DEF Fetch
<1>3. WritesUpTo(n) \subseteq WritesUpTo(m)
  BY <1>1 DEF WritesUpTo
<1>4. DiskUpTo(n) \subseteq DiskUpTo(m)
  BY <1>1 DEF DiskUpTo
<1>5. ASSUME NEW S, NEW T, S \subseteq T
      PROVE  Seq(S) \subseteq Seq(T)
  BY <1>5
<1> QED
  BY <1>2, <1>3, <1>4, <1>5

-----------------------------------------------------------------------------
(* The first state, and what every step starts from. *)

LEMMA ConfigStarts == Init => ConfigInv
<1> SUFFICES ASSUME Init
             PROVE  ConfigInv
  OBVIOUS
<1>1. TemplatesInv /\ Len(templates) = 1
  BY DEF Init, TemplatesInv
<1>2. ClockInv
  BY DEF Init, ClockInv
<1>3. StorageInv
  BY <1>1 DEF Init, StorageInv, DiskUpTo, EmptyRow, Rows
<1>4. MemoryInv
  BY <1>1 DEF Init, MemoryInv, Unloaded, NoSettings, Settings
<1>5. FetchesInv /\ MainInv
  BY DEF Init, FetchesInv, AnswersOK, MainInv
<1>6. QueueOK(queue, fetches)
  BY DEF Init, QueueOK, TasksFit, OneTaskEach
<1>7. FlagOK(fetches, settings.isFetchInProgress)
  BY DEF Init, FlagOK, NoSettings
<1>8. NameInv
  BY DEF Init, NameInv, ReadsBehindDefaults, NoSettings
<1>9. IdleInv
  BY DEF Init, IdleInv
<1> QED
  BY <1>1, <1>2, <1>3, <1>4, <1>5, <1>6, <1>7, <1>8, <1>9 DEF ConfigInv, DataInv, FetchInv

LEMMA InvTypes ==
  ASSUME ConfigInv
  PROVE  /\ Len(templates) \in Nat /\ Len(templates) >= 1
         /\ fetches \in Seq(Fetch(Len(templates))) /\ Len(fetches) \in Nat
         /\ queue \in Seq(Tasks) /\ Len(queue) \in Nat
         /\ settings \in Settings /\ content.defaults \in BOOLEAN
BY DEF ConfigInv, DataInv, FetchInv, TemplatesInv, FetchesInv, QueueOK, MemoryInv

\* The front of the queue and what is left behind it.
LEMMA HeadTask ==
  ASSUME ConfigInv, NEW do, Runs(do)
  PROVE  /\ Head(queue) \in Tasks /\ Head(queue).do = do
         /\ QueueOK(Tail(queue), fetches)
         /\ IsOfFetch(Head(queue)) => /\ Head(queue).of \in 1..Len(fetches)
                                      /\ Fits(Head(queue), fetches[Head(queue).of])
                                      /\ NotQueued(Head(queue).of, Tail(queue))
         /\ settings.made
         /\ do = "read" => content.defaults
         /\ do # "defaults" => /\ ReadsBehindDefaults(Tail(queue), content.defaults)
                               /\ DefaultsAreSet(Tail(queue), content.defaults)
<1>1. queue # <<>> /\ Head(queue).do = do
  BY DEF Runs
<1>2. QueueOK(queue, fetches) /\ NameInv /\ IdleInv
  BY DEF ConfigInv, FetchInv
<1>3. settings.made
  BY <1>1, <1>2 DEF IdleInv
<1>4. /\ ReadsBehindDefaults(queue, content.defaults)
      /\ DefaultsAreSet(queue, content.defaults)
  BY <1>2, <1>3 DEF NameInv
<1>5. queue \in Seq(Tasks) /\ content.defaults \in BOOLEAN
  BY InvTypes
<1> QED
  BY <1>1, <1>2, <1>3, <1>4, <1>5, QueueTail, NameTail

\* The step of one fetch.
LEMMA FetchSteps ==
  ASSUME ConfigInv, NEW i \in 1..Len(fetches), NEW s \in Stages, templates' = templates,
         fetches' = Moved(i, s),
         s \in {"answered", "arrived"} => fetches[i].got # 0
  PROVE  /\ FetchesInv' /\ Len(fetches') = Len(fetches)
         /\ fetches'[i].stage = s /\ fetches'[i].got = fetches[i].got
         /\ \A j \in 1..Len(fetches) : j # i => fetches'[j] = fetches[j]
         /\ \A q : QueueOK(q, fetches) /\ NotQueued(i, q) => QueueOK(q, fetches')
<1>1. FetchesInv /\ Len(templates) \in Nat
  BY InvTypes DEF ConfigInv, FetchInv
<1>2. /\ fetches' \in Seq(Fetch(Len(templates))) /\ AnswersOK(fetches')
      /\ Len(fetches') = Len(fetches)
      /\ fetches'[i].stage = s /\ fetches'[i].got = fetches[i].got
      /\ \A j \in 1..Len(fetches) : j # i => fetches'[j] = fetches[j]
  BY <1>1, FetchMoved
<1>3. FetchesInv'
  BY <1>2 DEF FetchesInv
<1>4. ASSUME NEW q, QueueOK(q, fetches), NotQueued(i, q)
      PROVE  QueueOK(q, fetches')
  BY <1>2, <1>4, QueueMoved
<1> QED
  BY <1>2, <1>3, <1>4

LEMMA MainKept ==
  ASSUME MainInv, UNCHANGED main, Len(fetches') = Len(fetches)
  PROVE  MainInv'
BY DEF MainInv

-----------------------------------------------------------------------------
(* Steps of the app and of the queue that concern no fetch. *)

LEMMA DatabaseStepKeeps ==
  ASSUME ConfigInv, DatabaseStep
  PROVE  ConfigInv'
<1>1. DataInv /\ FetchInv /\ Len(templates) \in Nat
  BY InvTypes DEF ConfigInv
<1>2. /\ db \in Seq(WritesUpTo(Len(templates))) /\ db # <<>>
      /\ disk \in DiskUpTo(Len(templates))
  BY <1>1 DEF DataInv, StorageInv, DatabaseStep
<1>3. /\ Head(db) \in WritesUpTo(Len(templates))
      /\ db' \in Seq(WritesUpTo(Len(templates)))
  BY <1>2 DEF DatabaseStep
<1>4. disk' \in DiskUpTo(Len(templates))
  BY <1>1, <1>2, <1>3, StoredIsDisk DEF DatabaseStep
<1>5. DataInv'
  BY <1>1, <1>3, <1>4
     DEF DatabaseStep, DataInv, TemplatesInv, ClockInv, StorageInv, MemoryInv, historyVars
<1>6. FetchInv'
  BY <1>1 DEF DatabaseStep, FetchInv, FetchesInv, MainInv, NameInv, IdleInv
<1> QED
  BY <1>5, <1>6 DEF ConfigInv

LEMMA LoadReturnsKeeps ==
  ASSUME ConfigInv, LoadReturns
  PROVE  ConfigInv'
<1>1. DataInv /\ FetchInv /\ Len(templates) \in Nat
  BY InvTypes DEF ConfigInv
<1>2. disk.fetched \in 0..Len(templates) /\ disk.active \in 0..Len(templates)
  BY <1>1 DEF DataInv, StorageInv, DiskUpTo
<1>3. /\ content' \in [loaded : BOOLEAN, fetched : 0..Len(templates),
                       active : 0..Len(templates), defaults : BOOLEAN]
      /\ content'.defaults = content.defaults
  BY <1>1, <1>2 DEF DataInv, MemoryInv, LoadReturns
<1>4. DataInv'
  BY <1>1, <1>3
     DEF LoadReturns, DataInv, TemplatesInv, ClockInv, StorageInv, MemoryInv, historyVars
<1>5. FetchInv'
  BY <1>1, <1>3 DEF LoadReturns, FetchInv, FetchesInv, MainInv, NameInv, IdleInv
<1> QED
  BY <1>4, <1>5 DEF ConfigInv

LEMMA LoginBodyKeeps ==
  ASSUME ConfigInv, LoginBody
  PROVE  ConfigInv'
<1> DEFINE t == [do |-> "read"]
<1>1. t \in Tasks /\ ~IsOfFetch(t) /\ queue' = Append(queue, t)
  BY DEF Tasks, IsOfFetch, LoginBody
<1>2. settings.made /\ UNCHANGED <<content, settings, fetches>>
  BY DEF LoginBody
<1> HIDE DEF t
<1>3. DataInv /\ FetchInv
  BY DEF ConfigInv
<1>4. QueueOK(queue', fetches')
  BY <1>1, <1>2, <1>3, QueueAppend DEF FetchInv
<1>5. /\ ReadsBehindDefaults(queue', content.defaults)
      /\ DefaultsAreSet(queue', content.defaults)
  BY <1>1, <1>2, <1>3, InvTypes, NameAppend DEF FetchInv, NameInv
<1>6. NameInv' /\ IdleInv'
  BY <1>2, <1>5 DEF NameInv, IdleInv
<1>7. DataInv'
  BY <1>3
     DEF LoginBody, DataInv, TemplatesInv, ClockInv, StorageInv, MemoryInv, historyVars
<1>8. FetchInv'
  BY <1>3, <1>4, <1>6 DEF LoginBody, FetchInv, FetchesInv, MainInv
<1> QED
  BY <1>7, <1>8 DEF ConfigInv

LEMMA FetchCompletesKeeps ==
  ASSUME ConfigInv, FetchCompletes
  PROVE  ConfigInv'
<1> DEFINE t == [do |-> "activate"]
<1>1. t \in Tasks /\ ~IsOfFetch(t) /\ t.do # "read"
      /\ (queue' = Append(queue, t) \/ queue' = queue)
  BY DEF Tasks, IsOfFetch, FetchCompletes
<1>2. UNCHANGED <<content, settings, fetches>>
  BY DEF FetchCompletes
<1> HIDE DEF t
<1>3. DataInv /\ FetchInv
  BY DEF ConfigInv
<1>4. QueueOK(queue', fetches')
  BY <1>1, <1>2, <1>3, QueueAppend DEF FetchInv
<1>5. main # <<>> /\ main' = Tail(main) /\ main \in Seq([of : Nat, ok : BOOLEAN])
  BY <1>3 DEF FetchCompletes, FetchInv, MainInv
<1>6. /\ main' \in Seq([of : Nat, ok : BOOLEAN])
      /\ \A k \in 1..Len(main') : k + 1 \in 1..Len(main) /\ main'[k] = main[k + 1]
  BY <1>5
<1>7. MainInv'
  BY <1>2, <1>3, <1>6 DEF FetchInv, MainInv
<1>8. settings.made
  BY <1>3, <1>5 DEF FetchInv, IdleInv
<1>9. /\ ReadsBehindDefaults(queue', content.defaults)
      /\ DefaultsAreSet(queue', content.defaults)
  BY <1>1, <1>3, <1>8, InvTypes, NameAppend DEF FetchInv, NameInv
<1>10. NameInv' /\ IdleInv'
  BY <1>2, <1>8, <1>9 DEF NameInv, IdleInv
<1>11. DataInv'
  BY <1>3
     DEF FetchCompletes, DataInv, TemplatesInv, ClockInv, StorageInv, MemoryInv, historyVars
<1>12. FetchInv'
  BY <1>3, <1>4, <1>7, <1>10 DEF FetchCompletes, FetchInv, FetchesInv
<1> QED
  BY <1>11, <1>12 DEF ConfigInv

LEMMA AppBodyKeeps ==
  ASSUME ConfigInv, AppBody
  PROVE  ConfigInv'
<1> DEFINE n  == Len(fetches) + 1
           t1 == [do |-> "defaults"]
           t2 == [do |-> "fetch", of |-> n]
           t3 == [do |-> "read"]
           q0 == IF settings.made THEN queue ELSE <<[do |-> "settings"]>>
           q1 == Append(q0, t1)
           q2 == Append(q1, t2)
<1>1. DataInv /\ FetchInv
  BY DEF ConfigInv
<1>2. fetches \in Seq(Fetch(Len(templates))) /\ Len(templates) \in Nat
  BY InvTypes
<1>3. Asked \in Fetch(Len(templates)) /\ Asked.stage = "asked"
  BY <1>2 DEF Asked, Fetch, Stages
<1>4. /\ fetches' \in Seq(Fetch(Len(templates))) /\ Len(fetches') = n
      /\ fetches'[n] = Asked /\ n \in 1..Len(fetches')
      /\ \A j \in 1..Len(fetches) : fetches'[j] = fetches[j]
  BY <1>2, <1>3 DEF AppBody
<1>5. UNCHANGED <<templates, userDefaults, disk, db, main, content, name, clock, historyVars>>
  BY DEF AppBody
<1>6. /\ t1 \in Tasks /\ ~IsOfFetch(t1) /\ t1.do = "defaults"
      /\ t2 \in Tasks /\ t2.of = n /\ t2.do = "fetch"
      /\ t3 \in Tasks /\ ~IsOfFetch(t3) /\ t3.do = "read"
      /\ [do |-> "settings"] \in Tasks /\ ~IsOfFetch([do |-> "settings"])
  BY <1>2 DEF Tasks, IsOfFetch
<1>7. q0 \in Seq(Tasks) /\ ReadsBehindDefaults(q0, content.defaults)
  <2>1. CASE settings.made
    BY <1>1, <2>1, InvTypes DEF FetchInv, NameInv
  <2>2. CASE ~settings.made
    BY <1>6, <2>2 DEF ReadsBehindDefaults
  <2> QED
    BY <2>1, <2>2
<1>8. queue' = Append(q2, t3)
  <2>1. queue' = q0 \o <<t1, t2, t3>>
    BY <1>4 DEF AppBody, ViewModelTasks
  <2>2. q0 \o <<t1, t2, t3>> = Append(q2, t3)
    BY <1>6, <1>7
  <2> QED
    BY <2>1, <2>2
<1>9. QueueOK(q0, fetches') /\ NotQueued(n, q0)
  <2>1. CASE settings.made
    <3>1. QueueOK(queue, fetches) /\ NotQueued(n, queue)
      BY <1>1, <1>2 DEF FetchInv, QueueOK, TasksFit, NotQueued
    <3>2. 1..Len(fetches) \subseteq 1..Len(fetches')
      BY <1>2, <1>4
    <3> QED
      BY <1>4, <2>1, <3>1, <3>2, QueueMoved
  <2>2. CASE ~settings.made
    BY <1>6, <2>2 DEF QueueOK, TasksFit, OneTaskEach, NotQueued
  <2> QED
    BY <2>1, <2>2
<1> HIDE DEF q0, t1, t2, t3, n
<1>10. q1 \in Seq(Tasks) /\ q2 \in Seq(Tasks)
  BY <1>6, <1>7
<1>11. QueueOK(queue', fetches')
  <2>1. QueueOK(q1, fetches') /\ NotQueued(n, q1)
    BY <1>6, <1>7, <1>9, QueueAppend, NotQueuedAppend
  <2>2. Fits(t2, fetches'[n])
    BY <1>3, <1>4, <1>6 DEF Fits
  <2>3. QueueOK(q2, fetches')
    BY <1>4, <1>6, <2>1, <2>2, QueueAppend
  <2> QED
    BY <1>6, <1>8, <2>3, QueueAppend
<1>12. content.defaults \in BOOLEAN
  BY InvTypes
<1>13. /\ ReadsBehindDefaults(queue', content.defaults)
       /\ DefaultsAreSet(queue', content.defaults)
  <2>1. /\ ReadsBehindDefaults(q1, content.defaults)
        /\ DefaultsAreSet(q1, content.defaults)
    BY <1>6, <1>7, <1>12, NameAppend
  <2>2. /\ ReadsBehindDefaults(q2, content.defaults)
        /\ DefaultsAreSet(q2, content.defaults)
    BY <1>6, <1>10, <1>12, <2>1, NameAppend
  <2> QED
    BY <1>6, <1>8, <1>10, <1>12, <2>2, NameAppend
<1>14. /\ settings' \in Settings /\ settings'.made
       /\ settings'.isFetchInProgress = settings.isFetchInProgress
  <2>1. CASE settings.made
    BY <2>1, InvTypes DEF AppBody
  <2>2. CASE ~settings.made
    <3>1. disk.row \in Rows
      BY <1>1 DEF DataInv, StorageInv, DiskUpTo
    <3>2. settings' \in Settings /\ settings'.made /\ settings'.isFetchInProgress = FALSE
      BY <2>2, <3>1 DEF AppBody, NoSettings, Settings, Rows
    <3>3. \A i \in 1..Len(fetches) : ~InProgress(fetches[i])
      BY <1>1, <2>2 DEF FetchInv, IdleInv, InProgress
    <3>4. settings.isFetchInProgress = FALSE
      BY <1>1, <3>3, InvTypes DEF FetchInv, FlagOK, Settings
    <3> QED
      BY <3>2, <3>4
  <2> QED
    BY <2>1, <2>2
<1>15. FlagOK(fetches', settings'.isFetchInProgress)
  <2>1. \A j \in 1..Len(fetches') :
          InProgress(fetches'[j]) => j \in 1..Len(fetches) /\ InProgress(fetches[j])
    BY <1>2, <1>3, <1>4 DEF n, InProgress
  <2>2. 1..Len(fetches) \subseteq 1..Len(fetches')
    BY <1>2, <1>4 DEF n
  <2> QED
    BY <1>1, <1>4, <1>14, <2>1, <2>2 DEF FetchInv, FlagOK
<1>16. FetchesInv'
  <2>1. AnswersOK(fetches')
    BY <1>1, <1>2, <1>3, <1>4 DEF n, FetchInv, FetchesInv, AnswersOK
  <2> QED
    BY <1>4, <1>5, <2>1 DEF FetchesInv
<1>17. MainInv'
  BY <1>1, <1>2, <1>4, <1>5 DEF n, FetchInv, MainInv
<1>18. NameInv' /\ IdleInv'
  BY <1>5, <1>13, <1>14 DEF NameInv, IdleInv
<1>19. DataInv'
  BY <1>1, <1>5, <1>14
     DEF DataInv, TemplatesInv, ClockInv, StorageInv, MemoryInv, historyVars
<1> QED
  BY <1>11, <1>15, <1>16, <1>17, <1>18, <1>19 DEF ConfigInv, FetchInv

LEMMA RunSettingsKeeps ==
  ASSUME ConfigInv, RunSettings
  PROVE  ConfigInv'
<1>1. Runs("settings") /\ queue' = Tail(queue)
  BY DEF RunSettings
<1>2. DataInv /\ FetchInv
  BY DEF ConfigInv
<1>3. QueueOK(queue', fetches') /\ NameInv' /\ IdleInv'
  BY <1>1, HeadTask DEF RunSettings, NameInv, IdleInv
<1>4. db' \in Seq(WritesUpTo(Len(templates)))
  <2>1. ReplacesRow(settings) \in Seq(WritesUpTo(Len(templates)))
    BY InvTypes, ReplacesRowWrites
  <2> QED
    BY <1>2, <2>1 DEF RunSettings, DataInv, StorageInv
<1>5. DataInv'
  BY <1>2, <1>4
     DEF RunSettings, DataInv, TemplatesInv, ClockInv, StorageInv, MemoryInv, historyVars
<1> QED
  BY <1>2, <1>3, <1>5 DEF ConfigInv, FetchInv, RunSettings, FetchesInv, MainInv

LEMMA RunDefaultsKeeps ==
  ASSUME ConfigInv, RunDefaults
  PROVE  ConfigInv'
<1>1. Runs("defaults") /\ queue' = Tail(queue)
  BY DEF RunDefaults
<1>2. DataInv /\ FetchInv
  BY DEF ConfigInv
<1>3. /\ content' \in [loaded : BOOLEAN, fetched : 0..Len(templates),
                       active : 0..Len(templates), defaults : BOOLEAN]
      /\ content'.defaults
  BY <1>2 DEF DataInv, MemoryInv, RunDefaults
<1>4. QueueOK(queue', fetches') /\ NameInv' /\ IdleInv'
  BY <1>1, <1>3, HeadTask
     DEF RunDefaults, NameInv, IdleInv, ReadsBehindDefaults, DefaultsAreSet
<1>5. DataInv'
  BY <1>2, <1>3
     DEF RunDefaults, DataInv, TemplatesInv, ClockInv, StorageInv, MemoryInv, historyVars
<1> QED
  BY <1>2, <1>4, <1>5 DEF ConfigInv, FetchInv, RunDefaults, FetchesInv, MainInv

LEMMA RunReadKeeps ==
  ASSUME ConfigInv, RunRead
  PROVE  ConfigInv'
<1>1. Runs("read") /\ queue' = Tail(queue)
  BY DEF RunRead
<1>2. DataInv /\ FetchInv
  BY DEF ConfigInv
<1>3. QueueOK(queue', fetches') /\ NameInv' /\ IdleInv'
  BY <1>1, HeadTask DEF RunRead, NameInv, IdleInv
<1>4. name' \in Titles \cup {DefaultName}
  <2>1. content.defaults
    BY <1>1, HeadTask
  <2>2. content.active \in 0..Len(templates)
    BY <1>2 DEF DataInv, MemoryInv
  <2>3. Title(content.active) \in Titles \cup {NoTitle}
    <3>1. templates \in Seq(Titles \cup {NoTitle})
      BY <1>2 DEF DataInv, TemplatesInv
    <3> QED
      BY <2>2, <3>1 DEF Title
  <2>4. CASE Title(content.active) = NoTitle
    BY <2>1, <2>4 DEF RunRead, ConfigValue
  <2>5. CASE Title(content.active) # NoTitle
    BY <2>3, <2>5 DEF RunRead, ConfigValue
  <2> QED
    BY <2>4, <2>5
<1>5. DataInv'
  BY <1>2, <1>4
     DEF RunRead, DataInv, TemplatesInv, ClockInv, StorageInv, MemoryInv, historyVars
<1> QED
  BY <1>2, <1>3, <1>5 DEF ConfigInv, FetchInv, RunRead, FetchesInv, MainInv

LEMMA RunActivateKeeps ==
  ASSUME ConfigInv, RunActivate
  PROVE  ConfigInv'
<1>1. Runs("activate") /\ queue' = Tail(queue)
  BY DEF RunActivate
<1>2. DataInv /\ FetchInv
  BY DEF ConfigInv
<1>3. UNCHANGED <<templates, userDefaults, disk, main, fetches, name, historyVars>>
  BY DEF RunActivate
<1>4. /\ content' \in [loaded : BOOLEAN, fetched : 0..Len(templates),
                       active : 0..Len(templates), defaults : BOOLEAN]
      /\ content'.defaults = content.defaults
  BY <1>2 DEF DataInv, MemoryInv, RunActivate
<1>5. /\ settings' \in Settings /\ settings'.made = settings.made
      /\ settings'.isFetchInProgress = settings.isFetchInProgress
      /\ clock' \in Nat
  <2>1. clock \in Nat /\ settings \in Settings
    BY <1>2 DEF DataInv, MemoryInv, ClockInv
  <2>2. CASE UNCHANGED <<settings, clock>>
    BY <2>1, <2>2
  <2>3. CASE clock' = clock + 1 /\ settings' = [settings EXCEPT !.lastApplyTime = clock']
    BY <2>1, <2>3 DEF Settings
  <2> QED
    BY <2>2, <2>3 DEF RunActivate
<1>6. db' \in Seq(WritesUpTo(Len(templates)))
  <2>1. CASE UNCHANGED db
    BY <1>2, <2>1 DEF DataInv, StorageInv
  <2>2. CASE db' = db \o ActivationWrites(content.fetched, clock')
    <3>1. content.fetched \in 0..Len(templates)
      BY <1>2 DEF DataInv, MemoryInv
    <3>2. ActivationWrites(content.fetched, clock') \in Seq(WritesUpTo(Len(templates)))
      BY <1>5, <3>1, InvTypes, ReplacesWrites
    <3> QED
      BY <1>2, <2>2, <3>2 DEF DataInv, StorageInv
  <2> QED
    BY <2>1, <2>2 DEF RunActivate
<1>7. QueueOK(queue', fetches') /\ NameInv' /\ IdleInv'
  BY <1>1, <1>3, <1>4, <1>5, HeadTask DEF NameInv, IdleInv
<1>8. DataInv'
  BY <1>2, <1>3, <1>4, <1>5, <1>6
     DEF DataInv, TemplatesInv, ClockInv, StorageInv, MemoryInv, historyVars
<1> QED
  BY <1>2, <1>3, <1>5, <1>7, <1>8 DEF ConfigInv, FetchInv, FetchesInv, MainInv

-----------------------------------------------------------------------------
(* Steps of the queue for a fetch. *)

LEMMA RunFetchKeeps ==
  ASSUME ConfigInv, RunFetch
  PROVE  ConfigInv'
<1> DEFINE i == Head(queue).of
           t == [do |-> "begin", of |-> i, changed |-> ~settings.deviceContext]
<1>1. Runs("fetch") /\ queue' = Append(Tail(queue), t)
  BY DEF RunFetch
<1>2. DataInv /\ FetchInv
  BY DEF ConfigInv
<1>3. /\ QueueOK(Tail(queue), fetches) /\ settings.made
      /\ i \in 1..Len(fetches) /\ fetches[i].stage = "asked" /\ NotQueued(i, Tail(queue))
      /\ ReadsBehindDefaults(Tail(queue), content.defaults)
      /\ DefaultsAreSet(Tail(queue), content.defaults)
  BY <1>1, HeadTask DEF IsOfFetch, Fits
<1>4. t \in Tasks /\ t.of = i /\ t.do = "begin" /\ Fits(t, fetches[i])
  BY <1>3, InvTypes DEF Tasks, Settings, Fits
<1> HIDE DEF t, i
<1>5. QueueOK(queue', fetches')
  BY <1>1, <1>3, <1>4, QueueAppend DEF RunFetch
<1>6. /\ ReadsBehindDefaults(queue', content.defaults)
      /\ DefaultsAreSet(queue', content.defaults)
  BY <1>1, <1>3, <1>4, InvTypes, NameAppend DEF QueueOK
<1>7. NameInv' /\ IdleInv'
  BY <1>3, <1>6 DEF RunFetch, NameInv, IdleInv
<1>8. DataInv'
  BY <1>2
     DEF RunFetch, DataInv, TemplatesInv, ClockInv, StorageInv, MemoryInv, historyVars
<1> QED
  BY <1>2, <1>5, <1>7, <1>8 DEF ConfigInv, FetchInv, RunFetch, FetchesInv, MainInv

LEMMA RunBeginKeeps ==
  ASSUME ConfigInv, RunBegin
  PROVE  ConfigInv'
<1> DEFINE i == Head(queue).of
<1>1. /\ Runs("begin") /\ queue' = Tail(queue)
      /\ UNCHANGED <<templates, userDefaults, disk, db, content, name, clock, historyVars>>
  BY DEF RunBegin
<1>2. DataInv /\ FetchInv
  BY DEF ConfigInv
<1>3. /\ QueueOK(Tail(queue), fetches) /\ settings.made
      /\ Head(queue) \in Tasks /\ Head(queue).do = "begin"
      /\ i \in 1..Len(fetches) /\ fetches[i].stage = "asked" /\ NotQueued(i, Tail(queue))
      /\ ReadsBehindDefaults(Tail(queue), content.defaults)
      /\ DefaultsAreSet(Tail(queue), content.defaults)
  BY <1>1, HeadTask DEF IsOfFetch, Fits
<1>4. settings \in Settings /\ Len(fetches) \in Nat
  BY InvTypes
<1>5. PICK s \in {"ok", "failed", "token"} :
        /\ fetches' = Moved(i, s)
        /\ \/ /\ s # "token"
              /\ \E ok \in BOOLEAN : main' = Append(main, [of |-> i, ok |-> ok])
              /\ settings'.isFetchInProgress = settings.isFetchInProgress
           \/ /\ s = "token"
              /\ UNCHANGED main
              /\ ~settings.isFetchInProgress /\ settings'.isFetchInProgress
        /\ settings' \in Settings /\ settings'.made
  <2> DEFINE changed == Head(queue).changed
  <2>1. CASE /\ Refused(changed)
             /\ Reported(i, AnsweredLocally(changed))
             /\ UNCHANGED settings
    <3>1. AnsweredLocally(changed) \in BOOLEAN
      BY DEF AnsweredLocally
    <3> QED
      BY <1>3, <1>4, <2>1, <3>1, Zenon DEF Reported
  <2>2. CASE /\ ~Refused(changed)
             /\ settings' = [settings EXCEPT !.lastFetchStatus = "failure"]
             /\ Reported(i, FALSE)
    <3>1. /\ settings' \in Settings /\ settings'.made = settings.made
          /\ settings'.isFetchInProgress = settings.isFetchInProgress
      BY <1>4, <2>2 DEF Settings
    <3> QED
      BY <1>3, <2>2, <3>1 DEF Reported
  <2>3. CASE /\ ~Refused(changed)
             /\ settings' = [settings EXCEPT !.isFetchInProgress = TRUE,
                                             !.backoff = @ /\ ~MayThrottle(changed)]
             /\ fetches' = Moved(i, "token")
             /\ UNCHANGED main
    <3>1. ~settings.isFetchInProgress
      BY <2>3 DEF Refused
    <3>2. (settings.backoff /\ ~MayThrottle(changed)) \in BOOLEAN
      OBVIOUS
    <3>3. settings' \in Settings /\ settings'.made = settings.made
          /\ settings'.isFetchInProgress
      BY <1>4, <2>3, <3>2 DEF Settings
    <3> QED
      BY <1>3, <2>3, <3>1, <3>3
  <2> QED
    BY <2>1, <2>2, <2>3 DEF RunBegin
<1> HIDE DEF i
<1>6. /\ FetchesInv' /\ Len(fetches') = Len(fetches)
      /\ fetches'[i].stage = s
      /\ \A j \in 1..Len(fetches) : j # i => fetches'[j] = fetches[j]
      /\ QueueOK(queue', fetches')
  <2>1. s \in Stages /\ s \notin {"answered", "arrived"}
    BY <1>5 DEF Stages
  <2> QED
    BY <1>1, <1>3, <1>5, <2>1, FetchSteps
<1>7. MainInv'
  BY <1>2, <1>3, <1>4, <1>5, <1>6, MainReported, MainKept DEF FetchInv
<1>8. FlagOK(fetches', settings'.isFetchInProgress)
  <2>0. ~InProgress(fetches[i]) /\ (InProgress(fetches'[i]) <=> s = "token")
    BY <1>3, <1>5, <1>6 DEF InProgress
  <2>1. CASE s # "token"
    <3>1. settings'.isFetchInProgress = settings.isFetchInProgress
      BY <1>5, <2>1
    <3>2. FlagOK(fetches, settings.isFetchInProgress)
      BY <1>2 DEF FetchInv
    <3>3. FlagOK(fetches', settings.isFetchInProgress)
      BY <1>6, <2>0, <2>1, <3>2, FlagStays
    <3> QED
      BY <3>1, <3>3
  <2>2. CASE s = "token"
    <3>1. settings.isFetchInProgress = FALSE /\ settings'.isFetchInProgress = TRUE
      BY <1>4, <1>5, <2>2 DEF Settings
    <3> QED
      BY <1>2, <1>3, <1>6, <2>0, <2>2, <3>1, FlagRises DEF FetchInv
  <2> QED
    BY <2>1, <2>2
<1>9. NameInv' /\ IdleInv'
  BY <1>1, <1>3, <1>5 DEF NameInv, IdleInv
<1>10. DataInv'
  BY <1>1, <1>2, <1>5
     DEF DataInv, TemplatesInv, ClockInv, StorageInv, MemoryInv, historyVars
<1> QED
  BY <1>6, <1>7, <1>8, <1>9, <1>10 DEF ConfigInv, FetchInv

LEMMA RunRequestKeeps ==
  ASSUME ConfigInv, RunRequest
  PROVE  ConfigInv'
<1> DEFINE i == Head(queue).of
           h == [fetches[i] EXCEPT !.stage = "sent", !.sent = userDefaults.tag]
<1>1. /\ Runs("request") /\ queue' = Tail(queue)
      /\ UNCHANGED <<templates, userDefaults, disk, db, main, content, settings, name,
                     clock, historyVars>>
  BY DEF RunRequest
<1>2. DataInv /\ FetchInv
  BY DEF ConfigInv
<1>3. /\ QueueOK(Tail(queue), fetches) /\ settings.made
      /\ i \in 1..Len(fetches) /\ fetches[i].stage = "request" /\ NotQueued(i, Tail(queue))
      /\ ReadsBehindDefaults(Tail(queue), content.defaults)
      /\ DefaultsAreSet(Tail(queue), content.defaults)
  BY <1>1, HeadTask DEF IsOfFetch, Fits
<1>4. /\ fetches \in Seq(Fetch(Len(templates))) /\ fetches[i] \in Fetch(Len(templates))
      /\ Len(templates) \in Nat
  BY <1>3, InvTypes
<1>5. h \in Fetch(Len(templates)) /\ h.stage = "sent"
  <2>1. userDefaults.tag \in 0..Len(templates)
    BY <1>2 DEF DataInv, StorageInv
  <2> QED
    BY <1>4, <2>1 DEF Fetch, Stages
<1>6. fetches' = [fetches EXCEPT ![i] = h]
  <2>1. fetches' = [fetches EXCEPT ![i].stage = "sent", ![i].sent = userDefaults.tag]
    BY DEF RunRequest
  <2> QED
    BY <1>3, <1>4, <2>1
<1> HIDE DEF h, i
<1>7. /\ fetches' \in Seq(Fetch(Len(templates)))
      /\ Len(fetches') = Len(fetches)
      /\ fetches'[i] = h
      /\ \A j \in 1..Len(fetches) : j # i => fetches'[j] = fetches[j]
  BY <1>3, <1>4, <1>5, <1>6, FetchChanged
<1>8. FetchesInv'
  BY <1>1, <1>2, <1>5, <1>7 DEF FetchInv, FetchesInv, AnswersOK
<1>9. QueueOK(queue', fetches')
  BY <1>1, <1>3, <1>7, QueueMoved
<1>10. FlagOK(fetches', settings.isFetchInProgress)
  <2>1. InProgress(fetches[i]) /\ InProgress(fetches'[i])
    BY <1>3, <1>5, <1>7 DEF InProgress
  <2> QED
    BY <1>2, <1>7, <2>1, FlagStays DEF FetchInv
<1>11. NameInv' /\ IdleInv'
  BY <1>1, <1>3 DEF NameInv, IdleInv
<1>12. MainInv'
  BY <1>1, <1>2, <1>7, MainKept DEF FetchInv
<1>13. DataInv'
  BY <1>1, <1>2 DEF DataInv, TemplatesInv, ClockInv, StorageInv, MemoryInv, historyVars
<1> QED
  BY <1>1, <1>8, <1>9, <1>10, <1>11, <1>12, <1>13 DEF ConfigInv, FetchInv

\* The tag's task takes the place of the answer's.
LEMMA RunAnswerKeeps ==
  ASSUME ConfigInv, RunAnswer
  PROVE  ConfigInv'
<1> DEFINE i == Head(queue).of
           t == [do |-> "tag", of |-> i]
<1>1. /\ Runs("answer") /\ queue' = <<t>> \o Tail(queue)
      /\ UNCHANGED <<templates, userDefaults, disk, main, settings, fetches, name, clock,
                     historyVars>>
  BY DEF RunAnswer
<1>2. DataInv /\ FetchInv
  BY DEF ConfigInv
<1>3. /\ QueueOK(Tail(queue), fetches) /\ settings.made
      /\ i \in 1..Len(fetches) /\ NotQueued(i, Tail(queue))
      /\ fetches[i].stage = "queued" /\ fetches[i].got # 0
      /\ ReadsBehindDefaults(Tail(queue), content.defaults)
      /\ DefaultsAreSet(Tail(queue), content.defaults)
  BY <1>1, HeadTask DEF IsOfFetch, Fits
<1>4. /\ t \in Tasks /\ t.of = i /\ t.do = "tag" /\ Fits(t, fetches[i])
  BY <1>3, InvTypes DEF Tasks, Fits
<1>5. fetches[i].got \in 0..Len(templates) /\ Len(templates) \in Nat
  <2>1. fetches[i] \in Fetch(Len(templates)) /\ Len(templates) \in Nat
    BY <1>3, InvTypes
  <2> QED
    BY <2>1 DEF Fetch
<1>6. /\ content' \in [loaded : BOOLEAN, fetched : 0..Len(templates),
                       active : 0..Len(templates), defaults : BOOLEAN]
      /\ content'.defaults = content.defaults
  <2>1. \/ content' = [content EXCEPT !.fetched = fetches[i].got]
        \/ content' = content
    BY DEF RunAnswer
  <2> QED
    BY <1>2, <1>5, <2>1 DEF DataInv, MemoryInv
<1>7. db' \in Seq(WritesUpTo(Len(templates)))
  <2>1. db' = db \o Replaces("fetched", fetches[i].got) \/ db' = db
    BY DEF RunAnswer
  <2>2. Replaces("fetched", fetches[i].got) \in Seq(WritesUpTo(Len(templates)))
    <3>1. 0 \in Nat
      OBVIOUS
    <3> QED
      BY <1>5, <3>1, ReplacesWrites
  <2>3. db \in Seq(WritesUpTo(Len(templates)))
    BY <1>2 DEF DataInv, StorageInv
  <2>4. CASE db' = db
    BY <2>3, <2>4
  <2>5. CASE db' = db \o Replaces("fetched", fetches[i].got)
    BY <2>2, <2>3, <2>5
  <2> QED
    BY <2>1, <2>4, <2>5
<1> HIDE DEF t, i
<1>8. QueueOK(queue', fetches')
  BY <1>1, <1>3, <1>4, QueuePrepend
<1>9. NameInv' /\ IdleInv'
  <2>1. /\ ReadsBehindDefaults(queue', content.defaults)
        /\ DefaultsAreSet(queue', content.defaults)
    BY <1>1, <1>3, <1>4, InvTypes, NamePrepend DEF QueueOK
  <2> QED
    BY <1>1, <1>3, <1>6, <2>1 DEF NameInv, IdleInv
<1>10. DataInv'
  BY <1>1, <1>2, <1>6, <1>7
     DEF DataInv, TemplatesInv, ClockInv, StorageInv, MemoryInv, historyVars
<1> QED
  BY <1>1, <1>2, <1>8, <1>9, <1>10 DEF ConfigInv, FetchInv, FetchesInv, MainInv

\* What the ends of a fetch on the queue have in common.
LEMMA FetchEnds ==
  ASSUME ConfigInv, NEW do \in {"tag", "failure"}, Runs(do), queue' = Tail(queue),
         NEW ok \in BOOLEAN, Reported(Head(queue).of, ok),
         UNCHANGED <<templates, content>>,
         settings'.isFetchInProgress = settings.isFetchInProgress,
         settings'.made = settings.made
  PROVE  FetchInv'
<1> DEFINE i == Head(queue).of
           s == IF ok THEN "ok" ELSE "failed"
<1>1. FetchInv /\ Len(fetches) \in Nat
  BY InvTypes DEF ConfigInv
<1>2. /\ QueueOK(Tail(queue), fetches) /\ settings.made
      /\ i \in 1..Len(fetches) /\ NotQueued(i, Tail(queue))
      /\ fetches[i].stage = "queued"
      /\ ReadsBehindDefaults(Tail(queue), content.defaults)
      /\ DefaultsAreSet(Tail(queue), content.defaults)
  BY HeadTask DEF IsOfFetch, Fits
<1>3. fetches' = Moved(i, s) /\ main' = Append(main, [of |-> i, ok |-> ok])
  BY DEF Reported
<1>4. s \in Stages /\ s \notin {"answered", "arrived"} /\ s \in {"ok", "failed"}
  BY DEF Stages
<1> HIDE DEF i, s
<1>5. /\ FetchesInv' /\ Len(fetches') = Len(fetches)
      /\ fetches'[i].stage = s
      /\ \A j \in 1..Len(fetches) : j # i => fetches'[j] = fetches[j]
      /\ QueueOK(queue', fetches')
  BY <1>2, <1>3, <1>4, FetchSteps
<1>6. MainInv'
  BY <1>1, <1>2, <1>3, <1>5, MainReported DEF FetchInv
<1>7. FlagOK(fetches', settings'.isFetchInProgress)
  <2>1. ~InProgress(fetches[i]) /\ ~InProgress(fetches'[i])
    BY <1>2, <1>4, <1>5 DEF InProgress
  <2>2. FlagOK(fetches', settings.isFetchInProgress)
    BY <1>1, <1>5, <2>1, FlagStays DEF FetchInv
  <2> QED
    BY <2>2
<1>8. NameInv' /\ IdleInv'
  BY <1>2 DEF NameInv, IdleInv
<1> QED
  BY <1>5, <1>6, <1>7, <1>8 DEF FetchInv

LEMMA RunTagKeeps ==
  ASSUME ConfigInv, RunTag
  PROVE  ConfigInv'
<1> DEFINE i == Head(queue).of
<1>1. /\ Runs("tag") /\ queue' = Tail(queue) /\ Reported(i, TRUE)
      /\ UNCHANGED <<templates, disk, content, name, incidents, setBack>>
      /\ clock' = clock + 1
      /\ userDefaults' = [tag |-> IF NewTag(fetches[i].got) THEN fetches[i].got
                                                            ELSE userDefaults.tag,
                          tagTime |-> IF NewTag(fetches[i].got) THEN clock'
                                                                ELSE userDefaults.tagTime,
                          fetchTime |-> clock']
      /\ settings' = [settings EXCEPT !.lastFetchStatus = "success",
                                      !.deviceContext = TRUE]
      /\ db' = db \o ReplacesRow(settings')
      /\ torn' = (torn /\ fetches[i].got = fetches[i].sent)
  BY DEF RunTag
<1>2. DataInv /\ FetchInv
  BY DEF ConfigInv
<1>3. i \in 1..Len(fetches) /\ fetches[i].got # 0
  BY <1>1, HeadTask DEF IsOfFetch, Fits
<1>4. fetches[i].got \in 0..Len(templates) /\ clock \in Nat /\ Len(templates) \in Nat
  <2>1. fetches[i] \in Fetch(Len(templates)) /\ Len(templates) \in Nat
    BY <1>3, InvTypes
  <2> QED
    BY <1>2, <2>1 DEF Fetch, DataInv, ClockInv
<1>5. /\ settings' \in Settings /\ settings'.made = settings.made
      /\ settings'.isFetchInProgress = settings.isFetchInProgress
  BY <1>1, InvTypes DEF Settings
<1> HIDE DEF i
<1>6. /\ userDefaults' \in [tag : 0..Len(templates), tagTime : Nat, fetchTime : Nat]
      /\ (userDefaults'.tag = 0) <=> (userDefaults'.tagTime = 0)
  <2>1. /\ userDefaults \in [tag : 0..Len(templates), tagTime : Nat, fetchTime : Nat]
        /\ (userDefaults.tag = 0) <=> (userDefaults.tagTime = 0)
    BY <1>2 DEF DataInv, StorageInv
  <2>2. clock' \in Nat /\ clock' # 0
    BY <1>1, <1>4
  <2>3. CASE NewTag(fetches[i].got)
    BY <1>1, <1>3, <1>4, <2>2, <2>3
  <2>4. CASE ~NewTag(fetches[i].got)
    BY <1>1, <2>1, <2>2, <2>4
  <2> QED
    BY <2>3, <2>4
<1>7. db' \in Seq(WritesUpTo(Len(templates)))
  <2>1. ReplacesRow(settings') \in Seq(WritesUpTo(Len(templates)))
    BY <1>4, <1>5, ReplacesRowWrites
  <2> QED
    BY <1>1, <1>2, <2>1 DEF DataInv, StorageInv
<1>8. ClockInv'
  BY <1>1, <1>2, <1>4 DEF DataInv, ClockInv
<1>9. DataInv'
  BY <1>1, <1>2, <1>5, <1>6, <1>7, <1>8
     DEF DataInv, TemplatesInv, StorageInv, MemoryInv
<1>10. FetchInv'
  <2>1. UNCHANGED <<templates, content>>
    BY <1>1
  <2> QED
    BY <1>1, <1>5, <2>1, FetchEnds DEF i
<1> QED
  BY <1>9, <1>10 DEF ConfigInv

LEMMA RunFailureKeeps ==
  ASSUME ConfigInv, RunFailure
  PROVE  ConfigInv'
<1>1. /\ Runs("failure") /\ queue' = Tail(queue) /\ Reported(Head(queue).of, FALSE)
      /\ UNCHANGED <<templates, userDefaults, disk, content, name, clock, historyVars>>
      /\ settings' = [settings EXCEPT !.lastFetchStatus = "failure", !.backoff = TRUE]
      /\ db' = db \o ReplacesRow(settings')
  BY DEF RunFailure
<1>2. DataInv
  BY DEF ConfigInv
<1>3. /\ settings' \in Settings /\ settings'.made = settings.made
      /\ settings'.isFetchInProgress = settings.isFetchInProgress
  BY <1>1, InvTypes DEF Settings
<1>4. db' \in Seq(WritesUpTo(Len(templates)))
  <2>1. ReplacesRow(settings') \in Seq(WritesUpTo(Len(templates)))
    BY <1>3, InvTypes, ReplacesRowWrites
  <2> QED
    BY <1>1, <1>2, <2>1 DEF DataInv, StorageInv
<1>5. DataInv'
  BY <1>1, <1>2, <1>3, <1>4
     DEF DataInv, TemplatesInv, ClockInv, StorageInv, MemoryInv, historyVars
<1>6. FetchInv'
  <2>1. UNCHANGED <<templates, content>>
    BY <1>1
  <2> QED
    BY <1>1, <1>3, <2>1, FetchEnds
<1> QED
  BY <1>5, <1>6 DEF ConfigInv

-----------------------------------------------------------------------------
(* Steps of a fetch that run elsewhere. *)

\* What they leave alone.
Elsewhere == UNCHANGED <<templates, userDefaults, disk, db, content, name, clock, historyVars>>

LEMMA ElsewhereData ==
  ASSUME ConfigInv, Elsewhere, settings' \in Settings
  PROVE  DataInv'
BY DEF ConfigInv, Elsewhere, DataInv, TemplatesInv, ClockInv, StorageInv, MemoryInv,
       historyVars

LEMMA MadeUnless ==
  ASSUME ConfigInv, NEW i \in 1..Len(fetches), fetches[i].stage # "gone"
  PROVE  settings.made
BY DEF ConfigInv, FetchInv, IdleInv

\* A step that keeps the queue.
LEMMA QueueKept ==
  ASSUME ConfigInv, Elsewhere, settings.made, settings'.made, UNCHANGED queue
  PROVE  NameInv' /\ IdleInv'
BY DEF ConfigInv, FetchInv, Elsewhere, NameInv, IdleInv

\* A step that queues the next task of its fetch.
LEMMA QueueGrows ==
  ASSUME ConfigInv, Elsewhere, settings.made, settings'.made,
         NEW t \in Tasks, t.do # "read", queue' = Append(queue, t)
  PROVE  NameInv' /\ IdleInv'
<1>1. /\ ReadsBehindDefaults(queue', content.defaults)
      /\ DefaultsAreSet(queue', content.defaults)
  BY InvTypes, NameAppend DEF ConfigInv, FetchInv, NameInv
<1> QED
  BY <1>1 DEF Elsewhere, NameInv, IdleInv

LEMMA TokenArrivesKeeps ==
  ASSUME ConfigInv, NEW i \in 1..Len(fetches), TokenArrives(i)
  PROVE  ConfigInv'
<1> DEFINE t == [do |-> "request", of |-> i]
<1>1. /\ fetches[i].stage = "token" /\ fetches' = Moved(i, "request")
      /\ queue' = Append(queue, t) /\ UNCHANGED <<main, settings>> /\ Elsewhere
      /\ templates' = templates
  BY DEF TokenArrives, Elsewhere
<1>2. /\ FetchInv /\ Len(fetches) \in Nat /\ settings \in Settings /\ settings.made
  BY <1>1, InvTypes, MadeUnless DEF ConfigInv
<1>3. t \in Tasks /\ t.of = i /\ t.do = "request"
  BY <1>2 DEF Tasks
<1> HIDE DEF t
<1>4. NotQueued(i, queue) /\ QueueOK(queue, fetches)
  BY <1>1, <1>2, NotQueuedUnless DEF FetchInv
<1>5. /\ FetchesInv' /\ Len(fetches') = Len(fetches)
      /\ fetches'[i].stage = "request"
      /\ \A j \in 1..Len(fetches) : j # i => fetches'[j] = fetches[j]
      /\ QueueOK(queue, fetches')
  <2>1. "request" \in Stages
    BY DEF Stages
  <2> QED
    BY <1>1, <1>4, <2>1, FetchSteps
<1>6. QueueOK(queue', fetches')
  <2>1. Fits(t, fetches'[i])
    BY <1>3, <1>5 DEF Fits
  <2> QED
    BY <1>1, <1>3, <1>4, <1>5, <2>1, QueueAppend
<1>7. FlagOK(fetches', settings.isFetchInProgress)
  <2>1. InProgress(fetches[i]) /\ InProgress(fetches'[i])
    BY <1>1, <1>5 DEF InProgress
  <2> QED
    BY <1>2, <1>5, <2>1, FlagStays DEF FetchInv
<1>8. NameInv' /\ IdleInv'
  BY <1>1, <1>2, <1>3, QueueGrows
<1>9. MainInv' /\ DataInv'
  BY <1>1, <1>2, <1>5, MainKept, ElsewhereData DEF FetchInv
<1> QED
  BY <1>1, <1>5, <1>6, <1>7, <1>8, <1>9 DEF ConfigInv, FetchInv

LEMMA TokenFailsKeeps ==
  ASSUME ConfigInv, NEW i \in 1..Len(fetches), TokenFails(i)
  PROVE  ConfigInv'
<1>1. /\ fetches[i].stage = "token" /\ fetches' = Moved(i, "failed")
      /\ main' = Append(main, [of |-> i, ok |-> FALSE])
      /\ UNCHANGED queue /\ Elsewhere /\ templates' = templates
      /\ settings' = [settings EXCEPT !.isFetchInProgress = FALSE]
  BY DEF TokenFails, Reported, Elsewhere
<1>2. /\ FetchInv /\ Len(fetches) \in Nat /\ settings.made
      /\ settings' \in Settings /\ settings'.made /\ settings'.isFetchInProgress = FALSE
  <2>1. settings.made
    BY <1>1, MadeUnless
  <2> QED
    BY <1>1, <2>1, InvTypes DEF ConfigInv, Settings
<1>3. NotQueued(i, queue) /\ QueueOK(queue, fetches)
  BY <1>1, <1>2, NotQueuedUnless DEF FetchInv
<1>4. /\ FetchesInv' /\ Len(fetches') = Len(fetches)
      /\ fetches'[i].stage = "failed"
      /\ \A j \in 1..Len(fetches) : j # i => fetches'[j] = fetches[j]
      /\ QueueOK(queue, fetches')
  <2>1. "failed" \in Stages
    BY DEF Stages
  <2> QED
    BY <1>1, <1>3, <2>1, FetchSteps
<1>5. FlagOK(fetches', FALSE)
  <2>1. InProgress(fetches[i]) /\ ~InProgress(fetches'[i])
    BY <1>1, <1>4 DEF InProgress
  <2> QED
    BY <1>2, <1>4, <2>1, FlagFalls DEF FetchInv
<1>6. NameInv' /\ IdleInv'
  BY <1>1, <1>2, QueueKept
<1>7. MainInv'
  BY <1>1, <1>2, <1>4, MainReported DEF FetchInv
<1>8. DataInv'
  BY <1>1, <1>2, ElsewhereData
<1> QED
  BY <1>1, <1>2, <1>4, <1>5, <1>6, <1>7, <1>8 DEF ConfigInv, FetchInv

LEMMA ServerAnswersKeeps ==
  ASSUME ConfigInv, NEW i \in 1..Len(fetches), ServerAnswers(i)
  PROVE  ConfigInv'
<1> DEFINE h == [fetches[i] EXCEPT !.stage = "answered", !.got = Len(templates)]
<1>1. /\ fetches[i].stage = "sent" /\ UNCHANGED <<queue, main, settings>> /\ Elsewhere
      /\ templates' = templates
  BY DEF ServerAnswers, Elsewhere
<1>2. /\ FetchInv /\ Len(fetches) \in Nat /\ settings \in Settings /\ settings.made
      /\ Len(templates) \in Nat /\ Len(templates) >= 1
      /\ fetches \in Seq(Fetch(Len(templates))) /\ fetches[i] \in Fetch(Len(templates))
  BY <1>1, InvTypes, MadeUnless DEF ConfigInv
<1>3. h \in Fetch(Len(templates)) /\ h.stage = "answered" /\ h.got # 0
  <2>1. "answered" \in Stages /\ Len(templates) \in 0..Len(templates)
    BY <1>2 DEF Stages
  <2>2. fetches[i] \in [stage : Stages, sent : 0..Len(templates), got : 0..Len(templates)]
    BY <1>2 DEF Fetch
  <2>3. Len(templates) # 0
    BY <1>2
  <2> QED
    BY <2>1, <2>2, <2>3 DEF Fetch
<1>4. fetches' = [fetches EXCEPT ![i] = h]
  <2>1. fetches' = [fetches EXCEPT ![i].stage = "answered", ![i].got = Len(templates)]
    BY DEF ServerAnswers
  <2> QED
    BY <1>2, <2>1
<1> HIDE DEF h
<1>5. /\ fetches' \in Seq(Fetch(Len(templates)))
      /\ Len(fetches') = Len(fetches)
      /\ fetches'[i] = h
      /\ \A j \in 1..Len(fetches) : j # i => fetches'[j] = fetches[j]
  BY <1>2, <1>3, <1>4, FetchChanged
<1>6. FetchesInv'
  BY <1>1, <1>2, <1>3, <1>5 DEF FetchInv, FetchesInv, AnswersOK
<1>7. QueueOK(queue', fetches')
  <2>1. NotQueued(i, queue) /\ QueueOK(queue, fetches)
    BY <1>1, <1>2, NotQueuedUnless DEF FetchInv
  <2> QED
    BY <1>1, <1>5, <2>1, QueueMoved
<1>8. FlagOK(fetches', settings.isFetchInProgress)
  <2>1. InProgress(fetches[i]) /\ InProgress(fetches'[i])
    BY <1>1, <1>3, <1>5 DEF InProgress
  <2> QED
    BY <1>2, <1>5, <2>1, FlagStays DEF FetchInv
<1>9. NameInv' /\ IdleInv'
  BY <1>1, <1>2, QueueKept
<1>10. MainInv' /\ DataInv'
  BY <1>1, <1>2, <1>5, MainKept, ElsewhereData DEF FetchInv
<1> QED
  BY <1>1, <1>6, <1>7, <1>8, <1>9, <1>10 DEF ConfigInv, FetchInv

LEMMA RequestFailsKeeps ==
  ASSUME ConfigInv, NEW i \in 1..Len(fetches), RequestFails(i)
  PROVE  ConfigInv'
<1>1. /\ fetches[i].stage = "sent" /\ fetches' = Moved(i, "refused")
      /\ UNCHANGED <<queue, main, settings>> /\ Elsewhere /\ templates' = templates
  BY DEF RequestFails, Elsewhere
<1>2. FetchInv /\ settings \in Settings /\ settings.made
  BY <1>1, InvTypes, MadeUnless DEF ConfigInv
<1>3. NotQueued(i, queue) /\ QueueOK(queue, fetches)
  BY <1>1, <1>2, NotQueuedUnless DEF FetchInv
<1>4. /\ FetchesInv' /\ Len(fetches') = Len(fetches)
      /\ fetches'[i].stage = "refused"
      /\ \A j \in 1..Len(fetches) : j # i => fetches'[j] = fetches[j]
      /\ QueueOK(queue, fetches')
  <2>1. "refused" \in Stages
    BY DEF Stages
  <2> QED
    BY <1>1, <1>3, <2>1, FetchSteps
<1>5. FlagOK(fetches', settings.isFetchInProgress)
  <2>1. InProgress(fetches[i]) /\ InProgress(fetches'[i])
    BY <1>1, <1>4 DEF InProgress
  <2> QED
    BY <1>2, <1>4, <2>1, FlagStays DEF FetchInv
<1>6. NameInv' /\ IdleInv'
  BY <1>1, <1>2, QueueKept
<1>7. MainInv' /\ DataInv'
  BY <1>1, <1>2, <1>4, MainKept, ElsewhereData DEF FetchInv
<1> QED
  BY <1>1, <1>4, <1>5, <1>6, <1>7 DEF ConfigInv, FetchInv

LEMMA AnswerArrivesKeeps ==
  ASSUME ConfigInv, NEW i \in 1..Len(fetches), AnswerArrives(i)
  PROVE  ConfigInv'
<1> DEFINE s == IF fetches[i].stage = "answered" THEN "arrived" ELSE "arrivedRefused"
<1>1. /\ fetches[i].stage \in {"answered", "refused"} /\ fetches' = Moved(i, s)
      /\ UNCHANGED <<queue, main>> /\ Elsewhere /\ templates' = templates
      /\ settings' = [settings EXCEPT !.isFetchInProgress = FALSE]
  BY DEF AnswerArrives, Elsewhere
<1>2. /\ FetchInv /\ settings.made
      /\ settings' \in Settings /\ settings'.made /\ settings'.isFetchInProgress = FALSE
  <2>1. settings.made
    BY <1>1, MadeUnless
  <2> QED
    BY <1>1, <2>1, InvTypes DEF ConfigInv, Settings
<1>3. NotQueued(i, queue) /\ QueueOK(queue, fetches)
  BY <1>1, <1>2, NotQueuedUnless DEF FetchInv
<1>4. /\ s \in Stages /\ s \in {"arrived", "arrivedRefused"}
      /\ s \in {"answered", "arrived"} => fetches[i].got # 0
  BY <1>1, <1>2 DEF Stages, FetchInv, FetchesInv, AnswersOK
<1> HIDE DEF s
<1>5. /\ FetchesInv' /\ Len(fetches') = Len(fetches)
      /\ fetches'[i].stage = s
      /\ \A j \in 1..Len(fetches) : j # i => fetches'[j] = fetches[j]
      /\ QueueOK(queue, fetches')
  BY <1>1, <1>3, <1>4, FetchSteps
<1>6. FlagOK(fetches', FALSE)
  <2>1. InProgress(fetches[i]) /\ ~InProgress(fetches'[i])
    BY <1>1, <1>4, <1>5 DEF InProgress
  <2> QED
    BY <1>2, <1>5, <2>1, FlagFalls DEF FetchInv
<1>7. NameInv' /\ IdleInv'
  BY <1>1, <1>2, QueueKept
<1>8. MainInv' /\ DataInv'
  BY <1>1, <1>2, <1>5, MainKept, ElsewhereData DEF FetchInv
<1> QED
  BY <1>1, <1>2, <1>5, <1>6, <1>7, <1>8 DEF ConfigInv, FetchInv

LEMMA AnswerIsQueuedKeeps ==
  ASSUME ConfigInv, NEW i \in 1..Len(fetches), AnswerIsQueued(i)
  PROVE  ConfigInv'
<1> DEFINE do == IF fetches[i].stage = "arrived" THEN "answer" ELSE "failure"
           t  == [do |-> do, of |-> i]
<1>1. /\ fetches[i].stage \in {"arrived", "arrivedRefused"} /\ fetches' = Moved(i, "queued")
      /\ queue' = Append(queue, t) /\ UNCHANGED <<main, settings>> /\ Elsewhere
      /\ templates' = templates
  BY DEF AnswerIsQueued, Elsewhere
<1>2. /\ FetchInv /\ Len(fetches) \in Nat /\ settings \in Settings /\ settings.made
  BY <1>1, InvTypes, MadeUnless DEF ConfigInv
<1>3. /\ do \in {"answer", "failure"}
      /\ do = "answer" => fetches[i].got # 0
  BY <1>1, <1>2 DEF FetchInv, FetchesInv, AnswersOK
<1> HIDE DEF do
<1>4. t \in Tasks /\ t.of = i /\ t.do = do
  BY <1>2, <1>3 DEF Tasks
<1> HIDE DEF t
<1>5. NotQueued(i, queue) /\ QueueOK(queue, fetches)
  BY <1>1, <1>2, NotQueuedUnless DEF FetchInv
<1>6. /\ FetchesInv' /\ Len(fetches') = Len(fetches)
      /\ fetches'[i].stage = "queued" /\ fetches'[i].got = fetches[i].got
      /\ \A j \in 1..Len(fetches) : j # i => fetches'[j] = fetches[j]
      /\ QueueOK(queue, fetches')
  <2>1. "queued" \in Stages
    BY DEF Stages
  <2> QED
    BY <1>1, <1>5, <2>1, FetchSteps
<1>7. QueueOK(queue', fetches')
  <2>1. Fits(t, fetches'[i])
    BY <1>3, <1>4, <1>6 DEF Fits
  <2> QED
    BY <1>1, <1>4, <1>5, <1>6, <2>1, QueueAppend
<1>8. FlagOK(fetches', settings.isFetchInProgress)
  <2>1. ~InProgress(fetches[i]) /\ ~InProgress(fetches'[i])
    BY <1>1, <1>6 DEF InProgress
  <2> QED
    BY <1>2, <1>6, <2>1, FlagStays DEF FetchInv
<1>9. NameInv' /\ IdleInv'
  BY <1>1, <1>2, <1>3, <1>4, QueueGrows
<1>10. MainInv' /\ DataInv'
  BY <1>1, <1>2, <1>6, MainKept, ElsewhereData DEF FetchInv
<1> QED
  BY <1>1, <1>6, <1>7, <1>8, <1>9, <1>10 DEF ConfigInv, FetchInv

-----------------------------------------------------------------------------
(* The world. *)

LEMMA PublishKeeps ==
  ASSUME ConfigInv, NEW t \in Titles \cup {NoTitle}, Publish(t)
  PROVE  ConfigInv'
<1>1. /\ templates' = Append(templates, t)
      /\ UNCHANGED <<userDefaults, disk, memoryVars, clock, historyVars>>
  BY DEF Publish
<1>2. DataInv /\ FetchInv
  BY DEF ConfigInv
<1>3. /\ TemplatesInv' /\ Len(templates) \in Nat /\ Len(templates') \in Nat
      /\ Len(templates) <= Len(templates')
  BY <1>1, <1>2 DEF DataInv, TemplatesInv
<1>4. 0..Len(templates) \subseteq 0..Len(templates')
  BY <1>3
<1>5. StorageInv'
  <2>1. /\ disk' \in DiskUpTo(Len(templates'))
        /\ db' \in Seq(WritesUpTo(Len(templates')))
    BY <1>1, <1>2, <1>3, Monotonic DEF DataInv, StorageInv, memoryVars
  <2>2. /\ userDefaults' \in [tag : 0..Len(templates'), tagTime : Nat, fetchTime : Nat]
        /\ (userDefaults'.tag = 0) <=> (userDefaults'.tagTime = 0)
    BY <1>1, <1>2, <1>4 DEF DataInv, StorageInv
  <2> QED
    BY <2>1, <2>2 DEF StorageInv
<1>6. MemoryInv'
  BY <1>1, <1>2, <1>4 DEF DataInv, MemoryInv, memoryVars
<1>7. ClockInv'
  BY <1>1, <1>2 DEF DataInv, ClockInv, historyVars
<1>8. FetchesInv'
  BY <1>1, <1>2, <1>3, Monotonic DEF FetchInv, FetchesInv, memoryVars
<1>9. /\ MainInv' /\ NameInv' /\ IdleInv'
      /\ QueueOK(queue', fetches') /\ FlagOK(fetches', settings'.isFetchInProgress)
  BY <1>1, <1>2 DEF FetchInv, MainInv, NameInv, IdleInv, memoryVars
<1> QED
  BY <1>3, <1>5, <1>6, <1>7, <1>8, <1>9 DEF ConfigInv, DataInv, FetchInv

LEMMA SetClockBackKeeps ==
  ASSUME ConfigInv, NEW t \in 0..clock, SetClockBack(t)
  PROVE  ConfigInv'
<1>1. DataInv /\ FetchInv
  BY DEF ConfigInv
<1>2. ClockInv'
  BY <1>1 DEF DataInv, ClockInv, SetClockBack
<1>3. DataInv'
  BY <1>1, <1>2 DEF SetClockBack, DataInv, TemplatesInv, StorageInv, MemoryInv, memoryVars
<1>4. FetchInv'
  BY <1>1 DEF SetClockBack, FetchInv, FetchesInv, MainInv, NameInv, IdleInv, memoryVars
<1> QED
  BY <1>3, <1>4 DEF ConfigInv

LEMMA RestartKeeps ==
  ASSUME ConfigInv, Restart
  PROVE  ConfigInv'
<1> DEFINE gone == [Asked EXCEPT !.stage = "gone"]
<1>1. /\ UNCHANGED <<templates, userDefaults, disk, clock, setBack>>
      /\ db' = <<>> /\ queue' = <<>> /\ main' = <<>>
      /\ content' = Unloaded /\ settings' = NoSettings /\ name' = DefaultName
      /\ incidents' = incidents + 1 /\ torn' = (torn \/ HalfStored)
      /\ fetches' = [i \in 1..Len(fetches) |-> gone]
  BY DEF Restart
<1>2. DataInv /\ FetchInv /\ Len(fetches) \in Nat /\ Len(templates) \in Nat
  BY InvTypes DEF ConfigInv
<1>3. gone \in Fetch(Len(templates)) /\ gone.stage = "gone"
  BY <1>2 DEF Asked, Fetch, Stages
<1> HIDE DEF gone
<1>4. /\ fetches' \in Seq(Fetch(Len(templates))) /\ Len(fetches') = Len(fetches)
      /\ \A i \in 1..Len(fetches') : fetches'[i] = gone
  BY <1>1, <1>2, <1>3
<1>5. FetchesInv' /\ MainInv'
  BY <1>1, <1>3, <1>4 DEF FetchesInv, AnswersOK, MainInv
<1>6. QueueOK(queue', fetches')
  BY <1>1 DEF QueueOK, TasksFit, OneTaskEach
<1>7. FlagOK(fetches', settings'.isFetchInProgress)
  BY <1>1, <1>3, <1>4 DEF FlagOK, InProgress, NoSettings
<1>8. NameInv' /\ IdleInv'
  BY <1>1, <1>3, <1>4 DEF NameInv, IdleInv, ReadsBehindDefaults, NoSettings
<1>9. ClockInv' /\ TemplatesInv'
  <2>1. torn \in BOOLEAN /\ HalfStored \in BOOLEAN
    BY <1>2 DEF DataInv, ClockInv, HalfStored
  <2>2. torn' \in BOOLEAN
    BY <1>1, <2>1
  <2> QED
    BY <1>1, <1>2, <2>2 DEF DataInv, ClockInv, TemplatesInv
<1>10. StorageInv'
  BY <1>1, <1>2 DEF DataInv, StorageInv
<1>11. MemoryInv'
  BY <1>1, <1>2 DEF MemoryInv, Unloaded, NoSettings, Settings
<1> QED
  BY <1>5, <1>6, <1>7, <1>8, <1>9, <1>10, <1>11 DEF ConfigInv, DataInv, FetchInv

-----------------------------------------------------------------------------
(* The theorems. *)

LEMMA ConfigStep == ConfigInv /\ [Next]_vars => ConfigInv'
<1> SUFFICES ASSUME ConfigInv, [Next]_vars
             PROVE  ConfigInv'
  OBVIOUS
<1>1. CASE AppBody \/ LoginBody \/ FetchCompletes \/ DatabaseStep \/ LoadReturns
  BY <1>1, AppBodyKeeps, LoginBodyKeeps, FetchCompletesKeeps, DatabaseStepKeeps,
     LoadReturnsKeeps
<1>2. CASE QueueStep
  BY <1>2, RunSettingsKeeps, RunDefaultsKeeps, RunReadKeeps, RunFetchKeeps,
     RunBeginKeeps, RunRequestKeeps, RunAnswerKeeps, RunTagKeeps, RunFailureKeeps,
     RunActivateKeeps DEF QueueStep
<1>3. ASSUME NEW i \in 1..Len(fetches),
             \/ TokenArrives(i) \/ TokenFails(i)
             \/ ServerAnswers(i) \/ RequestFails(i)
             \/ AnswerArrives(i) \/ AnswerIsQueued(i)
      PROVE  ConfigInv'
  BY <1>3, TokenArrivesKeeps, TokenFailsKeeps, ServerAnswersKeeps, RequestFailsKeeps,
     AnswerArrivesKeeps, AnswerIsQueuedKeeps
<1>4. ASSUME NEW t \in Titles \cup {NoTitle}, Publish(t)
      PROVE  ConfigInv'
  BY <1>4, PublishKeeps
<1>5. ASSUME NEW t \in 0..clock, SetClockBack(t)
      PROVE  ConfigInv'
  BY <1>5, SetClockBackKeeps
<1>6. CASE Restart
  BY <1>6, RestartKeeps
<1>7. CASE UNCHANGED vars
  BY <1>7 DEF vars, memoryVars, historyVars, ConfigInv, DataInv, FetchInv, TemplatesInv,
              ClockInv, StorageInv, MemoryInv, FetchesInv, MainInv, NameInv, IdleInv
<1> QED
  BY <1>1, <1>2, <1>3, <1>4, <1>5, <1>6, <1>7 DEF Next, FetchStep

LEMMA ConfigInvAlways == Spec => []ConfigInv
<1> QED
  BY ConfigStarts, ConfigStep, PTL DEF Spec

LEMMA WritesAre == WritesUpTo(Len(templates)) = Writes
BY DEF WritesUpTo, Writes, Versions

\* The queue, the database and the memory keep their types, and the app bar
\* always has a name: a GroceryViewModel reads it behind the task that sets the
\* defaults, before and after every restart and whatever the templates hold.
THEOREM ConfigTypeCorrect == Spec => []ConfigTypeOK
<1>1. ConfigInv => ConfigTypeOK
  <2> SUFFICES ASSUME ConfigInv
               PROVE  ConfigTypeOK
    OBVIOUS
  <2>1. DataInv /\ FetchInv
    BY DEF ConfigInv
  <2>2. TemplatesInv /\ ClockInv
    BY <2>1 DEF DataInv
  <2>3. /\ userDefaults \in [tag : Versions, tagTime : Nat, fetchTime : Nat]
        /\ (userDefaults.tag = 0) <=> (userDefaults.tagTime = 0)
        /\ disk \in [fetched : Versions, active : Versions, row : Rows]
    BY <2>1 DEF DataInv, StorageInv, DiskUpTo, Versions
  <2>4. db \in Seq(Writes)
    BY <2>1, WritesAre DEF DataInv, StorageInv
  <2>5. \A k \in 1..Len(queue) : queue[k].do \in Steps
    BY <2>1, TaskHas DEF FetchInv, QueueOK
  <2>6. \A k \in 1..Len(main) : main[k].of \in 1..Len(fetches) /\ main[k].ok \in BOOLEAN
    <3>1. /\ main \in Seq([of : Nat, ok : BOOLEAN])
          /\ \A k \in 1..Len(main) : main[k].of \in 1..Len(fetches)
      BY <2>1 DEF FetchInv, MainInv
    <3>2. \A k \in 1..Len(main) : main[k].ok \in BOOLEAN
      <4> DEFINE M == [of : Nat, ok : BOOLEAN]
      <4> TAKE k \in 1..Len(main)
      <4>1. \A m \in M : m.ok \in BOOLEAN
        OBVIOUS
      <4> HIDE DEF M
      <4>2. main \in Seq(M)
        BY <3>1 DEF M
      <4>3. main[k] \in M
        BY <4>2
      <4> QED
        BY <4>1, <4>3, Zenon
    <3> QED
      BY <3>1, <3>2
  <2>7. fetches \in Seq([stage : Stages, sent : Versions, got : Versions])
    BY <2>1 DEF FetchInv, FetchesInv, Fetch, Versions
  <2>8. /\ content \in [loaded : BOOLEAN, fetched : Versions, active : Versions,
                        defaults : BOOLEAN]
        /\ settings \in Settings
        /\ name \in Titles \cup {DefaultName}
    BY <2>1 DEF DataInv, MemoryInv, Versions
  <2> QED
    BY <2>2, <2>3, <2>4, <2>5, <2>6, <2>7, <2>8
       DEF ConfigTypeOK, TemplatesInv, ClockInv, Settings
<1> QED
  BY <1>1, ConfigInvAlways, PTL

\* isFetchInProgress, set on the queue and cleared where a token or an answer
\* comes back, is set exactly while one fetch is between its start and its
\* answer, however many are asked for.
THEOREM OneFetchAlways == Spec => []OneFetchAtATime
<1>1. ConfigInv => OneFetchAtATime
  <2> SUFFICES ASSUME ConfigInv
               PROVE  OneFetchAtATime
    OBVIOUS
  <2> DEFINE S == {i \in 1..Len(fetches) :
        fetches[i].stage \in {"token", "request", "sent", "answered", "refused"}}
  <2>1. /\ FlagOK(fetches, settings.isFetchInProgress)
        /\ settings.isFetchInProgress \in BOOLEAN
    BY InvTypes DEF ConfigInv, FetchInv, Settings
  <2>2. CASE settings.isFetchInProgress
    <3>1. PICK i \in 1..Len(fetches) : InProgress(fetches[i])
      BY <2>1, <2>2 DEF FlagOK
    <3>2. S = {i}
      BY <2>1, <3>1 DEF FlagOK, InProgress
    <3>3. Cardinality(S) = 1
      BY <3>2, FS_Singleton
    <3> QED
      BY <2>2, <3>3 DEF OneFetchAtATime
  <2>3. CASE ~settings.isFetchInProgress
    <3>1. S = {}
      BY <2>1, <2>3 DEF FlagOK, InProgress
    <3>2. Cardinality(S) = 0
      BY <3>1, FS_EmptySet
    <3> QED
      BY <2>3, <3>2 DEF OneFetchAtATime
  <2> QED
    BY <2>2, <2>3
<1> QED
  BY <1>1, ConfigInvAlways, PTL

-----------------------------------------------------------------------------
(* The invariant of the ETag: what is fetched, in memory and on disk. *)

SentStages == {"sent", "answered", "refused", "arrived", "arrivedRefused", "queued"}

IsAnswer(t) == t.do \in {"answer", "tag"}

\* Answers come in the order of their templates, and none is older than the ETag.
Behind(v, q, f) == \A k \in 1..Len(q) : IsAnswer(q[k]) => f[q[k].of].got <= v

AnswersInOrder(q, f) ==
  /\ \A k, l \in 1..Len(q) :
       k < l /\ IsAnswer(q[k]) /\ IsAnswer(q[l]) => f[q[k].of].got <= f[q[l].of].got
  /\ \A i \in 1..Len(f) : f[i].stage \in {"answered", "arrived"} => Behind(f[i].got, q, f)
  /\ \A i, j \in 1..Len(f) :
       f[i].stage = "answered" /\ f[j].stage = "arrived" => f[j].got <= f[i].got
  /\ \A i, j \in 1..Len(f) :
       f[i].stage \in {"arrived", "arrivedRefused"} /\ f[j].stage \in {"arrived", "arrivedRefused"}
         => i = j

TagIsNoNewer(tag, q, f) ==
  /\ \A k \in 1..Len(q) : IsAnswer(q[k]) => tag <= f[q[k].of].got
  /\ \A i \in 1..Len(f) : f[i].stage \in {"answered", "arrived"} => tag <= f[i].got

\* A request was sent with this ETag or an older one, and since the last restart
\* that tore the two apart with this one.
SentBefore(tag, f, split) ==
  \A i \in 1..Len(f) : f[i].stage \in SentStages =>
    f[i].sent <= tag /\ (split => f[i].sent = tag)

Answers(q, f, tag, split) ==
  AnswersInOrder(q, f) /\ TagIsNoNewer(tag, q, f) /\ SentBefore(tag, f, split)

AnswersInv == Answers(queue, fetches, userDefaults.tag, torn)

\* What the first n operations of the database queue make of a table.
EndsAs(q, n, table, version, v) ==
  \/ version = v /\ \A l \in 1..n : q[l].write # table
  \/ \E k \in 1..n : /\ q[k].write = table /\ q[k].version = v
                     /\ \A l \in 1..n : k < l => q[l].write # table

\* The configurations as the SDK holds them, or will once they are loaded.
FetchedNow == IF content.loaded THEN content.fetched ELSE disk.fetched
ActiveNow  == IF content.loaded THEN content.active ELSE disk.active

TagFirst(q) == \A k \in 2..Len(q) : q[k].do # "tag"

TagIsNext(q) == q # <<>> /\ Head(q).do = "tag"

FetchedInv ==
  /\ TagFirst(queue)
  /\ ~TagIsNext(queue) /\ ~torn => FetchedNow = userDefaults.tag
  /\ TagIsNext(queue) =>
       LET f == fetches[Head(queue).of] IN
         /\ content.loaded
         /\ f.got # f.sent => content.fetched = f.got
         /\ f.got = f.sent /\ ~torn => content.fetched = userDefaults.tag
  /\ EndsAs(db, Len(db), "fetched", disk.fetched, FetchedNow)
  /\ ~content.loaded => \A k \in 1..Len(db) : db[k].write \notin {"fetched", "active"}

TimeOf(op) == CASE op.write = "insert" -> op.row.applyTime
                [] op.write = "update" -> op.time
                [] OTHER -> 0

TimesInv ==
  /\ ~settings.made => db = <<>> /\ ~content.loaded /\ settings.lastApplyTime = 0
  /\ ~setBack =>
       /\ userDefaults.tagTime <= clock /\ settings.lastApplyTime <= clock
       /\ disk.row.applyTime <= clock
       /\ settings.made =>
            /\ disk.row.applyTime <= settings.lastApplyTime
            /\ \A k \in 1..Len(db) : TimeOf(db[k]) <= settings.lastApplyTime

\* A time that says the fetched configuration was applied.
Claims(t) == userDefaults.tagTime # 0 /\ userDefaults.tagTime <= t

ClaimsIn(q, version, v) ==
  \A k \in 1..Len(q) : Claims(TimeOf(q[k])) =>
    /\ EndsAs(q, k - 1, "active", version, v)
    /\ \A l \in 1..Len(q) : k < l => q[l].write # "active"

\* Wherever such a time is, in memory, on disk or on its way there, the active
\* configuration is that of the ETag and stays it.
ClaimsInv ==
  ~torn /\ ~setBack =>
    /\ Claims(settings.lastApplyTime) => ActiveNow = userDefaults.tag
    /\ Claims(disk.row.applyTime) =>
         disk.active = userDefaults.tag /\ \A k \in 1..Len(db) : db[k].write # "active"
    /\ ClaimsIn(db, disk.active, userDefaults.tag)

AppliedInv ==
  /\ EndsAs(db, Len(db), "active", disk.active, ActiveNow)
  /\ TimesInv
  /\ ClaimsInv

TagsInv == AnswersInv /\ FetchedInv /\ AppliedInv

-----------------------------------------------------------------------------
(* Lemmas on the answers and the queue. *)

\* Other fetches, or the same with their answers.
LEMMA AnswersMove ==
  ASSUME NEW q, NEW f, NEW g, NEW tag, NEW split, Answers(q, f, tag, split), TasksFit(q, f),
         Len(f) \in Nat, Len(g) \in Nat, Len(f) <= Len(g),
         \A j \in 1..Len(f) : g[j].got = f[j].got,
         \A j \in 1..Len(g) :
           g[j].stage \in {"answered", "arrived", "arrivedRefused"} =>
             j \in 1..Len(f) /\ f[j].stage = g[j].stage,
         \A j \in 1..Len(g) :
           g[j].stage \in SentStages =>
             j \in 1..Len(f) /\ f[j].stage \in SentStages /\ g[j].sent = f[j].sent
  PROVE  Answers(q, g, tag, split)
<1>1. \A k \in 1..Len(q) : IsAnswer(q[k]) => g[q[k].of].got = f[q[k].of].got
  BY DEF TasksFit, IsAnswer, IsOfFetch
<1>2. AnswersInOrder(q, f) /\ TagIsNoNewer(tag, q, f) /\ SentBefore(tag, f, split)
  BY DEF Answers
<1>3. AnswersInOrder(q, g)
  <2>1. \A k, l \in 1..Len(q) :
          k < l /\ IsAnswer(q[k]) /\ IsAnswer(q[l]) => g[q[k].of].got <= g[q[l].of].got
    BY <1>1, <1>2 DEF AnswersInOrder
  <2>2. \A i \in 1..Len(g) : g[i].stage \in {"answered", "arrived"} => Behind(g[i].got, q, g)
    BY <1>1, <1>2 DEF AnswersInOrder, Behind
  <2>3. \A i, j \in 1..Len(g) :
          g[i].stage = "answered" /\ g[j].stage = "arrived" => g[j].got <= g[i].got
    BY <1>2 DEF AnswersInOrder
  <2>4. \A i, j \in 1..Len(g) :
          /\ g[i].stage \in {"arrived", "arrivedRefused"}
          /\ g[j].stage \in {"arrived", "arrivedRefused"}
          => i = j
    BY <1>2 DEF AnswersInOrder
  <2> QED
    BY <2>1, <2>2, <2>3, <2>4 DEF AnswersInOrder
<1>4. TagIsNoNewer(tag, q, g)
  BY <1>1, <1>2 DEF TagIsNoNewer
<1>5. SentBefore(tag, g, split)
  BY <1>2 DEF SentBefore
<1> QED
  BY <1>3, <1>4, <1>5 DEF Answers

LEMMA AnswersTail ==
  ASSUME NEW q \in Seq(Tasks), q # <<>>, NEW f, NEW tag, NEW split, Answers(q, f, tag, split)
  PROVE  Answers(Tail(q), f, tag, split)
<1>1. \A k \in 1..Len(Tail(q)) : k + 1 \in 1..Len(q) /\ Tail(q)[k] = q[k + 1]
  OBVIOUS
<1>2. AnswersInOrder(q, f) /\ TagIsNoNewer(tag, q, f) /\ SentBefore(tag, f, split)
  BY DEF Answers
<1>3. AnswersInOrder(Tail(q), f)
  <2>1. \A k, l \in 1..Len(Tail(q)) : k < l => k + 1 < l + 1
    OBVIOUS
  <2> QED
    BY <1>1, <1>2, <2>1 DEF AnswersInOrder, Behind
<1>4. TagIsNoNewer(tag, Tail(q), f)
  BY <1>1, <1>2 DEF TagIsNoNewer
<1> QED
  BY <1>2, <1>3, <1>4 DEF Answers

LEMMA AnswersAppend ==
  ASSUME NEW q \in Seq(Tasks), NEW t \in Tasks, NEW f, NEW tag, NEW split,
         Answers(q, f, tag, split), ~IsAnswer(t)
  PROVE  Answers(Append(q, t), f, tag, split)
<1> DEFINE r == Append(q, t)
<1>1. \A k \in 1..Len(r) : IsAnswer(r[k]) => k \in 1..Len(q) /\ r[k] = q[k]
  OBVIOUS
<1> HIDE DEF r
<1>2. AnswersInOrder(q, f) /\ TagIsNoNewer(tag, q, f) /\ SentBefore(tag, f, split)
  BY DEF Answers
<1>3. AnswersInOrder(r, f)
  BY <1>1, <1>2 DEF AnswersInOrder, Behind
<1>4. TagIsNoNewer(tag, r, f)
  BY <1>1, <1>2 DEF TagIsNoNewer
<1>5. Answers(r, f, tag, split)
  BY <1>2, <1>3, <1>4 DEF Answers
<1> QED
  BY <1>5 DEF r

\* The task of the ETag is only ever the first.
LEMMA TagFirstAppend ==
  ASSUME NEW q \in Seq(Tasks), NEW t \in Tasks, t.do # "tag", TagFirst(q)
  PROVE  /\ TagFirst(Append(q, t))
         /\ TagIsNext(Append(q, t)) => TagIsNext(q) /\ Head(Append(q, t)) = Head(q)
<1>1. \A k \in 2..Len(Append(q, t)) : \/ k \in 2..Len(q) /\ Append(q, t)[k] = q[k]
                                      \/ Append(q, t)[k] = t
  OBVIOUS
<1>2. TagFirst(Append(q, t))
  BY <1>1 DEF TagFirst
<1>3. CASE q = <<>>
  <2>1. Head(Append(q, t)) = t
    BY <1>3
  <2> QED
    BY <1>2, <2>1 DEF TagIsNext
<1>4. CASE q # <<>>
  <2>1. Head(Append(q, t)) = Head(q)
    BY <1>4
  <2> QED
    BY <1>2, <1>4, <2>1 DEF TagIsNext
<1> QED
  BY <1>3, <1>4

LEMMA TagFirstTail ==
  ASSUME NEW q \in Seq(Tasks), q # <<>>, TagFirst(q)
  PROVE  TagFirst(Tail(q)) /\ ~TagIsNext(Tail(q))
<1>1. \A k \in 1..Len(Tail(q)) : k + 1 \in 2..Len(q) /\ Tail(q)[k] = q[k + 1]
  OBVIOUS
<1>2. TagFirst(Tail(q))
  BY <1>1 DEF TagFirst
<1>3. ASSUME Tail(q) # <<>>
      PROVE  Head(Tail(q)).do # "tag"
  <2>1. 1 \in 1..Len(Tail(q)) /\ Head(Tail(q)) = Tail(q)[1]
    BY <1>3
  <2> QED
    BY <1>1, <2>1 DEF TagFirst
<1> QED
  BY <1>2, <1>3 DEF TagIsNext

-----------------------------------------------------------------------------
(* Lemmas on the database queue. *)

LEMMA TimeIsNat ==
  ASSUME NEW n, NEW op \in WritesUpTo(n)
  PROVE  TimeOf(op) \in Nat
<1>1. CASE op \in [write : {"fetched", "active"}, version : 0..n]
  BY <1>1 DEF TimeOf
<1>2. CASE op \in [write : {"drop"}]
  BY <1>2 DEF TimeOf
<1>3. CASE op \in [write : {"insert"}, row : Rows]
  BY <1>3 DEF TimeOf, Rows
<1>4. CASE op \in [write : {"update"}, time : Nat]
  BY <1>4 DEF TimeOf
<1> QED
  BY <1>1, <1>2, <1>3, <1>4 DEF WritesUpTo

LEMMA EndsFirst ==
  ASSUME NEW W, NEW q \in Seq(W), NEW op \in W, NEW n \in 0..Len(q), NEW table, NEW d, NEW v,
         EndsAs(q, n, table, d, v)
  PROVE  EndsAs(Append(q, op), n, table, d, v)
<1>1. \A k \in 1..n : Append(q, op)[k] = q[k]
  OBVIOUS
<1> QED
  BY <1>1 DEF EndsAs

LEMMA EndsAppend ==
  ASSUME NEW W, NEW q \in Seq(W), NEW op \in W, NEW table, NEW d, NEW v,
         \/ op.write = table /\ op.version = v
         \/ op.write # table /\ EndsAs(q, Len(q), table, d, v)
  PROVE  EndsAs(Append(q, op), Len(Append(q, op)), table, d, v)
<1> DEFINE r == Append(q, op)
<1>1. /\ Len(q) \in Nat /\ Len(r) = Len(q) + 1 /\ r[Len(q) + 1] = op
      /\ \A k \in 1..Len(q) : r[k] = q[k]
  OBVIOUS
<1> HIDE DEF r
<1>2. CASE op.write = table /\ op.version = v
  BY <1>1, <1>2 DEF EndsAs, r
<1>3. CASE op.write # table /\ EndsAs(q, Len(q), table, d, v)
  <2>1. \A l \in 1..Len(r) : l \in 1..Len(q) \/ r[l] = op
    BY <1>1
  <2>2. 1..Len(q) \subseteq 1..Len(r)
    BY <1>1
  <2>3. EndsAs(r, Len(r), table, d, v)
    BY <1>1, <1>3, <2>1, <2>2 DEF EndsAs
  <2> QED
    BY <2>3 DEF r
<1> QED
  BY <1>2, <1>3

LEMMA EndsTail ==
  ASSUME NEW W, NEW q \in Seq(W), q # <<>>, NEW n \in 1..Len(q), NEW table, NEW d, NEW v,
         EndsAs(q, n, table, d, v)
  PROVE  EndsAs(Tail(q), n - 1, table, IF q[1].write = table THEN q[1].version ELSE d, v)
<1>1. /\ Len(q) \in Nat /\ n \in Nat /\ 1 \in 1..n
      /\ \A k \in 1..(n - 1) : k + 1 \in 1..n /\ Tail(q)[k] = q[k + 1]
  OBVIOUS
<1>2. CASE d = v /\ \A l \in 1..n : q[l].write # table
  BY <1>1, <1>2 DEF EndsAs
<1>3. CASE \E k \in 1..n : /\ q[k].write = table /\ q[k].version = v
                           /\ \A l \in 1..n : k < l => q[l].write # table
  <2>1. PICK k \in 1..n : /\ q[k].write = table /\ q[k].version = v
                          /\ \A l \in 1..n : k < l => q[l].write # table
    BY <1>3
  <2>2. CASE k = 1
    <3>1. \A l \in 1..(n - 1) : Tail(q)[l].write # table
      BY <1>1, <2>1, <2>2
    <3> QED
      BY <2>1, <2>2, <3>1 DEF EndsAs
  <2>3. CASE k # 1
    <3>1. k - 1 \in 1..(n - 1) /\ Tail(q)[k - 1] = q[k]
      BY <1>1, <2>3
    <3>2. \A l \in 1..(n - 1) : k - 1 < l => Tail(q)[l].write # table
      BY <1>1, <2>1
    <3> QED
      BY <2>1, <3>1, <3>2 DEF EndsAs
  <2> QED
    BY <2>2, <2>3
<1> QED
  BY <1>2, <1>3 DEF EndsAs

LEMMA ClaimsAppend ==
  ASSUME NEW W, NEW q \in Seq(W), NEW op \in W, NEW d, NEW v,
         ClaimsIn(q, d, v),
         op.write = "active" => \A k \in 1..Len(q) : ~Claims(TimeOf(q[k])),
         Claims(TimeOf(op)) => EndsAs(q, Len(q), "active", d, v)
  PROVE  ClaimsIn(Append(q, op), d, v)
<1> DEFINE r == Append(q, op)
<1>1. /\ Len(q) \in Nat /\ Len(r) = Len(q) + 1 /\ r[Len(q) + 1] = op
      /\ \A k \in 1..Len(q) : r[k] = q[k]
  OBVIOUS
<1>2. \A n \in 0..Len(q) : EndsAs(q, n, "active", d, v) => EndsAs(r, n, "active", d, v)
  BY EndsFirst
<1> HIDE DEF r
<1>3. ASSUME NEW k \in 1..Len(r), Claims(TimeOf(r[k]))
      PROVE  /\ EndsAs(r, k - 1, "active", d, v)
             /\ \A l \in 1..Len(r) : k < l => r[l].write # "active"
  <2>1. CASE k = Len(q) + 1
    <3>1. k - 1 = Len(q) /\ Len(q) \in 0..Len(q)
      BY <1>1, <2>1
    <3>2. \A l \in 1..Len(r) : ~(k < l)
      BY <1>1, <2>1
    <3> QED
      BY <1>1, <1>2, <1>3, <2>1, <3>1, <3>2
  <2>2. CASE k \in 1..Len(q)
    <3>1. Claims(TimeOf(q[k])) /\ k - 1 \in 0..Len(q) /\ op.write # "active"
      BY <1>1, <1>3, <2>2
    <3>2. /\ EndsAs(q, k - 1, "active", d, v)
          /\ \A l \in 1..Len(q) : k < l => q[l].write # "active"
      BY <2>2, <3>1 DEF ClaimsIn
    <3>3. \A l \in 1..Len(r) : l \in 1..Len(q) \/ r[l] = op
      BY <1>1
    <3> QED
      BY <1>1, <1>2, <3>1, <3>2, <3>3
  <2> QED
    BY <1>1, <2>1, <2>2
<1>4. ClaimsIn(r, d, v)
  BY <1>3 DEF ClaimsIn
<1> QED
  BY <1>4 DEF r

LEMMA ClaimsTail ==
  ASSUME NEW W, NEW q \in Seq(W), q # <<>>, NEW d, NEW v, ClaimsIn(q, d, v)
  PROVE  ClaimsIn(Tail(q), IF q[1].write = "active" THEN q[1].version ELSE d, v)
<1> DEFINE e == IF q[1].write = "active" THEN q[1].version ELSE d
<1>1. /\ Len(q) \in Nat /\ Len(Tail(q)) = Len(q) - 1
      /\ \A k \in 1..(Len(q) - 1) : k + 1 \in 1..Len(q) /\ Tail(q)[k] = q[k + 1]
  OBVIOUS
<1>2. \A n \in 1..Len(q) :
        EndsAs(q, n, "active", d, v) => EndsAs(Tail(q), n - 1, "active", e, v)
  BY EndsTail
<1> HIDE DEF e
<1>3. ASSUME NEW k \in 1..Len(Tail(q)), Claims(TimeOf(Tail(q)[k]))
      PROVE  /\ EndsAs(Tail(q), k - 1, "active", e, v)
             /\ \A l \in 1..Len(Tail(q)) : k < l => Tail(q)[l].write # "active"
  <2>1. k + 1 \in 1..Len(q) /\ Claims(TimeOf(q[k + 1])) /\ (k + 1) - 1 = k /\ k \in 1..Len(q)
    BY <1>1, <1>3
  <2>2. /\ EndsAs(q, k, "active", d, v)
        /\ \A l \in 1..Len(q) : k + 1 < l => q[l].write # "active"
    BY <2>1 DEF ClaimsIn
  <2>3. EndsAs(Tail(q), k - 1, "active", e, v)
    BY <1>2, <2>1, <2>2
  <2>4. \A l \in 1..Len(Tail(q)) : k < l => Tail(q)[l].write # "active"
    BY <1>1, <2>2
  <2> QED
    BY <2>3, <2>4
<1>4. ClaimsIn(Tail(q), e, v)
  BY <1>3 DEF ClaimsIn
<1> QED
  BY <1>4 DEF e

-----------------------------------------------------------------------------
(* What steps leave alone. *)

LEMMA TagsStart == Init => TagsInv
<1> SUFFICES ASSUME Init
             PROVE  TagsInv
  OBVIOUS
<1>1. AnswersInv
  BY DEF Init, AnswersInv, Answers, AnswersInOrder, TagIsNoNewer, SentBefore
<1>2. FetchedInv
  BY DEF Init, FetchedInv, TagFirst, TagIsNext, FetchedNow, Unloaded, EndsAs
<1>3. AppliedInv
  BY DEF Init, AppliedInv, EndsAs, ActiveNow, Unloaded, TimesInv, NoSettings, EmptyRow,
         ClaimsInv, ClaimsIn, Claims
<1> QED
  BY <1>1, <1>2, <1>3 DEF TagsInv

\* A step that touches neither the stores nor what was applied.
LEMMA AppliedKept ==
  ASSUME AppliedInv, UNCHANGED <<userDefaults, disk, db, clock, torn, setBack>>,
         content'.loaded = content.loaded, content'.active = content.active,
         settings'.made = settings.made, settings'.lastApplyTime = settings.lastApplyTime
  PROVE  AppliedInv'
BY DEF AppliedInv, ActiveNow, TimesInv, ClaimsInv, ClaimsIn, Claims

\* A step that leaves what was fetched and the front of the queue alone, or takes
\* a front away that is not the task of an ETag.
LEMMA FetchedKept ==
  ASSUME FetchedInv, UNCHANGED <<userDefaults, disk, db, torn>>,
         content'.loaded = content.loaded, content'.fetched = content.fetched,
         TagFirst(queue'),
         TagIsNext(queue') => TagIsNext(queue) /\ Head(queue') = Head(queue),
         TagIsNext(queue) => TagIsNext(queue'),
         TagIsNext(queue) => fetches'[Head(queue).of] = fetches[Head(queue).of]
  PROVE  FetchedInv'
<1>1. FetchedNow' = FetchedNow
  BY DEF FetchedNow
<1> QED
  BY <1>1 DEF FetchedInv

\* Where the head of the queue is and what it is of.
LEMMA NextTag ==
  ASSUME ConfigInv, TagIsNext(queue)
  PROVE  /\ Head(queue).of \in 1..Len(fetches)
         /\ fetches[Head(queue).of].stage = "queued"
<1>1. queue # <<>> /\ Head(queue).do = "tag" /\ QueueOK(queue, fetches)
  BY DEF TagIsNext, ConfigInv, FetchInv
<1> QED
  BY <1>1, QueueTail DEF IsOfFetch, Fits

\* A task that runs and is not the one of an ETag.
LEMMA TaskTaken ==
  ASSUME ConfigInv, TagsInv, NEW do, Runs(do), do # "tag"
  PROVE  /\ ~TagIsNext(queue) /\ ~TagIsNext(Tail(queue)) /\ TagFirst(Tail(queue))
         /\ Answers(Tail(queue), fetches, userDefaults.tag, torn)
<1>1. queue # <<>> /\ Head(queue).do = do /\ queue \in Seq(Tasks)
  BY InvTypes DEF Runs
<1>2. TagFirst(queue) /\ Answers(queue, fetches, userDefaults.tag, torn)
  BY DEF TagsInv, AnswersInv, FetchedInv
<1> QED
  BY <1>1, <1>2, TagFirstTail, AnswersTail DEF TagIsNext

\* The move of a fetch that carries no answer yet, or takes it no further.
LEMMA AnswersMoved ==
  ASSUME ConfigInv, NEW q, QueueOK(q, fetches), NEW tag, NEW split,
         Answers(q, fetches, tag, split),
         NEW i \in 1..Len(fetches), NEW s \in Stages, fetches' = Moved(i, s),
         s \notin {"answered", "arrived", "arrivedRefused"},
         s \in SentStages => fetches[i].stage \in SentStages
  PROVE  Answers(q, fetches', tag, split)
<1>1. FetchesInv /\ Len(fetches) \in Nat /\ Len(templates) \in Nat
  BY InvTypes DEF ConfigInv, FetchInv
<1>2. /\ Len(fetches') = Len(fetches)
      /\ fetches'[i].stage = s /\ fetches'[i].got = fetches[i].got
      /\ \A j \in 1..Len(fetches) : j # i => fetches'[j] = fetches[j]
  BY <1>1, FetchMoved
<1>3. fetches'[i].sent = fetches[i].sent
  <2>1. fetches \in Seq(Fetch(Len(templates))) /\ fetches[i] \in Fetch(Len(templates))
    BY <1>1 DEF FetchesInv
  <2> QED
    BY <2>1 DEF Moved, Fetch
<1>4. \A j \in 1..Len(fetches) : fetches'[j].got = fetches[j].got
  BY <1>2
<1>5. \A j \in 1..Len(fetches') :
        fetches'[j].stage \in {"answered", "arrived", "arrivedRefused"} =>
          j \in 1..Len(fetches) /\ fetches[j].stage = fetches'[j].stage
  BY <1>2
<1>6. \A j \in 1..Len(fetches') :
        fetches'[j].stage \in SentStages =>
          j \in 1..Len(fetches) /\ fetches[j].stage \in SentStages
            /\ fetches'[j].sent = fetches[j].sent
  BY <1>2, <1>3
<1>7. TasksFit(q, fetches) /\ Len(fetches) <= Len(fetches')
  BY <1>1, <1>2 DEF QueueOK
<1> QED
  BY <1>1, <1>2, <1>4, <1>5, <1>6, <1>7, AnswersMove

-----------------------------------------------------------------------------
(* Steps that leave the stores alone. *)

LEMMA LoginBodyTags ==
  ASSUME ConfigInv, TagsInv, LoginBody
  PROVE  TagsInv'
<1> DEFINE t == [do |-> "read"]
<1>1. /\ t \in Tasks /\ ~IsAnswer(t) /\ t.do # "tag" /\ queue' = Append(queue, t)
      /\ UNCHANGED <<userDefaults, disk, db, content, settings, fetches, clock, torn, setBack>>
  BY DEF Tasks, IsAnswer, LoginBody, historyVars
<1> HIDE DEF t
<1>2. queue \in Seq(Tasks) /\ TagFirst(queue)
  BY InvTypes DEF TagsInv, FetchedInv
<1>3. AnswersInv'
  BY <1>1, <1>2, AnswersAppend DEF TagsInv, AnswersInv
<1>4. TagFirst(queue') /\ (TagIsNext(queue') => TagIsNext(queue) /\ Head(queue') = Head(queue))
  BY <1>1, <1>2, TagFirstAppend
<1>5. TagIsNext(queue) => TagIsNext(queue')
  BY <1>1, <1>2 DEF TagIsNext
<1>6. FetchedInv' /\ AppliedInv'
  BY <1>1, <1>4, <1>5, FetchedKept, AppliedKept DEF TagsInv
<1> QED
  BY <1>3, <1>6 DEF TagsInv

LEMMA FetchCompletesTags ==
  ASSUME ConfigInv, TagsInv, FetchCompletes
  PROVE  TagsInv'
<1> DEFINE t == [do |-> "activate"]
<1>1. /\ t \in Tasks /\ ~IsAnswer(t) /\ t.do # "tag"
      /\ queue' = Append(queue, t) \/ queue' = queue
      /\ UNCHANGED <<userDefaults, disk, db, content, settings, fetches, clock, torn, setBack>>
  BY DEF Tasks, IsAnswer, FetchCompletes, historyVars
<1> HIDE DEF t
<1>2. queue \in Seq(Tasks) /\ TagFirst(queue)
  BY InvTypes DEF TagsInv, FetchedInv
<1>3. AnswersInv'
  BY <1>1, <1>2, AnswersAppend DEF TagsInv, AnswersInv
<1>4. TagFirst(queue') /\ (TagIsNext(queue') => TagIsNext(queue) /\ Head(queue') = Head(queue))
  BY <1>1, <1>2, TagFirstAppend
<1>5. TagIsNext(queue) => TagIsNext(queue')
  BY <1>1, <1>2 DEF TagIsNext
<1>6. FetchedInv' /\ AppliedInv'
  BY <1>1, <1>4, <1>5, FetchedKept, AppliedKept DEF TagsInv
<1> QED
  BY <1>3, <1>6 DEF TagsInv

LEMMA RunReadTags ==
  ASSUME ConfigInv, TagsInv, RunRead \/ RunDefaults
  PROVE  TagsInv'
<1>1. /\ Runs("read") \/ Runs("defaults")
      /\ queue' = Tail(queue)
      /\ UNCHANGED <<userDefaults, disk, db, settings, fetches, clock, torn, setBack>>
  BY DEF RunRead, RunDefaults, historyVars
<1>2. /\ content'.loaded = content.loaded /\ content'.active = content.active
      /\ content'.fetched = content.fetched
  BY DEF RunRead, RunDefaults, ConfigInv, DataInv, MemoryInv
<1>3. /\ ~TagIsNext(queue) /\ ~TagIsNext(queue') /\ TagFirst(queue')
      /\ Answers(queue', fetches, userDefaults.tag, torn)
  BY <1>1, TaskTaken
<1>4. AnswersInv'
  BY <1>1, <1>3 DEF AnswersInv
<1>5. FetchedInv' /\ AppliedInv'
  BY <1>1, <1>2, <1>3, FetchedKept, AppliedKept DEF TagsInv
<1> QED
  BY <1>4, <1>5 DEF TagsInv

LEMMA RunFetchTags ==
  ASSUME ConfigInv, TagsInv, RunFetch
  PROVE  TagsInv'
<1> DEFINE t == [do |-> "begin", of |-> Head(queue).of, changed |-> ~settings.deviceContext]
<1>1. /\ Runs("fetch") /\ queue' = Append(Tail(queue), t)
      /\ UNCHANGED <<userDefaults, disk, db, content, settings, fetches, clock, torn, setBack>>
  BY DEF RunFetch, historyVars
<1>2. queue \in Seq(Tasks) /\ queue # <<>> /\ Tail(queue) \in Seq(Tasks)
  BY <1>1, InvTypes DEF Runs
<1>3. t \in Tasks /\ ~IsAnswer(t) /\ t.do # "tag"
  <2>1. Head(queue).of \in 1..Len(fetches)
    BY <1>1, HeadTask DEF IsOfFetch
  <2> QED
    BY <2>1, InvTypes DEF Tasks, IsAnswer
<1> HIDE DEF t
<1>4. /\ ~TagIsNext(queue) /\ ~TagIsNext(Tail(queue)) /\ TagFirst(Tail(queue))
      /\ Answers(Tail(queue), fetches, userDefaults.tag, torn)
  BY <1>1, TaskTaken
<1>5. AnswersInv'
  BY <1>1, <1>2, <1>3, <1>4, AnswersAppend DEF AnswersInv
<1>6. TagFirst(queue') /\ ~TagIsNext(queue')
  BY <1>1, <1>2, <1>3, <1>4, TagFirstAppend
<1>7. FetchedInv' /\ AppliedInv'
  BY <1>1, <1>4, <1>6, FetchedKept, AppliedKept DEF TagsInv
<1> QED
  BY <1>5, <1>7 DEF TagsInv

LEMMA RunBeginTags ==
  ASSUME ConfigInv, TagsInv, RunBegin
  PROVE  TagsInv'
<1> DEFINE i == Head(queue).of
<1>1. /\ Runs("begin") /\ queue' = Tail(queue)
      /\ UNCHANGED <<userDefaults, disk, db, content, clock, torn, setBack>>
  BY DEF RunBegin, historyVars
<1>2. /\ QueueOK(Tail(queue), fetches) /\ i \in 1..Len(fetches)
  BY <1>1, HeadTask DEF IsOfFetch
<1>3. settings'.made = settings.made /\ settings'.lastApplyTime = settings.lastApplyTime
  BY InvTypes DEF RunBegin, Settings
<1>4. PICK s \in {"ok", "failed", "token"} : fetches' = Moved(i, s)
  BY DEF RunBegin, Reported
<1> HIDE DEF i
<1>5. /\ ~TagIsNext(queue) /\ ~TagIsNext(queue') /\ TagFirst(queue')
      /\ Answers(queue', fetches, userDefaults.tag, torn)
  BY <1>1, TaskTaken
<1>6. Answers(queue', fetches', userDefaults.tag, torn)
  <2>1. s \in Stages /\ s \notin SentStages
    BY DEF Stages, SentStages
  <2>2. s \notin {"answered", "arrived", "arrivedRefused"}
    OBVIOUS
  <2> QED
    BY <1>1, <1>2, <1>4, <1>5, <2>1, <2>2, AnswersMoved
<1>7. FetchedInv' /\ AppliedInv'
  BY <1>1, <1>3, <1>5, FetchedKept, AppliedKept DEF TagsInv
<1> QED
  BY <1>1, <1>6, <1>7 DEF TagsInv, AnswersInv

\* The request goes with the ETag of the time.
LEMMA RunRequestTags ==
  ASSUME ConfigInv, TagsInv, RunRequest
  PROVE  TagsInv'
<1> DEFINE i == Head(queue).of
<1>1. /\ Runs("request") /\ queue' = Tail(queue)
      /\ UNCHANGED <<userDefaults, disk, db, content, settings, clock, torn, setBack>>
      /\ fetches' = [fetches EXCEPT ![i].stage = "sent", ![i].sent = userDefaults.tag]
  BY DEF RunRequest, historyVars
<1>2. i \in 1..Len(fetches) /\ QueueOK(Tail(queue), fetches)
  BY <1>1, HeadTask DEF IsOfFetch
<1>3. /\ fetches \in Seq(Fetch(Len(templates))) /\ fetches[i] \in Fetch(Len(templates))
      /\ Len(fetches) \in Nat
  BY <1>2, InvTypes
<1>4. /\ Len(fetches') = Len(fetches)
      /\ \A j \in 1..Len(fetches) : j # i => fetches'[j] = fetches[j]
      /\ fetches'[i].stage = "sent" /\ fetches'[i].sent = userDefaults.tag
      /\ fetches'[i].got = fetches[i].got
  BY <1>1, <1>2, <1>3 DEF Fetch
<1> HIDE DEF i
<1>5. /\ ~TagIsNext(queue) /\ ~TagIsNext(queue') /\ TagFirst(queue')
      /\ Answers(queue', fetches, userDefaults.tag, torn)
  BY <1>1, TaskTaken
<1>6. AnswersInOrder(queue', fetches') /\ TagIsNoNewer(userDefaults.tag, queue', fetches')
  <2>1. \A k \in 1..Len(queue') :
          IsAnswer(queue'[k]) => fetches'[queue'[k].of].got = fetches[queue'[k].of].got
    BY <1>1, <1>2, <1>4 DEF QueueOK, TasksFit, IsAnswer, IsOfFetch
  <2>2. \A j \in 1..Len(fetches) : fetches'[j].got = fetches[j].got
    BY <1>4
  <2>3. \A j \in 1..Len(fetches) :
          fetches'[j].stage \in {"answered", "arrived", "arrivedRefused"} =>
            fetches[j].stage = fetches'[j].stage
    BY <1>4
  <2>4. AnswersInOrder(queue', fetches) /\ TagIsNoNewer(userDefaults.tag, queue', fetches)
    BY <1>5 DEF Answers
  <2>5. AnswersInOrder(queue', fetches')
    BY <1>4, <2>1, <2>2, <2>3, <2>4 DEF AnswersInOrder, Behind
  <2>6. TagIsNoNewer(userDefaults.tag, queue', fetches')
    BY <1>4, <2>1, <2>2, <2>3, <2>4 DEF TagIsNoNewer
  <2> QED
    BY <2>5, <2>6
<1>7. SentBefore(userDefaults.tag, fetches', torn)
  <2>1. userDefaults.tag \in Nat
    BY InvTypes DEF ConfigInv, DataInv, StorageInv
  <2>2. SentBefore(userDefaults.tag, fetches, torn)
    BY <1>5 DEF Answers
  <2> QED
    BY <1>4, <2>1, <2>2 DEF SentBefore
<1>8. FetchedInv' /\ AppliedInv'
  BY <1>1, <1>5, FetchedKept, AppliedKept DEF TagsInv
<1> QED
  BY <1>1, <1>6, <1>7, <1>8 DEF TagsInv, AnswersInv, Answers

LEMMA AppBodyTags ==
  ASSUME ConfigInv, TagsInv, AppBody
  PROVE  TagsInv'
<1> DEFINE n  == Len(fetches) + 1
           t1 == [do |-> "defaults"]
           t2 == [do |-> "fetch", of |-> n]
           t3 == [do |-> "read"]
           q0 == IF settings.made THEN queue ELSE <<[do |-> "settings"]>>
           q1 == Append(q0, t1)
           q2 == Append(q1, t2)
<1>1. /\ fetches' = Append(fetches, Asked)
      /\ UNCHANGED <<templates, userDefaults, disk, db, content, clock, torn, setBack>>
  BY DEF AppBody, historyVars
<1>2. /\ fetches \in Seq(Fetch(Len(templates))) /\ Len(templates) \in Nat
      /\ Len(fetches) \in Nat /\ queue \in Seq(Tasks)
  BY InvTypes
<1>3. Asked \in Fetch(Len(templates)) /\ Asked.stage = "asked"
  BY <1>2 DEF Asked, Fetch, Stages
<1>4. /\ Len(fetches') = n /\ fetches'[n] = Asked
      /\ \A j \in 1..Len(fetches) : fetches'[j] = fetches[j]
  BY <1>1, <1>2, <1>3
<1>5. /\ t1 \in Tasks /\ ~IsAnswer(t1) /\ t1.do # "tag"
      /\ t2 \in Tasks /\ ~IsAnswer(t2) /\ t2.do # "tag"
      /\ t3 \in Tasks /\ ~IsAnswer(t3) /\ t3.do # "tag"
      /\ [do |-> "settings"] \in Tasks
  BY <1>2 DEF Tasks, IsAnswer
<1>6. q0 \in Seq(Tasks) /\ (~settings.made => queue = <<>>)
  <2>1. IdleInv
    BY DEF ConfigInv, FetchInv
  <2> QED
    BY <1>2, <1>5, <2>1 DEF IdleInv
<1>7. queue' = Append(q2, t3)
  <2>1. queue' = q0 \o <<t1, t2, t3>>
    BY <1>4 DEF AppBody, ViewModelTasks
  <2>2. q0 \o <<t1, t2, t3>> = Append(q2, t3)
    BY <1>5, <1>6
  <2> QED
    BY <2>1, <2>2
<1>8. /\ TagFirst(q0) /\ (TagIsNext(q0) <=> TagIsNext(queue))
      /\ TagIsNext(q0) => Head(q0) = Head(queue)
      /\ Answers(q0, fetches, userDefaults.tag, torn) /\ TasksFit(q0, fetches)
  <2>1. /\ TagFirst(queue) /\ Answers(queue, fetches, userDefaults.tag, torn)
        /\ TasksFit(queue, fetches)
    BY DEF TagsInv, FetchedInv, AnswersInv, ConfigInv, FetchInv, QueueOK
  <2>2. CASE settings.made
    BY <2>1, <2>2
  <2>3. CASE ~settings.made
    <3>1. /\ queue = <<>> /\ q0 = <<[do |-> "settings"]>>
          /\ Len(q0) = 1 /\ q0[1].do = "settings" /\ Head(q0).do = "settings"
      BY <1>6, <2>3
    <3>2. ~TagIsNext(q0) /\ ~TagIsNext(queue) /\ TagFirst(q0) /\ TasksFit(q0, fetches)
      BY <3>1 DEF TagIsNext, TagFirst, TasksFit, IsOfFetch
    <3>3. ~IsAnswer(q0[1])
      BY <3>1 DEF IsAnswer
    <3>4. Answers(q0, fetches, userDefaults.tag, torn)
      BY <2>1, <3>1, <3>3 DEF Answers, AnswersInOrder, TagIsNoNewer, Behind
    <3> QED
      BY <3>2, <3>4
  <2> QED
    BY <2>2, <2>3
<1> HIDE DEF q0, t1, t2, t3
<1>9. q1 \in Seq(Tasks) /\ q2 \in Seq(Tasks)
  BY <1>5, <1>6
<1>10. Answers(q0, fetches', userDefaults.tag, torn)
  <2>1. Len(fetches) <= Len(fetches') /\ Len(fetches') \in Nat
    BY <1>2, <1>4
  <2>2. \A j \in 1..Len(fetches') : j \in 1..Len(fetches) \/ fetches'[j].stage = "asked"
    BY <1>2, <1>3, <1>4
  <2>3. \A j \in 1..Len(fetches') :
          fetches'[j].stage \in SentStages \cup {"answered", "arrived", "arrivedRefused"} =>
            j \in 1..Len(fetches) /\ fetches'[j] = fetches[j]
    BY <1>4, <2>2 DEF SentStages
  <2> QED
    BY <1>2, <1>4, <1>8, <2>1, <2>3, AnswersMove
<1>11. Answers(queue', fetches', userDefaults.tag, torn)
  <2>1. Answers(q1, fetches', userDefaults.tag, torn)
    BY <1>5, <1>6, <1>10, AnswersAppend
  <2>2. Answers(q2, fetches', userDefaults.tag, torn)
    BY <1>5, <1>9, <2>1, AnswersAppend
  <2> QED
    BY <1>5, <1>7, <1>9, <2>2, AnswersAppend
<1>12. /\ TagFirst(queue')
       /\ TagIsNext(queue') => TagIsNext(queue) /\ Head(queue') = Head(queue)
  <2>1. TagFirst(q1) /\ (TagIsNext(q1) => TagIsNext(q0) /\ Head(q1) = Head(q0))
    BY <1>5, <1>6, <1>8, TagFirstAppend
  <2>2. TagFirst(q2) /\ (TagIsNext(q2) => TagIsNext(q1) /\ Head(q2) = Head(q1))
    BY <1>5, <1>9, <2>1, TagFirstAppend
  <2>3. TagFirst(queue') /\ (TagIsNext(queue') => TagIsNext(q2) /\ Head(queue') = Head(q2))
    BY <1>5, <1>7, <1>9, <2>2, TagFirstAppend
  <2> QED
    BY <1>8, <2>1, <2>2, <2>3
<1>13. TagIsNext(queue) => TagIsNext(queue')
  <2> SUFFICES ASSUME TagIsNext(queue)
               PROVE  TagIsNext(queue')
    OBVIOUS
  <2>1. TagIsNext(q0)
    BY <1>8
  <2>2. TagIsNext(q1)
    BY <1>5, <1>6, <2>1 DEF TagIsNext
  <2>3. TagIsNext(q2)
    BY <1>5, <1>9, <2>2 DEF TagIsNext
  <2> QED
    BY <1>5, <1>7, <1>9, <2>3 DEF TagIsNext
<1>14. TagIsNext(queue) => fetches'[Head(queue).of] = fetches[Head(queue).of]
  BY <1>4, NextTag
<1>15. FetchedInv'
  BY <1>1, <1>12, <1>13, <1>14, FetchedKept DEF TagsInv
<1>16. CASE settings.made
  BY <1>1, <1>11, <1>15, <1>16, AppliedKept DEF AppBody, TagsInv, AnswersInv
<1>17. CASE ~settings.made
  <2>1. /\ settings'.made /\ settings'.lastApplyTime = disk.row.applyTime
    BY <1>17 DEF AppBody, NoSettings
  <2>2. AppliedInv /\ db = <<>> /\ ~content.loaded
    BY <1>17 DEF TagsInv, AppliedInv, TimesInv
  <2>3. disk.row.applyTime \in Nat
    BY DEF ConfigInv, DataInv, StorageInv, DiskUpTo, Rows
  <2>4. TimesInv'
    BY <1>1, <2>1, <2>2, <2>3 DEF AppliedInv, TimesInv
  <2>5. ActiveNow = disk.active /\ ActiveNow' = disk.active
    BY <1>1, <2>2 DEF ActiveNow
  <2>6. ClaimsInv'
    BY <1>1, <2>1, <2>2, <2>5 DEF AppliedInv, ClaimsInv, ClaimsIn, Claims
  <2>7. EndsAs(db', Len(db'), "active", disk'.active, ActiveNow')
    BY <1>1, <2>2, <2>5 DEF AppliedInv
  <2> QED
    BY <1>1, <1>11, <1>15, <2>4, <2>6, <2>7 DEF TagsInv, AnswersInv, AppliedInv
<1> QED
  BY <1>16, <1>17

-----------------------------------------------------------------------------
(* Steps of a fetch that run elsewhere. *)

\* Such a step, whatever it does to the answers.
LEMMA ElsewhereTags ==
  ASSUME ConfigInv, TagsInv, Elsewhere,
         settings'.made = settings.made, settings'.lastApplyTime = settings.lastApplyTime,
         NEW i \in 1..Len(fetches), fetches[i].stage # "queued",
         \A j \in 1..Len(fetches) : j # i => fetches'[j] = fetches[j],
         NEW t \in Tasks, t.do # "tag", queue' = Append(queue, t) \/ queue' = queue,
         Answers(queue', fetches', userDefaults.tag, torn)
  PROVE  TagsInv'
<1>1. UNCHANGED <<userDefaults, disk, db, content, clock, torn, setBack>>
  BY DEF Elsewhere, historyVars
<1>2. queue \in Seq(Tasks) /\ TagFirst(queue)
  BY InvTypes DEF TagsInv, FetchedInv
<1>3. TagFirst(queue') /\ (TagIsNext(queue') => TagIsNext(queue) /\ Head(queue') = Head(queue))
  BY <1>2, TagFirstAppend
<1>4. TagIsNext(queue) => TagIsNext(queue')
  BY <1>2 DEF TagIsNext
<1>5. TagIsNext(queue) => fetches'[Head(queue).of] = fetches[Head(queue).of]
  BY NextTag
<1>6. FetchedInv' /\ AppliedInv'
  BY <1>1, <1>3, <1>4, <1>5, FetchedKept, AppliedKept DEF TagsInv
<1> QED
  BY <1>1, <1>6 DEF TagsInv, AnswersInv

LEMMA TokenArrivesTags ==
  ASSUME ConfigInv, TagsInv, NEW i \in 1..Len(fetches), TokenArrives(i)
  PROVE  TagsInv'
<1> DEFINE t == [do |-> "request", of |-> i]
<1>1. /\ fetches[i].stage = "token" /\ fetches' = Moved(i, "request")
      /\ queue' = Append(queue, t) /\ UNCHANGED settings /\ Elsewhere
      /\ templates' = templates
  BY DEF TokenArrives, Elsewhere
<1>2. t \in Tasks /\ ~IsAnswer(t) /\ t.do # "tag"
  BY InvTypes DEF Tasks, IsAnswer
<1> HIDE DEF t
<1>3. QueueOK(queue, fetches) /\ queue \in Seq(Tasks)
  BY InvTypes DEF ConfigInv, FetchInv
<1>4. "request" \in Stages /\ "request" \notin SentStages
  BY DEF Stages, SentStages
<1>5. \A j \in 1..Len(fetches) : j # i => fetches'[j] = fetches[j]
  BY <1>1, <1>4, FetchSteps
<1>6. Answers(queue, fetches', userDefaults.tag, torn)
  <2>1. Answers(queue, fetches, userDefaults.tag, torn)
    BY DEF TagsInv, AnswersInv
  <2> QED
    BY <1>1, <1>3, <1>4, <2>1, AnswersMoved
<1>7. Answers(queue', fetches', userDefaults.tag, torn)
  BY <1>1, <1>2, <1>3, <1>6, AnswersAppend
<1> QED
  BY <1>1, <1>2, <1>5, <1>7, ElsewhereTags

LEMMA TokenOrRequestFailsTags ==
  ASSUME ConfigInv, TagsInv, NEW i \in 1..Len(fetches), TokenFails(i) \/ RequestFails(i)
  PROVE  TagsInv'
<1>1. PICK s \in {"failed", "refused"} :
        /\ fetches' = Moved(i, s)
        /\ s = "refused" => fetches[i].stage = "sent"
  BY DEF TokenFails, RequestFails, Reported
<1>2. /\ fetches[i].stage # "queued" /\ UNCHANGED queue /\ Elsewhere
      /\ templates' = templates
  BY DEF TokenFails, RequestFails, Elsewhere
<1>3. settings'.made = settings.made /\ settings'.lastApplyTime = settings.lastApplyTime
  BY InvTypes DEF TokenFails, RequestFails, Settings
<1>4. QueueOK(queue, fetches) /\ Answers(queue, fetches, userDefaults.tag, torn)
  BY DEF ConfigInv, FetchInv, TagsInv, AnswersInv
<1>5. s \in Stages /\ s \notin {"answered", "arrived", "arrivedRefused"}
      /\ (s \in SentStages => fetches[i].stage \in SentStages)
  BY <1>1 DEF Stages, SentStages
<1>6. \A j \in 1..Len(fetches) : j # i => fetches'[j] = fetches[j]
  BY <1>1, <1>2, <1>5, FetchSteps
<1>7. Answers(queue', fetches', userDefaults.tag, torn)
  BY <1>1, <1>2, <1>4, <1>5, AnswersMoved
<1>8. [do |-> "read"] \in Tasks /\ [do |-> "read"].do # "tag"
  BY DEF Tasks
<1> QED
  BY <1>2, <1>3, <1>6, <1>7, <1>8, ElsewhereTags

\* The server's latest template is no older than any answer before it.
LEMMA ServerAnswersTags ==
  ASSUME ConfigInv, TagsInv, NEW i \in 1..Len(fetches), ServerAnswers(i)
  PROVE  TagsInv'
<1>1. /\ fetches[i].stage = "sent" /\ UNCHANGED <<queue, settings>> /\ Elsewhere
      /\ fetches' = [fetches EXCEPT ![i].stage = "answered", ![i].got = Len(templates)]
  BY DEF ServerAnswers, Elsewhere
<1>2. /\ fetches \in Seq(Fetch(Len(templates))) /\ Len(templates) \in Nat
      /\ \A j \in 1..Len(fetches) : fetches[j] \in Fetch(Len(templates))
      /\ Len(fetches) \in Nat /\ QueueOK(queue, fetches)
  BY InvTypes DEF ConfigInv, FetchInv
<1>3. /\ Len(fetches') = Len(fetches)
      /\ \A j \in 1..Len(fetches) : j # i => fetches'[j] = fetches[j]
      /\ fetches'[i].stage = "answered" /\ fetches'[i].got = Len(templates)
      /\ fetches'[i].sent = fetches[i].sent
  BY <1>1, <1>2 DEF Fetch
<1>4. \A j \in 1..Len(fetches) : fetches[j].got <= Len(templates) /\ fetches[j].got \in Nat
  BY <1>2 DEF Fetch
<1>5. \A j \in 1..Len(fetches) : fetches'[j].got <= Len(templates)
  BY <1>2, <1>3, <1>4
<1>6. NotQueued(i, queue)
  BY <1>1, <1>2, NotQueuedUnless
<1>7. \A k \in 1..Len(queue) : IsAnswer(queue[k]) =>
        /\ queue[k].of \in 1..Len(fetches)
        /\ fetches'[queue[k].of] = fetches[queue[k].of]
  BY <1>2, <1>3, <1>6 DEF QueueOK, TasksFit, NotQueued, IsAnswer, IsOfFetch
<1>8. AnswersInOrder(queue, fetches) /\ TagIsNoNewer(userDefaults.tag, queue, fetches)
      /\ SentBefore(userDefaults.tag, fetches, torn)
  BY DEF TagsInv, AnswersInv, Answers
<1>9. AnswersInOrder(queue, fetches')
  <2>1. \A k, l \in 1..Len(queue) :
          k < l /\ IsAnswer(queue[k]) /\ IsAnswer(queue[l]) =>
            fetches'[queue[k].of].got <= fetches'[queue[l].of].got
    BY <1>7, <1>8 DEF AnswersInOrder
  <2>2. \A j \in 1..Len(fetches') :
          fetches'[j].stage \in {"answered", "arrived"} => Behind(fetches'[j].got, queue, fetches')
    <3> SUFFICES ASSUME NEW j \in 1..Len(fetches),
                        fetches'[j].stage \in {"answered", "arrived"}
                 PROVE  Behind(fetches'[j].got, queue, fetches')
      BY <1>3
    <3>1. CASE j = i
      BY <1>3, <1>5, <1>7, <3>1 DEF Behind
    <3>2. CASE j # i
      BY <1>3, <1>7, <1>8, <3>2 DEF AnswersInOrder, Behind
    <3> QED
      BY <3>1, <3>2
  <2>3. \A j, l \in 1..Len(fetches') :
          fetches'[j].stage = "answered" /\ fetches'[l].stage = "arrived" =>
            fetches'[l].got <= fetches'[j].got
    BY <1>3, <1>4, <1>8 DEF AnswersInOrder
  <2>4. \A j, l \in 1..Len(fetches') :
          /\ fetches'[j].stage \in {"arrived", "arrivedRefused"}
          /\ fetches'[l].stage \in {"arrived", "arrivedRefused"}
          => j = l
    BY <1>3, <1>8 DEF AnswersInOrder
  <2> QED
    BY <2>1, <2>2, <2>3, <2>4 DEF AnswersInOrder
<1>10. TagIsNoNewer(userDefaults.tag, queue, fetches')
  <2>1. userDefaults.tag <= Len(templates)
    BY <1>2 DEF ConfigInv, DataInv, StorageInv
  <2> QED
    BY <1>3, <1>7, <1>8, <2>1 DEF TagIsNoNewer
<1>11. SentBefore(userDefaults.tag, fetches', torn)
  <2>1. "sent" \in SentStages
    BY DEF SentStages
  <2> QED
    BY <1>1, <1>3, <1>8, <2>1 DEF SentBefore
<1>12. Answers(queue', fetches', userDefaults.tag, torn)
  BY <1>1, <1>9, <1>10, <1>11 DEF Answers
<1>13. [do |-> "read"] \in Tasks /\ [do |-> "read"].do # "tag"
  BY DEF Tasks
<1> QED
  BY <1>1, <1>3, <1>12, <1>13, ElsewhereTags

\* Only one answer is on the way at a time, so the next one waits behind it.
LEMMA AnswerArrivesTags ==
  ASSUME ConfigInv, TagsInv, NEW i \in 1..Len(fetches), AnswerArrives(i)
  PROVE  TagsInv'
<1> DEFINE s == IF fetches[i].stage = "answered" THEN "arrived" ELSE "arrivedRefused"
<1>1. /\ fetches[i].stage \in {"answered", "refused"} /\ fetches' = Moved(i, s)
      /\ \A j \in 1..Len(fetches) : fetches[j].stage \notin {"arrived", "arrivedRefused"}
      /\ UNCHANGED queue /\ Elsewhere /\ templates' = templates
  BY DEF AnswerArrives, Elsewhere
<1>2. settings'.made = settings.made /\ settings'.lastApplyTime = settings.lastApplyTime
  BY InvTypes DEF AnswerArrives, Settings
<1>3. /\ fetches \in Seq(Fetch(Len(templates))) /\ fetches[i] \in Fetch(Len(templates))
      /\ QueueOK(queue, fetches)
      /\ FlagOK(fetches, settings.isFetchInProgress)
  BY InvTypes DEF ConfigInv, FetchInv
<1>4. /\ Len(fetches') = Len(fetches)
      /\ \A j \in 1..Len(fetches) : j # i => fetches'[j] = fetches[j]
      /\ fetches'[i].stage = s /\ fetches'[i].got = fetches[i].got
      /\ fetches'[i].sent = fetches[i].sent
  BY <1>1, <1>3 DEF Moved, Fetch
<1>5. s \in {"arrived", "arrivedRefused"} /\ (s = "arrived" => fetches[i].stage = "answered")
  OBVIOUS
<1> HIDE DEF s
<1>6. \A j \in 1..Len(fetches) : fetches[j].stage = "answered" => j = i
  BY <1>1, <1>3 DEF FlagOK, InProgress
<1>7. \A j \in 1..Len(fetches) : fetches'[j].got = fetches[j].got
  BY <1>4
<1>8. \A k \in 1..Len(queue) :
        IsAnswer(queue[k]) => fetches'[queue[k].of].got = fetches[queue[k].of].got
  BY <1>3, <1>7 DEF QueueOK, TasksFit, IsAnswer, IsOfFetch
<1>9. AnswersInOrder(queue, fetches) /\ TagIsNoNewer(userDefaults.tag, queue, fetches)
      /\ SentBefore(userDefaults.tag, fetches, torn)
  BY DEF TagsInv, AnswersInv, Answers
<1>10. AnswersInOrder(queue, fetches')
  <2>1. \A k, l \in 1..Len(queue) :
          k < l /\ IsAnswer(queue[k]) /\ IsAnswer(queue[l]) =>
            fetches'[queue[k].of].got <= fetches'[queue[l].of].got
    BY <1>8, <1>9 DEF AnswersInOrder
  <2>2. \A j \in 1..Len(fetches') :
          fetches'[j].stage \in {"answered", "arrived"} =>
            j = i /\ fetches[i].stage = "answered"
    BY <1>1, <1>4, <1>5, <1>6
  <2>3. \A j \in 1..Len(fetches') :
          fetches'[j].stage \in {"answered", "arrived"} => Behind(fetches'[j].got, queue, fetches')
    BY <1>4, <1>8, <1>9, <2>2 DEF AnswersInOrder, Behind
  <2>4. \A j, l \in 1..Len(fetches') :
          fetches'[j].stage = "answered" /\ fetches'[l].stage = "arrived" =>
            fetches'[l].got <= fetches'[j].got
    BY <1>4, <1>5, <2>2
  <2>5. \A j, l \in 1..Len(fetches') :
          /\ fetches'[j].stage \in {"arrived", "arrivedRefused"}
          /\ fetches'[l].stage \in {"arrived", "arrivedRefused"}
          => j = l
    BY <1>1, <1>4
  <2> QED
    BY <2>1, <2>3, <2>4, <2>5 DEF AnswersInOrder
<1>11. TagIsNoNewer(userDefaults.tag, queue, fetches')
  BY <1>1, <1>4, <1>5, <1>8, <1>9 DEF TagIsNoNewer
<1>12. SentBefore(userDefaults.tag, fetches', torn)
  <2>1. fetches[i].stage \in SentStages
    BY <1>1 DEF SentStages
  <2> QED
    BY <1>4, <1>9, <2>1 DEF SentBefore
<1>13. Answers(queue', fetches', userDefaults.tag, torn)
  BY <1>1, <1>10, <1>11, <1>12 DEF Answers
<1>14. [do |-> "read"] \in Tasks /\ [do |-> "read"].do # "tag"
  BY DEF Tasks
<1>15. fetches[i].stage # "queued"
  BY <1>1
<1> QED
  BY <1>1, <1>2, <1>4, <1>13, <1>14, <1>15, ElsewhereTags

\* The answer takes its place behind those that are queued already.
LEMMA AnswerIsQueuedTags ==
  ASSUME ConfigInv, TagsInv, NEW i \in 1..Len(fetches), AnswerIsQueued(i)
  PROVE  TagsInv'
<1> DEFINE do == IF fetches[i].stage = "arrived" THEN "answer" ELSE "failure"
           t  == [do |-> do, of |-> i]
<1>1. /\ fetches[i].stage \in {"arrived", "arrivedRefused"} /\ fetches' = Moved(i, "queued")
      /\ queue' = Append(queue, t) /\ UNCHANGED settings /\ Elsewhere
      /\ templates' = templates
  BY DEF AnswerIsQueued, Elsewhere
<1>2. do \in {"answer", "failure"} /\ (do = "answer" => fetches[i].stage = "arrived")
  OBVIOUS
<1> HIDE DEF do
<1>3. /\ t \in Tasks /\ t.do # "tag" /\ t.of = i
      /\ IsAnswer(t) => fetches[i].stage = "arrived"
  BY <1>2, InvTypes DEF Tasks, IsAnswer
<1> HIDE DEF t
<1>4. /\ QueueOK(queue, fetches) /\ queue \in Seq(Tasks)
      /\ fetches \in Seq(Fetch(Len(templates))) /\ Len(templates) \in Nat
      /\ Answers(queue, fetches, userDefaults.tag, torn)
  BY InvTypes DEF ConfigInv, FetchInv, TagsInv, AnswersInv
<1>5. /\ "queued" \in Stages /\ fetches[i].stage \in SentStages
      /\ "queued" \notin {"answered", "arrived", "arrivedRefused"}
  BY <1>1 DEF Stages, SentStages
<1>6. Answers(queue, fetches', userDefaults.tag, torn)
  BY <1>1, <1>4, <1>5, AnswersMoved
<1>7. /\ Len(fetches') = Len(fetches)
      /\ fetches'[i].stage = "queued" /\ fetches'[i].got = fetches[i].got
      /\ \A j \in 1..Len(fetches) : j # i => fetches'[j] = fetches[j]
  BY <1>1, <1>5, FetchSteps
<1>8. Answers(queue', fetches', userDefaults.tag, torn)
  <2>1. CASE ~IsAnswer(t)
    BY <1>1, <1>3, <1>4, <1>6, <2>1, AnswersAppend
  <2>2. CASE IsAnswer(t)
    <3>1. fetches[i].stage = "arrived"
      BY <1>3, <2>2
    <3>2. \A k \in 1..Len(queue') : \/ k \in 1..Len(queue) /\ queue'[k] = queue[k]
                                    \/ k = Len(queue) + 1 /\ queue'[k] = t
      BY <1>1, <1>3, <1>4
    <3>3. AnswersInOrder(queue, fetches) /\ TagIsNoNewer(userDefaults.tag, queue, fetches)
      BY <1>4 DEF Answers
    <3>4. /\ AnswersInOrder(queue, fetches') /\ TagIsNoNewer(userDefaults.tag, queue, fetches')
          /\ SentBefore(userDefaults.tag, fetches', torn)
      BY <1>6 DEF Answers
    <3>5. \A k \in 1..Len(queue) :
            IsAnswer(queue[k]) => fetches'[queue[k].of].got = fetches[queue[k].of].got
      BY <1>4, <1>7 DEF QueueOK, TasksFit, IsAnswer, IsOfFetch
    <3>6. Behind(fetches[i].got, queue, fetches')
      BY <3>1, <3>3, <3>5 DEF AnswersInOrder, Behind
    <3>7. fetches[i].got \in Nat
      <4>1. fetches[i] \in Fetch(Len(templates))
        BY <1>4
      <4> QED
        BY <1>4, <4>1 DEF Fetch
    <3>8. AnswersInOrder(queue', fetches')
      <4>1. \A k, l \in 1..Len(queue') :
              k < l /\ IsAnswer(queue'[k]) /\ IsAnswer(queue'[l]) =>
                fetches'[queue'[k].of].got <= fetches'[queue'[l].of].got
        <5> SUFFICES ASSUME NEW k \in 1..Len(queue'), NEW l \in 1..Len(queue'), k < l,
                            IsAnswer(queue'[k]), IsAnswer(queue'[l])
                     PROVE  fetches'[queue'[k].of].got <= fetches'[queue'[l].of].got
          OBVIOUS
        <5>1. k \in 1..Len(queue) /\ queue'[k] = queue[k]
          BY <1>1, <1>4, <3>2
        <5>2. CASE l \in 1..Len(queue) /\ queue'[l] = queue[l]
          BY <3>4, <5>1, <5>2 DEF AnswersInOrder
        <5>3. CASE queue'[l] = t
          BY <1>3, <1>7, <3>6, <5>1, <5>3 DEF Behind
        <5> QED
          BY <3>2, <5>2, <5>3
      <4>2. \A j \in 1..Len(fetches') : fetches'[j].stage # "arrived"
        BY <1>1, <1>7, <3>3 DEF AnswersInOrder
      <4>3. \A j \in 1..Len(fetches') :
              fetches'[j].stage = "answered" => Behind(fetches'[j].got, queue', fetches')
        <5> SUFFICES ASSUME NEW j \in 1..Len(fetches), fetches'[j].stage = "answered"
                     PROVE  Behind(fetches'[j].got, queue', fetches')
          BY <1>7
        <5>1. j # i /\ fetches'[j] = fetches[j] /\ fetches[j].stage = "answered"
          BY <1>7
        <5>2. fetches[i].got <= fetches[j].got
          BY <3>1, <3>3, <5>1 DEF AnswersInOrder
        <5>3. Behind(fetches'[j].got, queue, fetches')
          BY <1>7, <3>4 DEF AnswersInOrder
        <5> QED
          BY <1>3, <1>7, <3>2, <5>1, <5>2, <5>3 DEF Behind
      <4>4. \A j, l \in 1..Len(fetches') :
              /\ fetches'[j].stage \in {"arrived", "arrivedRefused"}
              /\ fetches'[l].stage \in {"arrived", "arrivedRefused"}
              => j = l
        BY <3>4 DEF AnswersInOrder
      <4> QED
        BY <4>1, <4>2, <4>3, <4>4 DEF AnswersInOrder
    <3>9. TagIsNoNewer(userDefaults.tag, queue', fetches')
      BY <1>3, <1>7, <3>1, <3>2, <3>3, <3>4 DEF TagIsNoNewer
    <3> QED
      BY <3>4, <3>8, <3>9 DEF Answers
  <2> QED
    BY <2>1, <2>2
<1>9. fetches[i].stage # "queued"
  BY <1>1
<1> QED
  BY <1>1, <1>3, <1>7, <1>8, <1>9, ElsewhereTags

-----------------------------------------------------------------------------
(* Steps that write behind. *)

\* The metadata row goes to the database with a time that is known already.
LEMMA RowWritten ==
  ASSUME ConfigInv, NEW s \in Settings, NEW q, q = db \o ReplacesRow(s)
  PROVE  /\ \A table \in {"fetched", "active"} : \A d, v :
              EndsAs(db, Len(db), table, d, v) => EndsAs(q, Len(q), table, d, v)
         /\ (\A k \in 1..Len(db) : db[k].write \notin {"fetched", "active"})
              => \A k \in 1..Len(q) : q[k].write \notin {"fetched", "active"}
         /\ (\A k \in 1..Len(db) : db[k].write # "active")
              => \A k \in 1..Len(q) : q[k].write # "active"
         /\ \A b \in Nat :
              s.lastApplyTime <= b /\ (\A k \in 1..Len(db) : TimeOf(db[k]) <= b)
                => \A k \in 1..Len(q) : TimeOf(q[k]) <= b
         /\ \A d, v :
              /\ ClaimsIn(db, d, v)
              /\ Claims(s.lastApplyTime) => EndsAs(db, Len(db), "active", d, v)
              => ClaimsIn(q, d, v)
<1> DEFINE W == WritesUpTo(Len(templates))
           o1 == [write |-> "drop"]
           o2 == [write |-> "insert", row |-> RowOf(s)]
           r == Append(db, o1)
<1>1. db \in Seq(W) /\ Len(templates) \in Nat /\ userDefaults.tagTime \in Nat
  BY InvTypes DEF ConfigInv, DataInv, StorageInv
<1>2. RowOf(s) \in Rows /\ RowOf(s).applyTime = s.lastApplyTime /\ s.lastApplyTime \in Nat
  BY DEF RowOf, Rows, Settings
<1>3. /\ o1 \in W /\ o1.write \notin {"fetched", "active"} /\ TimeOf(o1) = 0
      /\ o2 \in W /\ o2.write \notin {"fetched", "active"} /\ TimeOf(o2) = s.lastApplyTime
  BY <1>2 DEF WritesUpTo, TimeOf
<1>4. q = Append(r, o2)
  BY <1>1, <1>3 DEF ReplacesRow
<1> HIDE DEF W, o1, o2
<1>5. r \in Seq(W) /\ Len(r) \in Nat
  BY <1>1, <1>3
<1>6. \A k \in 1..Len(q) : \/ k \in 1..Len(db) /\ q[k] = db[k]
                           \/ q[k] \in {o1, o2}
  BY <1>1, <1>3, <1>4
<1> HIDE DEF r
<1>7. ASSUME NEW table \in {"fetched", "active"}, NEW d, NEW v,
             EndsAs(db, Len(db), table, d, v)
      PROVE  EndsAs(r, Len(r), table, d, v) /\ EndsAs(q, Len(q), table, d, v)
  <2>1. EndsAs(r, Len(r), table, d, v)
    BY <1>1, <1>3, <1>7, EndsAppend DEF r
  <2> QED
    BY <1>3, <1>4, <1>5, <2>1, EndsAppend
<1>8. ASSUME NEW d, NEW v, ClaimsIn(db, d, v),
             Claims(s.lastApplyTime) => EndsAs(db, Len(db), "active", d, v)
      PROVE  ClaimsIn(q, d, v)
  <2>1. ~Claims(TimeOf(o1))
    BY <1>1, <1>3 DEF Claims
  <2>2. ClaimsIn(r, d, v)
    BY <1>1, <1>3, <1>8, <2>1, ClaimsAppend DEF r
  <2>3. Claims(TimeOf(o2)) => EndsAs(r, Len(r), "active", d, v)
    BY <1>3, <1>7, <1>8
  <2> QED
    BY <1>3, <1>4, <1>5, <2>2, <2>3, ClaimsAppend
<1>9. ASSUME NEW b \in Nat, s.lastApplyTime <= b,
             \A k \in 1..Len(db) : TimeOf(db[k]) <= b
      PROVE  \A k \in 1..Len(q) : TimeOf(q[k]) <= b
  <2>1. TimeOf(o1) <= b /\ TimeOf(o2) <= b
    BY <1>3, <1>9
  <2>2. ASSUME NEW k \in 1..Len(q)
        PROVE  TimeOf(q[k]) <= b
    <3>1. CASE k \in 1..Len(db) /\ q[k] = db[k]
      BY <1>9, <3>1
    <3>2. CASE q[k] = o1
      BY <2>1, <3>2
    <3>3. CASE q[k] = o2
      BY <2>1, <3>3
    <3> QED
      BY <1>6, <3>1, <3>2, <3>3
  <2> QED
    BY <2>2
<1>10. /\ (\A k \in 1..Len(db) : db[k].write \notin {"fetched", "active"})
            => \A k \in 1..Len(q) : q[k].write \notin {"fetched", "active"}
       /\ (\A k \in 1..Len(db) : db[k].write # "active")
            => \A k \in 1..Len(q) : q[k].write # "active"
  BY <1>3, <1>6
<1> QED
  BY <1>7, <1>8, <1>9, <1>10

\* Where nothing else is stored, the row claims no more than the memory does.
LEMMA RowKeeps ==
  ASSUME ConfigInv, TagsInv, settings.made,
         settings' \in Settings, db' = db \o ReplacesRow(settings'),
         settings'.made, settings'.lastApplyTime = settings.lastApplyTime,
         UNCHANGED <<userDefaults, disk, clock, torn, setBack, content>>
  PROVE  /\ AppliedInv'
         /\ EndsAs(db', Len(db'), "fetched", disk.fetched, FetchedNow)
         /\ ~content.loaded => \A k \in 1..Len(db') : db'[k].write \notin {"fetched", "active"}
<1>1. /\ EndsAs(db, Len(db), "fetched", disk.fetched, FetchedNow)
      /\ ~content.loaded => \A k \in 1..Len(db) : db[k].write \notin {"fetched", "active"}
      /\ EndsAs(db, Len(db), "active", disk.active, ActiveNow)
      /\ TimesInv /\ ClaimsInv
  BY DEF TagsInv, FetchedInv, AppliedInv
<1>2. FetchedNow' = FetchedNow /\ ActiveNow' = ActiveNow
  BY DEF FetchedNow, ActiveNow
<1>3. TimesInv'
  <2>1. settings.lastApplyTime \in Nat /\ settings.lastApplyTime <= settings.lastApplyTime
    BY InvTypes DEF Settings
  <2>2. (\A k \in 1..Len(db) : TimeOf(db[k]) <= settings.lastApplyTime)
          => \A k \in 1..Len(db') : TimeOf(db'[k]) <= settings.lastApplyTime
    BY <2>1, RowWritten
  <2> QED
    BY <1>1, <2>2 DEF TimesInv
<1>4. ClaimsInv'
  <2> SUFFICES ASSUME ~torn, ~setBack
               PROVE  ClaimsInv'
    BY DEF ClaimsInv
  <2>1. /\ Claims(settings.lastApplyTime) => ActiveNow = userDefaults.tag
        /\ Claims(disk.row.applyTime) =>
             disk.active = userDefaults.tag /\ \A k \in 1..Len(db) : db[k].write # "active"
        /\ ClaimsIn(db, disk.active, userDefaults.tag)
    BY <1>1 DEF ClaimsInv
  <2>2. Claims(settings'.lastApplyTime) =>
          EndsAs(db, Len(db), "active", disk.active, userDefaults.tag)
    BY <1>1, <2>1
  <2>3. ClaimsIn(db', disk.active, userDefaults.tag)
    BY <2>1, <2>2, RowWritten
  <2>4. Claims(disk.row.applyTime) => \A k \in 1..Len(db') : db'[k].write # "active"
    BY <2>1, RowWritten
  <2> QED
    BY <1>2, <2>1, <2>3, <2>4 DEF ClaimsInv, ClaimsIn, Claims
<1>5. EndsAs(db', Len(db'), "active", disk.active, ActiveNow)
  BY <1>1, RowWritten
<1>6. /\ EndsAs(db', Len(db'), "fetched", disk.fetched, FetchedNow)
      /\ ~content.loaded => \A k \in 1..Len(db') : db'[k].write \notin {"fetched", "active"}
  BY <1>1, RowWritten
<1> QED
  BY <1>2, <1>3, <1>4, <1>5, <1>6 DEF AppliedInv

LEMMA RunSettingsTags ==
  ASSUME ConfigInv, TagsInv, RunSettings \/ RunFailure
  PROVE  TagsInv'
<1>1. /\ Runs("settings") \/ Runs("failure")
      /\ queue' = Tail(queue) /\ db' = db \o ReplacesRow(settings')
      /\ UNCHANGED <<userDefaults, disk, clock, torn, setBack, content>>
  BY DEF RunSettings, RunFailure, historyVars
<1>2. settings' \in Settings /\ settings'.made = settings.made
      /\ settings'.lastApplyTime = settings.lastApplyTime
  BY InvTypes DEF RunSettings, RunFailure, Settings
<1>3. settings.made
  BY <1>1, HeadTask
<1>4. /\ ~TagIsNext(queue) /\ ~TagIsNext(queue') /\ TagFirst(queue')
      /\ Answers(queue', fetches, userDefaults.tag, torn)
  BY <1>1, TaskTaken
<1>5. AnswersInv'
  <2>1. CASE RunSettings
    BY <1>1, <1>4, <2>1 DEF RunSettings, AnswersInv
  <2>2. CASE RunFailure
    <3>1. /\ Head(queue).of \in 1..Len(fetches) /\ QueueOK(Tail(queue), fetches)
          /\ fetches' = Moved(Head(queue).of, "failed")
      BY <2>2, HeadTask DEF RunFailure, Reported, IsOfFetch
    <3>2. "failed" \in Stages /\ "failed" \notin SentStages
      BY DEF Stages, SentStages
    <3>3. Answers(queue', fetches', userDefaults.tag, torn)
      BY <1>1, <1>4, <3>1, <3>2, AnswersMoved
    <3> QED
      BY <1>1, <3>3 DEF AnswersInv
  <2> QED
    BY <2>1, <2>2
<1>6. /\ AppliedInv'
      /\ EndsAs(db', Len(db'), "fetched", disk.fetched, FetchedNow)
      /\ ~content.loaded => \A k \in 1..Len(db') : db'[k].write \notin {"fetched", "active"}
  BY <1>1, <1>2, <1>3, RowKeeps
<1>7. FetchedInv'
  <2>1. FetchedNow' = FetchedNow
    BY <1>1 DEF FetchedNow
  <2> QED
    BY <1>1, <1>4, <1>6, <2>1 DEF TagsInv, FetchedInv
<1> QED
  BY <1>5, <1>6, <1>7 DEF TagsInv

\* A fetched configuration goes to the database.
LEMMA FetchedWritten ==
  ASSUME ConfigInv, TagsInv, settings.made, NEW v \in 0..Len(templates),
         db' = db \o Replaces("fetched", v),
         UNCHANGED <<userDefaults, disk, settings, clock, torn, setBack>>,
         content.loaded, content'.loaded, content'.active = content.active
  PROVE  AppliedInv' /\ EndsAs(db', Len(db'), "fetched", disk.fetched, v)
<1> DEFINE W == WritesUpTo(Len(templates))
           o1 == [write |-> "fetched", version |-> 0]
           o2 == [write |-> "fetched", version |-> v]
           r == Append(db, o1)
<1>1. /\ db \in Seq(W) /\ Len(templates) \in Nat /\ userDefaults.tagTime \in Nat
      /\ settings.lastApplyTime \in Nat
  BY InvTypes DEF ConfigInv, DataInv, StorageInv, Settings
<1>2. /\ o1 \in W /\ o1.write = "fetched" /\ TimeOf(o1) = 0
      /\ o2 \in W /\ o2.write = "fetched" /\ o2.version = v /\ TimeOf(o2) = 0
  BY <1>1 DEF WritesUpTo, TimeOf
<1>3. db' = Append(r, o2)
  BY <1>1, <1>2 DEF Replaces
<1> HIDE DEF W, o1, o2
<1>4. r \in Seq(W) /\ Len(r) \in Nat
  BY <1>1, <1>2
<1>5. \A k \in 1..Len(db') : \/ k \in 1..Len(db) /\ db'[k] = db[k]
                             \/ db'[k].write = "fetched" /\ TimeOf(db'[k]) = 0
  BY <1>1, <1>2, <1>3
<1> HIDE DEF r
<1>6. EndsAs(db', Len(db'), "fetched", disk.fetched, v)
  BY <1>2, <1>3, <1>4, EndsAppend
<1>7. AppliedInv
  BY DEF TagsInv
<1>8. ActiveNow' = ActiveNow
  BY DEF ActiveNow
<1>9. EndsAs(db', Len(db'), "active", disk.active, ActiveNow)
  <2>1. EndsAs(r, Len(r), "active", disk.active, ActiveNow)
    BY <1>1, <1>2, <1>7, EndsAppend DEF AppliedInv, r
  <2> QED
    BY <1>2, <1>3, <1>4, <2>1, EndsAppend
<1>10. TimesInv'
  BY <1>1, <1>5, <1>7 DEF AppliedInv, TimesInv
<1>11. ClaimsInv'
  <2> SUFFICES ASSUME ~torn, ~setBack
               PROVE  ClaimsInv'
    BY DEF ClaimsInv
  <2>1. /\ Claims(settings.lastApplyTime) => ActiveNow = userDefaults.tag
        /\ Claims(disk.row.applyTime) =>
             disk.active = userDefaults.tag /\ \A k \in 1..Len(db) : db[k].write # "active"
        /\ ClaimsIn(db, disk.active, userDefaults.tag)
    BY <1>7 DEF AppliedInv, ClaimsInv
  <2>2. ~Claims(0)
    BY <1>1 DEF Claims
  <2>3. ClaimsIn(r, disk.active, userDefaults.tag)
    BY <1>1, <1>2, <2>1, <2>2, ClaimsAppend DEF r
  <2>4. ClaimsIn(db', disk.active, userDefaults.tag)
    BY <1>2, <1>3, <1>4, <2>2, <2>3, ClaimsAppend
  <2>5. Claims(disk.row.applyTime) => \A k \in 1..Len(db') : db'[k].write # "active"
    BY <1>5, <2>1
  <2> QED
    BY <1>8, <2>1, <2>4, <2>5 DEF ClaimsInv, ClaimsIn, Claims
<1> QED
  BY <1>6, <1>8, <1>9, <1>10, <1>11 DEF AppliedInv

LEMMA RunAnswerTags ==
  ASSUME ConfigInv, TagsInv, RunAnswer
  PROVE  TagsInv'
<1> DEFINE i == Head(queue).of
           t == [do |-> "tag", of |-> i]
           f == fetches[i]
<1>1. /\ Runs("answer") /\ queue # <<>> /\ content.loaded
      /\ queue' = <<t>> \o Tail(queue)
      /\ UNCHANGED <<userDefaults, disk, settings, fetches, clock, torn, setBack>>
  BY DEF RunAnswer, Runs, historyVars
<1>2. /\ i \in 1..Len(fetches) /\ settings.made /\ Head(queue).do = "answer"
      /\ queue \in Seq(Tasks) /\ fetches[i] \in Fetch(Len(templates))
  BY <1>1, HeadTask, InvTypes DEF IsOfFetch
<1>3. f.got \in 0..Len(templates)
  BY <1>2 DEF Fetch
<1>4. \/ /\ f.got # f.sent
         /\ content' = [content EXCEPT !.fetched = f.got]
         /\ db' = db \o Replaces("fetched", f.got)
      \/ f.got = f.sent /\ UNCHANGED <<content, db>>
  BY DEF RunAnswer
<1>5. /\ content'.loaded /\ content'.active = content.active
      /\ f.got # f.sent => content'.fetched = f.got
      /\ f.got = f.sent => content' = content
  BY <1>1, <1>4 DEF ConfigInv, DataInv, MemoryInv
<1>6. /\ TagFirst(queue) /\ ~TagIsNext(queue) /\ Answers(queue, fetches, userDefaults.tag, torn)
      /\ AppliedInv /\ FetchedInv
  BY <1>1, TaskTaken DEF TagsInv, AnswersInv, FetchedInv
<1>7. /\ Len(queue') = Len(queue) /\ Head(queue') = t /\ queue' # <<>> /\ queue'[1] = t
      /\ Head(queue) = queue[1]
      /\ \A k \in 2..Len(queue) : queue'[k] = queue[k]
  BY <1>1, <1>2
<1>8. t.do = "tag" /\ t.of = i
  OBVIOUS
<1> HIDE DEF t
<1>9. AnswersInv'
  <2>1. \A k \in 1..Len(queue') : IsAnswer(queue'[k]) =>
          k \in 1..Len(queue) /\ IsAnswer(queue[k]) /\ queue'[k].of = queue[k].of
    BY <1>2, <1>7, <1>8 DEF IsAnswer
  <2>2. /\ AnswersInOrder(queue, fetches) /\ TagIsNoNewer(userDefaults.tag, queue, fetches)
        /\ SentBefore(userDefaults.tag, fetches, torn)
    BY <1>6 DEF Answers
  <2>3. AnswersInOrder(queue', fetches)
    BY <2>1, <2>2 DEF AnswersInOrder, Behind
  <2>4. TagIsNoNewer(userDefaults.tag, queue', fetches)
    BY <2>1, <2>2 DEF TagIsNoNewer
  <2> QED
    BY <1>1, <2>2, <2>3, <2>4 DEF AnswersInv, Answers
<1>10. TagFirst(queue')
  BY <1>6, <1>7 DEF TagFirst
<1>11. f.got = f.sent /\ ~torn => content'.fetched = userDefaults.tag
  BY <1>1, <1>5, <1>6 DEF FetchedInv, FetchedNow
<1>12. AppliedInv' /\ EndsAs(db', Len(db'), "fetched", disk.fetched, content'.fetched)
  <2>1. CASE f.got # f.sent
    BY <1>1, <1>2, <1>3, <1>4, <1>5, <2>1, FetchedWritten
  <2>2. CASE f.got = f.sent
    <3>1. UNCHANGED <<content, db>>
      BY <1>4, <2>2
    <3>2. AppliedInv'
      BY <1>1, <1>6, <3>1, AppliedKept
    <3> QED
      BY <1>1, <1>6, <3>1, <3>2 DEF FetchedInv, FetchedNow
  <2> QED
    BY <2>1, <2>2
<1>13. FetchedInv'
  BY <1>1, <1>5, <1>7, <1>8, <1>10, <1>11, <1>12 DEF FetchedInv, FetchedNow, TagIsNext
<1> QED
  BY <1>9, <1>12, <1>13 DEF TagsInv

\* The ETag is stored: no time there is claims anything of a new one, and the
\* stores are no longer torn if the configuration came with it.
LEMMA RunTagTags ==
  ASSUME ConfigInv, TagsInv, RunTag
  PROVE  TagsInv'
<1> DEFINE i == Head(queue).of
           f == fetches[i]
<1>1. /\ Runs("tag") /\ queue' = Tail(queue) /\ fetches' = Moved(i, "ok")
      /\ UNCHANGED <<templates, disk, content, setBack>>
      /\ clock' = clock + 1
      /\ userDefaults' = [tag |-> IF NewTag(f.got) THEN f.got ELSE userDefaults.tag,
                          tagTime |-> IF NewTag(f.got) THEN clock' ELSE userDefaults.tagTime,
                          fetchTime |-> clock']
      /\ settings' = [settings EXCEPT !.lastFetchStatus = "success",
                                      !.deviceContext = TRUE]
      /\ db' = db \o ReplacesRow(settings')
      /\ torn' = (torn /\ f.got = f.sent)
  BY DEF RunTag, Reported
<1>2. /\ i \in 1..Len(fetches) /\ settings.made /\ f.stage = "queued"
      /\ queue # <<>> /\ Head(queue).do = "tag" /\ Head(queue) = queue[1]
      /\ 1 \in 1..Len(queue) /\ queue \in Seq(Tasks)
      /\ QueueOK(Tail(queue), fetches)
  BY <1>1, HeadTask, InvTypes DEF IsOfFetch, Fits, Runs
<1>3. f \in Fetch(Len(templates)) /\ Len(templates) \in Nat
  BY <1>2, InvTypes
<1>4. f.got \in Nat /\ f.sent \in Nat
  BY <1>3 DEF Fetch
<1> HIDE DEF i, f
<1>5. /\ userDefaults.tag \in Nat /\ userDefaults.tagTime \in Nat /\ clock \in Nat
      /\ disk.row.applyTime \in Nat /\ torn \in BOOLEAN
  BY DEF ConfigInv, DataInv, StorageInv, ClockInv, DiskUpTo, Rows
<1>6. /\ settings' \in Settings /\ settings'.made = settings.made
      /\ settings'.lastApplyTime = settings.lastApplyTime
  BY <1>1, InvTypes DEF Settings
<1>7. userDefaults'.tag = f.got
  BY <1>1 DEF NewTag
<1>8. /\ AnswersInOrder(queue, fetches) /\ TagIsNoNewer(userDefaults.tag, queue, fetches)
      /\ SentBefore(userDefaults.tag, fetches, torn)
  BY DEF TagsInv, AnswersInv, Answers
<1>9. /\ f.sent <= userDefaults.tag /\ (torn => f.sent = userDefaults.tag)
      /\ userDefaults.tag <= f.got
  <2>1. "queued" \in SentStages
    BY DEF SentStages
  <2>2. IsAnswer(queue[1]) /\ queue[1].of = i
    BY <1>2 DEF IsAnswer, i
  <2> QED
    BY <1>2, <1>8, <2>1, <2>2 DEF SentBefore, TagIsNoNewer, f
<1>10. torn' => userDefaults'.tag = userDefaults.tag
  BY <1>1, <1>7, <1>9
<1>11. torn /\ ~torn' => NewTag(f.got)
  BY <1>1, <1>9 DEF NewTag
<1>12. AnswersInv'
  <2>1. \A k \in 1..Len(Tail(queue)) :
          k + 1 \in 1..Len(queue) /\ Tail(queue)[k] = queue[k + 1] /\ 1 < k + 1
    BY <1>2
  <2>2. TagIsNoNewer(f.got, Tail(queue), fetches)
    <3>1. IsAnswer(queue[1]) /\ queue[1].of = i
      BY <1>2 DEF IsAnswer, i
    <3>2. \A k \in 1..Len(Tail(queue)) : IsAnswer(Tail(queue)[k]) =>
            f.got <= fetches[Tail(queue)[k].of].got
      BY <1>2, <1>8, <2>1, <3>1 DEF AnswersInOrder, f
    <3>3. \A j \in 1..Len(fetches) : fetches[j].stage \in {"answered", "arrived"} =>
            f.got <= fetches[j].got
      BY <1>2, <1>8, <3>1 DEF AnswersInOrder, Behind, f
    <3> QED
      BY <3>2, <3>3 DEF TagIsNoNewer
  <2>3. SentBefore(f.got, fetches, torn')
    <3> SUFFICES ASSUME NEW j \in 1..Len(fetches), fetches[j].stage \in SentStages
                 PROVE  fetches[j].sent <= f.got /\ (torn' => fetches[j].sent = f.got)
      BY DEF SentBefore
    <3>1. fetches[j].sent <= userDefaults.tag /\ (torn => fetches[j].sent = userDefaults.tag)
      BY <1>8 DEF SentBefore
    <3>2. fetches[j].sent \in Nat
      <4>1. fetches[j] \in Fetch(Len(templates))
        BY InvTypes
      <4> QED
        BY <1>3, <4>1 DEF Fetch
    <3> QED
      BY <1>1, <1>4, <1>5, <1>7, <1>9, <1>10, <3>1, <3>2
  <2>4. AnswersInOrder(Tail(queue), fetches)
    <3>1. Answers(queue, fetches, userDefaults.tag, torn)
      BY <1>8 DEF Answers
    <3> QED
      BY <1>2, <3>1, AnswersTail DEF Answers
  <2>5. Answers(Tail(queue), fetches, f.got, torn')
    BY <2>2, <2>3, <2>4 DEF Answers
  <2>6. "ok" \in Stages /\ "ok" \notin SentStages
    BY DEF Stages, SentStages
  <2>7. Answers(Tail(queue), fetches', f.got, torn')
    BY <1>1, <1>2, <2>5, <2>6, AnswersMoved
  <2> QED
    BY <1>1, <1>7, <2>7 DEF AnswersInv
<1>13. FetchedInv'
  <2>1. TagFirst(queue') /\ ~TagIsNext(queue')
    BY <1>1, <1>2, TagFirstTail DEF TagsInv, FetchedInv
  <2>2. TagIsNext(queue)
    BY <1>2 DEF TagIsNext
  <2>3. /\ content.loaded
        /\ f.got # f.sent => content.fetched = f.got
        /\ f.got = f.sent /\ ~torn => content.fetched = userDefaults.tag
    BY <2>2 DEF TagsInv, FetchedInv, f, i
  <2>4. FetchedNow' = content.fetched /\ FetchedNow = content.fetched
    BY <1>1, <2>3 DEF FetchedNow
  <2>5. ~torn' => content.fetched = f.got
    <3>1. CASE f.got # f.sent
      BY <2>3, <3>1
    <3>2. CASE f.got = f.sent
      BY <1>1, <1>4, <1>5, <1>9, <2>3, <3>2
    <3> QED
      BY <3>1, <3>2
  <2>6. EndsAs(db', Len(db'), "fetched", disk.fetched, FetchedNow)
    BY <1>1, <1>6, RowWritten DEF TagsInv, FetchedInv
  <2> QED
    BY <1>1, <1>7, <2>1, <2>3, <2>4, <2>5, <2>6 DEF FetchedInv
<1>14. AppliedInv
  BY DEF TagsInv
<1>15. ActiveNow' = ActiveNow
  BY <1>1 DEF ActiveNow
<1>16. EndsAs(db', Len(db'), "active", disk.active, ActiveNow)
  BY <1>1, <1>6, <1>14, RowWritten DEF AppliedInv
<1>17. settings.lastApplyTime \in Nat
  BY InvTypes DEF Settings
<1>18. TimesInv'
  <2>1. (\A k \in 1..Len(db) : TimeOf(db[k]) <= settings.lastApplyTime)
          => \A k \in 1..Len(db') : TimeOf(db'[k]) <= settings.lastApplyTime
    <3>1. settings'.lastApplyTime <= settings.lastApplyTime
      BY <1>6, <1>17
    <3>2. \A b \in Nat :
            settings'.lastApplyTime <= b /\ (\A k \in 1..Len(db) : TimeOf(db[k]) <= b)
              => \A k \in 1..Len(db') : TimeOf(db'[k]) <= b
      BY <1>1, <1>6, RowWritten
    <3> QED
      BY <1>17, <3>1, <3>2
  <2>2. ~setBack => userDefaults'.tagTime <= clock'
    BY <1>1, <1>5, <1>14 DEF AppliedInv, TimesInv
  <2>3. ~setBack => settings'.lastApplyTime <= clock' /\ disk'.row.applyTime <= clock'
    BY <1>1, <1>5, <1>6, <1>14, <1>17 DEF AppliedInv, TimesInv
  <2> QED
    BY <1>1, <1>2, <1>6, <1>14, <2>1, <2>2, <2>3 DEF AppliedInv, TimesInv
<1>19. ClaimsInv'
  <2> SUFFICES ASSUME ~torn', ~setBack
               PROVE  ClaimsInv'
    BY <1>1 DEF ClaimsInv
  <2>1. CASE NewTag(f.got)
    <3>1. userDefaults'.tagTime = clock + 1
      BY <1>1, <2>1
    <3>2. settings'.lastApplyTime <= clock /\ disk'.row.applyTime <= clock
      BY <1>1, <1>6, <1>14 DEF AppliedInv, TimesInv
    <3>3. \A k \in 1..Len(db') : TimeOf(db'[k]) <= settings.lastApplyTime
      BY <1>1, <1>2, <1>6, <1>18 DEF TimesInv
    <3>4. \A k \in 1..Len(db') : TimeOf(db'[k]) \in Nat
      <4>1. ConfigInv'
        BY RunTagKeeps
      <4>2. db' \in Seq(WritesUpTo(Len(templates)'))
        BY <4>1 DEF ConfigInv, DataInv, StorageInv
      <4>3. \A k \in 1..Len(db') : db'[k] \in WritesUpTo(Len(templates)')
        BY <4>2
      <4> QED
        BY <4>3, TimeIsNat
    <3>5. \A k \in 1..Len(db') : ~(clock + 1 <= TimeOf(db'[k]))
      BY <1>5, <1>6, <1>17, <3>2, <3>3, <3>4
    <3>6. ~Claims(settings.lastApplyTime)' /\ ~Claims(disk.row.applyTime)'
      BY <1>1, <1>5, <1>6, <1>17, <3>1, <3>2 DEF Claims
    <3>7. ClaimsIn(db, disk.active, userDefaults.tag)'
      BY <3>1, <3>5 DEF ClaimsIn, Claims
    <3> QED
      BY <3>6, <3>7 DEF ClaimsInv
  <2>2. CASE ~NewTag(f.got)
    <3>1. ~torn /\ userDefaults'.tag = userDefaults.tag
          /\ userDefaults'.tagTime = userDefaults.tagTime
      BY <1>1, <1>5, <1>11, <2>2
    <3>2. /\ Claims(settings.lastApplyTime) => ActiveNow = userDefaults.tag
          /\ Claims(disk.row.applyTime) =>
               disk.active = userDefaults.tag /\ \A k \in 1..Len(db) : db[k].write # "active"
          /\ ClaimsIn(db, disk.active, userDefaults.tag)
      BY <1>14, <3>1 DEF AppliedInv, ClaimsInv
    <3>3. Claims(settings'.lastApplyTime) =>
            EndsAs(db, Len(db), "active", disk.active, userDefaults.tag)
      BY <1>6, <1>14, <3>2 DEF AppliedInv
    <3>4. ClaimsIn(db', disk.active, userDefaults.tag)
      BY <1>1, <1>6, <3>2, <3>3, RowWritten
    <3>5. Claims(disk.row.applyTime) => \A k \in 1..Len(db') : db'[k].write # "active"
      BY <1>1, <1>6, <3>2, RowWritten
    <3> QED
      BY <1>1, <1>6, <1>15, <3>1, <3>2, <3>4, <3>5 DEF ClaimsInv, ClaimsIn, Claims
  <2> QED
    BY <2>1, <2>2
<1> QED
  BY <1>1, <1>12, <1>13, <1>15, <1>16, <1>18, <1>19 DEF TagsInv, AppliedInv

\* Two operations and a third, handed over together, are handed over one by one.
LEMMA ConcatThree ==
  ASSUME NEW S, NEW s \in Seq(S), NEW a \in S, NEW b \in S, NEW c \in S
  PROVE  s \o (<<a, b>> \o <<c>>) = Append(Append(Append(s, a), b), c)
<1> DEFINE p == <<a, b>>
           q == <<c>>
           e == Append(Append(s, a), b)
<1>1. p \in Seq(S) /\ q \in Seq(S)
  OBVIOUS
<1>2. e = s \o p /\ e \in Seq(S)
  OBVIOUS
<1>3. Append(e, c) = e \o q
  BY <1>1, <1>2
<1> HIDE DEF p, q, e
<1>4. (s \o p) \o q = s \o (p \o q)
  BY <1>1
<1> QED
  BY <1>2, <1>3, <1>4 DEF p, q, e

\* An activation is due only if every time that is known, in memory, on disk and
\* on its way there, is older than the ETag.
LEMMA RunActivateTags ==
  ASSUME ConfigInv, TagsInv, RunActivate
  PROVE  TagsInv'
<1> DEFINE W == WritesUpTo(Len(templates))
           v == content.fetched
           o1 == [write |-> "active", version |-> 0]
           o2 == [write |-> "active", version |-> v]
           o3 == [write |-> "update", time |-> clock']
           r1 == Append(db, o1)
           r2 == Append(r1, o2)
<1>1. /\ Runs("activate") /\ queue' = Tail(queue) /\ content.loaded
      /\ UNCHANGED <<userDefaults, disk, fetches, torn, setBack>>
  BY DEF RunActivate, Runs, historyVars
<1>2. /\ ~TagIsNext(queue) /\ ~TagIsNext(queue') /\ TagFirst(queue')
      /\ Answers(queue', fetches, userDefaults.tag, torn)
      /\ settings.made
  BY <1>1, TaskTaken, HeadTask
<1>3. AnswersInv'
  BY <1>1, <1>2 DEF AnswersInv
<1>4. FetchedInv /\ AppliedInv
  BY DEF TagsInv
<1>5. CASE UNCHANGED <<db, content, settings, clock>>
  <2>1. FetchedInv' /\ AppliedInv'
    BY <1>1, <1>2, <1>4, <1>5, FetchedKept, AppliedKept
  <2> QED
    BY <1>3, <2>1 DEF TagsInv
<1>6. CASE ~(userDefaults.tagTime = 0 \/ IsApplied)
  <2>1. /\ content' = [content EXCEPT !.active = v]
        /\ clock' = clock + 1
        /\ settings' = [settings EXCEPT !.lastApplyTime = clock']
        /\ db' = db \o ActivationWrites(v, clock')
    BY <1>6 DEF RunActivate
  <2>2. /\ db \in Seq(W) /\ Len(templates) \in Nat /\ userDefaults.tagTime \in Nat
        /\ settings.lastApplyTime \in Nat /\ clock \in Nat /\ disk.row.applyTime \in Nat
        /\ v \in 0..Len(templates)
    BY InvTypes
       DEF ConfigInv, DataInv, StorageInv, MemoryInv, ClockInv, Settings, DiskUpTo, Rows
  <2>3. /\ content'.loaded /\ content'.fetched = v /\ content'.active = v
        /\ settings'.made /\ settings'.lastApplyTime = clock + 1
    BY <1>1, <1>2, <2>1, InvTypes DEF ConfigInv, DataInv, MemoryInv, Settings
  <2>4. /\ o1 \in W /\ o1.write = "active" /\ TimeOf(o1) = 0
        /\ o2 \in W /\ o2.write = "active" /\ o2.version = v /\ TimeOf(o2) = 0
        /\ o3 \in W /\ o3.write = "update" /\ TimeOf(o3) = clock + 1
    BY <2>1, <2>2 DEF WritesUpTo, TimeOf
  <2>5. db' = Append(r2, o3)
    <3>1. ActivationWrites(v, clock') = <<o1, o2>> \o <<o3>>
      BY DEF ActivationWrites, Replaces
    <3>2. db \o (<<o1, o2>> \o <<o3>>) = Append(r2, o3)
      BY <2>2, <2>4, ConcatThree
    <3> QED
      BY <2>1, <3>1, <3>2
  <2> HIDE DEF W, o1, o2, o3
  <2>6. r1 \in Seq(W) /\ r2 \in Seq(W) /\ Len(r2) \in Nat
    BY <2>2, <2>4
  <2>7. /\ \A k \in 1..Len(r1) : (k \in 1..Len(db) /\ r1[k] = db[k]) \/ r1[k] = o1
        /\ \A k \in 1..Len(r2) : (k \in 1..Len(r1) /\ r2[k] = r1[k]) \/ r2[k] = o2
        /\ \A k \in 1..Len(db') : (k \in 1..Len(r2) /\ db'[k] = r2[k]) \/ db'[k] = o3
    BY <2>2, <2>4, <2>5
  <2> HIDE DEF v, r1, r2
  <2>8. FetchedInv'
    <3>1. EndsAs(db, Len(db), "fetched", disk.fetched, v)
      BY <1>1, <1>4 DEF FetchedInv, FetchedNow, v
    <3>2. EndsAs(r1, Len(r1), "fetched", disk.fetched, v)
      BY <2>2, <2>4, <3>1, EndsAppend DEF r1
    <3>3. EndsAs(r2, Len(r2), "fetched", disk.fetched, v)
      BY <2>4, <2>6, <3>2, EndsAppend DEF r2
    <3>4. EndsAs(db', Len(db'), "fetched", disk.fetched, v)
      BY <2>4, <2>5, <2>6, <3>3, EndsAppend
    <3> QED
      BY <1>1, <1>2, <1>4, <2>3, <3>4 DEF FetchedInv, FetchedNow, v
  <2>9. EndsAs(r2, Len(r2), "active", disk.active, v)
    BY <2>4, <2>6, EndsAppend DEF r2
  <2>10. EndsAs(db', Len(db'), "active", disk.active, v)
    BY <2>4, <2>5, <2>6, <2>9, EndsAppend
  <2>11. ActiveNow' = v
    BY <2>3 DEF ActiveNow
  <2>12. ~setBack =>
           /\ userDefaults.tagTime <= clock /\ disk.row.applyTime <= clock
           /\ settings.lastApplyTime <= clock
           /\ disk.row.applyTime <= settings.lastApplyTime
           /\ \A k \in 1..Len(db) : TimeOf(db[k]) <= settings.lastApplyTime
    BY <1>2, <1>4 DEF AppliedInv, TimesInv
  <2>13. \A k \in 1..Len(db) : TimeOf(db[k]) \in Nat
    <3>1. \A k \in 1..Len(db) : db[k] \in WritesUpTo(Len(templates))
      BY <2>2 DEF W
    <3> QED
      BY <3>1, TimeIsNat
  <2>14. TimesInv'
    <3> SUFFICES ASSUME ~setBack
                 PROVE  TimesInv'
      BY <1>1, <2>3 DEF TimesInv
    <3>1. \A k \in 1..Len(db) : TimeOf(db[k]) <= clock + 1
      BY <2>2, <2>12, <2>13
    <3>2. \A k \in 1..Len(r1) : TimeOf(r1[k]) <= clock + 1
      BY <2>2, <2>4, <2>7, <3>1
    <3>3. \A k \in 1..Len(r2) : TimeOf(r2[k]) <= clock + 1
      BY <2>2, <2>4, <2>7, <3>2
    <3>4. \A k \in 1..Len(db') : TimeOf(db'[k]) <= clock + 1
      BY <2>2, <2>4, <2>7, <3>3
    <3> QED
      BY <1>1, <2>1, <2>2, <2>3, <2>12, <3>4 DEF TimesInv
  <2>15. ClaimsInv'
    <3> SUFFICES ASSUME ~torn, ~setBack
                 PROVE  ClaimsInv'
      BY <1>1 DEF ClaimsInv
    <3>1. userDefaults.tagTime # 0 /\ settings.lastApplyTime < userDefaults.tagTime
      BY <1>6, <2>2 DEF IsApplied
    <3>2. /\ ~Claims(disk.row.applyTime) /\ ~Claims(0)
          /\ \A k \in 1..Len(db) : ~Claims(TimeOf(db[k]))
      BY <2>2, <2>12, <2>13, <3>1 DEF Claims
    <3>3. v = userDefaults.tag
      BY <1>1, <1>2, <1>4 DEF FetchedInv, FetchedNow, v
    <3>4. ClaimsIn(db, disk.active, v)
      BY <3>2 DEF ClaimsIn
    <3>5. ClaimsIn(r1, disk.active, v) /\ \A k \in 1..Len(r1) : ~Claims(TimeOf(r1[k]))
      BY <2>2, <2>4, <2>7, <3>2, <3>4, ClaimsAppend DEF r1
    <3>6. ClaimsIn(r2, disk.active, v)
      BY <2>4, <2>6, <3>2, <3>5, ClaimsAppend DEF r2
    <3>7. ClaimsIn(db', disk.active, v)
      BY <2>4, <2>5, <2>6, <2>9, <3>6, ClaimsAppend
    <3> QED
      BY <1>1, <2>11, <3>2, <3>3, <3>7 DEF ClaimsInv, ClaimsIn, Claims
  <2> QED
    BY <1>1, <1>3, <2>8, <2>10, <2>11, <2>14, <2>15 DEF TagsInv, AppliedInv
<1> QED
  BY <1>5, <1>6 DEF RunActivate

\* An operation reaches the disk: what was on its way is there.
LEMMA DatabaseStepTags ==
  ASSUME ConfigInv, TagsInv, DatabaseStep
  PROVE  TagsInv'
<1> DEFINE W == WritesUpTo(Len(templates))
           op == db[1]
<1>1. /\ db # <<>> /\ disk' = Stored(Head(db), disk) /\ db' = Tail(db)
      /\ UNCHANGED <<userDefaults, queue, content, settings, fetches, clock, torn, setBack>>
  BY DEF DatabaseStep, historyVars
<1>2. /\ db \in Seq(W) /\ Len(templates) \in Nat /\ disk \in DiskUpTo(Len(templates))
      /\ userDefaults.tagTime \in Nat /\ settings.lastApplyTime \in Nat
  BY InvTypes DEF ConfigInv, DataInv, StorageInv, Settings
<1>3. /\ op \in W /\ Head(db) = op /\ Len(db) \in 1..Len(db) /\ 1 \in 1..Len(db)
      /\ Len(db') = Len(db) - 1
      /\ \A k \in 1..Len(db') : k + 1 \in 1..Len(db) /\ db'[k] = db[k + 1] /\ 1 < k + 1
  BY <1>1, <1>2
<1>4. /\ disk'.fetched = IF op.write = "fetched" THEN op.version ELSE disk.fetched
      /\ disk'.active = IF op.write = "active" THEN op.version ELSE disk.active
      /\ \/ disk'.row.applyTime = TimeOf(op)
         \/ op.write \in {"fetched", "active"} /\ disk'.row = disk.row
  <2>1. CASE op \in [write : {"fetched", "active"}, version : 0..Len(templates)]
    BY <1>1, <1>2, <1>3, <2>1 DEF Stored, DiskUpTo
  <2>2. CASE op \in [write : {"drop"}]
    BY <1>1, <1>2, <1>3, <2>2 DEF Stored, DiskUpTo, TimeOf, EmptyRow
  <2>3. CASE op \in [write : {"insert"}, row : Rows]
    BY <1>1, <1>2, <1>3, <2>3 DEF Stored, DiskUpTo, TimeOf
  <2>4. CASE op \in [write : {"update"}, time : Nat]
    BY <1>1, <1>2, <1>3, <2>4 DEF Stored, DiskUpTo, Rows, TimeOf
  <2> QED
    BY <1>3, <2>1, <2>2, <2>3, <2>4 DEF WritesUpTo
<1>5. TimeOf(op) \in Nat
  BY <1>3, TimeIsNat
<1> HIDE DEF W
<1>6. FetchedInv /\ AppliedInv
  BY DEF TagsInv
<1>7. ~content.loaded => op.write \notin {"fetched", "active"}
  BY <1>3, <1>6 DEF FetchedInv
<1>8. FetchedNow' = FetchedNow /\ ActiveNow' = ActiveNow
  BY <1>1, <1>4, <1>7 DEF FetchedNow, ActiveNow
<1>9. EndsAs(db', Len(db'), "fetched", disk'.fetched, FetchedNow)
  BY <1>1, <1>2, <1>3, <1>4, <1>6, EndsTail DEF FetchedInv
<1>10. EndsAs(db', Len(db'), "active", disk'.active, ActiveNow)
  BY <1>1, <1>2, <1>3, <1>4, <1>6, EndsTail DEF AppliedInv
<1>11. FetchedInv'
  BY <1>1, <1>3, <1>6, <1>8, <1>9 DEF FetchedInv
<1>12. settings.made
  BY <1>1, <1>6 DEF AppliedInv, TimesInv
<1>13. TimesInv'
  <2>1. ~setBack =>
          /\ userDefaults.tagTime <= clock /\ settings.lastApplyTime <= clock
          /\ disk.row.applyTime <= clock /\ disk.row.applyTime <= settings.lastApplyTime
          /\ \A k \in 1..Len(db) : TimeOf(db[k]) <= settings.lastApplyTime
    BY <1>6, <1>12 DEF AppliedInv, TimesInv
  <2>2. clock \in Nat
    BY DEF ConfigInv, DataInv, ClockInv
  <2>3. ~setBack => TimeOf(op) <= settings.lastApplyTime /\ TimeOf(op) <= clock
    BY <1>2, <1>3, <1>5, <2>1, <2>2
  <2>4. ~setBack => disk'.row.applyTime <= clock
                    /\ disk'.row.applyTime <= settings.lastApplyTime
    BY <1>4, <2>1, <2>3
  <2>5. ~setBack => \A k \in 1..Len(db') : TimeOf(db'[k]) <= settings.lastApplyTime
    BY <1>3, <2>1
  <2> QED
    BY <1>1, <1>12, <2>1, <2>4, <2>5 DEF TimesInv
<1>14. ClaimsInv'
  <2> SUFFICES ASSUME ~torn, ~setBack
               PROVE  ClaimsInv'
    BY <1>1 DEF ClaimsInv
  <2>1. /\ Claims(settings.lastApplyTime) => ActiveNow = userDefaults.tag
        /\ Claims(disk.row.applyTime) =>
             disk.active = userDefaults.tag /\ \A k \in 1..Len(db) : db[k].write # "active"
        /\ ClaimsIn(db, disk.active, userDefaults.tag)
    BY <1>6 DEF AppliedInv, ClaimsInv
  <2>2. ClaimsIn(db', disk'.active, userDefaults.tag)
    BY <1>1, <1>2, <1>4, <2>1, ClaimsTail
  <2>3. Claims(disk'.row.applyTime) =>
          disk'.active = userDefaults.tag /\ \A k \in 1..Len(db') : db'[k].write # "active"
    <3> SUFFICES ASSUME Claims(disk'.row.applyTime)
                 PROVE  /\ disk'.active = userDefaults.tag
                        /\ \A k \in 1..Len(db') : db'[k].write # "active"
      OBVIOUS
    <3>1. CASE op.write \in {"fetched", "active"} /\ disk'.row = disk.row
      BY <1>3, <1>4, <2>1, <3>1
    <3>2. CASE disk'.row.applyTime = TimeOf(op)
      <4>1. /\ EndsAs(db, 1 - 1, "active", disk.active, userDefaults.tag)
            /\ \A l \in 1..Len(db) : 1 < l => db[l].write # "active"
        BY <1>3, <2>1, <3>2 DEF ClaimsIn
      <4>2. disk.active = userDefaults.tag
        BY <4>1 DEF EndsAs
      <4>3. op.write # "active"
        <5> SUFFICES ASSUME op.write = "active"
                     PROVE  FALSE
          OBVIOUS
        <5>1. TimeOf(op) = 0
          BY DEF TimeOf
        <5> QED
          BY <1>2, <3>2, <5>1 DEF Claims
      <4> QED
        BY <1>3, <1>4, <4>1, <4>2, <4>3
    <3> QED
      BY <1>4, <3>1, <3>2
  <2> QED
    BY <1>1, <1>8, <2>1, <2>2, <2>3 DEF ClaimsInv, ClaimsIn, Claims
<1>15. AnswersInv'
  BY <1>1 DEF TagsInv, AnswersInv
<1> QED
  BY <1>8, <1>10, <1>11, <1>13, <1>14, <1>15 DEF TagsInv, AppliedInv

LEMMA LoadReturnsTags ==
  ASSUME ConfigInv, TagsInv, LoadReturns
  PROVE  TagsInv'
<1>1. /\ settings.made /\ ~content.loaded
      /\ UNCHANGED <<userDefaults, disk, db, queue, settings, fetches, clock, torn, setBack>>
  BY DEF LoadReturns, historyVars
<1>2. content'.loaded /\ content'.fetched = disk.fetched /\ content'.active = disk.active
  BY DEF LoadReturns, ConfigInv, DataInv, MemoryInv
<1>3. FetchedNow' = FetchedNow /\ ActiveNow' = ActiveNow
  BY <1>1, <1>2 DEF FetchedNow, ActiveNow
<1>4. FetchedInv /\ AppliedInv /\ AnswersInv
  BY DEF TagsInv
<1>5. FetchedInv'
  BY <1>1, <1>2, <1>3, <1>4 DEF FetchedInv
<1>6. TimesInv' /\ ClaimsInv'
  BY <1>1, <1>3, <1>4 DEF AppliedInv, TimesInv, ClaimsInv, ClaimsIn, Claims
<1>7. AppliedInv' /\ AnswersInv'
  BY <1>1, <1>3, <1>4, <1>6 DEF AppliedInv, AnswersInv
<1> QED
  BY <1>5, <1>7 DEF TagsInv

LEMMA WorldTags ==
  ASSUME ConfigInv, TagsInv,
         \/ \E t \in Titles \cup {NoTitle} : Publish(t)
         \/ \E t \in 0..clock : SetClockBack(t)
         \/ UNCHANGED vars
  PROVE  TagsInv'
<1>1. /\ UNCHANGED <<userDefaults, disk, db, queue, content, settings, fetches, torn>>
      /\ setBack' \/ UNCHANGED <<clock, setBack>>
  BY DEF Publish, SetClockBack, vars, memoryVars, historyVars
<1>2. FetchedInv /\ AppliedInv /\ AnswersInv
  BY DEF TagsInv
<1>3. FetchedInv' /\ AnswersInv'
  BY <1>1, <1>2 DEF FetchedInv, FetchedNow, AnswersInv
<1>4. ActiveNow' = ActiveNow
  BY <1>1 DEF ActiveNow
<1>5. TimesInv' /\ ClaimsInv'
  BY <1>1, <1>2, <1>4 DEF AppliedInv, TimesInv, ClaimsInv, ClaimsIn, Claims
<1> QED
  BY <1>1, <1>2, <1>3, <1>4, <1>5 DEF TagsInv, AppliedInv

\* What is lost of the database queue is either no fetched configuration, so that
\* the disk has the ETag's, or the stores are torn.
LEMMA RestartTags ==
  ASSUME ConfigInv, TagsInv, Restart
  PROVE  TagsInv'
<1>1. /\ UNCHANGED <<userDefaults, disk, clock, setBack>>
      /\ db' = <<>> /\ queue' = <<>> /\ content' = Unloaded /\ settings' = NoSettings
      /\ torn' = (torn \/ HalfStored) /\ settings.made
      /\ fetches' = [i \in 1..Len(fetches) |-> [Asked EXCEPT !.stage = "gone"]]
  BY DEF Restart
<1>2. \A i \in 1..Len(fetches') : fetches'[i].stage = "gone"
  BY <1>1, InvTypes DEF Asked
<1>3. AnswersInv'
  BY <1>1, <1>2 DEF AnswersInv, Answers, AnswersInOrder, TagIsNoNewer, SentBefore, SentStages
<1>4. FetchedInv /\ AppliedInv
  BY DEF TagsInv
<1>5. FetchedNow' = disk.fetched /\ ActiveNow' = disk.active /\ ~content'.loaded
  BY <1>1 DEF FetchedNow, ActiveNow, Unloaded
<1>6. ~torn' => disk.fetched = userDefaults.tag
  <2> SUFFICES ASSUME ~torn'
               PROVE  disk.fetched = userDefaults.tag
    OBVIOUS
  <2>1. ~torn /\ ~TagIsNext(queue) /\ \A k \in 1..Len(db) : db[k].write # "fetched"
    BY <1>1 DEF HalfStored, TagIsNext
  <2>2. EndsAs(db, Len(db), "fetched", disk.fetched, FetchedNow)
        /\ FetchedNow = userDefaults.tag
    BY <1>4, <2>1 DEF FetchedInv
  <2> QED
    BY <2>1, <2>2 DEF EndsAs
<1>7. FetchedInv'
  BY <1>1, <1>5, <1>6 DEF FetchedInv, TagFirst, TagIsNext, EndsAs
<1>8. settings'.lastApplyTime = 0 /\ ~settings'.made
  BY <1>1 DEF NoSettings
<1>9. /\ userDefaults.tagTime \in Nat /\ clock \in Nat
  BY DEF ConfigInv, DataInv, StorageInv, ClockInv
<1>10. TimesInv'
  BY <1>1, <1>4, <1>5, <1>8, <1>9 DEF AppliedInv, TimesInv
<1>11. ClaimsInv'
  <2>1. ~Claims(0)
    BY <1>9 DEF Claims
  <2>2. ~torn' => ~torn
    BY <1>1
  <2> QED
    BY <1>1, <1>4, <1>8, <2>1, <2>2 DEF AppliedInv, ClaimsInv, ClaimsIn, Claims
<1> QED
  BY <1>1, <1>3, <1>5, <1>7, <1>10, <1>11 DEF TagsInv, AppliedInv, EndsAs

LEMMA TagsStep == ConfigInv /\ TagsInv /\ [Next]_vars => TagsInv'
<1> SUFFICES ASSUME ConfigInv, TagsInv, [Next]_vars
             PROVE  TagsInv'
  OBVIOUS
<1>1. CASE AppBody \/ LoginBody \/ FetchCompletes \/ DatabaseStep \/ LoadReturns
  BY <1>1, AppBodyTags, LoginBodyTags, FetchCompletesTags, DatabaseStepTags,
     LoadReturnsTags
<1>2. CASE QueueStep
  BY <1>2, RunSettingsTags, RunReadTags, RunFetchTags, RunBeginTags, RunRequestTags,
     RunAnswerTags, RunTagTags, RunActivateTags DEF QueueStep
<1>3. CASE FetchStep
  BY <1>3, TokenArrivesTags, TokenOrRequestFailsTags, ServerAnswersTags,
     AnswerArrivesTags, AnswerIsQueuedTags DEF FetchStep
<1>4. CASE Restart
  BY <1>4, RestartTags
<1>5. CASE \/ \E t \in Titles \cup {NoTitle} : Publish(t)
           \/ \E t \in 0..clock : SetClockBack(t)
           \/ UNCHANGED vars
  BY <1>5, WorldTags
<1> QED
  BY <1>1, <1>2, <1>3, <1>4, <1>5 DEF Next

\* Unless the process ended between the two writes of an answer, the ETag that
\* is on disk at once is that of the fetched configuration; and unless somebody set
\* the clock back, times that say it was applied are right, in this process and
\* in every later one.
THEOREM TagsAgreeAlways == Spec => []TagsAgree
<1>1. Init => ConfigInv /\ TagsInv
  BY ConfigStarts, TagsStart
<1>2. ConfigInv /\ TagsInv /\ [Next]_vars => (ConfigInv /\ TagsInv)'
  BY ConfigStep, TagsStep
<1>3. TagsInv => TagsAgree
  <2> SUFFICES ASSUME TagsInv
               PROVE  TagsAgree
    OBVIOUS
  <2>1. content.loaded /\ ~torn /\ ~TagIsNext(queue) => content.fetched = userDefaults.tag
    BY DEF TagsInv, FetchedInv, FetchedNow
  <2>2. FetchedIsTagged
    BY <2>1 DEF FetchedIsTagged, TagIsNext
  <2>3. content.loaded /\ ~torn /\ ~setBack /\ Claims(settings.lastApplyTime) =>
          content.active = userDefaults.tag
    BY DEF TagsInv, AppliedInv, ClaimsInv, ActiveNow
  <2>4. BelievedApplied
    BY <2>3 DEF BelievedApplied, Claims
  <2> QED
    BY <2>2, <2>4 DEF TagsAgree
<1> QED
  BY <1>1, <1>2, <1>3, PTL DEF Spec

-----------------------------------------------------------------------------
(* A success is activated. *)

Succeeds(m) == \E k \in 1..Len(m) : m[k].ok

Activates(q) == \E k \in 1..Len(q) : q[k].do = "activate"

Succeeded(f, tag) == \E i \in 1..Len(f) : f[i].stage = "ok" /\ f[i].got # 0 /\ f[i].got = tag

\* An answer that was taken found the tables loaded.
GotInv ==
  \A i \in 1..Len(fetches) : /\ fetches[i].stage = "asked" => fetches[i].got = 0
                             /\ fetches[i].stage = "ok" /\ fetches[i].got # 0 => content.loaded

\* Behind a success there is an activation on its way, or the time of one.
DueInv ==
  ~setBack /\ Succeeded(fetches, userDefaults.tag) =>
    \/ userDefaults.tagTime <= settings.lastApplyTime
    \/ Succeeds(main)
    \/ Activates(queue)

SuccessInv == GotInv /\ DueInv

LEMMA ActivatesAppend ==
  ASSUME NEW q \in Seq(Tasks), NEW t \in Tasks
  PROVE  /\ Activates(q) => Activates(Append(q, t))
         /\ t.do = "activate" => Activates(Append(q, t))
<1> DEFINE r == Append(q, t)
<1>1. /\ Len(q) \in Nat /\ Len(r) = Len(q) + 1 /\ r[Len(q) + 1] = t
      /\ \A k \in 1..Len(q) : r[k] = q[k]
  OBVIOUS
<1> HIDE DEF r
<1>2. /\ Activates(q) => Activates(r)
      /\ t.do = "activate" => Activates(r)
  BY <1>1 DEF Activates
<1> QED
  BY <1>2 DEF r

LEMMA ActivatesTail ==
  ASSUME NEW q \in Seq(Tasks), q # <<>>, Head(q).do # "activate", Activates(q)
  PROVE  Activates(Tail(q))
<1> DEFINE r == Tail(q)
<1>1. /\ Len(q) \in Nat /\ Len(q) >= 1 /\ Head(q) = q[1] /\ Len(r) = Len(q) - 1
      /\ \A k \in 1..(Len(q) - 1) : r[k] = q[k + 1]
  OBVIOUS
<1> HIDE DEF r
<1>2. PICK k \in 1..Len(q) : q[k].do = "activate"
  BY DEF Activates
<1>3. k - 1 \in 1..Len(r) /\ r[k - 1] = q[k]
  BY <1>1, <1>2
<1>4. Activates(r)
  BY <1>2, <1>3 DEF Activates
<1> QED
  BY <1>4 DEF r

LEMMA SucceedsAppend ==
  ASSUME MainInv, NEW i \in Nat, NEW ok \in BOOLEAN
  PROVE  /\ Succeeds(main) => Succeeds(Append(main, [of |-> i, ok |-> ok]))
         /\ ok => Succeeds(Append(main, [of |-> i, ok |-> ok]))
<1> DEFINE M == [of : Nat, ok : BOOLEAN]
           t == [of |-> i, ok |-> ok]
           r == Append(main, t)
<1>1. main \in Seq(M) /\ t \in M /\ t.ok = ok
  BY DEF MainInv
<1> HIDE DEF M, t
<1>2. /\ Len(main) \in Nat /\ Len(r) = Len(main) + 1 /\ r[Len(main) + 1] = t
      /\ \A k \in 1..Len(main) : r[k] = main[k]
  BY <1>1
<1> HIDE DEF r
<1>3. /\ Succeeds(main) => Succeeds(r)
      /\ ok => Succeeds(r)
  BY <1>1, <1>2 DEF Succeeds
<1> QED
  BY <1>3 DEF r, t

\* A step that brings no success and gives up no activation.
LEMMA SuccessKept ==
  ASSUME SuccessInv, UNCHANGED userDefaults, setBack => setBack',
         content.loaded => content'.loaded,
         settings'.lastApplyTime = settings.lastApplyTime,
         \A i \in 1..Len(fetches') :
           /\ fetches'[i].stage = "asked" => fetches'[i].got = 0
           /\ fetches'[i].stage = "ok" /\ fetches'[i].got # 0 =>
                /\ i \in 1..Len(fetches) /\ fetches[i].stage = "ok"
                /\ fetches[i].got = fetches'[i].got,
         Succeeds(main) \/ Activates(queue) => Succeeds(main') \/ Activates(queue')
  PROVE  SuccessInv'
<1>1. GotInv'
  BY DEF SuccessInv, GotInv
<1>2. Succeeded(fetches', userDefaults'.tag) => Succeeded(fetches, userDefaults.tag)
  BY DEF Succeeded
<1>3. DueInv'
  BY <1>2 DEF SuccessInv, DueInv
<1> QED
  BY <1>1, <1>3 DEF SuccessInv

\* The same when fetch i moves, and to no success.
LEMMA SuccessMoved ==
  ASSUME ConfigInv, SuccessInv, UNCHANGED userDefaults, setBack => setBack',
         content.loaded => content'.loaded,
         settings'.lastApplyTime = settings.lastApplyTime,
         NEW i \in 1..Len(fetches), Len(fetches') = Len(fetches),
         \A j \in 1..Len(fetches) : j # i => fetches'[j] = fetches[j],
         fetches'[i].stage # "asked",
         fetches'[i].stage = "ok" => fetches'[i].got = 0,
         Succeeds(main) \/ Activates(queue) => Succeeds(main') \/ Activates(queue')
  PROVE  SuccessInv'
<1>1. \A j \in 1..Len(fetches') :
           /\ fetches'[j].stage = "asked" => fetches'[j].got = 0
           /\ fetches'[j].stage = "ok" /\ fetches'[j].got # 0 =>
                /\ j \in 1..Len(fetches) /\ fetches[j].stage = "ok"
                /\ fetches[j].got = fetches'[j].got
  BY DEF SuccessInv, GotInv
<1> QED
  BY <1>1, SuccessKept

LEMMA MovedSuccess ==
  ASSUME ConfigInv, NEW i \in 1..Len(fetches), NEW s, fetches' = Moved(i, s)
  PROVE  /\ Len(fetches') = Len(fetches)
         /\ fetches'[i].stage = s /\ fetches'[i].got = fetches[i].got
         /\ \A j \in 1..Len(fetches) : j # i => fetches'[j] = fetches[j]
<1>1. fetches \in Seq(Fetch(Len(templates))) /\ fetches[i] \in Fetch(Len(templates))
  BY InvTypes
<1> QED
  BY <1>1 DEF Moved, Fetch

\* What a task that runs leaves behind it.
LEMMA ActivatesBehind ==
  ASSUME ConfigInv, NEW do, Runs(do), do # "activate", Activates(queue)
  PROVE  Activates(Tail(queue))
<1>1. queue \in Seq(Tasks) /\ queue # <<>> /\ Head(queue).do # "activate"
  BY InvTypes DEF Runs
<1> QED
  BY <1>1, ActivatesTail

LEMMA AppBodySuccess ==
  ASSUME ConfigInv, SuccessInv, AppBody
  PROVE  SuccessInv'
<1>1. /\ fetches' = Append(fetches, Asked)
      /\ UNCHANGED <<userDefaults, main, content, setBack>>
  BY DEF AppBody, historyVars
<1>2. /\ Len(fetches') = Len(fetches) + 1 /\ Len(fetches) \in Nat
      /\ fetches'[Len(fetches) + 1] = Asked
      /\ \A i \in 1..Len(fetches) : fetches'[i] = fetches[i]
  BY <1>1, InvTypes
<1>3. \A i \in 1..Len(fetches') : i \in 1..Len(fetches) \/ i = Len(fetches) + 1
  BY <1>2
<1>4. \A i \in 1..Len(fetches') :
           /\ fetches'[i].stage = "asked" => fetches'[i].got = 0
           /\ fetches'[i].stage = "ok" =>
                i \in 1..Len(fetches) /\ fetches'[i] = fetches[i]
  BY <1>2, <1>3 DEF SuccessInv, GotInv, Asked
<1>5. CASE settings.made
  <2> DEFINE n == Len(fetches')
             t1 == [do |-> "defaults"]
             t2 == [do |-> "fetch", of |-> n]
             t3 == [do |-> "read"]
             q1 == Append(queue, t1)
             q2 == Append(q1, t2)
  <2>1. queue' = queue \o <<t1, t2, t3>> /\ UNCHANGED settings
    BY <1>5 DEF AppBody, ViewModelTasks
  <2>2. t1 \in Tasks /\ t2 \in Tasks /\ t3 \in Tasks /\ queue \in Seq(Tasks)
    BY <1>2, InvTypes DEF Tasks
  <2> HIDE DEF t1, t2, t3
  <2>3. queue' = Append(q2, t3) /\ q1 \in Seq(Tasks) /\ q2 \in Seq(Tasks)
    BY <2>1, <2>2
  <2> HIDE DEF q2
  <2>4. Activates(queue) => Activates(q1)
    BY <2>2, ActivatesAppend
  <2> HIDE DEF q1
  <2>5. Activates(q1) => Activates(q2)
    BY <2>2, <2>3, ActivatesAppend DEF q2
  <2>6. Activates(queue) => Activates(queue')
    BY <2>2, <2>3, <2>4, <2>5, ActivatesAppend
  <2> QED
    BY <1>1, <1>4, <2>1, <2>6, SuccessKept
<1>6. CASE ~settings.made
  <2>1. \A i \in 1..Len(fetches) : fetches[i].stage = "gone"
    BY <1>6 DEF ConfigInv, FetchInv, IdleInv
  <2>2. \A i \in 1..Len(fetches') : fetches'[i].stage # "ok"
    BY <1>4, <2>1
  <2> QED
    BY <1>4, <2>2 DEF SuccessInv, GotInv, DueInv, Succeeded
<1> QED
  BY <1>5, <1>6

LEMMA LoginBodySuccess ==
  ASSUME ConfigInv, SuccessInv, LoginBody
  PROVE  SuccessInv'
<1> DEFINE t == [do |-> "read"]
<1>1. /\ t \in Tasks /\ queue' = Append(queue, t)
      /\ UNCHANGED <<userDefaults, main, content, settings, fetches, setBack>>
  BY DEF Tasks, LoginBody, historyVars
<1> HIDE DEF t
<1>2. Activates(queue) => Activates(queue')
  BY <1>1, InvTypes, ActivatesAppend
<1>3. \A i \in 1..Len(fetches) : fetches[i].stage = "asked" => fetches[i].got = 0
  BY DEF SuccessInv, GotInv
<1> QED
  BY <1>1, <1>2, <1>3, SuccessKept

\* The completion handler of a success queues its activation.
LEMMA FetchCompletesSuccess ==
  ASSUME ConfigInv, SuccessInv, FetchCompletes
  PROVE  SuccessInv'
<1> DEFINE t == [do |-> "activate"]
<1>1. /\ t \in Tasks /\ t.do = "activate" /\ main # <<>> /\ main' = Tail(main)
      /\ queue' = IF Head(main).ok THEN Append(queue, t) ELSE queue
      /\ UNCHANGED <<userDefaults, content, settings, fetches, setBack>>
  BY DEF Tasks, FetchCompletes, historyVars
<1> HIDE DEF t
<1>2. Activates(queue) => Activates(queue')
  BY <1>1, InvTypes, ActivatesAppend
<1>3. Head(main).ok => Activates(queue')
  BY <1>1, InvTypes, ActivatesAppend
<1>4. Succeeds(main) /\ ~Head(main).ok => Succeeds(main')
  <2> SUFFICES ASSUME NEW k \in 1..Len(main), main[k].ok, ~Head(main).ok
               PROVE  Succeeds(main')
    BY DEF Succeeds
  <2> DEFINE M == [of : Nat, ok : BOOLEAN]
  <2>1. main \in Seq(M)
    BY DEF ConfigInv, FetchInv, MainInv
  <2> HIDE DEF M
  <2>2. /\ Len(main) \in Nat /\ Head(main) = main[1] /\ Len(main') = Len(main) - 1
        /\ \A l \in 1..(Len(main) - 1) : main'[l] = main[l + 1]
    BY <1>1, <2>1
  <2>3. k # 1
    BY <2>2
  <2>4. k - 1 \in 1..Len(main') /\ main'[k - 1] = main[k]
    BY <2>2, <2>3
  <2> QED
    BY <2>4 DEF Succeeds
<1>5. \A i \in 1..Len(fetches) : fetches[i].stage = "asked" => fetches[i].got = 0
  BY DEF SuccessInv, GotInv
<1> QED
  BY <1>1, <1>2, <1>3, <1>4, <1>5, SuccessKept

LEMMA LoadReturnsSuccess ==
  ASSUME ConfigInv, SuccessInv, LoadReturns \/ DatabaseStep
  PROVE  SuccessInv'
<1>1. /\ UNCHANGED <<userDefaults, queue, main, settings, fetches, setBack>>
      /\ content.loaded => content'.loaded
  BY DEF LoadReturns, DatabaseStep, historyVars
<1>2. \A i \in 1..Len(fetches) : fetches[i].stage = "asked" => fetches[i].got = 0
  BY DEF SuccessInv, GotInv
<1> QED
  BY <1>1, <1>2, SuccessKept

\* A task that touches no fetch.
LEMMA RunOtherSuccess ==
  ASSUME ConfigInv, SuccessInv, RunSettings \/ RunDefaults \/ RunRead \/ RunFetch \/ RunAnswer
  PROVE  SuccessInv'
<1>1. /\ UNCHANGED <<userDefaults, main, settings, fetches, setBack>>
      /\ content'.loaded = content.loaded
  BY DEF RunSettings, RunDefaults, RunRead, RunFetch, RunAnswer, historyVars,
         ConfigInv, DataInv, MemoryInv
<1>2. PICK do : Runs(do) /\ do # "activate"
  BY DEF RunSettings, RunDefaults, RunRead, RunFetch, RunAnswer
<1>3. Activates(queue) => Activates(Tail(queue))
  BY <1>2, ActivatesBehind
<1>4. Activates(queue) => Activates(queue')
  <2>1. CASE queue' = Tail(queue)
    BY <1>3, <2>1
  <2>2. CASE RunFetch
    <3> DEFINE t == [do |-> "begin", of |-> Head(queue).of, changed |-> ~settings.deviceContext]
    <3>1. Head(queue).of \in 1..Len(fetches)
      BY <2>2, HeadTask DEF RunFetch, IsOfFetch
    <3>2. t \in Tasks /\ queue' = Append(Tail(queue), t)
      BY <2>2, <3>1, InvTypes DEF RunFetch, Tasks, Settings
    <3>3. Tail(queue) \in Seq(Tasks)
      BY <1>2, InvTypes DEF Runs
    <3> HIDE DEF t
    <3> QED
      BY <1>3, <3>2, <3>3, ActivatesAppend
  <2>3. CASE RunAnswer
    <3> DEFINE t == [do |-> "tag", of |-> Head(queue).of]
               q == Tail(queue)
               r == <<t>> \o q
    <3>1. queue' = r
      BY <2>3 DEF RunAnswer
    <3>2. q \in Seq(Tasks)
      BY <1>2, InvTypes DEF Runs
    <3> HIDE DEF q
    <3>3. \A k \in 1..Len(q) : k + 1 \in 1..Len(r) /\ r[k + 1] = q[k]
      BY <3>2
    <3> HIDE DEF r
    <3> QED
      BY <1>3, <3>1, <3>3 DEF Activates, q
  <2> QED
    BY <2>1, <2>2, <2>3 DEF RunSettings, RunDefaults, RunRead
<1>5. \A i \in 1..Len(fetches) : fetches[i].stage = "asked" => fetches[i].got = 0
  BY DEF SuccessInv, GotInv
<1> QED
  BY <1>1, <1>4, <1>5, SuccessKept

\* A fetch that is answered here has got nothing, so nothing of it is due.
LEMMA RunBeginSuccess ==
  ASSUME ConfigInv, SuccessInv, RunBegin
  PROVE  SuccessInv'
<1> DEFINE i == Head(queue).of
<1>1. /\ Runs("begin") /\ queue' = Tail(queue)
      /\ UNCHANGED <<userDefaults, content, setBack>>
  BY DEF RunBegin, historyVars
<1>2. i \in 1..Len(fetches) /\ fetches[i].stage = "asked"
  BY <1>1, HeadTask DEF IsOfFetch, Fits
<1>3. settings'.lastApplyTime = settings.lastApplyTime
  BY InvTypes DEF RunBegin, Settings
<1>4. PICK s \in {"ok", "failed", "token"} :
        /\ fetches' = Moved(i, s)
        /\ Succeeds(main) => Succeeds(main')
  <2>1. MainInv /\ i \in Nat
    BY <1>2, InvTypes DEF ConfigInv, FetchInv
  <2>2. CASE UNCHANGED main /\ fetches' = Moved(i, "token")
    BY <2>2
  <2>3. ASSUME NEW ok \in BOOLEAN, Reported(i, ok)
        PROVE  /\ fetches' = Moved(i, IF ok THEN "ok" ELSE "failed")
               /\ Succeeds(main) => Succeeds(main')
    <3> HIDE DEF i
    <3> QED
      BY <2>1, <2>3, SucceedsAppend DEF Reported
  <2>4. AnsweredLocally(Head(queue).changed) \in BOOLEAN
    BY DEF AnsweredLocally, Cached
  <2>5. \/ UNCHANGED main /\ fetches' = Moved(i, "token")
        \/ Reported(i, AnsweredLocally(Head(queue).changed))
        \/ Reported(i, FALSE)
    BY DEF RunBegin
  <2> QED
    BY <2>2, <2>3, <2>4, <2>5
<1> HIDE DEF i
<1>5. /\ Len(fetches') = Len(fetches)
      /\ fetches'[i].stage = s /\ fetches'[i].got = 0
      /\ \A j \in 1..Len(fetches) : j # i => fetches'[j] = fetches[j]
  <2>1. fetches[i].got = 0
    BY <1>2 DEF SuccessInv, GotInv
  <2> QED
    BY <1>2, <1>4, <2>1, MovedSuccess
<1>6. Activates(queue) => Activates(queue')
  BY <1>1, ActivatesBehind
<1> QED
  BY <1>1, <1>2, <1>3, <1>4, <1>5, <1>6, SuccessMoved

LEMMA RunRequestSuccess ==
  ASSUME ConfigInv, SuccessInv, RunRequest
  PROVE  SuccessInv'
<1> DEFINE i == Head(queue).of
<1>1. /\ Runs("request") /\ queue' = Tail(queue)
      /\ UNCHANGED <<userDefaults, main, content, settings, setBack>>
      /\ fetches' = [fetches EXCEPT ![i].stage = "sent", ![i].sent = userDefaults.tag]
  BY DEF RunRequest, historyVars
<1>2. i \in 1..Len(fetches)
  BY <1>1, HeadTask DEF IsOfFetch
<1>3. /\ Len(fetches') = Len(fetches)
      /\ fetches'[i].stage = "sent"
      /\ \A j \in 1..Len(fetches) : j # i => fetches'[j] = fetches[j]
  <2>1. /\ fetches \in Seq(Fetch(Len(templates))) /\ fetches[i] \in Fetch(Len(templates))
        /\ Len(fetches) \in Nat
    BY <1>2, InvTypes
  <2> QED
    BY <1>1, <1>2, <2>1 DEF Fetch
<1> HIDE DEF i
<1>4. Activates(queue) => Activates(queue')
  BY <1>1, ActivatesBehind
<1> QED
  BY <1>1, <1>2, <1>3, <1>4, SuccessMoved

\* An answer that was taken is reported, and its completion handler is due.
LEMMA RunTagSuccess ==
  ASSUME ConfigInv, SuccessInv, FetchedInv, RunTag
  PROVE  SuccessInv'
<1> DEFINE i == Head(queue).of
<1>1. /\ Runs("tag") /\ Reported(i, TRUE) /\ UNCHANGED content
  BY DEF RunTag
<1>2. i \in 1..Len(fetches) /\ content.loaded
  BY <1>1, HeadTask DEF IsOfFetch, FetchedInv, TagIsNext, Runs
<1>3. Succeeds(main')
  <2>1. MainInv /\ i \in Nat
    BY <1>2, InvTypes DEF ConfigInv, FetchInv
  <2> HIDE DEF i
  <2> QED
    BY <1>1, <2>1, SucceedsAppend DEF Reported
<1>4. fetches' = Moved(i, "ok")
  BY <1>1 DEF Reported
<1> HIDE DEF i
<1>5. /\ Len(fetches') = Len(fetches) /\ fetches'[i].stage = "ok"
      /\ \A j \in 1..Len(fetches) : j # i => fetches'[j] = fetches[j]
  BY <1>2, <1>4, MovedSuccess
<1>6. GotInv'
  BY <1>1, <1>2, <1>5 DEF SuccessInv, GotInv
<1> QED
  BY <1>3, <1>6 DEF SuccessInv, DueInv

LEMMA RunFailureSuccess ==
  ASSUME ConfigInv, SuccessInv, RunFailure
  PROVE  SuccessInv'
<1> DEFINE i == Head(queue).of
<1>1. /\ Runs("failure") /\ queue' = Tail(queue) /\ Reported(i, FALSE)
      /\ UNCHANGED <<userDefaults, content, setBack>>
  BY DEF RunFailure, historyVars
<1>2. i \in 1..Len(fetches)
  BY <1>1, HeadTask DEF IsOfFetch
<1>3. settings'.lastApplyTime = settings.lastApplyTime
  BY InvTypes DEF RunFailure, Settings
<1>4. Succeeds(main) => Succeeds(main')
  <2>1. MainInv /\ i \in Nat
    BY <1>2, InvTypes DEF ConfigInv, FetchInv
  <2> HIDE DEF i
  <2> QED
    BY <1>1, <2>1, SucceedsAppend DEF Reported
<1>5. fetches' = Moved(i, "failed")
  BY <1>1 DEF Reported
<1> HIDE DEF i
<1>6. /\ Len(fetches') = Len(fetches) /\ fetches'[i].stage = "failed"
      /\ \A j \in 1..Len(fetches) : j # i => fetches'[j] = fetches[j]
  BY <1>2, <1>5, MovedSuccess
<1>7. Activates(queue) => Activates(queue')
  BY <1>1, ActivatesBehind
<1> QED
  BY <1>1, <1>2, <1>3, <1>4, <1>6, <1>7, SuccessMoved

\* An activation that runs stamps a time no earlier than the ETag's.
LEMMA RunActivateSuccess ==
  ASSUME ConfigInv, SuccessInv, TimesInv, RunActivate
  PROVE  SuccessInv'
<1>1. UNCHANGED <<userDefaults, fetches, main, setBack>>
  BY DEF RunActivate, historyVars
<1>2. /\ (userDefaults.tag = 0) <=> (userDefaults.tagTime = 0)
      /\ userDefaults.tagTime \in Nat /\ clock \in Nat
  BY DEF ConfigInv, DataInv, StorageInv, ClockInv
<1>3. content'.loaded = content.loaded
  BY DEF RunActivate, ConfigInv, DataInv, MemoryInv
<1>4. GotInv'
  BY <1>1, <1>3 DEF SuccessInv, GotInv
<1>5. ASSUME ~setBack, userDefaults.tag # 0
      PROVE  userDefaults.tagTime <= settings'.lastApplyTime
  <2>1. CASE UNCHANGED <<db, content, settings, clock>> /\ IsApplied
    BY <2>1 DEF IsApplied
  <2>2. CASE clock' = clock + 1 /\ settings' = [settings EXCEPT !.lastApplyTime = clock']
    BY <1>2, <1>5, <2>2, InvTypes DEF TimesInv, Settings
  <2> QED
    BY <1>2, <1>5, <2>1, <2>2 DEF RunActivate
<1>6. DueInv'
  BY <1>1, <1>5 DEF DueInv, Succeeded
<1> QED
  BY <1>4, <1>6 DEF SuccessInv

\* The tasks of a fetch that run elsewhere bring no success.
LEMMA FetchStepSuccess ==
  ASSUME ConfigInv, SuccessInv, FetchStep
  PROVE  SuccessInv'
<1>1. PICK i \in 1..Len(fetches) :
        \/ TokenArrives(i) \/ TokenFails(i)
        \/ ServerAnswers(i) \/ RequestFails(i)
        \/ AnswerArrives(i) \/ AnswerIsQueued(i)
  BY DEF FetchStep
<1>2. UNCHANGED <<userDefaults, content, setBack>>
  BY <1>1 DEF TokenArrives, TokenFails, ServerAnswers, RequestFails, AnswerArrives,
              AnswerIsQueued, historyVars
<1>3. settings'.lastApplyTime = settings.lastApplyTime
  BY <1>1, InvTypes DEF TokenArrives, TokenFails, ServerAnswers, RequestFails, AnswerArrives,
                        AnswerIsQueued, Settings
<1>4. PICK s \in {"request", "failed", "answered", "refused", "arrived", "arrivedRefused",
                  "queued"} :
        \/ fetches' = Moved(i, s)
        \/ s = "answered" /\ fetches' = [fetches EXCEPT ![i].stage = s, ![i].got = Len(templates)]
  BY <1>1 DEF TokenArrives, TokenFails, ServerAnswers, RequestFails, AnswerArrives,
              AnswerIsQueued, Reported
<1>5. /\ Len(fetches') = Len(fetches) /\ fetches'[i].stage = s
      /\ \A j \in 1..Len(fetches) : j # i => fetches'[j] = fetches[j]
  <2>1. CASE fetches' = Moved(i, s)
    BY <2>1, MovedSuccess
  <2>2. CASE fetches' = [fetches EXCEPT ![i].stage = s, ![i].got = Len(templates)]
    <3>1. /\ fetches \in Seq(Fetch(Len(templates))) /\ fetches[i] \in Fetch(Len(templates))
          /\ Len(fetches) \in Nat
      BY InvTypes
    <3> QED
      BY <2>2, <3>1 DEF Fetch
  <2> QED
    BY <1>4, <2>1, <2>2
<1>6. Activates(queue) => Activates(queue')
  <2>1. CASE UNCHANGED queue
    BY <2>1
  <2>2. CASE TokenArrives(i) \/ AnswerIsQueued(i)
    <3>1. PICK d \in {"request", "answer", "failure"} :
            queue' = Append(queue, [do |-> d, of |-> i])
      BY <2>2 DEF TokenArrives, AnswerIsQueued
    <3>2. [do |-> d, of |-> i] \in Tasks /\ queue \in Seq(Tasks)
      BY InvTypes DEF Tasks
    <3> QED
      BY <3>1, <3>2, ActivatesAppend
  <2> QED
    BY <1>1, <2>1, <2>2 DEF TokenFails, ServerAnswers, RequestFails, AnswerArrives
<1>7. Succeeds(main) => Succeeds(main')
  <2>1. CASE UNCHANGED main
    BY <2>1
  <2>2. CASE TokenFails(i)
    <3>1. MainInv /\ i \in Nat
      BY InvTypes DEF ConfigInv, FetchInv
    <3> QED
      BY <2>2, <3>1, SucceedsAppend DEF TokenFails, Reported
  <2> QED
    BY <1>1, <2>1, <2>2
       DEF TokenArrives, ServerAnswers, RequestFails, AnswerArrives, AnswerIsQueued
<1> QED
  BY <1>2, <1>3, <1>5, <1>6, <1>7, SuccessMoved

LEMMA WorldSuccess ==
  ASSUME ConfigInv, SuccessInv,
         \/ \E t \in Titles \cup {NoTitle} : Publish(t)
         \/ \E t \in 0..clock : SetClockBack(t)
         \/ UNCHANGED vars
  PROVE  SuccessInv'
<1>1. /\ UNCHANGED <<userDefaults, content, settings, fetches, main, queue>>
      /\ setBack => setBack'
  BY DEF Publish, SetClockBack, vars, memoryVars, historyVars
<1>2. \A i \in 1..Len(fetches) : fetches[i].stage = "asked" => fetches[i].got = 0
  BY DEF SuccessInv, GotInv
<1> QED
  BY <1>1, <1>2, SuccessKept

LEMMA RestartSuccess ==
  ASSUME ConfigInv, SuccessInv, Restart
  PROVE  SuccessInv'
<1>1. \A i \in 1..Len(fetches') : fetches'[i].stage = "gone"
  BY InvTypes DEF Restart, Asked
<1> QED
  BY <1>1 DEF SuccessInv, GotInv, DueInv, Succeeded

LEMMA SuccessStep == ConfigInv /\ TagsInv /\ SuccessInv /\ [Next]_vars => SuccessInv'
<1> SUFFICES ASSUME ConfigInv, TagsInv, SuccessInv, [Next]_vars
             PROVE  SuccessInv'
  OBVIOUS
<1>1. FetchedInv /\ TimesInv
  BY DEF TagsInv, AppliedInv
<1>2. CASE AppBody \/ LoginBody \/ FetchCompletes \/ DatabaseStep \/ LoadReturns
  BY <1>2, AppBodySuccess, LoginBodySuccess, FetchCompletesSuccess, LoadReturnsSuccess
<1>3. CASE QueueStep
  BY <1>1, <1>3, RunOtherSuccess, RunBeginSuccess, RunRequestSuccess, RunTagSuccess,
     RunFailureSuccess, RunActivateSuccess DEF QueueStep
<1>4. CASE FetchStep
  BY <1>4, FetchStepSuccess
<1>5. CASE Restart
  BY <1>5, RestartSuccess
<1>6. CASE \/ \E t \in Titles \cup {NoTitle} : Publish(t)
           \/ \E t \in 0..clock : SetClockBack(t)
           \/ UNCHANGED vars
  BY <1>6, WorldSuccess
<1> QED
  BY <1>2, <1>3, <1>4, <1>5, <1>6 DEF Next

\* Once completion handlers and the queue have run, the configuration of a fetch
\* that reported success is the active one, however many fetches overlap: an
\* activation that finds nothing to do finds the right configuration applied.
THEOREM SuccessIsActivatedAlways == Spec => []SuccessIsActivated
<1>1. Init => ConfigInv /\ TagsInv /\ SuccessInv
  BY ConfigStarts, TagsStart DEF Init, SuccessInv, GotInv, DueInv, Succeeded
<1>2. ConfigInv /\ TagsInv /\ SuccessInv /\ [Next]_vars
        => (ConfigInv /\ TagsInv /\ SuccessInv)'
  BY ConfigStep, TagsStep, SuccessStep
<1>3. ConfigInv /\ TagsInv /\ SuccessInv => SuccessIsActivated
  <2> SUFFICES ASSUME ConfigInv, TagsInv, SuccessInv, main = <<>>, queue = <<>>,
                      ~torn, ~setBack, NEW i \in 1..Len(fetches),
                      fetches[i].stage = "ok", fetches[i].got = userDefaults.tag,
                      fetches[i].got # 0
               PROVE  content.active = fetches[i].got
    BY DEF SuccessIsActivated
  <2>1. content.loaded
    BY DEF SuccessInv, GotInv
  <2>2. ~Succeeds(main) /\ ~Activates(queue)
    BY DEF Succeeds, Activates
  <2>3. userDefaults.tagTime <= settings.lastApplyTime
    BY <2>2 DEF SuccessInv, DueInv, Succeeded
  <2>4. Claims(settings.lastApplyTime)
    BY <2>3 DEF Claims, ConfigInv, DataInv, StorageInv
  <2> QED
    BY <2>1, <2>4 DEF TagsInv, AppliedInv, ClaimsInv, ActiveNow
<1> QED
  BY <1>1, <1>2, <1>3, PTL DEF Spec
=============================================================================
