---------------------------- MODULE GroceryStore ----------------------------
(***************************************************************************)
(* The data path of the app: CloudFireStoreFirebaseApiImpl on top of the   *)
(* Firestore client that is vendored under Pods/FirebaseFirestore, the     *)
(* device's persisted cache and mutation queues, and the collection        *)
(* "groceries" in the cloud, which other devices write too.                *)
(*                                                                         *)
(* Three queues carry everything.  The main thread puts tasks on the       *)
(* worker queue (`worker'); the worker puts accepted writes into the       *)
(* mutation queue of the signed-in user (`pending', which survives a       *)
(* restart) and list events into the main queue (`mainQueue').  The write  *)
(* stream sends the head of the mutation queue to the cloud and the watch  *)
(* stream brings back consistent versions of the collection.               *)
(*                                                                         *)
(* The cloud is the history `log' of the collection; version v of the      *)
(* collection is what the first v commits left.                            *)
(***************************************************************************)
EXTENDS Integers, Sequences, FiniteSets

CONSTANTS Names,        \* names of groceries, which are their document ids
          Docs,         \* field values a document can have
          NoDoc,        \* "there is no such document"
          Users,        \* whoever can be signed in on this device
          FirstUser,    \* who is signed in when the app is first launched
          OtherDevice,  \* the author of the commits of other devices
          kMaxPendingWrites, \* length of the write pipeline (10 in the code)
          MaxWrites,    \* bound on the writes of this device
          MaxElsewhere, \* bound on the commits of other devices
          MaxIncidents  \* bound on restarts, sign-ins and broken streams

ASSUME StoreAssumption ==
  /\ NoDoc \notin Docs
  /\ OtherDevice \notin Users
  /\ FirstUser \in Users
  /\ kMaxPendingWrites \in Nat \ {0}
  /\ MaxWrites \in Nat
  /\ MaxElsewhere \in Nat
  /\ MaxIncidents \in Nat

VARIABLES
  log,        \* commits of the cloud: who, the write's id, name, and all docs
  watched,    \* version of the last watch snapshot this device applied
  known,      \* for each name, the version its cached document is known at
  user,       \* whose mutation queue is in use
  pending,    \* for each user, the writes accepted and not yet answered
  commits,    \* versions at which the head of pending[user] was committed,
              \* the answers still on the way
  rejected,   \* history: ids of the writes the cloud refused
  issued,     \* history: how many writes the worker accepted
  worker,     \* tasks the main thread enqueued and the worker has not run
  listener,   \* "none", "waiting" for a first event, "live", or "dead"
  shown,      \* the view's document set
  mutated,    \* documents of the view that carry a local mutation
  mainQueue,  \* list events on the way to the main thread
  groceries,  \* the view model's list
  incidents   \* restarts, sign-ins and broken write streams so far

diskVars == <<watched, known, pending, rejected, issued>>
viewVars == <<listener, shown, mutated, mainQueue>>
vars == <<log, watched, known, user, pending, commits, rejected, issued,
          worker, listener, shown, mutated, mainQueue, groceries, incidents>>

Values == Docs \cup {NoDoc}
Lists  == [Names -> Values]
NoRows == [n \in Names |-> NoDoc]

\* A set or a delete (doc = NoDoc) of one document.
Writes == [id : Nat, name : Names, doc : Values]

Tasks == [op : {"listen"}] \cup [op : {"signIn"}, user : Users]
           \cup [op : {"write"}, name : Names, doc : Values]

Commits == [who : Users \cup {OtherDevice}, id : Nat, name : Names, docs : Lists]

-----------------------------------------------------------------------------
(* What the cloud, the cache and the mutation queue say about a name. *)

\* The document `n' in version `v' of the collection.
DocAt(v, n) == IF v = 0 THEN NoDoc ELSE log[v].docs[n]

\* The newest version of the collection.
Cloud == [n \in Names |-> DocAt(Len(log), n)]

Keys(q) == {q[i].name : i \in 1..Len(q)}

IsLastOn(q, n, i) ==
  /\ i \in 1..Len(q)
  /\ q[i].name = n
  /\ \A j \in (i+1)..Len(q) : q[j].name # n

\* A queue of sets and deletes, laid over a document `base' called `n': every
\* one of them replaces the whole document, so the last one on `n' decides.
Overlay(q, n, base) ==
  IF n \in Keys(q) THEN q[CHOOSE i \in 1..Len(q) : IsLastOn(q, n, i)].doc
                   ELSE base

LocalView(q, kn) == [n \in Names |-> Overlay(q, n, DocAt(kn[n], n))]

\* Mutants of Newer: whatever arrives last is kept; what arrives is dropped.
LatestArrival(a, b) == b
KeepsTheFirst(a, b) == a

\* The cache takes a document only if it is newer than the one it has.
Newer(a, b) == IF a < b THEN b ELSE a

\* What the listener's closure is called with on the main queue.
Snapshot(rows) == [failed |-> FALSE, rows |-> rows]
Failure        == [failed |-> TRUE, rows |-> NoRows]
Events         == [failed : BOOLEAN, rows : Lists]

-----------------------------------------------------------------------------
(* Recomputing the view of the listener. *)

\* The view keeps the old document when it showed a local mutation and the
\* new one comes from an acknowledgement that the watch stream has yet to
\* confirm.
ShouldWaitForSyncedDocument(n, q, kn, w) ==
  n \in mutated /\ kn[n] > w /\ n \notin Keys(q)

\* The names, among `changed', whose document the view replaces: the fields
\* differ, or only the "has local mutations" mark does.
Replaced(changed, q, kn, w) ==
  {n \in changed :
     LET new == LocalView(q, kn)[n] IN
     \/ /\ shown[n] # new
        /\ \/ shown[n] = NoDoc
           \/ new = NoDoc
           \/ ~ShouldWaitForSyncedDocument(n, q, kn, w)
     \/ /\ shown[n] = new
        /\ new # NoDoc
        /\ (n \in mutated) # (n \in Keys(q) \/ (n \in mutated /\ kn[n] > w))}

\* Mutant of Raises: an empty list is no news.
RaisesRows(rows, synced) == rows # NoRows /\ rows # shown

\* The listener is told when a field changed, or, as long as it has heard
\* nothing, when there is a document to show or the collection is in sync.
Raises(rows, synced) == IF listener = "waiting" THEN synced \/ rows # NoRows
                                                ELSE rows # shown

\* Replace those documents and tell the listener.
Emit(changed, q, kn, w, synced) ==
  IF listener \in {"none", "dead"} THEN UNCHANGED viewVars
  ELSE LET replaced == Replaced(changed, q, kn, w)
           rows == [n \in Names |-> IF n \in replaced THEN LocalView(q, kn)[n]
                                                      ELSE shown[n]]
           raise == Raises(rows, synced)
       IN /\ shown' = rows
          /\ mutated' = (mutated \ replaced)
                          \cup {n \in replaced : n \in Keys(q) /\ rows[n] # NoDoc}
          /\ listener' = IF raise THEN "live" ELSE listener
          /\ mainQueue' = IF raise THEN Append(mainQueue, Snapshot(rows)) ELSE mainQueue

-----------------------------------------------------------------------------
Init ==
  /\ log = <<>>
  /\ watched = 0
  /\ known = [n \in Names |-> 0]
  /\ user = FirstUser
  /\ pending = [u \in Users |-> <<>>]
  /\ commits = <<>>
  /\ rejected = {}
  /\ issued = 0
  /\ worker = <<>>
  /\ listener = "none"
  /\ shown = NoRows
  /\ mutated = {}
  /\ mainQueue = <<>>
  /\ groceries = NoRows
  /\ incidents = 0

-----------------------------------------------------------------------------
(* The app's calls.  Each of them only leaves a task on the worker queue. *)

Enqueue(task) == worker' = Append(worker, task)

OnlyEnqueues == UNCHANGED <<log, diskVars, user, commits, viewVars, incidents>>

\* The client exists once the view model asked for the groceries.
Started == listener # "none" \/ worker # <<>>

\* getAllGroceries: the view model's init adds the listener.
GetAllGroceries ==
  /\ ~Started
  /\ Enqueue([op |-> "listen"])
  /\ OnlyEnqueues
  /\ UNCHANGED groceries

EnqueueWrite(n, d) ==
  /\ Started
  /\ issued + Len(worker) < MaxWrites
  /\ Enqueue([op |-> "write", name |-> n, doc |-> d])
  /\ OnlyEnqueues

\* addGrocery (d a document) and deleteGrocery (d = NoDoc).
WriteGrocery(n, d) ==
  /\ EnqueueWrite(n, d)
  /\ UNCHANGED groceries

\* uploadImage changes the GroceryVO it was given before it writes it.  That
\* object may be a row of the list, which then has the new document before the
\* worker does.
WriteRow(n, d) ==
  /\ groceries[n] # NoDoc
  /\ d # NoDoc
  /\ EnqueueWrite(n, d)
  /\ groceries' = [groceries EXCEPT ![n] = d]

\* A login or a registration gives the client another credential.
SignIn(u) ==
  /\ Started
  /\ incidents < MaxIncidents
  /\ Enqueue([op |-> "signIn", user |-> u])
  /\ incidents' = incidents + 1
  /\ UNCHANGED <<log, diskVars, user, commits, viewVars, groceries>>

-----------------------------------------------------------------------------
(* The worker runs its tasks one at a time. *)

NextTask(op) == worker # <<>> /\ Head(worker).op = op /\ worker' = Tail(worker)

\* A view of what the device holds; it is raised at once if it has a row.
RunListen ==
  /\ NextTask("listen")
  /\ LET rows == LocalView(pending[user], known) IN
       /\ shown' = rows
       /\ mutated' = {n \in Keys(pending[user]) : rows[n] # NoDoc}
       /\ listener' = IF rows # NoRows THEN "live" ELSE "waiting"
       /\ mainQueue' = IF rows # NoRows THEN Append(mainQueue, Snapshot(rows))
                                        ELSE mainQueue
  /\ UNCHANGED <<log, diskVars, user, commits, groceries, incidents>>

\* The write enters the mutation queue, on disk, and the view at once.
RunWrite ==
  /\ NextTask("write")
  /\ LET n == Head(worker).name
         q == Append(pending[user],
                     [id |-> issued + 1, name |-> n, doc |-> Head(worker).doc])
     IN /\ pending' = [pending EXCEPT ![user] = q]
        /\ Emit({n}, q, known, watched, FALSE)
  /\ issued' = issued + 1
  /\ UNCHANGED <<log, watched, known, user, commits, rejected, groceries, incidents>>

\* Mutant of RunSignIn: the streams are not restarted.
SignInKeepsStreams ==
  /\ NextTask("signIn")
  /\ user' = Head(worker).user
  /\ Emit(IF user' = user THEN {} ELSE Keys(pending[user]) \cup Keys(pending[user']),
          pending[user'], known, watched, FALSE)
  /\ UNCHANGED <<log, diskVars, commits, groceries, incidents>>

\* Mutant of RunSignIn: the documents only the old queue mentions stay.
SignInKeepsOldRows ==
  /\ NextTask("signIn")
  /\ user' = Head(worker).user
  /\ Emit(Keys(pending[user']), pending[user'], known, watched, FALSE)
  /\ commits' = <<>>
  /\ UNCHANGED <<log, diskVars, groceries, incidents>>

\* The mutation queues are swapped, every document one of them mentions is
\* recomputed, and the streams are restarted.
RunSignIn ==
  /\ NextTask("signIn")
  /\ user' = Head(worker).user
  /\ Emit(IF user' = user THEN {} ELSE Keys(pending[user]) \cup Keys(pending[user']),
          pending[user'], known, watched, FALSE)
  /\ commits' = <<>>
  /\ UNCHANGED <<log, diskVars, groceries, incidents>>

-----------------------------------------------------------------------------
(* The write stream. *)

\* Mutant of NextToSend: the newest write overtakes the others.
NewestToSend(q) == q[Len(q) - Len(commits)]

\* The pipeline is filled in the order of the queue.
NextToSend(q) == q[Len(commits) + 1]

\* The cloud takes the next write of the pipeline.
Commit ==
  LET q == pending[user]
      m == NextToSend(q)
  IN /\ Started
     /\ Len(commits) < kMaxPendingWrites
     /\ Len(commits) < Len(q)
     /\ log' = Append(log, [who |-> user, id |-> m.id, name |-> m.name,
                            docs |-> [Cloud EXCEPT ![m.name] = m.doc]])
     /\ commits' = Append(commits, Len(log) + 1)
     /\ UNCHANGED <<diskVars, user, worker, viewVars, groceries, incidents>>

\* Its answer arrives: the write leaves the queue, and the cache takes the
\* acknowledged document unless it holds a newer one.
Ack ==
  /\ commits # <<>>
  /\ LET n  == Head(pending[user]).name
         q  == Tail(pending[user])
         kn == [known EXCEPT ![n] = Newer(@, Head(commits))]
     IN /\ known' = kn
        /\ pending' = [pending EXCEPT ![user] = q]
        /\ Emit({n}, q, kn, watched, FALSE)
  /\ commits' = Tail(commits)
  /\ UNCHANGED <<log, watched, user, rejected, issued, worker, groceries, incidents>>

\* The cloud refuses the head of the pipeline for good.  The answers to the
\* writes before it came first, on the same stream.
Reject ==
  /\ Started
  /\ commits = <<>>
  /\ pending[user] # <<>>
  /\ LET head == Head(pending[user])
         q    == Tail(pending[user])
     IN /\ rejected' = rejected \cup {head.id}
        /\ pending' = [pending EXCEPT ![user] = q]
        /\ Emit({head.name}, q, known, watched, FALSE)
  /\ UNCHANGED <<log, watched, known, user, commits, issued, worker, groceries,
                 incidents>>

\* Mutant of StreamBreaks: what was in the pipeline is forgotten.
StreamBreaksForGood ==
  /\ commits # <<>>
  /\ incidents < MaxIncidents
  /\ commits' = <<>>
  /\ pending' = [pending EXCEPT ![user] = <<>>]
  /\ incidents' = incidents + 1
  /\ UNCHANGED <<log, watched, known, rejected, issued, user, worker, viewVars,
                 groceries>>

\* No connection: a listener that heard nothing gets what there is.
GivesUp ==
  /\ listener = "waiting"
  /\ listener' = "live"
  /\ mainQueue' = Append(mainQueue, Snapshot(shown))
  /\ UNCHANGED <<shown, mutated>>

\* The stream breaks while answers are on the way; the pipeline is sent
\* again from its head, the writes the cloud already took included.  The watch
\* stream may break with it.
StreamBreaks ==
  /\ commits # <<>>
  /\ incidents < MaxIncidents
  /\ commits' = <<>>
  /\ incidents' = incidents + 1
  /\ GivesUp \/ UNCHANGED viewVars
  /\ UNCHANGED <<log, diskVars, user, worker, groceries>>

-----------------------------------------------------------------------------
(* The watch stream. *)

\* Mutant of Updates: only what is newer.
UpdatesNewer(v) ==
  {n \in Names : known[n] < v /\ \E i \in (watched+1)..v : log[i].name = n}

\* The documents of version `v' that are newer than their cached copies, or
\* as new and not yet confirmed.
Updates(v) ==
  {n \in Names : known[n] <= v /\ \E i \in (watched+1)..v : log[i].name = n}

WatchSnapshot(v) ==
  /\ listener \in {"waiting", "live"}
  /\ v > watched \/ listener = "waiting"
  /\ LET kn == [n \in Names |-> Newer(known[n], v)] IN
       /\ known' = kn
       /\ Emit(Updates(v), pending[user], kn, v, TRUE)
  /\ watched' = v
  /\ UNCHANGED <<log, user, pending, commits, rejected, issued, worker, groceries,
                 incidents>>

\* No connection in time, or the watch stream broke.
Offline ==
  /\ GivesUp
  /\ UNCHANGED <<log, diskVars, user, commits, worker, groceries, incidents>>

\* The cloud refuses the listen: the listener is told and forgotten.
ListenFails ==
  /\ listener \in {"waiting", "live"}
  /\ listener' = "dead"
  /\ shown' = NoRows
  /\ mutated' = {}
  /\ mainQueue' = Append(mainQueue, Failure)
  /\ UNCHANGED <<log, diskVars, user, commits, worker, groceries, incidents>>

-----------------------------------------------------------------------------
(* The main thread, the other devices, and restarts. *)

\* Mutant of Deliver: the newest event overtakes the others.
DeliverNewest ==
  /\ mainQueue # <<>>
  /\ groceries' = LET e == mainQueue[Len(mainQueue)]
                  IN IF e.failed THEN NoRows ELSE e.rows
  /\ mainQueue' = SubSeq(mainQueue, 1, Len(mainQueue) - 1)
  /\ UNCHANGED <<log, diskVars, user, commits, worker, listener, shown, mutated,
                 incidents>>

\* The closure of getAllGroceries builds a list from the snapshot, an empty
\* one from an error, and the view model keeps it.
Deliver ==
  /\ mainQueue # <<>>
  /\ groceries' = LET e == Head(mainQueue) IN IF e.failed THEN NoRows ELSE e.rows
  /\ mainQueue' = Tail(mainQueue)
  /\ UNCHANGED <<log, diskVars, user, commits, worker, listener, shown, mutated,
                 incidents>>

OtherDeviceWrites(n, d) ==
  /\ Cardinality({i \in 1..Len(log) : log[i].who = OtherDevice}) < MaxElsewhere
  /\ d # Cloud[n]
  /\ log' = Append(log, [who |-> OtherDevice, id |-> 0, name |-> n,
                         docs |-> [Cloud EXCEPT ![n] = d]])
  /\ UNCHANGED <<diskVars, user, commits, worker, viewVars, groceries, incidents>>

\* The process ends at any point and the app is launched again: the disk and
\* the signed-in user stay, queues in memory and the screen do not.
Restart ==
  /\ Started
  /\ incidents < MaxIncidents
  /\ incidents' = incidents + 1
  /\ commits' = <<>>
  /\ worker' = <<>>
  /\ listener' = "none"
  /\ shown' = NoRows
  /\ mutated' = {}
  /\ mainQueue' = <<>>
  /\ groceries' = NoRows
  /\ UNCHANGED <<log, diskVars, user>>

-----------------------------------------------------------------------------
\* What the code and its environment do without anyone asking.
Sync == \/ RunListen \/ RunWrite \/ RunSignIn
        \/ Commit \/ Ack
        \/ \E v \in watched..Len(log) : WatchSnapshot(v)

Next == \/ GetAllGroceries
        \/ \E n \in Names, d \in Values : WriteGrocery(n, d) \/ WriteRow(n, d)
        \/ \E u \in Users : SignIn(u)
        \/ Sync \/ Deliver
        \/ Reject \/ StreamBreaks \/ Offline \/ ListenFails
        \/ \E n \in Names, d \in Values : OtherDeviceWrites(n, d)
        \/ Restart

Spec == Init /\ [][Next]_vars

Fairness ==
  /\ WF_vars(GetAllGroceries)
  /\ WF_vars(RunListen \/ RunWrite \/ RunSignIn)
  /\ WF_vars(Commit)
  /\ WF_vars(Ack)
  /\ WF_vars(\E v \in watched..Len(log) : WatchSnapshot(v))
  /\ WF_vars(Deliver)

FairSpec == Spec /\ Fairness
-----------------------------------------------------------------------------
(* Properties. *)

TypeOK ==
  /\ log \in Seq(Commits)
  /\ watched \in 0..Len(log)
  /\ known \in [Names -> watched..Len(log)]
  /\ user \in Users
  /\ pending \in [Users -> Seq(Writes)]
  /\ commits \in Seq(1..Len(log))
  /\ rejected \subseteq 1..issued
  /\ issued \in Nat
  /\ worker \in Seq(Tasks)
  /\ listener \in {"none", "waiting", "live", "dead"}
  /\ shown \in Lists
  /\ mutated \subseteq Names
  /\ mainQueue \in Seq(Events)
  /\ groceries \in Lists
  /\ incidents \in Nat

\* The view recomputes only the documents a write, an answer or a watch
\* snapshot mentions (EmitNewSnapshotsAndNotifyLocalStore), and may even skip
\* one of those (ShouldWaitForSyncedDocument).  All the same a live list shows,
\* for every name, what the cache and the pending writes say; the exception is
\* a document the view waits for, until the watch stream confirms it.
ListIsFresh ==
  listener \in {"waiting", "live"} =>
    \A n \in Names :
      \/ shown[n] = LocalView(pending[user], known)[n]
      \/ ShouldWaitForSyncedDocument(n, pending[user], known, watched)

\* The row of `n' was changed on the main thread and the worker has yet to
\* accept the write that makes it so.
IsAhead(n) ==
  \E i \in 1..Len(worker) :
    worker[i].op = "write" /\ worker[i].name = n /\ worker[i].doc = groceries[n]

\* When the device has heard of every commit, nothing is pending and no event is
\* on the way, the list is the collection in the cloud: whatever was taken,
\* refused, sent twice or written elsewhere, in whatever order the streams told
\* of it, there is no document the view still keeps or was never told of.  A row
\* may differ only because its write is about to start.
SettledListIsCloud ==
  ( /\ listener = "live"
    /\ mainQueue = <<>>
    /\ pending[user] = <<>>
    /\ watched = Len(log) ) => \A n \in Names : groceries[n] = Cloud[n] \/ IsAhead(n)

\* Events reach the main thread in the order the view raised them, and none is
\* skipped: once the main queue is empty the view model has the view's list.
\* uploadImage changes a row in place, without an event; then the write of that
\* very document is still to run, and no row stays changed without one.
LastEventIsShown ==
  listener = "live" =>
    IF mainQueue = <<>> THEN \A n \in Names : groceries[n] = shown[n] \/ IsAhead(n)
                        ELSE mainQueue[Len(mainQueue)] = Snapshot(shown)

\* A write the worker accepted is never dropped, across restarts, broken
\* streams and changes of user: it is in a mutation queue, or the cloud took
\* it, or the cloud refused it.
NoWriteIsLost ==
  \A i \in 1..issued :
    \/ \E u \in Users : \E k \in 1..Len(pending[u]) : pending[u][k].id = i
    \/ \E v \in 1..Len(log) : log[v].who # OtherDevice /\ log[v].id = i
    \/ i \in rejected

\* The write stream answers by position: whatever answer comes next is taken
\* for the head of the mutation queue.  The answers on the way are those of the
\* first pending writes of the signed-in user, in their order, whatever breaks,
\* restarts or signs in meanwhile.
AnswersMatch ==
  \A k \in 1..Len(commits) :
    /\ k <= Len(pending[user])
    /\ LET m == pending[user][k]
           c == log[commits[k]]
       IN c.who = user /\ c.id = m.id /\ c.name = m.name /\ c.docs[m.name] = m.doc

\* The cloud applies the writes of a user in the order the app made them.  A
\* repeated send after a broken stream may put an older write after a newer
\* one, but then the newer one follows again, or is still queued to follow, or
\* was refused the second time.
WritesKeepTheirOrder ==
  \A p, r \in 1..Len(log) :
    ( /\ p < r
      /\ log[p].who = log[r].who
      /\ log[p].who # OtherDevice
      /\ log[p].id > log[r].id ) =>
         \/ \E k \in 1..Len(pending[log[p].who]) : pending[log[p].who][k].id = log[p].id
         \/ \E s \in (r+1)..Len(log) : log[s].who = log[p].who /\ log[s].id = log[p].id
         \/ log[p].id \in rejected

\* An acknowledgement changes no row on the screen, except by revealing a
\* newer version of that document that the watch stream brought before it.
AckDoesNotFlicker ==
  [][ Ack => \A n \in Names :
        shown'[n] # shown[n] => /\ n = Head(pending[user]).name
                                /\ known[n] > Head(commits) ]_vars

\* A document in the cache is never replaced by an older version, whichever of
\* the write stream and the watch stream is ahead.
CacheNeverGoesBack ==
  [][ \A n \in Names : known'[n] >= known[n] ]_vars

\* Once nothing new happens, every write of the signed-in user is answered and
\* the list is the collection in the cloud, or the empty list of a listener
\* that the cloud refused.
Converges ==
  <>[]( /\ pending[user] = <<>>
        /\ IF listener = "dead" THEN groceries = NoRows
                                ELSE listener = "live" /\ groceries = Cloud )
=============================================================================
