------------------------- MODULE RemoteStore_proofs -------------------------
(***************************************************************************)
(* That the detailed remote store implements GroceryStore, keeps its       *)
(* pipeline and its streams right and never fails an assertion, for every  *)
(* value of the constants.  What is proved of GroceryStore then holds with *)
(* the detailed remote store under it.                                     *)
(***************************************************************************)
EXTENDS RemoteStore_pipeline, FiniteSetTheorems

-----------------------------------------------------------------------------
(* RemoteStore states its refinement with an instance of GroceryStore, the   *)
(* theorems come with an instance of their module.  Both say the same.       *)

LEMMA SameViews ==
  /\ Store!vars = W!vars /\ Store!Values = W!Values /\ Store!NoRows = W!NoRows
  /\ Store!Writes = W!Writes /\ Store!Started = W!Started
  /\ Store!Cloud = W!Cloud
  /\ \A q : Store!Keys(q) = W!Keys(q)
  /\ \A v, n : Store!DocAt(v, n) = W!DocAt(v, n)
  /\ \A a, b : Store!Newer(a, b) = W!Newer(a, b)
  /\ \A q, kn : Store!LocalView(q, kn) = W!LocalView(q, kn)
  /\ \A rows : Store!Snapshot(rows) = W!Snapshot(rows)
<1>1. \A q : Store!Keys(q) = W!Keys(q)
  BY DEF Store!Keys, W!Keys
<1>2. \A v, n : Store!DocAt(v, n) = W!DocAt(v, n)
  BY DEF Store!DocAt, W!DocAt
<1>3. \A q, n, base : Store!Overlay(q, n, base) = W!Overlay(q, n, base)
  BY <1>1 DEF Store!Overlay, W!Overlay, Store!IsLastOn, W!IsLastOn
<1>4. \A q, kn : Store!LocalView(q, kn) = W!LocalView(q, kn)
  BY <1>2, <1>3 DEF Store!LocalView, W!LocalView
<1>5. Store!vars = W!vars
  BY DEF Store!vars, W!vars
<1>6. Store!Values = W!Values /\ Store!NoRows = W!NoRows
  BY DEF Store!Values, W!Values, Store!NoRows, W!NoRows
<1>7. Store!Writes = W!Writes
  BY <1>6 DEF Store!Writes, W!Writes
<1>8. Store!Started = W!Started
  BY DEF Store!Started, W!Started
<1>9. Store!Cloud = W!Cloud
  BY <1>2 DEF Store!Cloud, W!Cloud
<1>10. \A a, b : Store!Newer(a, b) = W!Newer(a, b)
  BY DEF Store!Newer, W!Newer
<1>11. \A rows : Store!Snapshot(rows) = W!Snapshot(rows)
  BY DEF Store!Snapshot, W!Snapshot
<1> QED
  BY <1>1, <1>2, <1>4, <1>5, <1>6, <1>7, <1>8, <1>9, <1>10, <1>11

LEMMA SameEmit ==
  ASSUME NEW changed, NEW q, NEW kn, NEW w, NEW synced
  PROVE  Store!Emit(changed, q, kn, w, synced) <=> W!Emit(changed, q, kn, w, synced)
<1>1. Store!Replaced(changed, q, kn, w) = W!Replaced(changed, q, kn, w)
  BY SameViews DEF Store!Replaced, W!Replaced, Store!ShouldWaitForSyncedDocument,
    W!ShouldWaitForSyncedDocument
<1>2. \A rows : Store!Raises(rows, synced) <=> W!Raises(rows, synced)
  BY SameViews DEF Store!Raises, W!Raises
<1> QED
  BY SameViews, <1>1, <1>2 DEF Store!Emit, W!Emit, Store!viewVars, W!viewVars

LEMMA SameCalls ==
  /\ Store!GetAllGroceries <=> W!GetAllGroceries
  /\ \A n, d : Store!WriteGrocery(n, d) <=> W!WriteGrocery(n, d)
  /\ \A n, d : Store!WriteRow(n, d) <=> W!WriteRow(n, d)
  /\ \A u : Store!SignIn(u) <=> W!SignIn(u)
  /\ Store!Deliver <=> W!Deliver
  /\ \A n, d : Store!OtherDeviceWrites(n, d) <=> W!OtherDeviceWrites(n, d)
  /\ Store!Restart <=> W!Restart
  /\ Store!Commit <=> W!Commit
  /\ Store!StreamBreaks <=> W!StreamBreaks
  /\ Store!Offline <=> W!Offline
  /\ Store!ListenFails <=> W!ListenFails
<1> USE SameViews DEF Store!diskVars, W!diskVars, Store!viewVars, W!viewVars
<1>1. Store!GetAllGroceries <=> W!GetAllGroceries
  BY DEF Store!GetAllGroceries, W!GetAllGroceries, Store!Enqueue, W!Enqueue,
    Store!OnlyEnqueues, W!OnlyEnqueues
<1>a. \A n, d : Store!EnqueueWrite(n, d) <=> W!EnqueueWrite(n, d)
  BY DEF Store!EnqueueWrite, W!EnqueueWrite, Store!Enqueue, W!Enqueue,
    Store!OnlyEnqueues, W!OnlyEnqueues
<1>2. \A n, d : Store!WriteGrocery(n, d) <=> W!WriteGrocery(n, d)
  BY <1>a DEF Store!WriteGrocery, W!WriteGrocery
<1>b. \A n, d : Store!WriteRow(n, d) <=> W!WriteRow(n, d)
  BY <1>a DEF Store!WriteRow, W!WriteRow
<1>3. \A u : Store!SignIn(u) <=> W!SignIn(u)
  BY DEF Store!SignIn, W!SignIn, Store!Enqueue, W!Enqueue
<1>4. Store!Deliver <=> W!Deliver
  BY DEF Store!Deliver, W!Deliver
<1>5. \A n, d : Store!OtherDeviceWrites(n, d) <=> W!OtherDeviceWrites(n, d)
  BY DEF Store!OtherDeviceWrites, W!OtherDeviceWrites, Store!Cardinality, W!Cardinality
<1>6. Store!Restart <=> W!Restart
  BY DEF Store!Restart, W!Restart
<1>7. Store!Commit <=> W!Commit
  BY DEF Store!Commit, W!Commit, Store!NextToSend, W!NextToSend
<1>8. Store!StreamBreaks <=> W!StreamBreaks
  BY DEF Store!StreamBreaks, W!StreamBreaks, Store!GivesUp, W!GivesUp
<1>9. Store!Offline <=> W!Offline
  BY DEF Store!Offline, W!Offline, Store!GivesUp, W!GivesUp
<1>10. Store!ListenFails <=> W!ListenFails
  BY DEF Store!ListenFails, W!ListenFails, Store!Failure, W!Failure
<1> QED
  BY <1>1, <1>2, <1>b, <1>3, <1>4, <1>5, <1>6, <1>7, <1>8, <1>9, <1>10

LEMMA SameWork ==
  /\ Store!RunListen <=> W!RunListen
  /\ Store!RunWrite <=> W!RunWrite
  /\ Store!RunSignIn <=> W!RunSignIn
  /\ Store!Ack <=> W!Ack
  /\ Store!Reject <=> W!Reject
  /\ \A v : Store!WatchSnapshot(v) <=> W!WatchSnapshot(v)
<1> USE SameViews DEF Store!diskVars, W!diskVars, Store!NextTask, W!NextTask
<1>1. Store!RunListen <=> W!RunListen
  BY DEF Store!RunListen, W!RunListen
<1>2. Store!RunWrite <=> W!RunWrite
  BY SameEmit DEF Store!RunWrite, W!RunWrite
<1>3. Store!RunSignIn <=> W!RunSignIn
  BY SameEmit DEF Store!RunSignIn, W!RunSignIn
<1>4. Store!Ack <=> W!Ack
  BY SameEmit DEF Store!Ack, W!Ack
<1>5. Store!Reject <=> W!Reject
  BY SameEmit DEF Store!Reject, W!Reject
<1>6. \A v : Store!WatchSnapshot(v) <=> W!WatchSnapshot(v)
  BY SameEmit DEF Store!WatchSnapshot, W!WatchSnapshot, Store!Updates, W!Updates
<1> QED
  BY <1>1, <1>2, <1>3, <1>4, <1>5, <1>6

LEMMA SameSpec ==
  /\ W!Init <=> Store!Init
  /\ W!Next => Store!Next
<1>1. W!Init <=> Store!Init
  BY SameViews DEF W!Init, Store!Init
<1>2. W!Next => Store!Next
  BY SameViews, SameCalls, SameWork DEF W!Next, Store!Next, W!Sync, Store!Sync
<1> QED
  BY <1>1, <1>2

-----------------------------------------------------------------------------
(* The inductive invariant. *)

\* The pipeline, the write stream and its call, over the queue of the user.
WriteOK ==
  /\ pipeline \in Seq(W!Writes)
  /\ StreamOK(writeStream)
  /\ CallOK(pipeline, call)
  /\ OpenOK(writeStream, pipeline, call)
  /\ pipeline # <<>> => IsStarted(writeStream)
  /\ ready => IsFront(pipeline, pending[user])
  /\ ~ready => pipeline = <<>> /\ call = NoCall /\ writeStream = NewStream

TrackerOK(o) ==
  /\ o \in [state : {"unknown", "online", "offline"}, failures : Nat, timer : BOOLEAN]
  /\ o.timer => o.state = "unknown" /\ o.failures = 0
  /\ o.state = "online" => o.failures = 0

\* The watch stream, the online state and the listener.
WatchOK ==
  /\ StreamOK(watchStream)
  /\ TrackerOK(online)
  /\ Listening => IsStarted(watchStream)
  /\ listener = "none" => watchStream = NewStream /\ online = UpdateState("unknown")
  /\ WaitingIsTimed

\* The listen is the first task of all, and the only one of its kind.
TasksOK ==
  /\ ready \in BOOLEAN
  /\ ready => W!Started
  /\ \A k \in 1..Len(worker) : worker[k].op = "listen" <=> listener = "none" /\ k = 1

CountsOK ==
  /\ incidents \in 0..MaxRestarts
  /\ breaks \in 0..MaxBreaks
  /\ lost \in 0..breaks
  /\ refusals \in Nat

StoreOK == W!TypeInv /\ W!OrderInv

RemoteInv == StoreOK /\ WriteOK /\ WatchOK /\ TasksOK /\ CountsOK

\* What the store's own invariant says of the queues.
LEMMA Queues ==
  ASSUME StoreOK
  PROVE  /\ user \in Users
         /\ \A u \in Users : pending[u] \in Seq(W!Writes) /\ Sorted(pending[u])
         /\ issued \in Nat
         /\ \A k \in 1..Len(pending[user]) : pending[user][k].id < issued + 1
         /\ listener \in {"none", "waiting", "live", "dead"}
         /\ worker \in Seq(W!Tasks)
         /\ call.answers \in Seq(1..Len(log))
<1>1. /\ user \in Users /\ pending \in [Users -> Seq(W!Writes)] /\ issued \in Nat
      /\ listener \in {"none", "waiting", "live", "dead"} /\ worker \in Seq(W!Tasks)
      /\ call.answers \in Seq(1..Len(log))
  BY DEF StoreOK, W!TypeInv, W!TypeOK
<1>2. \A u \in Users : \A k \in 1..Len(pending[u]) : pending[u][k].id \in 1..issued
  BY DEF StoreOK, W!TypeInv, W!IdsIssued
<1>3. \A u \in Users : \A k \in 1..Len(pending[u]) : \A j \in 1..(k-1) :
        pending[u][j].id < pending[u][k].id
  BY DEF StoreOK, W!OrderInv, W!Ascending
<1>4. \A u \in Users : Sorted(pending[u])
  BY <1>1, <1>2, <1>3 DEF Sorted
<1>5. \A k \in 1..Len(pending[user]) : pending[user][k].id < issued + 1
  BY <1>1, <1>2
<1> QED
  BY <1>1, <1>4, <1>5

-----------------------------------------------------------------------------
(* The pipeline and the write stream. *)

\* The first write of the pipeline is the first of the queue.
LEMMA FrontAgrees ==
  ASSUME StoreOK, WriteOK, pipeline # <<>>
  PROVE  LET m == Head(pipeline)
             q == pending[user]
         IN /\ ready /\ q \in Seq(W!Writes) /\ q # <<>> /\ m = Head(q)
            /\ RemoveBatch(q, m) = Tail(q)
            /\ Tail(q) \in Seq(W!Writes) /\ Sorted(Tail(q))
            /\ Tail(pipeline) \in Seq(W!Writes) /\ IsPrefix(Tail(pipeline), Tail(q))
            /\ pending'= [pending EXCEPT ![user] = Tail(q)] => pending'[user] = Tail(q)
<1> DEFINE m == Head(pipeline)
           q == pending[user]
<1>1. ready /\ IsPrefix(pipeline, q) /\ pipeline \in Seq(W!Writes)
  BY DEF WriteOK, IsFront
<1>2. q \in Seq(W!Writes) /\ Sorted(q)
  BY Queues
<1>3. /\ q # <<>> /\ m = Head(q)
      /\ Sorted(Tail(q)) /\ IsPrefix(Tail(pipeline), Tail(q))
  BY <1>1, <1>2, TailsAgree
<1>4. RemoveBatch(q, m) = Tail(q)
  BY <1>2, <1>3, RemoveFirst
<1>5. Tail(q) \in Seq(W!Writes) /\ Tail(pipeline) \in Seq(W!Writes)
  BY <1>1, <1>2, <1>3, TailIndex
<1>6. pending' = [pending EXCEPT ![user] = Tail(q)] => pending'[user] = Tail(q)
  BY Queues DEF StoreOK, W!TypeInv, W!TypeOK
<1> QED
  BY <1>1, <1>2, <1>3, <1>4, <1>5, <1>6

\* An answer belongs to the first write of the pipeline; without it the call
\* fits the rest.
LEMMA AnswerIsForFront ==
  ASSUME StoreOK, WriteOK, call.answers # <<>>
  PROVE  LET c == [call EXCEPT !.answers = Tail(@)]
         IN /\ pipeline # <<>>
            /\ CallOK(Tail(pipeline), c) /\ OpenOK(writeStream, Tail(pipeline), c)
            /\ c.answers = Tail(call.answers)
<1> DEFINE c == [call EXCEPT !.answers = Tail(@)]
           a == call.answers
           r == call.requests
           p == pipeline
<1>1. /\ call \in Calls /\ a \in Seq(Nat) /\ r \in Seq(W!Writes) /\ p \in Seq(W!Writes)
      /\ WireFits(p, a, r)
      /\ call.shaken /\ ~call.finishing
      /\ call.ended = "no" => WireIsAll(p, a, r)
  BY DEF WriteOK, CallOK, Calls
<1> HIDE DEF a, r, p
<1>2. /\ p # <<>> /\ Tail(a) \in Seq(Nat) /\ Tail(p) \in Seq(W!Writes)
      /\ WireFits(Tail(p), Tail(a), r)
      /\ WireIsAll(p, a, r) => WireIsAll(Tail(p), Tail(a), r)
  BY <1>1, WirePops DEF a
<1> DEFINE ta == Tail(a)
           tp == Tail(p)
<1>3. /\ c \in Calls /\ c.answers = ta /\ c.requests = r /\ c.shaken = call.shaken
      /\ c.idle = call.idle /\ c.ended = call.ended /\ c.finishing = call.finishing
  <2>1. ta \in Seq(Nat)
    BY <1>2
  <2> HIDE DEF ta
  <2>2. c = [call EXCEPT !.answers = ta]
    BY DEF ta, a
  <2> QED
    BY <1>1, <2>1, <2>2 DEF Calls, r
<1> HIDE DEF c
<1>4. ~call.idle
  BY <1>2 DEF WriteOK, CallOK, p
<1>5. CallOK(tp, c)
  <2> HIDE DEF ta, tp
  <2>1. /\ WireFits(tp, ta, r)
        /\ c.shaken /\ c.ended = "no" => WireIsAll(tp, ta, r)
    BY <1>1, <1>2, <1>3 DEF ta, tp
  <2> QED
    BY <1>1, <1>3, <1>4, <2>1 DEF CallOK
<1>6. OpenOK(writeStream, tp, c)
  <2>1. call # NoCall
    BY DEF NoCall
  <2>2. writeStream.state = "open"
    BY <2>1 DEF WriteOK, OpenOK
  <2> QED
    BY <1>1, <1>3, <2>2 DEF OpenOK
<1> QED
  BY <1>2, <1>3, <1>5, <1>6 DEF c, a, p

\* Filling the pipeline from the queue of the user keeps all of it right.
LEMMA FillKeepsWriteOK ==
  ASSUME NEW s, NEW p \in Seq(W!Writes), NEW q \in Seq(W!Writes), NEW c,
         Sorted(q), IsPrefix(p, q), StreamOK(s), CallOK(p, c), OpenOK(s, p, c),
         FillWritePipeline(s, p, q, c),
         ready', pending'[user'] = q
  PROVE  WriteOK' /\ call'.answers = c.answers
<1>1. /\ pipeline' \in Seq(W!Writes) /\ IsFront(pipeline', q)
      /\ StreamOK(writeStream') /\ CallOK(pipeline', call')
      /\ OpenOK(writeStream', pipeline', call')
      /\ pipeline' # <<>> => IsStarted(writeStream')
      /\ call'.answers = c.answers
  BY FillKeeps
<1>2. IsFront(pipeline', pending'[user'])
  BY <1>1
<1> QED
  BY <1>1, <1>2 DEF WriteOK

\* The empty pipeline is a prefix of every queue.
LEMMA EmptyIsPrefix ==
  ASSUME NEW q \in Seq(W!Writes)
  PROVE  IsPrefix(<<>>, q)
<1>1. Len(<<>>) = 0 /\ Len(q) \in Nat
  BY LenProperties
<1> QED
  BY <1>1, Assumed DEF IsPrefix

\* A stopped stream has no call, and fits an empty pipeline.
LEMMA StoppedIsOpenOK ==
  ASSUME NEW s, StreamOK(s), NEW state \in {"initial", "error"}, NEW p
  PROVE  StreamOK(Closed(s, state)) /\ OpenOK(Closed(s, state), p, NoCall)
<1>1. StreamOK(Closed(s, state)) /\ ~IsStarted(Closed(s, state))
  BY StreamSteps
<1> QED
  BY <1>1 DEF OpenOK

LEMMA StartClientKeepsWriteOK ==
  ASSUME StoreOK, WriteOK, StartClient
  PROVE  WriteOK' /\ call'.answers = call.answers
<1> DEFINE q == pending[user]
<1>1. /\ q \in Seq(W!Writes) /\ Sorted(q)
      /\ pipeline = <<>> /\ IsPrefix(pipeline, q)
  BY Queues, EmptyIsPrefix DEF StartClient, WriteOK
<1>2. /\ StreamOK(writeStream) /\ CallOK(pipeline, call) /\ OpenOK(writeStream, pipeline, call)
      /\ pipeline \in Seq(W!Writes)
  BY DEF WriteOK
<1>3. /\ FillWritePipeline(writeStream, pipeline, q, call)
      /\ ready' /\ pending'[user'] = q
  BY DEF StartClient, appVars, diskVars
<1> QED
  BY <1>1, <1>2, <1>3, FillKeepsWriteOK

LEMMA RunWriteKeepsWriteOK ==
  ASSUME StoreOK, WriteOK, RunWrite
  PROVE  WriteOK' /\ call'.answers = call.answers
<1> DEFINE m == [id |-> issued + 1, name |-> Head(worker).name, doc |-> Head(worker).doc]
           q == pending[user]
<1>1. /\ ready /\ ready'
      /\ FillWritePipeline(writeStream, pipeline, Append(q, m), call)
      /\ worker # <<>> /\ Head(worker).op = "write"
  BY DEF RunWrite
<1>2. pending' = [pending EXCEPT ![user] = Append(q, m)] /\ user' = user
  BY DEF RunWrite, Store!RunWrite
<1>3. /\ q \in Seq(W!Writes) /\ Sorted(q) /\ issued \in Nat
      /\ \A k \in 1..Len(q) : q[k].id < issued + 1
      /\ pending \in [Users -> Seq(W!Writes)] /\ user \in Users
  BY Queues DEF StoreOK, W!TypeInv, W!TypeOK
<1>4. m \in W!Writes /\ m.id = issued + 1 /\ m.id # 0
  <2>1. Head(worker) \in W!Tasks
    BY <1>1, Queues, HeadTailProperties
  <2>2. Head(worker).name \in Names /\ Head(worker).doc \in W!Values
    BY <1>1, <2>1 DEF W!Tasks
  <2> QED
    BY <1>3, <2>2 DEF W!Writes
<1>5. /\ StreamOK(writeStream) /\ CallOK(pipeline, call) /\ OpenOK(writeStream, pipeline, call)
      /\ pipeline \in Seq(W!Writes) /\ IsPrefix(pipeline, q)
  BY <1>1 DEF WriteOK, IsFront
<1> DEFINE r == Append(q, m)
<1> HIDE DEF m
<1>6. r \in Seq(W!Writes)
  BY <1>3, <1>4, AppendProperties
<1>7. Sorted(r) /\ IsPrefix(pipeline, r)
  <2>1. \A k \in 1..Len(q) : q[k].id < m.id
    BY <1>3, <1>4
  <2> HIDE DEF q
  <2> QED
    BY <1>3, <1>4, <1>5, <2>1, AppendAgrees
<1> HIDE DEF r
<1>8. pending'[user'] = r
  BY <1>2, <1>3 DEF r
<1> QED
  BY <1>1, <1>5, <1>6, <1>7, <1>8, FillKeepsWriteOK DEF r

\* Starting over from whatever queue is in use then.
LEMMA RestartNetworkKeepsWriteOK ==
  ASSUME StoreOK, WriteOK, NEW q \in Seq(W!Writes), Sorted(q), RestartNetwork(q),
         ready', pending'[user'] = q
  PROVE  WriteOK' /\ call'.answers = <<>>
<1> DEFINE s == Closed(writeStream, "initial")
<1>1. FillWritePipeline(s, <<>>, q, NoCall)
  BY DEF RestartNetwork
<1>2. StreamOK(s) /\ OpenOK(s, <<>>, NoCall)
  BY StoppedIsOpenOK DEF WriteOK
<1>3. <<>> \in Seq(W!Writes) /\ IsPrefix(<<>>, q) /\ CallOK(<<>>, NoCall)
  <2>1. <<>> \in Seq(W!Writes)
    OBVIOUS
  <2> QED
    BY <2>1, EmptyIsPrefix, NoCallOK
<1>4. NoCall.answers = <<>>
  BY DEF NoCall
<1> HIDE DEF s
<1> QED
  BY <1>1, <1>2, <1>3, <1>4, FillKeepsWriteOK

\* Steps that only change the stream and the call.
LEMMA OnlyCallChanges ==
  ASSUME WriteOK, ready, NEW s, NEW c,
         StreamOK(s), CallOK(pipeline, c), OpenOK(s, pipeline, c),
         pipeline # <<>> => IsStarted(s),
         writeStream' = s, call' = c, UNCHANGED <<pending, pipeline, ready, user>>
  PROVE  WriteOK'
<1>1. IsFront(pipeline, pending[user]) /\ pipeline \in Seq(W!Writes)
  BY DEF WriteOK
<1>2. pipeline' = pipeline /\ pending'[user'] = pending[user] /\ ready'
  OBVIOUS
<1>3. /\ CallOK(pipeline', call') /\ OpenOK(writeStream', pipeline', call')
      /\ IsFront(pipeline', pending'[user']) /\ pipeline' \in Seq(W!Writes)
      /\ pipeline' # <<>> => IsStarted(writeStream')
      /\ StreamOK(writeStream')
  BY <1>1, <1>2
<1> QED
  BY <1>2, <1>3 DEF WriteOK

\* The write stream is stopped, and starts again if it is needed.
LEMMA ClosedKeepsWriteOK ==
  ASSUME WriteOK, ready, NEW o, StreamOK(o), ~IsStarted(o),
         writeStream' = StartIfNeeded(o, pipeline),
         call' = NoCall, UNCHANGED <<pending, pipeline, ready, user>>
  PROVE  WriteOK'
<1> DEFINE s == StartIfNeeded(o, pipeline)
<1>1. StreamOK(Start(o)) /\ IsStarted(Start(o))
  BY StreamSteps
<1>2. /\ StreamOK(s)
      /\ pipeline # <<>> => IsStarted(s)
      /\ pipeline = <<>> => ~IsStarted(s)
  BY <1>1 DEF StartIfNeeded
<1> HIDE DEF s
<1>3. CallOK(pipeline, NoCall)
  BY NoCallOK DEF WriteOK
<1>4. OpenOK(s, pipeline, NoCall)
  BY <1>2 DEF OpenOK
<1>5. writeStream' = s
  BY DEF s
<1> QED
  BY <1>2, <1>3, <1>4, <1>5, OnlyCallChanges

LEMMA ReadAnswerKeepsWriteOK ==
  ASSUME StoreOK, WriteOK, ReadAnswer
  PROVE  WriteOK' /\ call'.answers = Tail(call.answers)
<1> DEFINE c == [call EXCEPT !.answers = Tail(@)]
           q == pending[user]
<1>1. /\ pipeline # <<>> /\ CallOK(Tail(pipeline), c) /\ OpenOK(writeStream, Tail(pipeline), c)
      /\ c.answers = Tail(call.answers)
  BY AnswerIsForFront DEF ReadAnswer
<1>2. /\ ready /\ RemoveBatch(q, Head(pipeline)) = Tail(q)
      /\ Tail(q) \in Seq(W!Writes) /\ Sorted(Tail(q))
      /\ Tail(pipeline) \in Seq(W!Writes) /\ IsPrefix(Tail(pipeline), Tail(q))
      /\ pending'= [pending EXCEPT ![user] = Tail(q)] => pending'[user] = Tail(q)
  BY <1>1, FrontAgrees
<1>3. /\ FillWritePipeline(writeStream, Tail(pipeline), Tail(q), c)
      /\ pending' = [pending EXCEPT ![user] = Tail(q)]
      /\ ready' = ready /\ user' = user
  BY <1>2 DEF ReadAnswer
<1>4. StreamOK(writeStream)
  BY DEF WriteOK
<1> HIDE DEF c, q
<1> QED
  BY <1>1, <1>2, <1>3, <1>4, FillKeepsWriteOK

LEMMA StreamFinishesKeepsWriteOK ==
  ASSUME StoreOK, WriteOK, StreamFinishes
  PROVE  WriteOK' /\ call'.answers = <<>>
<1> DEFINE q == pending[user]
<1>0. NoCall.answers = <<>>
  BY DEF NoCall
<1>1. CASE IsRejection
  <2>1. pipeline # <<>>
    BY <1>1 DEF IsRejection
  <2>2. /\ ready /\ RemoveBatch(q, Head(pipeline)) = Tail(q)
        /\ Tail(q) \in Seq(W!Writes) /\ Sorted(Tail(q))
        /\ Tail(pipeline) \in Seq(W!Writes) /\ IsPrefix(Tail(pipeline), Tail(q))
        /\ pending'= [pending EXCEPT ![user] = Tail(q)] => pending'[user] = Tail(q)
    BY <2>1, FrontAgrees
  <2>3. /\ FillWritePipeline(Closed(writeStream, "initial"), Tail(pipeline), Tail(q), NoCall)
        /\ pending' = [pending EXCEPT ![user] = Tail(q)]
        /\ ready' = ready /\ user' = user
    BY <1>1, <2>2 DEF StreamFinishes
  <2>4. /\ StreamOK(Closed(writeStream, "initial"))
        /\ OpenOK(Closed(writeStream, "initial"), Tail(pipeline), NoCall)
    BY StoppedIsOpenOK DEF WriteOK
  <2>5. CallOK(Tail(pipeline), NoCall)
    BY <2>2, NoCallOK
  <2> HIDE DEF q
  <2> QED
    BY <1>0, <2>2, <2>3, <2>4, <2>5, FillKeepsWriteOK
<1>2. CASE ~IsRejection
  <2>1. /\ writeStream' = StartIfNeeded(Closed(writeStream, "error"), pipeline)
        /\ call' = NoCall
        /\ UNCHANGED <<pending, pipeline, ready, user>>
    BY <1>2 DEF StreamFinishes
  <2>2. ready
    BY DEF StreamFinishes, WriteOK, NoCall
  <2>3. StreamOK(Closed(writeStream, "error")) /\ ~IsStarted(Closed(writeStream, "error"))
    BY StreamSteps DEF WriteOK
  <2> QED
    BY <1>0, <2>1, <2>2, <2>3, ClosedKeepsWriteOK
<1> QED
  BY <1>1, <1>2

\* Tokens and back-off.
LEMMA WriteTokensKeepWriteOK ==
  ASSUME WriteOK,
         \/ \E token \in {"current", "stale"} : WriteTokenArrives(token)
         \/ WriteTokenFails \/ WriteBackoffElapses
  PROVE  WriteOK' /\ call' = call
<1>0. /\ call' = call /\ UNCHANGED <<pending, pipeline, ready, user>>
      /\ StreamOK(writeStream) /\ CallOK(pipeline, call) /\ OpenOK(writeStream, pipeline, call)
      /\ pipeline # <<>> => IsStarted(writeStream)
  BY DEF WriteOK, WriteTokenArrives, WriteTokenFails, WriteBackoffElapses, appVars, diskVars
<1>1. ready
  BY DEF WriteOK, NewStream, WriteTokenArrives, WriteTokenFails, WriteBackoffElapses
<1>2. ASSUME NEW token \in {"current", "stale"}, WriteTokenArrives(token)
      PROVE  WriteOK'
  <2> DEFINE s == Resumed(writeStream, token)
  <2>1. token \in writeStream.tokens /\ writeStream' = s
    BY <1>2 DEF WriteTokenArrives
  <2>2. /\ StreamOK(s)
        /\ IsStarted(writeStream) => IsStarted(s)
        /\ s.state = "open" => IsStarted(writeStream)
        /\ writeStream.state = "open" => s.state = "open"
    BY <1>0, <2>1, StreamSteps
  <2>3. IsStarted(s) => IsStarted(writeStream)
    BY <2>2 DEF Resumed, IsStarted
  <2> HIDE DEF s
  <2>4. OpenOK(s, pipeline, call)
    BY <1>0, <2>2, <2>3 DEF OpenOK
  <2> QED
    BY <1>0, <1>1, <2>1, <2>2, <2>4, OnlyCallChanges
<1>3. CASE WriteTokenFails
  <2> DEFINE o == Closed([writeStream EXCEPT !.tokens = @ \ {"current"}], "error")
  <2>1. "current" \in writeStream.tokens /\ writeStream' = StartIfNeeded(o, pipeline)
    BY <1>3 DEF WriteTokenFails
  <2>2. StreamOK(o) /\ ~IsStarted(o)
    BY <1>0, <2>1, StreamSteps DEF Closed, IsStarted
  <2>3. call = NoCall
    BY <1>0, <2>1 DEF StreamOK, OpenOK
  <2> HIDE DEF o
  <2> QED
    BY <1>0, <1>1, <2>1, <2>2, <2>3, ClosedKeepsWriteOK
<1>4. CASE WriteBackoffElapses
  <2> DEFINE s == Retried(writeStream)
  <2>1. writeStream.state = "backoff" /\ writeStream' = s
    BY <1>4 DEF WriteBackoffElapses
  <2>2. StreamOK(s) /\ IsStarted(s) /\ s.state # "open"
    BY <1>0, <2>1, StreamSteps
  <2>3. IsStarted(writeStream)
    BY <2>1 DEF IsStarted
  <2> HIDE DEF s
  <2>4. OpenOK(s, pipeline, call)
    BY <1>0, <2>1, <2>2, <2>3 DEF OpenOK
  <2> QED
    BY <1>0, <1>1, <2>1, <2>2, <2>4, OnlyCallChanges
<1> QED
  BY <1>0, <1>2, <1>3, <1>4

\* The answer to the handshake.
LEMMA HandshakeKeepsWriteOK ==
  ASSUME WriteOK, HandshakeCompletes
  PROVE  WriteOK' /\ call'.answers = call.answers
<1> DEFINE p == pipeline
           c == [call EXCEPT !.shaken = TRUE]
           n == Send(p, c)
<1>1. /\ writeStream.state = "open" /\ ~call.shaken /\ call.ended = "no"
      /\ call' = n /\ UNCHANGED <<pending, pipeline, ready, user, writeStream>>
  BY DEF HandshakeCompletes, appVars, diskVars
<1>2. /\ call \in Calls /\ p \in Seq(W!Writes)
      /\ call.requests = <<>> /\ call.answers = <<>> /\ ~call.idle
      /\ StreamOK(writeStream)
      /\ p # <<>> => IsStarted(writeStream)
  BY <1>1 DEF WriteOK, CallOK
<1>3. ready
  BY <1>1 DEF WriteOK, NewStream
<1>4. /\ c \in Calls /\ c.requests = <<>> /\ c.answers = <<>> /\ ~c.idle
      /\ c.shaken /\ c.ended = "no" /\ c.finishing = call.finishing
  BY <1>1, <1>2 DEF Calls
<1>5. ~call.finishing
  BY <1>1 DEF WriteOK, CallOK
<1> HIDE DEF c, p
<1>6. /\ n \in Calls /\ n.requests = p /\ n.answers = <<>> /\ ~n.idle
      /\ n.shaken /\ n.ended = "no" /\ ~n.finishing
  <2>1. CASE p = <<>>
    BY <1>4, <1>5, <2>1 DEF Send
  <2>2. CASE p # <<>>
    <3>1. n = [c EXCEPT !.requests = <<>> \o p, !.idle = FALSE]
      BY <1>4, <2>2 DEF Send
    <3>2. <<>> \o p = p
      BY <1>2, ConcatEmptySeq
    <3> HIDE DEF n
    <3> QED
      BY <1>2, <1>4, <1>5, <3>1, <3>2 DEF Calls
  <2> QED
    BY <2>1, <2>2
<1> HIDE DEF n
<1>7. WireFits(p, <<>>, p) /\ WireIsAll(p, <<>>, p)
  <2>1. Len(<<>>) = 0 /\ Len(p) \in Nat
    BY <1>2, LenProperties
  <2> QED
    BY <2>1 DEF WireFits, WireIsAll
<1>8. CallOK(p, n)
  BY <1>6, <1>7 DEF CallOK
<1>9. OpenOK(writeStream, p, n)
  BY <1>1, <1>6 DEF OpenOK
<1> QED
  BY <1>1, <1>2, <1>3, <1>6, <1>8, <1>9, OnlyCallChanges DEF p

\* A call with anything on it belongs to an open stream.
LEMMA CallIsOpen ==
  ASSUME WriteOK, call # NoCall
  PROVE  ready /\ writeStream.state = "open"
BY DEF WriteOK, OpenOK

\* The cloud takes the next write; it is the one that GroceryStore takes.
LEMMA TakeWriteKeepsWriteOK ==
  ASSUME StoreOK, WriteOK, TakeWrite
  PROVE  /\ WriteOK' /\ ready
         /\ call'.answers = Append(call.answers, Len(log) + 1)
         /\ Len(call.answers) < kMaxPendingWrites
         /\ Len(call.answers) < Len(pending[user])
         /\ Head(call.requests) = pending[user][Len(call.answers) + 1]
<1> DEFINE a == call.answers
           r == call.requests
           v == Len(log) + 1
           c == [call EXCEPT !.requests = Tail(@), !.answers = Append(@, v)]
<1>1. /\ call.ended = "no" /\ r # <<>> /\ call' = c
      /\ UNCHANGED <<pending, pipeline, ready, user, writeStream>>
  BY DEF TakeWrite, diskVars
<1>2. /\ call \in Calls /\ a \in Seq(Nat) /\ r \in Seq(W!Writes) /\ pipeline \in Seq(W!Writes)
      /\ WireFits(pipeline, a, r)
      /\ call.shaken /\ ~call.finishing
      /\ WireIsAll(pipeline, a, r)
  BY <1>1 DEF WriteOK, CallOK, Calls
<1>3. v \in Nat
  BY LenProperties DEF StoreOK, W!TypeInv, W!TypeOK
<1>4. call # NoCall
  BY <1>1 DEF NoCall
<1>5. ready /\ writeStream.state = "open"
  BY <1>4, CallIsOpen
<1> HIDE DEF a, r, v
<1>6. /\ Append(a, v) \in Seq(Nat) /\ Tail(r) \in Seq(W!Writes)
      /\ WireFits(pipeline, Append(a, v), Tail(r))
      /\ WireIsAll(pipeline, Append(a, v), Tail(r))
      /\ Len(a) + 1 \in 1..Len(pipeline)
      /\ Head(r) = pipeline[Len(a) + 1]
  BY <1>1, <1>2, <1>3, WireTakes
<1> DEFINE na == Append(a, v)
           nr == Tail(r)
<1>7. c = [call EXCEPT !.requests = nr, !.answers = na]
  BY DEF a, r
<1>8. na \in Seq(Nat) /\ nr \in Seq(W!Writes)
  BY <1>6
<1>9. WireFits(pipeline, na, nr) /\ WireIsAll(pipeline, na, nr)
  BY <1>6
<1> HIDE DEF na, nr, c
<1>10. /\ c \in Calls /\ c.answers = na /\ c.requests = nr /\ c.shaken /\ c.ended = "no"
       /\ ~c.finishing /\ c.idle = call.idle
  BY <1>1, <1>2, <1>7, <1>8 DEF Calls
<1>11. c.idle => pipeline = <<>>
  BY <1>10 DEF WriteOK, CallOK
<1>12. CallOK(pipeline, c)
  BY <1>9, <1>10, <1>11 DEF CallOK
<1>13. OpenOK(writeStream, pipeline, c)
  BY <1>5, <1>10 DEF OpenOK
<1>14. WriteOK'
  <2>1. StreamOK(writeStream) /\ (pipeline # <<>> => IsStarted(writeStream))
    BY DEF WriteOK
  <2> QED
    BY <1>1, <1>5, <1>12, <1>13, <2>1, OnlyCallChanges
<1>15. IsFront(pipeline, pending[user])
  BY <1>5 DEF WriteOK
<1>16. /\ Len(pipeline) <= kMaxPendingWrites /\ Len(pipeline) <= Len(pending[user])
       /\ \A k \in 1..Len(pipeline) : pipeline[k] = pending[user][k]
  BY <1>15 DEF IsFront, IsPrefix
<1>17. Len(a) \in Nat /\ Len(pipeline) \in Nat /\ Len(pending[user]) \in Nat
  BY <1>2, Queues, LenProperties
<1>18. Len(a) < kMaxPendingWrites /\ Len(a) < Len(pending[user])
  <2>1. Len(a) + 1 <= Len(pipeline)
    BY <1>6, <1>17
  <2>2. kMaxPendingWrites \in Nat
    BY Assumed
  <2>3. Len(pipeline) <= kMaxPendingWrites /\ Len(pipeline) <= Len(pending[user])
    BY <1>16
  <2> QED
    BY <1>17, <2>1, <2>2, <2>3
<1>19. Head(r) = pending[user][Len(a) + 1]
  BY <1>6, <1>16
<1> QED
  BY <1>1, <1>5, <1>10, <1>14, <1>18, <1>19 DEF a, r, v, na

\* The call ends, by the refusal of a request or otherwise.
LEMMA EndKeepsWriteOK ==
  ASSUME WriteOK, RefuseWrite \/ \E status \in {"transient", "permanent"} : CallEnds(status)
  PROVE  WriteOK' /\ call'.answers = call.answers
<1> DEFINE r == call.requests
<1>1. PICK status \in {"transient", "permanent"} :
        /\ call.ended = "no" /\ writeStream.state = "open"
        /\ call' = [call EXCEPT !.requests = <<>>, !.ended = status]
        /\ UNCHANGED <<pending, pipeline, ready, user, writeStream>>
  <2>1. CASE RefuseWrite
    <3>1. call # NoCall
      BY <2>1 DEF RefuseWrite, NoCall
    <3> QED
      BY <2>1, <3>1, CallIsOpen DEF RefuseWrite, appVars, diskVars
  <2>2. CASE \E status \in {"transient", "permanent"} : CallEnds(status)
    BY <2>2 DEF CallEnds, appVars, diskVars
  <2> QED
    BY <2>1, <2>2
<1> DEFINE c == [call EXCEPT !.requests = <<>>, !.ended = status]
           a == call.answers
<1>2. ready
  BY <1>1 DEF WriteOK, NewStream
<1>3. /\ call \in Calls /\ a \in Seq(Nat) /\ r \in Seq(W!Writes) /\ pipeline \in Seq(W!Writes)
      /\ WireFits(pipeline, a, r) /\ ~call.finishing
      /\ call.idle => pipeline = <<>>
      /\ ~call.shaken => a = <<>> /\ ~call.idle
      /\ IsStarted(writeStream) /\ pipeline = <<>> => call.shaken
      /\ StreamOK(writeStream)
      /\ pipeline # <<>> => IsStarted(writeStream)
  BY <1>1 DEF WriteOK, CallOK, OpenOK, Calls
<1>4. /\ c \in Calls /\ c.answers = a /\ c.requests = <<>> /\ c.shaken = call.shaken
      /\ c.idle = call.idle /\ ~c.finishing /\ c.ended # "no"
  <2> DEFINE e == <<>>
  <2>1. call \in Calls /\ ~call.finishing
    BY <1>3
  <2>2. e \in Seq(W!Writes) /\ c = [call EXCEPT !.requests = e, !.ended = status]
    OBVIOUS
  <2> HIDE DEF e, c
  <2>3. /\ c \in Calls /\ c.answers = a /\ c.requests = e /\ c.shaken = call.shaken
        /\ c.idle = call.idle /\ c.finishing = call.finishing /\ c.ended = status
    BY <2>1, <2>2 DEF Calls
  <2> QED
    BY <2>1, <2>3 DEF e
<1> HIDE DEF c, a, r
<1>5. WireFits(pipeline, a, <<>>)
  <2>1. Len(<<>>) = 0 /\ Len(a) \in Nat /\ Len(r) \in Nat /\ Len(pipeline) \in Nat
    BY <1>3, LenProperties
  <2> QED
    BY <1>3, <2>1 DEF WireFits
<1>6. CallOK(pipeline, c)
  BY <1>3, <1>4, <1>5 DEF CallOK
<1>7. OpenOK(writeStream, pipeline, c)
  BY <1>1, <1>3, <1>4 DEF OpenOK
<1>8. WriteOK'
  BY <1>1, <1>2, <1>3, <1>6, <1>7, OnlyCallChanges DEF c
<1> QED
  BY <1>1, <1>4, <1>8 DEF c, a

\* The client notices that the call has ended.
LEMMA OperationFailsKeepsWriteOK ==
  ASSUME WriteOK, OperationFails
  PROVE  WriteOK' /\ call'.answers = <<>>
<1> DEFINE c == [call EXCEPT !.answers = <<>>, !.finishing = TRUE]
           a == call.answers
           r == call.requests
<1>1. /\ call.ended # "no" /\ call' = c
      /\ UNCHANGED <<pending, pipeline, ready, user, writeStream>>
  BY DEF OperationFails, appVars, diskVars
<1>2. ready /\ writeStream.state = "open"
  <2>1. call # NoCall
    BY <1>1 DEF NoCall
  <2> QED
    BY <2>1, CallIsOpen
<1>3. /\ call \in Calls /\ a \in Seq(Nat) /\ r \in Seq(W!Writes) /\ pipeline \in Seq(W!Writes)
      /\ WireFits(pipeline, a, r)
      /\ call.idle => pipeline = <<>>
      /\ ~call.shaken => r = <<>> /\ ~call.idle
      /\ IsStarted(writeStream) /\ pipeline = <<>> => call.shaken
      /\ StreamOK(writeStream)
      /\ pipeline # <<>> => IsStarted(writeStream)
  BY DEF WriteOK, CallOK, OpenOK, Calls
<1>4. /\ c \in Calls /\ c.answers = <<>> /\ c.requests = r /\ c.shaken = call.shaken
      /\ c.idle = call.idle /\ c.finishing /\ c.ended = call.ended
  <2> DEFINE e == <<>>
  <2>1. call \in Calls
    BY <1>3
  <2>2. e \in Seq(Nat) /\ c = [call EXCEPT !.answers = e, !.finishing = TRUE]
    OBVIOUS
  <2> HIDE DEF e, c
  <2>3. /\ c \in Calls /\ c.answers = e /\ c.requests = r /\ c.shaken = call.shaken
        /\ c.idle = call.idle /\ c.finishing /\ c.ended = call.ended
    BY <2>1, <2>2 DEF Calls
  <2> QED
    BY <2>3 DEF e
<1> HIDE DEF c, a, r
<1>5. WireFits(pipeline, <<>>, r)
  <2>1. Len(<<>>) = 0 /\ Len(a) \in Nat /\ Len(r) \in Nat /\ Len(pipeline) \in Nat
    BY <1>3, LenProperties
  <2> QED
    BY <1>3, <2>1 DEF WireFits
<1>6. CallOK(pipeline, c)
  BY <1>1, <1>3, <1>4, <1>5 DEF CallOK
<1>7. OpenOK(writeStream, pipeline, c)
  BY <1>2, <1>3, <1>4 DEF OpenOK
<1>8. WriteOK'
  BY <1>1, <1>2, <1>3, <1>6, <1>7, OnlyCallChanges
<1> QED
  BY <1>1, <1>4, <1>8

\* The idle stream is stopped: nothing is on its call.
LEMMA IdleTimeoutKeepsWriteOK ==
  ASSUME WriteOK, IdleTimeout
  PROVE  WriteOK' /\ call'.answers = call.answers
<1> DEFINE o == Closed(writeStream, "initial")
           a == call.answers
           r == call.requests
<1>1. /\ call.idle /\ writeStream' = o /\ call' = NoCall
      /\ UNCHANGED <<pending, pipeline, ready, user>>
  BY DEF IdleTimeout, appVars, diskVars
<1>2. ready
  <2>1. call # NoCall
    BY <1>1 DEF NoCall
  <2> QED
    BY <2>1, CallIsOpen
<1>3. /\ pipeline = <<>> /\ a \in Seq(Nat) /\ r \in Seq(W!Writes)
      /\ WireFits(pipeline, a, r) /\ StreamOK(writeStream)
  BY <1>1 DEF WriteOK, CallOK, Calls
<1>4. a = <<>>
  <2> HIDE DEF a, r
  <2>1. Len(<<>>) = 0 /\ Len(a) \in Nat /\ Len(r) \in Nat
    BY <1>3, LenProperties
  <2>2. Len(a) + Len(r) <= 0
    BY <1>3, <2>1 DEF WireFits
  <2>3. Len(a) = 0
    BY <2>1, <2>2
  <2> QED
    BY <1>3, <2>3, EmptySeq
<1>5. StreamOK(o) /\ ~IsStarted(o)
  BY <1>3, StreamSteps
<1> HIDE DEF o
<1>6. o = StartIfNeeded(o, pipeline)
  BY <1>3 DEF StartIfNeeded
<1>7. WriteOK'
  BY <1>1, <1>2, <1>5, <1>6, ClosedKeepsWriteOK
<1> QED
  BY <1>1, <1>4, <1>7 DEF NoCall

\* The network is lost, with the open stream.
LEMMA NetworkIsLostKeepsWriteOK ==
  ASSUME WriteOK, NetworkIsLost
  PROVE  WriteOK' /\ call'.answers = <<>>
<1>0. NoCall.answers = <<>>
  BY DEF NoCall
<1>1. ready /\ UNCHANGED <<pending, pipeline, ready, user>>
  BY DEF NetworkIsLost, appVars, diskVars
<1>2. CASE writeStream.state = "open"
  <2> DEFINE o == Closed(writeStream, "error")
  <2>1. writeStream' = StartIfNeeded(o, pipeline) /\ call' = NoCall
    BY <1>2 DEF NetworkIsLost
  <2>2. StreamOK(o) /\ ~IsStarted(o)
    BY StreamSteps DEF WriteOK
  <2> HIDE DEF o
  <2> QED
    BY <1>0, <1>1, <2>1, <2>2, ClosedKeepsWriteOK
<1>3. CASE writeStream.state # "open"
  <2>1. call = NoCall
    BY <1>3 DEF WriteOK, OpenOK
  <2>2. UNCHANGED <<writeStream, call>>
    BY <1>3 DEF NetworkIsLost
  <2> QED
    BY <1>0, <1>1, <2>1, <2>2, OnlyCallChanges DEF WriteOK
<1> QED
  BY <1>2, <1>3

-----------------------------------------------------------------------------
(* The watch stream, the online state and the listener. *)

\* The listener only ever moves on from waiting.
ListenerMovesOn == listener' = listener \/ (listener = "waiting" /\ listener' = "live")

LEMMA EmitMovesOn ==
  ASSUME StoreOK, NEW changed, NEW q, NEW kn, NEW w, NEW synced,
         Store!Emit(changed, q, kn, w, synced)
  PROVE  ListenerMovesOn
<1>1. listener \in {"none", "waiting", "live", "dead"}
  BY Queues
<1>2. listener' = listener \/ (listener \notin {"none", "dead"} /\ listener' = "live")
  BY DEF Store!Emit, Store!viewVars
<1> QED
  BY <1>1, <1>2 DEF ListenerMovesOn

LEMMA BroadcastMovesOn ==
  ASSUME NEW o, Broadcast(o)
  PROVE  /\ ListenerMovesOn
         /\ W!GivesUp \/ UNCHANGED W!viewVars
         /\ o.state = "offline" => listener' # "waiting"
BY SameViews DEF Broadcast, ListenerMovesOn, W!GivesUp, W!viewVars, viewVars

LEMMA TrackerSteps ==
  ASSUME NEW o, TrackerOK(o)
  PROVE  /\ TrackerOK(HandleWatchStreamStart(o))
         /\ TrackerOK(HandleWatchStreamFailure(o))
         /\ TrackerOK(UpdateState("unknown")) /\ TrackerOK(UpdateState("online"))
         /\ \/ HandleWatchStreamFailure(o).state = "offline"
            \/ HandleWatchStreamStart(HandleWatchStreamFailure(o)).timer
         /\ o.failures = 0 => HandleWatchStreamStart(o).timer
<1> USE DEF TrackerOK, HandleWatchStreamStart, UpdateState
<1>0. /\ o \in [state : {"unknown", "online", "offline"}, failures : Nat, timer : BOOLEAN]
      /\ o = [state |-> o.state, failures |-> o.failures, timer |-> o.timer]
  OBVIOUS
<1>1. TrackerOK(HandleWatchStreamStart(o))
  BY <1>0
<1>2. TrackerOK(HandleWatchStreamFailure(o))
  BY <1>0 DEF HandleWatchStreamFailure, kMaxWatchStreamFailures
<1>3. TrackerOK(UpdateState("unknown")) /\ TrackerOK(UpdateState("online"))
  OBVIOUS
<1>4. \/ HandleWatchStreamFailure(o).state = "offline"
      \/ HandleWatchStreamStart(HandleWatchStreamFailure(o)).timer
  BY <1>0 DEF HandleWatchStreamFailure, kMaxWatchStreamFailures
<1>5. o.failures = 0 => HandleWatchStreamStart(o).timer
  OBVIOUS
<1> QED
  BY <1>1, <1>2, <1>3, <1>4, <1>5

LEMMA QuietKeepsWatchOK ==
  ASSUME WatchOK, UNCHANGED watchVars, ListenerMovesOn
  PROVE  WatchOK'
BY DEF WatchOK, watchVars, ListenerMovesOn, Listening, WaitingIsTimed

\* The watch stream and the tracker after a step of theirs.
LEMMA WatchChanges ==
  ASSUME NEW s, NEW o, StreamOK(s), TrackerOK(o), watchStream' = s, online' = o,
         listener' # "none",
         listener' \in {"waiting", "live"} => IsStarted(s),
         listener' = "waiting" => o.state = "online" \/ o.timer
  PROVE  WatchOK'
BY DEF WatchOK, Listening, WaitingIsTimed

LEMMA OnWatchStreamCloseKeepsWatchOK ==
  ASSUME StoreOK, WatchOK, watchStream.state \in {"starting", "open"}, OnWatchStreamClose
  PROVE  /\ WatchOK' /\ listener' # "none"
         /\ W!GivesUp \/ UNCHANGED W!viewVars
<1> DEFINE failed == HandleWatchStreamFailure(online)
           s == Closed(watchStream, "error")
           o == HandleWatchStreamStart(failed)
<1>1. listener # "none" /\ listener \in {"waiting", "live", "dead"}
  BY Queues DEF WatchOK, NewStream
<1>2. /\ TrackerOK(failed) /\ TrackerOK(o) /\ TrackerOK(UpdateState("unknown"))
      /\ failed.state = "offline" \/ o.timer
  <2>1. TrackerOK(online)
    BY DEF WatchOK
  <2>2. /\ TrackerOK(failed) /\ TrackerOK(UpdateState("unknown"))
        /\ failed.state = "offline" \/ o.timer
    BY <2>1, TrackerSteps
  <2> HIDE DEF failed
  <2> QED
    BY <2>2, TrackerSteps
<1>3. StreamOK(s) /\ StreamOK(Start(s)) /\ IsStarted(Start(s))
  <2>1. StreamOK(s)
    BY StreamSteps DEF WatchOK
  <2> HIDE DEF s
  <2> QED
    BY <2>1, StreamSteps
<1>4. CASE Listening
  <2>1. watchStream' = Start(s) /\ online' = o /\ Broadcast(failed)
    BY <1>4 DEF OnWatchStreamClose
  <2> HIDE DEF s, o, failed
  <2>2. /\ ListenerMovesOn
        /\ W!GivesUp \/ UNCHANGED W!viewVars
        /\ failed.state = "offline" => listener' # "waiting"
    BY <2>1, BroadcastMovesOn
  <2>3. listener' # "none"
    BY <1>1, <2>2 DEF ListenerMovesOn
  <2>4. listener' = "waiting" => o.state = "online" \/ o.timer
    BY <1>2, <2>2
  <2> QED
    BY <1>2, <1>3, <2>1, <2>2, <2>3, <2>4, WatchChanges
<1>5. CASE ~Listening
  <2>1. /\ watchStream' = s /\ online' = UpdateState("unknown")
        /\ UNCHANGED viewVars
    BY <1>5 DEF OnWatchStreamClose
  <2>2. listener' = "dead" /\ UNCHANGED W!viewVars
    BY <1>1, <1>5, <2>1 DEF Listening, viewVars, W!viewVars
  <2> HIDE DEF s, o, failed
  <2> QED
    BY <1>2, <1>3, <2>1, <2>2, WatchChanges
<1> QED
  BY <1>4, <1>5

\* Starting over: whoever listens, listens again.
LEMMA RestartNetworkKeepsWatchOK ==
  ASSUME StoreOK, WatchOK, NEW q, RestartNetwork(q), ListenerMovesOn
  PROVE  WatchOK'
<1> DEFINE s == Closed(watchStream, "initial")
           o == UpdateState("unknown")
           t == HandleWatchStreamStart(o)
<1>1. /\ TrackerOK(o) /\ TrackerOK(t) /\ t.timer
  <2>1. TrackerOK(online)
    BY DEF WatchOK
  <2>2. TrackerOK(o) /\ o.failures = 0
    BY <2>1, TrackerSteps DEF UpdateState
  <2> HIDE DEF o
  <2> QED
    BY <2>2, TrackerSteps
<1>2. StreamOK(s) /\ StreamOK(Start(s)) /\ IsStarted(Start(s))
  <2>1. StreamOK(s)
    BY StreamSteps DEF WatchOK
  <2> HIDE DEF s
  <2> QED
    BY <2>1, StreamSteps
<1>3. CASE Listening
  <2>1. watchStream' = Start(s) /\ online' = t
    BY <1>3 DEF RestartNetwork
  <2>2. listener' # "none"
    BY <1>3 DEF Listening, ListenerMovesOn
  <2> HIDE DEF s, o, t
  <2> QED
    BY <1>1, <1>2, <2>1, <2>2, WatchChanges
<1>4. CASE ~Listening /\ listener = "none"
  <2>1. watchStream' = s /\ online' = o
    BY <1>4 DEF RestartNetwork
  <2>2. watchStream = NewStream /\ listener' = "none"
    BY <1>4 DEF WatchOK, ListenerMovesOn
  <2>3. s = NewStream
    BY <2>2 DEF Closed, NewStream
  <2> QED
    BY <1>1, <1>2, <2>1, <2>2, <2>3 DEF WatchOK, Listening, WaitingIsTimed
<1>5. CASE ~Listening /\ listener # "none"
  <2>1. watchStream' = s /\ online' = o
    BY <1>5 DEF RestartNetwork
  <2>2. listener' = "dead"
    BY <1>5, Queues DEF ListenerMovesOn, Listening
  <2> HIDE DEF s, o, t
  <2> QED
    BY <1>1, <1>2, <2>1, <2>2, WatchChanges
<1> QED
  BY <1>3, <1>4, <1>5

-----------------------------------------------------------------------------
(* What each action means to GroceryStore. *)

\* Answers that are lost with a break are within the bound on incidents.
LEMMA LostIsIncident ==
  ASSUME CountsOK, Breaks, lost' = lost + 1, incidents' = incidents
  PROVE  /\ incidents + lost < MaxRestarts + MaxBreaks
         /\ incidents' + lost' = incidents + lost + 1
BY Assumed DEF CountsOK, Breaks

LEMMA TakeWriteIsCommit ==
  ASSUME RemoteInv, TakeWrite
  PROVE  W!Commit
<1> DEFINE a == call.answers
           q == pending[user]
           m == Head(call.requests)
<1>1. /\ ready /\ call'.answers = Append(a, Len(log) + 1)
      /\ Len(a) < kMaxPendingWrites /\ Len(a) < Len(q)
      /\ m = q[Len(a) + 1]
  BY TakeWriteKeepsWriteOK DEF RemoteInv
<1>2. log' = Append(log, [who |-> user, id |-> m.id, name |-> m.name,
                          docs |-> [W!Cloud EXCEPT ![m.name] = m.doc]])
  BY SameViews DEF TakeWrite
<1>3. UNCHANGED <<W!diskVars, user, worker, W!viewVars, groceries, incidents + lost>>
  BY DEF TakeWrite, diskVars, viewVars, countVars, W!diskVars, W!viewVars
<1>4. W!Started
  BY <1>1 DEF RemoteInv, TasksOK
<1>5. m = W!NextToSend(q)
  BY <1>1 DEF W!NextToSend
<1> HIDE DEF m, q, a
<1> QED
  BY <1>1, <1>2, <1>3, <1>4, <1>5 DEF W!Commit, q, a

LEMMA ReadAnswerIsAck ==
  ASSUME RemoteInv, ReadAnswer
  PROVE  W!Ack /\ ListenerMovesOn
<1> DEFINE q == pending[user]
           m == Head(pipeline)
           n == m.name
           kn == [known EXCEPT ![n] = W!Newer(@, Head(call.answers))]
<1>0. StoreOK /\ WriteOK
  BY DEF RemoteInv
<1>1. call.answers # <<>> /\ call'.answers = Tail(call.answers)
  BY <1>0, ReadAnswerKeepsWriteOK DEF ReadAnswer
<1>2. m = Head(q) /\ RemoveBatch(q, m) = Tail(q)
  <2>1. pipeline # <<>>
    BY <1>0, <1>1, AnswerIsForFront
  <2> QED
    BY <1>0, <2>1, FrontAgrees
<1>3. /\ known' = kn
      /\ pending' = [pending EXCEPT ![user] = RemoveBatch(q, m)]
      /\ Store!Emit({n}, RemoveBatch(q, m), kn, watched, FALSE)
      /\ UNCHANGED <<log, watched, rejected, issued, user, worker, groceries, countVars>>
  BY SameViews DEF ReadAnswer
<1>4. W!Emit({n}, Tail(q), kn, watched, FALSE) /\ ListenerMovesOn
  BY <1>0, <1>2, <1>3, SameEmit, EmitMovesOn
<1>5. incidents' + lost' = incidents + lost
  BY <1>3 DEF countVars
<1> QED
  BY <1>1, <1>2, <1>3, <1>4, <1>5 DEF W!Ack

LEMMA RejectionIsReject ==
  ASSUME RemoteInv, StreamFinishes, IsRejection
  PROVE  W!Reject /\ ListenerMovesOn
<1> DEFINE q == pending[user]
           m == Head(pipeline)
<1>0. StoreOK /\ WriteOK /\ pipeline # <<>>
  BY DEF RemoteInv, IsRejection
<1>1. call.answers = <<>> /\ call'.answers = <<>>
  BY <1>0, StreamFinishesKeepsWriteOK DEF StreamFinishes, WriteOK, CallOK
<1>2. /\ ready /\ q # <<>> /\ m = Head(q) /\ RemoveBatch(q, m) = Tail(q)
  BY <1>0, FrontAgrees
<1>3. /\ rejected' = rejected \cup {m.id}
      /\ pending' = [pending EXCEPT ![user] = RemoveBatch(q, m)]
      /\ Store!Emit({m.name}, RemoveBatch(q, m), known, watched, FALSE)
      /\ UNCHANGED <<log, watched, known, issued, user, worker, groceries, countVars>>
  BY DEF StreamFinishes
<1>4. W!Emit({m.name}, Tail(q), known, watched, FALSE) /\ ListenerMovesOn
  BY <1>0, <1>2, <1>3, SameEmit, EmitMovesOn
<1>5. incidents' + lost' = incidents + lost
  BY <1>3 DEF countVars
<1>6. W!Started
  BY <1>2 DEF RemoteInv, TasksOK
<1> QED
  BY <1>1, <1>2, <1>3, <1>4, <1>5, <1>6 DEF W!Reject

\* Anything else that the status of a call says changes nothing that
\* GroceryStore knows of.
LEMMA NoRejectionIsQuiet ==
  ASSUME RemoteInv, StreamFinishes, ~IsRejection
  PROVE  UNCHANGED W!vars
<1>0. StoreOK /\ WriteOK
  BY DEF RemoteInv
<1>1. call.answers = <<>> /\ call'.answers = <<>>
  BY <1>0, StreamFinishesKeepsWriteOK DEF StreamFinishes, WriteOK, CallOK
<1>2. UNCHANGED <<rejected, pending, viewVars, log, watched, known, issued, user, worker,
                  groceries, countVars>>
  BY DEF StreamFinishes
<1> QED
  BY <1>1, <1>2 DEF W!vars, viewVars, countVars

LEMMA OperationFailsIsBreak ==
  ASSUME RemoteInv, OperationFails
  PROVE  W!StreamBreaks \/ UNCHANGED W!vars
<1>0. StoreOK /\ WriteOK /\ CountsOK
  BY DEF RemoteInv
<1>1. call'.answers = <<>>
  BY <1>0, OperationFailsKeepsWriteOK
<1>2. UNCHANGED <<appVars, viewVars, incidents>>
  BY DEF OperationFails
<1>3. CASE call.answers = <<>>
  <2>1. incidents' + lost' = incidents + lost
    BY <1>3 DEF OperationFails
  <2> QED
    BY <1>1, <1>2, <1>3, <2>1 DEF W!vars, appVars, diskVars, viewVars
<1>4. CASE call.answers # <<>>
  <2>1. Breaks /\ lost' = lost + 1
    BY <1>4 DEF OperationFails
  <2>2. /\ incidents + lost < MaxRestarts + MaxBreaks
        /\ incidents' + lost' = incidents + lost + 1
    BY <1>0, <1>2, <2>1, LostIsIncident
  <2> QED
    BY <1>1, <1>2, <1>4, <2>2 DEF W!StreamBreaks, W!diskVars, W!viewVars, appVars, diskVars,
      viewVars
<1> QED
  BY <1>3, <1>4

\* A change of the network: answers on the way are lost, and a listener that
\* waits may be told.
LEMMA NetworkIsBreak ==
  ASSUME RemoteInv, Breaks, call'.answers = <<>>,
         lost' = IF call.answers = <<>> THEN lost ELSE lost + 1,
         UNCHANGED <<appVars, incidents>>,
         W!GivesUp \/ UNCHANGED W!viewVars
  PROVE  W!StreamBreaks \/ W!Offline \/ UNCHANGED W!vars
<1>0. CountsOK
  BY DEF RemoteInv
<1>1. CASE call.answers = <<>>
  <2>1. incidents' + lost' = incidents + lost
    BY <1>1
  <2> QED
    BY <1>1, <2>1 DEF W!vars, W!viewVars, W!diskVars, W!Offline, appVars, diskVars
<1>2. CASE call.answers # <<>>
  <2>1. /\ incidents + lost < MaxRestarts + MaxBreaks
        /\ incidents' + lost' = incidents + lost + 1
    BY <1>0, <1>2, LostIsIncident
  <2> QED
    BY <1>2, <2>1 DEF W!StreamBreaks, W!diskVars, appVars, diskVars
<1> QED
  BY <1>1, <1>2

\* Every step of the remote store is one of GroceryStore, or none of its
\* business.
LEMMA Simulates ==
  ASSUME RemoteInv, [Next]_vars
  PROVE  [W!Next]_(W!vars)
<1> USE DEF W!Next, W!Sync
<1>0. StoreOK /\ WriteOK /\ WatchOK
  BY DEF RemoteInv
<1> DEFINE Same == UNCHANGED <<appVars, viewVars, countVars>> /\ call'.answers = call.answers
<1>1. Same => UNCHANGED W!vars
  BY DEF W!vars, appVars, diskVars, viewVars, countVars
<1> HIDE DEF Same
<1>2. CASE GetAllGroceries \/ Deliver
  BY <1>2, SameCalls DEF GetAllGroceries, Deliver
<1>3. CASE \E n \in Names, d \in Store!Values : WriteGrocery(n, d) \/ WriteRow(n, d)
  BY <1>3, SameCalls, SameViews DEF WriteGrocery, WriteRow
<1>4. CASE \E u \in Users : SignIn(u)
  BY <1>4, SameCalls DEF SignIn
<1>5. CASE \E n \in Names, d \in Store!Values : OtherDeviceWrites(n, d)
  BY <1>5, SameCalls, SameViews DEF OtherDeviceWrites
<1>6. CASE Restart
  BY <1>6, SameCalls DEF Restart
<1>7. CASE WorkerStep
  <2>1. CASE StartClient
    <3>1. call'.answers = call.answers
      BY <1>0, <2>1, StartClientKeepsWriteOK
    <3>2. Same
      BY <2>1, <3>1 DEF StartClient, Same
    <3> QED
      BY <1>1, <3>2
  <2>2. CASE RunListen \/ RunWrite \/ RunSignIn
    BY <2>2, SameWork DEF RunListen, RunWrite, RunSignIn
  <2> QED
    BY <1>7, <2>1, <2>2 DEF WorkerStep
<1>8. CASE WriteStreamStep
  <2>1. CASE \/ \E token \in {"current", "stale"} : WriteTokenArrives(token)
             \/ WriteBackoffElapses
    BY <1>1, <2>1 DEF WriteTokenArrives, WriteBackoffElapses, Same
  <2>2. CASE WriteTokenFails
    <3>1. UNCHANGED <<appVars, viewVars, call, incidents, lost>>
      BY <2>2 DEF WriteTokenFails
    <3> QED
      BY <3>1 DEF W!vars, appVars, diskVars, viewVars
  <2>3. CASE HandshakeCompletes
    <3>1. call'.answers = call.answers
      BY <1>0, <2>3, HandshakeKeepsWriteOK
    <3>2. Same
      BY <2>3, <3>1 DEF HandshakeCompletes, Same
    <3> QED
      BY <1>1, <3>2
  <2>4. CASE TakeWrite
    BY <2>4, TakeWriteIsCommit
  <2>5. CASE RefuseWrite \/ \E status \in {"transient", "permanent"} : CallEnds(status)
    <3>1. call'.answers = call.answers
      BY <1>0, <2>5, EndKeepsWriteOK
    <3>2. UNCHANGED <<appVars, viewVars, incidents, lost>>
      BY <2>5 DEF RefuseWrite, CallEnds
    <3> QED
      BY <3>1, <3>2 DEF W!vars, appVars, diskVars, viewVars
  <2>6. CASE OperationFails
    BY <2>6, OperationFailsIsBreak
  <2>7. CASE ReadAnswer
    BY <2>7, ReadAnswerIsAck
  <2>8. CASE StreamFinishes
    BY <2>8, RejectionIsReject, NoRejectionIsQuiet
  <2>9. CASE IdleTimeout
    <3>1. call'.answers = call.answers
      BY <1>0, <2>9, IdleTimeoutKeepsWriteOK
    <3>2. Same
      BY <2>9, <3>1 DEF IdleTimeout, Same
    <3> QED
      BY <1>1, <3>2
  <2> QED
    BY <1>8, <2>1, <2>2, <2>3, <2>4, <2>5, <2>6, <2>7, <2>8, <2>9 DEF WriteStreamStep
<1>9. CASE WatchStreamStep
  <2>1. CASE \/ \E token \in {"current", "stale"} : WatchTokenArrives(token)
             \/ WatchBackoffElapses \/ WatchTalks
    BY <1>1, <2>1 DEF WatchTokenArrives, WatchBackoffElapses, WatchTalks, writeVars, Same
  <2>2. CASE WatchBreaks
    <3>1. W!GivesUp \/ UNCHANGED W!viewVars
      BY <1>0, <2>2, OnWatchStreamCloseKeepsWatchOK DEF WatchBreaks
    <3>2. UNCHANGED <<appVars, call, incidents, lost>>
      BY <2>2 DEF WatchBreaks, writeVars
    <3> QED
      BY <3>1, <3>2 DEF W!Offline, W!vars, W!viewVars, W!diskVars, appVars, diskVars
  <2>3. CASE \E v \in watched..Len(log) : WatchSnapshot(v)
    BY <2>3, SameWork DEF WatchSnapshot
  <2>4. CASE ListenFails
    BY <2>4, SameCalls DEF ListenFails
  <2>5. CASE OnlineTimeout
    <3>1. W!GivesUp \/ UNCHANGED W!viewVars
      BY <2>5, BroadcastMovesOn DEF OnlineTimeout
    <3>2. UNCHANGED <<appVars, call, incidents, lost>>
      BY <2>5 DEF OnlineTimeout, writeVars, countVars
    <3> QED
      BY <3>1, <3>2 DEF W!Offline, W!vars, W!viewVars, W!diskVars, appVars, diskVars
  <2> QED
    BY <1>9, <2>1, <2>2, <2>3, <2>4, <2>5 DEF WatchStreamStep
<1>10. CASE NetworkChanges
  <2>1. /\ ready /\ Breaks /\ RestartNetwork(pending[user])
        /\ lost' = IF call.answers = <<>> THEN lost ELSE lost + 1
        /\ UNCHANGED <<appVars, ready, incidents, refusals>>
    BY <1>10 DEF NetworkChanges
  <2>2. call'.answers = <<>>
    <3>1. pending[user] \in Seq(W!Writes) /\ Sorted(pending[user])
      BY <1>0, Queues
    <3>2. ready' /\ pending'[user'] = pending[user]
      BY <2>1 DEF appVars, diskVars
    <3> QED
      BY <1>0, <2>1, <3>1, <3>2, RestartNetworkKeepsWriteOK
  <2>3. W!GivesUp \/ UNCHANGED W!viewVars
    BY <1>10, BroadcastMovesOn DEF NetworkChanges, viewVars, W!viewVars
  <2> QED
    BY <2>1, <2>2, <2>3, NetworkIsBreak
<1>11. CASE NetworkIsLost
  <2>1. /\ Breaks
        /\ lost' = IF call.answers = <<>> THEN lost ELSE lost + 1
        /\ UNCHANGED <<appVars, incidents>>
    BY <1>11 DEF NetworkIsLost
  <2>2. call'.answers = <<>>
    BY <1>0, <1>11, NetworkIsLostKeepsWriteOK
  <2>3. W!GivesUp \/ UNCHANGED W!viewVars
    BY <1>0, <1>11, OnWatchStreamCloseKeepsWatchOK DEF NetworkIsLost, viewVars, W!viewVars
  <2> QED
    BY <2>1, <2>2, <2>3, NetworkIsBreak
<1>12. CASE UNCHANGED vars
  BY <1>1, <1>12 DEF vars, remoteVars, writeVars, Same
<1> QED
  BY <1>2, <1>3, <1>4, <1>5, <1>6, <1>7, <1>8, <1>9, <1>10, <1>11, <1>12 DEF Next

\* So the store's own invariant stays.
LEMMA StoreOKStep ==
  ASSUME RemoteInv, [Next]_vars
  PROVE  StoreOK'
<1>1. [W!Next]_(W!vars)
  BY Simulates
<1>2. W!TypeInv /\ W!OrderInv
  BY DEF RemoteInv, StoreOK
<1>3. W!TypeInv'
  BY <1>1, <1>2, W!TypeInvStep, Assumed DEF W!StoreAssumption
<1>4. W!OrderInv'
  BY <1>1, <1>2, W!OrderInvStep, Assumed DEF W!StoreAssumption
<1> QED
  BY <1>3, <1>4 DEF StoreOK

-----------------------------------------------------------------------------
(* Every step keeps the rest of the invariant. *)

LEMMA WriteOKStep ==
  ASSUME RemoteInv, [Next]_vars
  PROVE  WriteOK'
<1>0. StoreOK /\ WriteOK
  BY DEF RemoteInv
<1> DEFINE Same == UNCHANGED <<ready, writeVars, pending, user>>
<1>1. Same => WriteOK'
  BY <1>0 DEF WriteOK, writeVars
<1> HIDE DEF Same
<1> USE DEF appVars, diskVars, remoteVars
<1>2. CASE GetAllGroceries \/ Deliver \/ (\E u \in Users : SignIn(u))
           \/ (\E n \in Names, d \in Store!Values : WriteGrocery(n, d) \/ WriteRow(n, d))
           \/ (\E n \in Names, d \in Store!Values : OtherDeviceWrites(n, d))
  <2>1. UNCHANGED <<ready, writeVars>>
    BY <1>2 DEF GetAllGroceries, Deliver, SignIn, WriteGrocery, WriteRow, OtherDeviceWrites, Above
  <2>2. UNCHANGED <<pending, user>>
    BY <1>2 DEF GetAllGroceries, Deliver, SignIn, WriteGrocery, WriteRow, OtherDeviceWrites,
      Store!GetAllGroceries, Store!Deliver, Store!SignIn, Store!WriteGrocery,
      Store!WriteRow, Store!EnqueueWrite,
      Store!OtherDeviceWrites, Store!OnlyEnqueues, Store!diskVars
  <2> QED
    BY <1>1, <2>1, <2>2 DEF Same
<1>3. CASE Restart
  <2>1. /\ pipeline' = <<>> /\ call' = NoCall /\ writeStream' = NewStream /\ ~ready'
    BY <1>3 DEF Restart
  <2>2. <<>> \in Seq(W!Writes) /\ StreamOK(NewStream) /\ ~IsStarted(NewStream)
    BY NewStreamOK
  <2>3. CallOK(<<>>, NoCall) /\ OpenOK(NewStream, <<>>, NoCall)
    BY <2>2, NoCallOK DEF OpenOK
  <2> QED
    BY <2>1, <2>2, <2>3 DEF WriteOK
<1>4. CASE WorkerStep
  <2>1. CASE StartClient
    BY <1>0, <2>1, StartClientKeepsWriteOK
  <2>2. CASE RunListen
    BY <1>1, <2>2 DEF RunListen, Store!RunListen, Store!diskVars, Same
  <2>3. CASE RunWrite
    BY <1>0, <2>3, RunWriteKeepsWriteOK
  <2>4. CASE RunSignIn
    <3> DEFINE u == Head(worker).user
    <3>1. /\ ready /\ RestartNetwork(pending[u]) /\ ready' = ready
          /\ worker # <<>> /\ Head(worker).op = "signIn"
          /\ user' = u /\ pending' = pending
      BY <2>4 DEF RunSignIn, Store!RunSignIn, Store!diskVars
    <3>2. u \in Users
      <4>1. Head(worker) \in W!Tasks
        BY <1>0, <3>1, Queues, HeadTailProperties
      <4> QED
        BY <3>1, <4>1 DEF W!Tasks
    <3>3. pending[u] \in Seq(W!Writes) /\ Sorted(pending[u])
      BY <1>0, <3>2, Queues
    <3>4. ready' /\ pending'[user'] = pending[u]
      BY <3>1
    <3> QED
      BY <1>0, <3>1, <3>3, <3>4, RestartNetworkKeepsWriteOK
  <2> QED
    BY <1>4, <2>1, <2>2, <2>3, <2>4 DEF WorkerStep
<1>5. CASE WriteStreamStep
  BY <1>0, <1>5, WriteTokensKeepWriteOK, HandshakeKeepsWriteOK, TakeWriteKeepsWriteOK,
    EndKeepsWriteOK, OperationFailsKeepsWriteOK, ReadAnswerKeepsWriteOK,
    StreamFinishesKeepsWriteOK, IdleTimeoutKeepsWriteOK DEF WriteStreamStep
<1>6. CASE WatchStreamStep
  <2>1. UNCHANGED <<ready, writeVars>>
    BY <1>6 DEF WatchStreamStep, WatchTokenArrives, WatchBackoffElapses, WatchBreaks,
      WatchTalks, WatchSnapshot, ListenFails, OnlineTimeout
  <2>2. UNCHANGED <<pending, user>>
    BY <1>6 DEF WatchStreamStep, WatchTokenArrives, WatchBackoffElapses, WatchBreaks,
      WatchTalks, WatchSnapshot, ListenFails, OnlineTimeout,
      Store!WatchSnapshot, Store!ListenFails, Store!diskVars
  <2> QED
    BY <1>1, <2>1, <2>2 DEF Same
<1>7. CASE NetworkChanges
  <2>1. RestartNetwork(pending[user]) /\ ready' /\ pending'[user'] = pending[user]
    BY <1>7 DEF NetworkChanges
  <2>2. pending[user] \in Seq(W!Writes) /\ Sorted(pending[user])
    BY <1>0, Queues
  <2> QED
    BY <1>0, <2>1, <2>2, RestartNetworkKeepsWriteOK
<1>8. CASE NetworkIsLost
  BY <1>0, <1>8, NetworkIsLostKeepsWriteOK
<1>9. CASE UNCHANGED vars
  BY <1>1, <1>9 DEF vars, Same
<1> QED
  BY <1>2, <1>3, <1>4, <1>5, <1>6, <1>7, <1>8, <1>9 DEF Next

LEMMA AppendIndex ==
  ASSUME NEW S, NEW q \in Seq(S), NEW m
  PROVE  /\ Len(Append(q, m)) = Len(q) + 1 /\ Append(q, m)[Len(q) + 1] = m
         /\ \A k \in 1..Len(q) : Append(q, m)[k] = q[k]
OBVIOUS

\* The kinds of steps of the worker's queue.
LEMMA SameTasks ==
  ASSUME TasksOK, UNCHANGED <<ready, worker>>, listener' = "none" <=> listener = "none"
  PROVE  TasksOK'
BY DEF TasksOK, W!Started

LEMMA EnqueueKeepsTasksOK ==
  ASSUME StoreOK, TasksOK, NEW task, UNCHANGED <<ready, listener>>,
         worker' = Append(worker, task), task.op = "listen" <=> ~W!Started
  PROVE  TasksOK'
<1> DEFINE w == worker'
<1>1. worker \in Seq(W!Tasks) /\ Len(worker) \in Nat
  BY Queues, LenProperties
<1>2. /\ Len(w) = Len(worker) + 1 /\ w[Len(worker) + 1] = task
      /\ \A k \in 1..Len(worker) : w[k] = worker[k]
  BY <1>1, AppendIndex
<1>3. W!Started' /\ w # <<>>
  BY <1>1, AppendProperties DEF W!Started
<1>4. ~W!Started <=> listener = "none" /\ Len(worker) = 0
  BY <1>1, EmptySeq DEF W!Started
<1> HIDE DEF w
<1>5. ASSUME NEW k \in 1..Len(w)
      PROVE  w[k].op = "listen" <=> listener = "none" /\ k = 1
  <2>1. CASE k \in 1..Len(worker)
    BY <1>2, <2>1 DEF TasksOK
  <2>2. CASE k = Len(worker) + 1
    <3>1. w[k].op = "listen" <=> listener = "none" /\ Len(worker) = 0
      BY <1>2, <1>4, <2>2
    <3>2. Len(worker) = 0 <=> k = 1
      BY <1>1, <2>2
    <3> QED
      BY <3>1, <3>2
  <2> QED
    BY <1>1, <1>2, <2>1, <2>2
<1> QED
  BY <1>3, <1>5 DEF TasksOK, w

LEMMA RunKeepsTasksOK ==
  ASSUME StoreOK, TasksOK, ready, ready', worker # <<>>, worker' = Tail(worker),
         IF Head(worker).op = "listen" THEN listener' # "none"
                                       ELSE listener' = "none" <=> listener = "none"
  PROVE  TasksOK' /\ (Head(worker).op = "listen" <=> listener = "none")
<1> DEFINE w == Tail(worker)
<1>1. worker \in Seq(W!Tasks)
  BY Queues
<1>2. /\ Head(worker) = worker[1] /\ Len(worker) \in Nat \ {0}
      /\ Len(w) = Len(worker) - 1
      /\ \A k \in 1..Len(w) : w[k] = worker[k+1]
  BY <1>1, TailIndex
<1> HIDE DEF w
<1>3. Head(worker).op = "listen" <=> listener = "none"
  <2>1. 1 \in 1..Len(worker)
    BY <1>2
  <2> QED
    BY <1>2, <2>1 DEF TasksOK
<1>4. listener' # "none"
  BY <1>3
<1>5. ASSUME NEW k \in 1..Len(w)
      PROVE  w[k].op # "listen"
  <2>1. k + 1 \in 1..Len(worker) /\ k + 1 # 1
    BY <1>2
  <2> QED
    BY <1>2, <2>1 DEF TasksOK
<1> QED
  BY <1>3, <1>4, <1>5 DEF TasksOK, W!Started, w

\* The watch stream and the network never make the listener new.
LEMMA ListenerStays ==
  ASSUME RemoteInv, WatchStreamStep \/ NetworkChanges \/ NetworkIsLost
  PROVE  listener' = "none" <=> listener = "none"
<1>0. StoreOK /\ WatchOK
  BY DEF RemoteInv
<1>a. ListenerMovesOn => (listener' = "none" <=> listener = "none")
  BY DEF ListenerMovesOn
<1>b. OnWatchStreamClose => ListenerMovesOn
  <2>1. UNCHANGED viewVars => ListenerMovesOn
    BY DEF viewVars, ListenerMovesOn
  <2> QED
    BY <2>1, BroadcastMovesOn DEF OnWatchStreamClose
<1> USE DEF viewVars
<1>1. CASE \/ \E token \in {"current", "stale"} : WatchTokenArrives(token)
           \/ WatchBackoffElapses \/ WatchTalks
  BY <1>1 DEF WatchTokenArrives, WatchBackoffElapses, WatchTalks
<1>2. CASE WatchBreaks
  BY <1>a, <1>b, <1>2 DEF WatchBreaks
<1>3. CASE \E v \in watched..Len(log) : WatchSnapshot(v)
  BY <1>0, <1>a, <1>3, EmitMovesOn DEF WatchSnapshot, Store!WatchSnapshot
<1>4. CASE ListenFails
  BY <1>4 DEF ListenFails, Store!ListenFails
<1>5. CASE OnlineTimeout
  BY <1>a, <1>5, BroadcastMovesOn DEF OnlineTimeout
<1>6. CASE NetworkChanges
  BY <1>a, <1>6, BroadcastMovesOn DEF NetworkChanges
<1>7. CASE NetworkIsLost
  BY <1>a, <1>b, <1>7 DEF NetworkIsLost
<1> QED
  BY <1>1, <1>2, <1>3, <1>4, <1>5, <1>6, <1>7 DEF WatchStreamStep

LEMMA TasksOKStep ==
  ASSUME RemoteInv, [Next]_vars
  PROVE  TasksOK'
<1>0. StoreOK /\ WriteOK /\ WatchOK /\ TasksOK
  BY DEF RemoteInv
<1> DEFINE Same == UNCHANGED <<ready, worker>> /\ (listener' = "none" <=> listener = "none")
<1>1. Same => TasksOK'
  BY <1>0, SameTasks
<1> HIDE DEF Same
<1>a. ListenerMovesOn => (listener' = "none" <=> listener = "none")
  BY DEF ListenerMovesOn
<1> USE DEF appVars, diskVars, viewVars, remoteVars, Store!diskVars, Store!viewVars
<1>2. CASE GetAllGroceries \/ (\E u \in Users : SignIn(u))
           \/ (\E n \in Names, d \in Store!Values : WriteGrocery(n, d) \/ WriteRow(n, d))
  <2>1. PICK task : /\ worker' = Append(worker, task) /\ UNCHANGED <<ready, listener>>
                    /\ task.op = "listen" <=> ~W!Started
    <3>1. CASE GetAllGroceries
      BY <3>1, SameViews DEF GetAllGroceries, Above, Store!GetAllGroceries, Store!Enqueue,
        Store!OnlyEnqueues
    <3>2. CASE \E u \in Users : SignIn(u)
      BY <3>2, SameViews DEF SignIn, Store!SignIn, Store!Enqueue
    <3>3. CASE \E n \in Names, d \in Store!Values : WriteGrocery(n, d) \/ WriteRow(n, d)
      BY <3>3, SameViews DEF WriteGrocery, WriteRow, Above, Store!WriteGrocery,
        Store!WriteRow, Store!EnqueueWrite, Store!Enqueue, Store!OnlyEnqueues
    <3> QED
      BY <1>2, <3>1, <3>2, <3>3
  <2> QED
    BY <1>0, <2>1, EnqueueKeepsTasksOK
<1>3. CASE Deliver \/ \E n \in Names, d \in Store!Values : OtherDeviceWrites(n, d)
  BY <1>1, <1>3 DEF Deliver, OtherDeviceWrites, Above, Store!Deliver,
    Store!OtherDeviceWrites, Same
<1>4. CASE Restart
  <2>1. ~ready' /\ ready' = FALSE /\ worker' = <<>>
    BY <1>4 DEF Restart, Store!Restart
  <2>2. \A k : k \notin 1..Len(<<>>)
    BY LenProperties
  <2> QED
    BY <2>1, <2>2 DEF TasksOK
<1>5. CASE WorkerStep
  <2>1. CASE StartClient
    BY <1>0, <2>1 DEF StartClient, TasksOK, W!Started
  <2>2. CASE RunListen
    <3>1. /\ ready /\ ready' /\ worker # <<>> /\ worker' = Tail(worker)
          /\ Head(worker).op = "listen" /\ listener' # "none"
      BY <2>2 DEF RunListen, Store!RunListen, Store!NextTask
    <3> QED
      BY <1>0, <3>1, RunKeepsTasksOK
  <2>3. CASE RunWrite
    <3>1. /\ ready /\ ready' /\ worker # <<>> /\ worker' = Tail(worker)
          /\ Head(worker).op = "write"
      BY <2>3 DEF RunWrite, Store!RunWrite, Store!NextTask
    <3>2. ListenerMovesOn
      BY <1>0, <2>3, EmitMovesOn DEF RunWrite, Store!RunWrite
    <3> QED
      BY <1>0, <1>a, <3>1, <3>2, RunKeepsTasksOK
  <2>4. CASE RunSignIn
    <3>1. /\ ready /\ ready' /\ worker # <<>> /\ worker' = Tail(worker)
          /\ Head(worker).op = "signIn"
      BY <2>4 DEF RunSignIn, Store!RunSignIn, Store!NextTask
    <3>2. ListenerMovesOn
      BY <1>0, <2>4, EmitMovesOn DEF RunSignIn, Store!RunSignIn
    <3> QED
      BY <1>0, <1>a, <3>1, <3>2, RunKeepsTasksOK
  <2> QED
    BY <1>5, <2>1, <2>2, <2>3, <2>4 DEF WorkerStep
<1>6. CASE WriteStreamStep
  <2>1. CASE ReadAnswer
    BY <1>1, <1>a, <2>1, ReadAnswerIsAck DEF ReadAnswer, Same
  <2>2. CASE StreamFinishes
    <3>1. UNCHANGED <<ready, worker>>
      BY <2>2 DEF StreamFinishes
    <3>2. listener' = "none" <=> listener = "none"
      <4>1. CASE IsRejection
        BY <1>a, <2>2, <4>1, RejectionIsReject
      <4>2. CASE ~IsRejection
        BY <2>2, <4>2 DEF StreamFinishes
      <4> QED
        BY <4>1, <4>2
    <3> QED
      BY <1>1, <3>1, <3>2 DEF Same
  <2>3. CASE ~ReadAnswer /\ ~StreamFinishes
    BY <1>1, <1>6, <2>3 DEF WriteStreamStep, WriteTokenArrives, WriteTokenFails,
      WriteBackoffElapses, HandshakeCompletes, TakeWrite, RefuseWrite, CallEnds,
      OperationFails, IdleTimeout, Same
  <2> QED
    BY <2>1, <2>2, <2>3
<1>7. CASE WatchStreamStep \/ NetworkChanges \/ NetworkIsLost
  <2>1. UNCHANGED <<ready, worker>>
    BY <1>7 DEF WatchStreamStep, WatchTokenArrives, WatchBackoffElapses, WatchBreaks,
      WatchTalks, WatchSnapshot, ListenFails, OnlineTimeout, NetworkChanges, NetworkIsLost,
      Store!WatchSnapshot, Store!ListenFails
  <2>2. listener' = "none" <=> listener = "none"
    BY <1>0, <1>7, ListenerStays
  <2> QED
    BY <1>1, <2>1, <2>2 DEF Same
<1>8. CASE UNCHANGED vars
  BY <1>1, <1>8 DEF vars, Same
<1> QED
  BY <1>2, <1>3, <1>4, <1>5, <1>6, <1>7, <1>8 DEF Next

\* The listen starts the watch stream and the timer.
LEMMA RunListenKeepsWatchOK ==
  ASSUME RemoteInv, RunListen
  PROVE  WatchOK'
<1> DEFINE s == Start(watchStream)
           o == HandleWatchStreamStart(online)
<1>0. StoreOK /\ WatchOK /\ TasksOK
  BY DEF RemoteInv
<1>1. /\ watchStream' = s /\ online' = o /\ listener' \in {"waiting", "live"}
      /\ ready /\ worker # <<>> /\ Head(worker).op = "listen"
  BY DEF RunListen, Store!RunListen, Store!NextTask
<1>2. listener = "none"
  <2>1. worker[1] = Head(worker) /\ 1 \in 1..Len(worker)
    BY <1>0, <1>1, Queues, TailIndex
  <2> QED
    BY <1>0, <1>1, <2>1 DEF TasksOK
<1>3. online.failures = 0 /\ TrackerOK(online)
  BY <1>0, <1>2 DEF WatchOK, UpdateState
<1>4. TrackerOK(o) /\ o.timer
  BY <1>3, TrackerSteps
<1>5. StreamOK(s) /\ IsStarted(s)
  BY <1>0, StreamSteps DEF WatchOK
<1> HIDE DEF s, o
<1> QED
  BY <1>1, <1>4, <1>5, WatchChanges

\* Tokens, back-off and messages of the watch stream.
LEMMA WatchStreamKeepsWatchOK ==
  ASSUME RemoteInv, WatchStreamStep
  PROVE  WatchOK'
<1>0. StoreOK /\ WatchOK
  BY DEF RemoteInv
<1>a. /\ StreamOK(watchStream) /\ TrackerOK(online)
      /\ Listening => IsStarted(watchStream)
      /\ listener = "none" => watchStream = NewStream
      /\ listener = "waiting" => online.state = "online" \/ online.timer
  BY <1>0 DEF WatchOK, WaitingIsTimed
<1>b. TrackerOK(UpdateState("online")) /\ UpdateState("online").state = "online"
  BY <1>a, TrackerSteps DEF UpdateState
<1>c. listener' = "none" <=> listener = "none"
  BY ListenerStays
<1>1. ASSUME NEW token \in {"current", "stale"}, WatchTokenArrives(token)
      PROVE  WatchOK'
  <2> DEFINE s == Resumed(watchStream, token)
  <2>1. /\ token \in watchStream.tokens /\ watchStream' = s
        /\ UNCHANGED <<listener, online>>
    BY <1>1 DEF WatchTokenArrives, viewVars
  <2>2. StreamOK(s) /\ (IsStarted(watchStream) => IsStarted(s))
    BY <1>a, <2>1, StreamSteps
  <2>3. listener # "none"
    BY <1>a, <2>1 DEF NewStream
  <2> HIDE DEF s
  <2> QED
    BY <1>a, <2>1, <2>2, <2>3, WatchChanges DEF Listening
<1>2. CASE WatchBackoffElapses
  <2> DEFINE s == Retried(watchStream)
  <2>1. /\ watchStream.state = "backoff" /\ watchStream' = s
        /\ UNCHANGED <<listener, online>>
    BY <1>2 DEF WatchBackoffElapses, viewVars
  <2>2. StreamOK(s) /\ IsStarted(s)
    BY <1>a, <2>1, StreamSteps
  <2>3. listener # "none"
    BY <1>a, <2>1 DEF NewStream
  <2> HIDE DEF s
  <2> QED
    BY <1>a, <2>1, <2>2, <2>3, WatchChanges
<1>3. CASE WatchBreaks
  BY <1>0, <1>3, OnWatchStreamCloseKeepsWatchOK DEF WatchBreaks
<1>4. CASE WatchTalks \/ (\E v \in watched..Len(log) : WatchSnapshot(v)) \/ ListenFails
  <2>1. /\ watchStream.state = "open" /\ watchStream' = watchStream
        /\ online' = UpdateState("online")
    BY <1>4 DEF WatchTalks, WatchSnapshot, ListenFails
  <2>2. listener' # "none"
    BY <1>a, <1>c, <2>1 DEF NewStream
  <2>3. IsStarted(watchStream)
    BY <2>1 DEF IsStarted
  <2> QED
    BY <1>a, <1>b, <2>1, <2>2, <2>3, WatchChanges
<1>5. CASE OnlineTimeout
  <2> DEFINE o == [online EXCEPT !.state = "offline", !.timer = FALSE]
  <2>1. online.timer /\ online' = o /\ watchStream' = watchStream /\ Broadcast(online')
    BY <1>5 DEF OnlineTimeout
  <2>2. TrackerOK(o) /\ o.state = "offline"
    BY <1>a DEF TrackerOK
  <2>3. ListenerMovesOn /\ listener' # "waiting"
    <3>1. online'.state = "offline"
      BY <2>1, <2>2
    <3> QED
      BY <2>1, <3>1, BroadcastMovesOn
  <2>4. listener # "none"
    BY <1>0, <2>1 DEF WatchOK, UpdateState
  <2> HIDE DEF o
  <2> QED
    BY <1>a, <1>c, <2>1, <2>2, <2>3, <2>4, WatchChanges DEF ListenerMovesOn, Listening
<1> QED
  BY <1>1, <1>2, <1>3, <1>4, <1>5 DEF WatchStreamStep

LEMMA WatchOKStep ==
  ASSUME RemoteInv, [Next]_vars
  PROVE  WatchOK'
<1>0. StoreOK /\ WatchOK
  BY DEF RemoteInv
<1> DEFINE Same == UNCHANGED watchVars /\ ListenerMovesOn
<1>1. Same => WatchOK'
  BY <1>0, QuietKeepsWatchOK
<1> HIDE DEF Same
<1>a. UNCHANGED listener => ListenerMovesOn
  BY DEF ListenerMovesOn
<1> USE DEF viewVars, remoteVars, Store!viewVars
<1>2. CASE GetAllGroceries \/ Deliver \/ (\E u \in Users : SignIn(u))
           \/ (\E n \in Names, d \in Store!Values : WriteGrocery(n, d) \/ WriteRow(n, d))
           \/ (\E n \in Names, d \in Store!Values : OtherDeviceWrites(n, d))
  <2>1. UNCHANGED watchVars
    BY <1>2 DEF GetAllGroceries, Deliver, SignIn, WriteGrocery, WriteRow, OtherDeviceWrites, Above
  <2>2. UNCHANGED listener
    BY <1>2 DEF GetAllGroceries, Deliver, SignIn, WriteGrocery, WriteRow, OtherDeviceWrites,
      Store!GetAllGroceries, Store!Deliver, Store!SignIn, Store!WriteGrocery,
      Store!WriteRow, Store!EnqueueWrite,
      Store!OtherDeviceWrites, Store!OnlyEnqueues
  <2> QED
    BY <1>1, <1>a, <2>1, <2>2 DEF Same
<1>3. CASE Restart
  <2>1. watchStream' = NewStream /\ online' = UpdateState("unknown") /\ listener' = "none"
    BY <1>3 DEF Restart, Store!Restart
  <2>2. StreamOK(NewStream) /\ TrackerOK(UpdateState("unknown"))
    BY <1>0, NewStreamOK, TrackerSteps DEF WatchOK
  <2> QED
    BY <2>1, <2>2 DEF WatchOK, Listening, WaitingIsTimed
<1>4. CASE WorkerStep
  <2>1. CASE StartClient
    BY <1>1, <1>a, <2>1 DEF StartClient, Same
  <2>2. CASE RunListen
    BY <2>2, RunListenKeepsWatchOK
  <2>3. CASE RunWrite
    BY <1>0, <1>1, <2>3, EmitMovesOn DEF RunWrite, Store!RunWrite, Same
  <2>4. CASE RunSignIn
    <3>1. ListenerMovesOn
      BY <1>0, <2>4, EmitMovesOn DEF RunSignIn, Store!RunSignIn
    <3> QED
      BY <1>0, <2>4, <3>1, RestartNetworkKeepsWatchOK DEF RunSignIn
  <2> QED
    BY <1>4, <2>1, <2>2, <2>3, <2>4 DEF WorkerStep
<1>5. CASE WriteStreamStep
  <2>1. UNCHANGED watchVars
    BY <1>5 DEF WriteStreamStep, WriteTokenArrives, WriteTokenFails, WriteBackoffElapses,
      HandshakeCompletes, TakeWrite, RefuseWrite, CallEnds, OperationFails, ReadAnswer,
      StreamFinishes, IdleTimeout
  <2>2. CASE ReadAnswer
    BY <1>1, <2>1, <2>2, ReadAnswerIsAck DEF Same
  <2>3. CASE StreamFinishes /\ IsRejection
    BY <1>1, <2>1, <2>3, RejectionIsReject DEF Same
  <2>4. CASE StreamFinishes /\ ~IsRejection
    BY <1>1, <1>a, <2>1, <2>4 DEF StreamFinishes, Same
  <2>5. CASE ~ReadAnswer /\ ~StreamFinishes
    BY <1>1, <1>a, <1>5, <2>1, <2>5 DEF WriteStreamStep, WriteTokenArrives, WriteTokenFails,
      WriteBackoffElapses, HandshakeCompletes, TakeWrite, RefuseWrite, CallEnds,
      OperationFails, IdleTimeout, Same
  <2> QED
    BY <2>2, <2>3, <2>4, <2>5
<1>6. CASE WatchStreamStep
  BY <1>6, WatchStreamKeepsWatchOK
<1>7. CASE NetworkChanges
  <2>1. ListenerMovesOn
    BY <1>a, <1>7, BroadcastMovesOn DEF NetworkChanges
  <2> QED
    BY <1>0, <1>7, <2>1, RestartNetworkKeepsWatchOK DEF NetworkChanges
<1>8. CASE NetworkIsLost
  BY <1>0, <1>1, <1>a, <1>8, OnWatchStreamCloseKeepsWatchOK DEF NetworkIsLost, Same
<1>9. CASE UNCHANGED vars
  BY <1>1, <1>a, <1>9 DEF vars, Same
<1> QED
  BY <1>2, <1>3, <1>4, <1>5, <1>6, <1>7, <1>8, <1>9 DEF Next

LEMMA CountsOKStep ==
  ASSUME RemoteInv, [Next]_vars
  PROVE  CountsOK'
<1>0. CountsOK
  BY DEF RemoteInv
<1>1. \/ UNCHANGED countVars
      \/ /\ incidents < MaxRestarts /\ incidents' = incidents + 1
         /\ UNCHANGED <<breaks, lost, refusals>>
      \/ Breaks /\ lost' \in {lost, lost + 1} /\ UNCHANGED <<incidents, refusals>>
      \/ refusals' = refusals + 1 /\ UNCHANGED <<incidents, breaks, lost>>
  <2>1. CASE WorkerStep
    BY <2>1 DEF WorkerStep, StartClient, RunListen, RunWrite, RunSignIn
  <2>2. CASE WriteStreamStep
    BY <2>2 DEF WriteStreamStep, WriteTokenArrives, WriteTokenFails, WriteBackoffElapses,
      HandshakeCompletes, TakeWrite, RefuseWrite, CallEnds, OperationFails, ReadAnswer,
      StreamFinishes, IdleTimeout, countVars
  <2>3. CASE WatchStreamStep
    BY <2>3 DEF WatchStreamStep, WatchTokenArrives, WatchBackoffElapses, WatchBreaks,
      WatchTalks, WatchSnapshot, ListenFails, OnlineTimeout
  <2>4. CASE NetworkChanges \/ NetworkIsLost
    BY <2>4 DEF NetworkChanges, NetworkIsLost
  <2>5. CASE \/ GetAllGroceries \/ Deliver \/ (\E u \in Users : SignIn(u)) \/ Restart
             \/ (\E n \in Names, d \in Store!Values : WriteGrocery(n, d) \/ WriteRow(n, d))
             \/ (\E n \in Names, d \in Store!Values : OtherDeviceWrites(n, d))
             \/ UNCHANGED vars
    BY <2>5 DEF GetAllGroceries, Deliver, SignIn, WriteGrocery, WriteRow, OtherDeviceWrites, Above,
      Restart, vars
  <2> QED
    BY <2>1, <2>2, <2>3, <2>4, <2>5 DEF Next
<1> QED
  BY <1>0, <1>1, Assumed DEF CountsOK, Breaks, countVars

LEMMA RemoteInvStep == RemoteInv /\ [Next]_vars => RemoteInv'
BY StoreOKStep, WriteOKStep, WatchOKStep, TasksOKStep, CountsOKStep DEF RemoteInv

LEMMA RemoteInvInit == Init => RemoteInv
<1> SUFFICES ASSUME Init
             PROVE  RemoteInv
  OBVIOUS
<1>1. StoreOK
  <2>1. W!Init
    BY SameSpec DEF Init
  <2> QED
    BY <2>1, W!TypeInvInit, W!OrderInvInit, Assumed DEF W!StoreAssumption, StoreOK
<1>2. /\ pipeline = <<>> /\ call = NoCall /\ writeStream = NewStream
      /\ ready = FALSE /\ watchStream = NewStream /\ online = UpdateState("unknown")
      /\ listener = "none" /\ worker = <<>>
      /\ incidents = 0 /\ breaks = 0 /\ lost = 0 /\ refusals = 0
  BY DEF Init, Store!Init
<1>3. WriteOK
  <2>1. <<>> \in Seq(W!Writes) /\ StreamOK(NewStream) /\ ~IsStarted(NewStream)
    BY NewStreamOK
  <2>2. CallOK(<<>>, NoCall) /\ OpenOK(NewStream, <<>>, NoCall)
    BY <2>1, NoCallOK DEF OpenOK
  <2> QED
    BY <1>2, <2>1, <2>2 DEF WriteOK
<1>4. WatchOK
  <2>1. StreamOK(NewStream) /\ TrackerOK(UpdateState("unknown"))
    BY NewStreamOK DEF TrackerOK, UpdateState
  <2> QED
    BY <1>2, <2>1 DEF WatchOK, Listening, WaitingIsTimed
<1>5. TasksOK
  <2>1. \A k : k \notin 1..Len(<<>>)
    BY LenProperties
  <2> QED
    BY <1>2, <2>1 DEF TasksOK
<1>6. CountsOK
  BY <1>2, Assumed DEF CountsOK
<1> QED
  BY <1>1, <1>3, <1>4, <1>5, <1>6 DEF RemoteInv

-----------------------------------------------------------------------------
(* What a refusal costs. *)

\* A refused request whose status the client has not seen yet.
Owed(c) == c.shaken /\ c.ended = "permanent"

\* Every rejected write, and the one that is about to be, has a refusal of its
\* own.
RefusalsOK ==
  /\ IsFiniteSet(rejected)
  /\ Cardinality(rejected) + (IF Owed(call) THEN 1 ELSE 0) <= refusals

\* Filling the pipeline refuses nothing.
LEMMA FillOwesNothing ==
  ASSUME NEW s, NEW p, NEW q, NEW c \in Calls, FillWritePipeline(s, p, q, c)
  PROVE  Owed(call') => Owed(c)
<1>1. \A b : Owed(Send(b, c)) => Owed(c)
  BY DEF Calls, Owed, Send
<1>2. Owed([c EXCEPT !.idle = TRUE]) => Owed(c)
  BY DEF Calls, Owed
<1> QED
  BY <1>1, <1>2 DEF FillWritePipeline

LEMMA NothingOwedAtFirst == NoCall \in Calls /\ ~Owed(NoCall)
BY DEF NoCall, Calls, Owed

\* Only the status of a refused request rejects a write, and only a refused
\* request brings such a status.
LEMMA OwedSteps ==
  ASSUME RemoteInv, [Next]_vars, ~RefuseWrite, ~(StreamFinishes /\ IsRejection)
  PROVE  UNCHANGED <<rejected, refusals>> /\ (Owed(call') => Owed(call))
<1>0. call \in Calls /\ NoCall \in Calls /\ ~Owed(NoCall)
  BY NothingOwedAtFirst DEF RemoteInv, WriteOK, CallOK
<1>1. CASE WorkerStep
  <2>1. CASE StartClient
    BY <2>1, <1>0, FillOwesNothing DEF StartClient, appVars, diskVars, countVars
  <2>2. CASE RunListen
    BY <2>2 DEF RunListen, Store!RunListen, writeVars, countVars, Store!diskVars
  <2>3. CASE RunWrite
    BY <2>3, <1>0, FillOwesNothing DEF RunWrite, Store!RunWrite, countVars
  <2>4. CASE RunSignIn
    BY <2>4, <1>0, FillOwesNothing DEF RunSignIn, RestartNetwork, Store!RunSignIn,
      Store!diskVars, countVars
  <2> QED
    BY <1>1, <2>1, <2>2, <2>3, <2>4 DEF WorkerStep
<1>2. CASE WriteStreamStep
  <2>1. CASE \/ \E token \in {"current", "stale"} : WriteTokenArrives(token)
             \/ WriteTokenFails \/ WriteBackoffElapses
    BY <2>1 DEF WriteTokenArrives, WriteTokenFails, WriteBackoffElapses, appVars, diskVars,
      countVars
  <2>2. CASE HandshakeCompletes
    <3>1. UNCHANGED <<rejected, refusals>>
      BY <2>2 DEF HandshakeCompletes, appVars, diskVars, countVars
    <3>2. call' = Send(pipeline, [call EXCEPT !.shaken = TRUE]) /\ call.ended = "no"
      BY <2>2 DEF HandshakeCompletes
    <3>3. ~Owed(call')
      BY <3>2, <1>0 DEF Send, Owed, Calls
    <3> QED
      BY <3>1, <3>3
  <2>3. CASE TakeWrite
    BY <2>3, <1>0 DEF TakeWrite, diskVars, countVars, Owed, Calls
  <2>4. CASE \E status \in {"transient", "permanent"} : CallEnds(status)
    BY <2>4, <1>0 DEF CallEnds, appVars, diskVars, Owed, Calls
  <2>5. CASE OperationFails
    BY <2>5, <1>0 DEF OperationFails, appVars, diskVars, Owed, Calls
  <2>6. CASE ReadAnswer
    <3> DEFINE a == Tail(call.answers)
               c == [call EXCEPT !.answers = a]
               q == RemoveBatch(pending[user], Head(pipeline))
    <3>1. /\ UNCHANGED <<rejected, refusals>>
          /\ FillWritePipeline(writeStream, Tail(pipeline), q, c)
          /\ call.answers # <<>>
      BY <2>6 DEF ReadAnswer, countVars
    <3>2. a \in Seq(Nat)
      BY <1>0, <3>1, TailIndex DEF Calls
    <3> HIDE DEF a
    <3>3. c \in Calls /\ (Owed(c) => Owed(call))
      BY <1>0, <3>2 DEF Calls, Owed
    <3> HIDE DEF c, q
    <3> QED
      BY <3>1, <3>3, FillOwesNothing
  <2>7. CASE StreamFinishes
    BY <2>7, <1>0 DEF StreamFinishes, countVars
  <2>8. CASE IdleTimeout
    BY <2>8, <1>0 DEF IdleTimeout, appVars, diskVars, countVars
  <2> QED
    BY <1>2, <2>1, <2>2, <2>3, <2>4, <2>5, <2>6, <2>7, <2>8 DEF WriteStreamStep
<1>3. CASE WatchStreamStep
  <2>1. CASE \E v \in watched..Len(log) : WatchSnapshot(v)
    BY <2>1 DEF WatchSnapshot, Store!WatchSnapshot, writeVars, countVars
  <2>2. CASE ListenFails
    BY <2>2 DEF ListenFails, Store!ListenFails, Store!diskVars, writeVars, countVars
  <2>3. CASE \/ \E token \in {"current", "stale"} : WatchTokenArrives(token)
             \/ WatchBackoffElapses \/ WatchBreaks \/ WatchTalks \/ OnlineTimeout
    BY <2>3 DEF WatchTokenArrives, WatchBackoffElapses, WatchBreaks, WatchTalks,
      OnlineTimeout, appVars, diskVars, writeVars, countVars
  <2> QED
    BY <1>3, <2>1, <2>2, <2>3 DEF WatchStreamStep
<1>4. CASE NetworkChanges
  BY <1>4, <1>0, FillOwesNothing DEF NetworkChanges, RestartNetwork, appVars, diskVars
<1>5. CASE NetworkIsLost
  BY <1>5, <1>0 DEF NetworkIsLost, appVars, diskVars
<1>6. CASE GetAllGroceries
  BY <1>6 DEF GetAllGroceries, Above, Store!GetAllGroceries, Store!OnlyEnqueues,
    Store!diskVars, remoteVars, writeVars, countVars
<1>7. CASE \E n \in Names, d \in Store!Values : WriteGrocery(n, d) \/ WriteRow(n, d)
  BY <1>7 DEF WriteGrocery, WriteRow, Above, Store!WriteGrocery, Store!WriteRow,
    Store!EnqueueWrite, Store!OnlyEnqueues, Store!diskVars, remoteVars, writeVars, countVars
<1>8. CASE \E n \in Names, d \in Store!Values : OtherDeviceWrites(n, d)
  BY <1>8 DEF OtherDeviceWrites, Above, Store!OtherDeviceWrites, Store!diskVars,
    remoteVars, writeVars, countVars
<1>9. CASE Deliver
  BY <1>9 DEF Deliver, Above, Store!Deliver, Store!diskVars, remoteVars, writeVars,
    countVars
<1>10. CASE \E u \in Users : SignIn(u)
  BY <1>10 DEF SignIn, Store!SignIn, Store!diskVars, remoteVars, writeVars
<1>11. CASE Restart
  BY <1>11, <1>0 DEF Restart, Store!Restart, Store!diskVars
<1>12. CASE UNCHANGED vars
  BY <1>12 DEF vars, appVars, diskVars, remoteVars, writeVars, countVars
<1> QED
  BY <1>1, <1>2, <1>3, <1>4, <1>5, <1>6, <1>7, <1>8, <1>9, <1>10, <1>11, <1>12 DEF Next

LEMMA RefusalsOKStep == RemoteInv /\ RefusalsOK /\ [Next]_vars => RefusalsOK'
<1> SUFFICES ASSUME RemoteInv, RefusalsOK, [Next]_vars
             PROVE  RefusalsOK'
  OBVIOUS
<1>0. Cardinality(rejected) \in Nat /\ refusals \in Nat /\ call \in Calls
  BY FS_CardinalityType DEF RefusalsOK, RemoteInv, CountsOK, WriteOK, CallOK
<1>1. CASE ~RefuseWrite /\ ~(StreamFinishes /\ IsRejection)
  BY <1>0, <1>1, OwedSteps DEF RefusalsOK
<1>2. CASE RefuseWrite
  <2>1. rejected' = rejected /\ refusals' = refusals + 1 /\ ~Owed(call)
    BY <1>2 DEF RefuseWrite, appVars, diskVars, Owed
  <2> QED
    BY <1>0, <2>1 DEF RefusalsOK
<1>3. CASE StreamFinishes /\ IsRejection
  <2> DEFINE m == Head(pipeline)
  <2>1. /\ rejected' = rejected \cup {m.id} /\ refusals' = refusals
        /\ FillWritePipeline(Closed(writeStream, "initial"), Tail(pipeline),
                             RemoveBatch(pending[user], m), NoCall)
    BY <1>3 DEF StreamFinishes, countVars
  <2>2. Owed(call) /\ ~Owed(call')
    BY <1>3, <2>1, FillOwesNothing, NothingOwedAtFirst DEF IsRejection, Owed
  <2>3. IsFiniteSet(rejected') /\ Cardinality(rejected') <= Cardinality(rejected) + 1
        /\ Cardinality(rejected') \in Nat
    <3>1. IsFiniteSet(rejected)
      BY DEF RefusalsOK
    <3>2. /\ IsFiniteSet(rejected \cup {m.id})
          /\ Cardinality(rejected \cup {m.id}) =
               IF m.id \in rejected THEN Cardinality(rejected) ELSE Cardinality(rejected) + 1
      BY <3>1, FS_AddElement
    <3> HIDE DEF m
    <3> QED
      BY <1>0, <2>1, <3>2
  <2> QED
    BY <1>0, <2>1, <2>2, <2>3 DEF RefusalsOK
<1> QED
  BY <1>1, <1>2, <1>3

-----------------------------------------------------------------------------
(* The theorems. *)

LEMMA RemoteInvAlways == Spec => []RemoteInv
BY RemoteInvInit, RemoteInvStep, PTL DEF Spec

\* The variables of the remote store keep their types: streams, pipeline, call
\* and online state hold what their declarations in Stream, RemoteStore and
\* OnlineStateTracker allow.
THEOREM RemoteTypeCorrect == Spec => []RemoteTypeOK
<1>1. ASSUME RemoteInv
      PROVE  RemoteTypeOK
  <2>0. StoreOK /\ WriteOK /\ WatchOK /\ TasksOK /\ CountsOK
    BY <1>1 DEF RemoteInv
  <2>1. writeStream \in Streams /\ watchStream \in Streams
    BY <2>0 DEF WriteOK, WatchOK, StreamOK
  <2>2. pipeline \in Seq(Store!Writes)
    BY <2>0, SameViews DEF WriteOK
  <2>3. call \in Calls /\ call.answers \in Seq(1..Len(log))
    BY <2>0, Queues DEF WriteOK, CallOK
  <2>4. call \in [shaken : BOOLEAN, idle : BOOLEAN, requests : Seq(Store!Writes),
                  answers : Seq(1..Len(log)), ended : {"no", "transient", "permanent"},
                  finishing : BOOLEAN]
    BY <2>3, SameViews DEF Calls
  <2>5. {breaks, lost, refusals} \subseteq Nat
    BY <2>0, Assumed DEF CountsOK
  <2> QED
    BY <2>0, <2>1, <2>2, <2>4, <2>5 DEF RemoteTypeOK, Streams, TasksOK, WatchOK, TrackerOK
<1> QED
  BY RemoteInvAlways, <1>1, PTL

\* No assertion of Stream, RemoteStore and OnlineStateTracker fails: the idle
\* timer runs over an empty pipeline only, a stream resumes with credentials
\* only while it is starting, and the timer of the tracker runs only while the
\* online state is unknown.  The first listen finds its stream and the timer
\* stopped.
THEOREM AssertionsHoldAlways == Spec => []AssertionsHold
<1>1. ASSUME RemoteInv
      PROVE  AssertionsHold
  <2>0. WriteOK /\ WatchOK
    BY <1>1 DEF RemoteInv
  <2>1. IdleMeansEmpty
    <3>1. call.idle => call # NoCall
      BY DEF NoCall
    <3> QED
      BY <2>0, <3>1, CallIsOpen DEF IdleMeansEmpty, WriteOK, CallOK
  <2>2. TokenIsAwaited
    BY <2>0 DEF TokenIsAwaited, WriteOK, WatchOK, StreamOK
  <2>3. TrackerAgrees
    BY <2>0 DEF TrackerAgrees, WatchOK, TrackerOK
  <2>4. FirstListenStartsAll
    BY <2>0 DEF FirstListenStartsAll, WatchOK, NewStream, UpdateState
  <2> QED
    BY <2>1, <2>2, <2>3, <2>4 DEF AssertionsHold
<1> QED
  BY RemoteInvAlways, <1>1, PTL

\* ShouldStartWriteStream and ShouldStartWatchStream are looked at often
\* enough: a stream with something to send or to listen to is started.
THEOREM NeededStreamsAlwaysStarted == Spec => []NeededStreamsAreStarted
<1>1. RemoteInv => NeededStreamsAreStarted
  BY DEF RemoteInv, WriteOK, WatchOK, NeededStreamsAreStarted
<1> QED
  BY RemoteInvAlways, <1>1, PTL

\* OnlineStateTracker lets no list wait for good: it is online, or its timer
\* runs, for as long as a listener has heard nothing.
THEOREM WaitingIsTimedAlways == Spec => []WaitingIsTimed
<1>1. RemoteInv => WaitingIsTimed
  BY DEF RemoteInv, WatchOK
<1> QED
  BY RemoteInvAlways, <1>1, PTL

\* OnWriteStreamMutationResult and HandleWriteError may take the front of the
\* pipeline for the write that was answered or refused: the pipeline is the
\* front of the user's queue, and the wire is the pipeline.
THEOREM PipelineAgreesAlways == Spec => []PipelineAgrees
<1>1. ASSUME RemoteInv
      PROVE  PipelineAgrees
  <2>0. StoreOK /\ WriteOK
    BY <1>1 DEF RemoteInv
  <2>1. pipeline \in Seq(W!Writes) /\ pending[user] \in Seq(W!Writes)
    BY <2>0, Queues DEF WriteOK
  <2>2. PipelineIsFront
    BY <2>0, <2>1, FrontIsSubSeq DEF PipelineIsFront, WriteOK
  <2>3. ASSUME call.shaken, call.ended = "no"
        PROVE  /\ Len(call.answers) + Len(call.requests) = Len(pipeline)
               /\ call.requests = SubSeq(pipeline, Len(call.answers) + 1, Len(pipeline))
    <3> DEFINE a == call.answers
               r == call.requests
    <3>1. /\ a \in Seq(Nat) /\ r \in Seq(W!Writes)
          /\ WireIsAll(pipeline, a, r)
      BY <2>0, <2>3 DEF WriteOK, CallOK, Calls
    <3> HIDE DEF a, r
    <3>2. r = SubSeq(pipeline, Len(a) + 1, Len(pipeline))
      BY <2>1, <3>1, WireIsRest
    <3> QED
      BY <3>1, <3>2 DEF WireIsAll, a, r
  <2>4. ASSUME call.shaken, call.ended = "no", NEW k \in 1..Len(call.answers)
        PROVE  log[call.answers[k]].who = user /\ log[call.answers[k]].id = pipeline[k].id
    <3>1. ready /\ IsPrefix(pipeline, pending[user])
      <4>1. call # NoCall
        BY <2>4 DEF NoCall
      <4> QED
        BY <2>0, <4>1, CallIsOpen DEF WriteOK, IsFront
    <3>2. k \in 1..Len(pipeline)
      <4> DEFINE a == call.answers
                 r == call.requests
      <4>1. a \in Seq(Nat) /\ r \in Seq(W!Writes) /\ WireFits(pipeline, a, r)
        BY <2>0 DEF WriteOK, CallOK, Calls
      <4>2. k \in 1..Len(a)
        BY <2>4
      <4> HIDE DEF a, r
      <4>3. Len(a) \in Nat /\ Len(r) \in Nat /\ Len(pipeline) \in Nat
        BY <2>1, <4>1
      <4> QED
        BY <4>1, <4>2, <4>3 DEF WireFits
    <3>3. pipeline[k] = pending[user][k]
      BY <3>1, <3>2 DEF IsPrefix
    <3>4. /\ log[call.answers[k]].who = user
          /\ log[call.answers[k]].id = pending[user][k].id
      BY <2>0, <2>4 DEF StoreOK, W!TypeInv, W!AnswersMatch
    <3> QED
      BY <3>3, <3>4
  <2>5. WireMatchesPipeline
    BY <2>3, <2>4 DEF WireMatchesPipeline
  <2> QED
    BY <2>2, <2>5 DEF PipelineAgrees
<1> QED
  BY RemoteInvAlways, <1>1, PTL

\* A permanent error of a request costs one write its place in the queue, one
\* of the handshake none: HandleHandshakeError and HandleWriteError are told
\* apart, whatever breaks or restarts in between.
THEOREM RefusalsCostOneWriteEachAlways == Spec => []RefusalsCostOneWriteEach
<1>1. Init => RefusalsOK
  <2>1. ASSUME Init
        PROVE  RefusalsOK
    <3>1. rejected = {} /\ call = NoCall /\ refusals = 0
      BY <2>1 DEF Init, Store!Init
    <3> QED
      BY <3>1, FS_EmptySet, NothingOwedAtFirst DEF RefusalsOK
  <2> QED
    BY <2>1
<1>2. RemoteInv /\ RefusalsOK => RefusalsCostOneWriteEach
  BY FS_CardinalityType DEF RefusalsOK, RemoteInv, CountsOK, RefusalsCostOneWriteEach
<1> QED
  BY RemoteInvAlways, RefusalsOKStep, <1>1, <1>2, PTL DEF Spec

\* Tokens, handshakes, back-off, idle stops, network changes and the pipeline
\* are nothing the sync engine above them can tell from GroceryStore's direct
\* way from the mutation queue to the cloud.
THEOREM RemoteImplementsStore == Spec => StoreSpec
<1>1. Init => Store!Init
  BY DEF Init
<1>2. RemoteInv /\ [Next]_vars => [Store!Next]_(Store!vars)
  <2>1. UNCHANGED W!vars => UNCHANGED Store!vars
    BY DEF W!vars, Store!vars
  <2>2. RemoteInv /\ [Next]_vars => W!Next \/ UNCHANGED W!vars
    BY Simulates
  <2> QED
    BY <2>1, <2>2, SameSpec
<1> QED
  BY RemoteInvAlways, <1>1, <1>2, PTL DEF Spec, StoreSpec, Store!Spec

LEMMA ImplementsWrites == Spec => W!Spec
<1>1. Init => W!Init
  BY SameSpec DEF Init
<1>2. RemoteInv /\ [Next]_vars => [W!Next]_(W!vars)
  BY Simulates
<1> QED
  BY RemoteInvAlways, <1>1, <1>2, PTL DEF Spec, W!Spec

\* The local store drops no accepted write, whatever the streams under it do:
\* GroceryStore's theorem holds with the detailed remote store.
THEOREM RemoteLosesNoWrite == Spec => []Store!NoWriteIsLost
<1>1. W!Spec => []W!NoWriteIsLost
  BY W!NoWriteIsLostEver, Assumed DEF W!StoreAssumption
<1>2. W!NoWriteIsLost => Store!NoWriteIsLost
  BY DEF W!NoWriteIsLost, Store!NoWriteIsLost
<1> QED
  BY ImplementsWrites, <1>1, <1>2, PTL

\* Nor do the streams spoil the list or the order of the writes: what GroceryStore
\* promises of the view, of the events on their way to the screen and of what the
\* list ends up as holds with tokens, back-offs, repeated handshakes and lost
\* answers underneath.
THEOREM RemoteListIsRight ==
  Spec => [](/\ Store!ListIsFresh /\ Store!LastEventIsShown /\ Store!SettledListIsCloud
             /\ Store!WritesKeepTheirOrder)
<1>1. W!Spec => [](/\ W!ListIsFresh /\ W!LastEventIsShown /\ W!SettledListIsCloud
                   /\ W!WritesKeepTheirOrder)
  <2>1. W!Spec => []W!ListIsFresh
    BY W!ListIsFreshAlways, Assumed DEF W!StoreAssumption
  <2>2. W!Spec => []W!LastEventIsShown
    BY W!LastEventIsShownAlways, Assumed DEF W!StoreAssumption
  <2>3. W!Spec => []W!SettledListIsCloud
    BY W!SettledListIsCloudAlways, Assumed DEF W!StoreAssumption
  <2>4. W!Spec => []W!WritesKeepTheirOrder
    BY W!WritesKeepTheirOrderAlways, Assumed DEF W!StoreAssumption
  <2> QED
    BY <2>1, <2>2, <2>3, <2>4, PTL
<1>2. W!ListIsFresh => Store!ListIsFresh
  BY SameViews DEF W!ListIsFresh, Store!ListIsFresh,
    W!ShouldWaitForSyncedDocument, Store!ShouldWaitForSyncedDocument
<1>a. \A n : W!IsAhead(n) <=> Store!IsAhead(n)
  BY DEF W!IsAhead, Store!IsAhead
<1>3. W!LastEventIsShown => Store!LastEventIsShown
  BY <1>a, SameViews DEF W!LastEventIsShown, Store!LastEventIsShown
<1>4. W!SettledListIsCloud => Store!SettledListIsCloud
  BY <1>a, SameViews DEF W!SettledListIsCloud, Store!SettledListIsCloud
<1>5. W!WritesKeepTheirOrder => Store!WritesKeepTheirOrder
  BY DEF W!WritesKeepTheirOrder, Store!WritesKeepTheirOrder
<1> QED
  BY ImplementsWrites, <1>1, <1>2, <1>3, <1>4, <1>5, PTL

\* GroceryStore's order of taking and refusing, under the refinement.
LEMMA RemoteTakesOnce == Spec => [](RemoteInv /\ W!TypeInv /\ W!OrderInv /\ W!OnceInv)
<1>1. W!Spec => [](W!TypeInv /\ W!OrderInv /\ W!OnceInv)
  BY W!OnceInvAlways, Assumed DEF W!StoreAssumption
<1> QED
  BY RemoteInvAlways, ImplementsWrites, <1>1, PTL

LEMMA NothingLostYet ==
  ASSUME RemoteInv, W!OnceInv, lost + incidents = 0
  PROVE  W!TakenAscending /\ W!TakenNotRefused /\ W!OthersUnnumbered
<1>1. incidents + lost = 0
  BY Assumed DEF RemoteInv, CountsOK
<1> QED
  BY <1>1 DEF W!OnceInv

\* HandleWriteError rejects the front of the pipeline for whatever the cloud
\* refused.  Until an answer is lost that is the refused write: the cloud has
\* none of the writes that failed on the device.
THEOREM RefusedIsNotTakenAlways == Spec => []RefusedIsNotTaken
<1>1. RemoteInv /\ W!TypeInv /\ W!OrderInv /\ W!OnceInv => RefusedIsNotTaken
  BY NothingLostYet DEF RefusedIsNotTaken, W!TakenNotRefused
<1> QED
  BY RemoteTakesOnce, <1>1, PTL

\* The pipeline is sent again after each handshake.  The cloud takes a write
\* twice only if its answer was lost to a break, to another user or to the end
\* of the process.
THEOREM TwiceOnlyAfterLossAlways == Spec => []TwiceOnlyAfterLoss
<1>1. ASSUME RemoteInv, W!TypeInv, W!OrderInv, W!OnceInv
      PROVE  TwiceOnlyAfterLoss
  <2> SUFFICES ASSUME lost + incidents = 0,
                      NEW p \in 1..Len(log), NEW r \in 1..Len(log),
                      p < r, log[p].who # OtherDevice
               PROVE  log[p].id # log[r].id
    BY DEF TwiceOnlyAfterLoss
  <2>1. Len(log) \in Nat /\ log[p].id \in Nat /\ log[r].id \in Nat
    BY <1>1, W!OrderTypes, Assumed DEF W!StoreAssumption
  <2>2. CASE log[r].who # OtherDevice
    <3>1. r \in (p+1)..Len(log)
      BY <2>1
    <3>2. log[p].id < log[r].id
      BY <1>1, <2>2, <3>1, NothingLostYet DEF W!TakenAscending
    <3> QED
      BY <2>1, <3>2
  <2>3. CASE log[r].who = OtherDevice
    <3>1. log[p].id # 0
      BY <1>1 DEF W!OrderInv, W!CommittedIssued
    <3>2. log[r].id = 0
      BY <1>1, <2>3, NothingLostYet DEF W!OthersUnnumbered
    <3> QED
      BY <3>1, <3>2
  <2> QED
    BY <2>2, <2>3
<1> QED
  BY RemoteTakesOnce, <1>1, PTL
=============================================================================
