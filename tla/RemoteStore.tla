---------------------------- MODULE RemoteStore ----------------------------
(***************************************************************************)
(* The Firestore client's remote store in detail: the two streams with     *)
(* their connection states, access tokens and back-off, the handshake, the *)
(* pipeline and the idle timer of the write stream, the gRPC call under    *)
(* it, the tracker of the online state, and changes of the network.        *)
(*                                                                         *)
(* GroceryStore is what the rest of the app sees of it.  There, a write    *)
(* goes straight from the mutation queue to the cloud and the answers on   *)
(* the way are those of its first writes.  Here the remote store keeps a   *)
(* pipeline of its own, fills it at certain moments only, and pops it by   *)
(* itself; `StoreSpec' says that this comes to the same.                   *)
(***************************************************************************)
EXTENDS Integers, Sequences, FiniteSets

CONSTANTS Names, Docs, NoDoc, Users, FirstUser, OtherDevice, kMaxPendingWrites,
          MaxWrites, MaxElsewhere, \* as in GroceryStore
          MaxRestarts, \* bound on restarts and sign-ins
          MaxBreaks    \* bound on failures of streams and changes of the network

VARIABLES
  log, watched, known, user, pending, rejected, issued, worker, listener,
  shown, mutated, mainQueue, groceries, incidents, \* as in GroceryStore
  ready,       \* the client is initialized
  writeStream, \* its connection state and the callbacks that bring a token
  watchStream, \* the same of the watch stream
  pipeline,    \* write_pipeline_
  call,        \* the write stream's call: what is on the wire, its flags
  online,      \* OnlineStateTracker
  breaks,      \* failures of streams and changes of the network so far
  lost,        \* history: how often an answer was lost on the way
  refusals     \* history: how many requests the cloud refused

diskVars   == <<watched, known, pending, rejected, issued>>
viewVars   == <<listener, shown, mutated, mainQueue>>
appVars    == <<log, diskVars, user, worker, groceries>>
writeVars  == <<writeStream, pipeline, call>>
watchVars  == <<watchStream, online>>
remoteVars == <<ready, writeVars, watchVars>>
countVars  == <<incidents, breaks, lost, refusals>>
vars == <<appVars, viewVars, remoteVars, countVars>>

\* The app over this remote store.  A lost answer is what GroceryStore counts
\* as an incident of the write stream.
Store == INSTANCE GroceryStore WITH
  commits <- call.answers,
  incidents <- incidents + lost,
  MaxIncidents <- MaxRestarts + MaxBreaks

ASSUME RemoteAssumption ==
  /\ Store!StoreAssumption
  /\ MaxRestarts \in Nat
  /\ MaxBreaks \in Nat

-----------------------------------------------------------------------------
(* Streams. *)

NewStream == [state |-> "initial", tokens |-> {}]

IsStarted(s) == s.state \in {"starting", "backoff", "open"}

\* After an error a stream starts with a delay; otherwise it asks for a token.
Start(s) == IF s.state = "error"
            THEN [s EXCEPT !.state = "backoff"]
            ELSE [state |-> "starting", tokens |-> s.tokens \cup {"current"}]

\* close_count_ makes callbacks from before the close recognizable.
Closed(s, state) ==
  [state |-> state, tokens |-> {"stale" : t \in s.tokens}]

\* Mutant of Resumed: the close count is not compared.
ResumedUnchecked(s, token) == [state |-> "open", tokens |-> s.tokens \ {token}]

\* A token of an earlier start is ignored; the awaited one opens the stream.
Resumed(s, token) ==
  [state |-> IF token = "current" THEN "open" ELSE s.state, tokens |-> s.tokens \ {token}]

\* The back-off is over and the stream asks for a token.
Retried(s) == Start([s EXCEPT !.state = "initial"])

\* A call that has not begun.
NoCall == [shaken |-> FALSE, idle |-> FALSE, requests |-> <<>>, answers |-> <<>>,
           ended |-> "no", finishing |-> FALSE]

-----------------------------------------------------------------------------
(* The write pipeline. *)

LastId(p) == IF p = <<>> THEN 0 ELSE p[Len(p)].id

Smaller(a, b) == IF a < b THEN a ELSE b

\* The batches that GetNextMutationBatch finds after the last of `p', for as
\* long as there is room.
NextBatches(p, q) ==
  LET i == CHOOSE i \in 0..Len(q) : /\ \A j \in 1..i : q[j].id <= LastId(p)
                                    /\ i < Len(q) => q[i+1].id > LastId(p)
  IN SubSeq(q, i + 1, Smaller(i + kMaxPendingWrites - Len(p), Len(q)))

\* The mutation queue without the batch `m'; it is found by its id.
RemoveBatch(q, m) ==
  LET i == CHOOSE i \in 0..Len(q) : IF i = 0 THEN \A j \in 1..Len(q) : q[j].id # m.id
                                             ELSE q[i].id = m.id
  IN SubSeq(q, 1, i - 1) \o SubSeq(q, i + 1, Len(q))

\* Mutant of Send: what is added goes out before the handshake, and after it
\* once more.
SendAtOnce(batches, c) ==
  IF batches = <<>> THEN c
  ELSE [c EXCEPT !.requests = @ \o batches, !.idle = FALSE]

\* A write that goes out cancels the idle timer.
Send(batches, c) ==
  IF batches = <<>> \/ ~c.shaken THEN c
  ELSE [c EXCEPT !.requests = @ \o batches, !.idle = FALSE]

\* Mutant of StartIfNeeded: it is left to the next write.
StartsLater(s, p) == s

\* A stream that is needed is started.
StartIfNeeded(s, p) == IF p # <<>> /\ ~IsStarted(s) THEN Start(s) ELSE s

\* FillWritePipeline, over the stream `s', the pipeline `p', the mutation queue
\* `q' and the call `c': an open stream sends what is added, or is marked idle.
FillWritePipeline(s, p, q, c) ==
  LET filled == p \o NextBatches(p, q) IN
  /\ pipeline' = filled
  /\ call' = IF s.state # "open" THEN c
             ELSE IF filled = <<>> THEN [c EXCEPT !.idle = TRUE]
             ELSE Send(NextBatches(p, q), c)
  /\ writeStream' = StartIfNeeded(s, filled)

-----------------------------------------------------------------------------
(* The online state and the watch stream. *)

Listening == listener \in {"waiting", "live"}

kMaxWatchStreamFailures == 1

UpdateState(state) == [state |-> state, failures |-> 0, timer |-> FALSE]

\* Mutant of HandleWatchStreamStart: no timer.
StartsNoTimer(o) ==
  IF o.failures # 0 THEN o ELSE [state |-> "unknown", failures |-> 0, timer |-> FALSE]

HandleWatchStreamStart(o) ==
  IF o.failures # 0 THEN o ELSE [state |-> "unknown", failures |-> 0, timer |-> TRUE]

\* Mutant of HandleWatchStreamFailure: the counter falls.
FailureCountsDown(o) ==
  IF o.state = "online" THEN [o EXCEPT !.state = "unknown"]
  ELSE [o EXCEPT !.failures = @ - 1]

HandleWatchStreamFailure(o) ==
  IF o.state = "online" THEN [o EXCEPT !.state = "unknown"]
  ELSE IF o.failures + 1 < kMaxWatchStreamFailures
  THEN [o EXCEPT !.failures = @ + 1]
  ELSE [state |-> "offline", failures |-> o.failures + 1, timer |-> FALSE]

\* Mutant of Broadcast: nobody is told.
TellsNobody(o) == UNCHANGED viewVars

\* A listener that heard nothing yet gets what there is once the client gives
\* up on the connection.
Broadcast(o) ==
  IF o.state = "offline" /\ listener = "waiting"
  THEN /\ listener' = "live"
       /\ mainQueue' = Append(mainQueue, Store!Snapshot(shown))
       /\ UNCHANGED <<shown, mutated>>
  ELSE UNCHANGED viewVars

\* The watch stream closes with an error; it is tried again while there is a
\* target to listen to.
OnWatchStreamClose ==
  LET failed == HandleWatchStreamFailure(online)
      s == Closed(watchStream, "error")
  IN IF Listening
     THEN /\ watchStream' = Start(s)
          /\ online' = HandleWatchStreamStart(failed)
          /\ Broadcast(failed)
     ELSE /\ watchStream' = s
          /\ online' = UpdateState("unknown")
          /\ UNCHANGED viewVars

\* Mutant of RestartNetwork: the pipeline is not cleared.
RestartNetworkAsItIs(q) ==
  /\ FillWritePipeline(Closed(writeStream, "initial"), pipeline, q, NoCall)
  /\ LET s == Closed(watchStream, "initial") IN
     /\ watchStream' = IF Listening THEN Start(s) ELSE s
     /\ online' = IF Listening THEN HandleWatchStreamStart(UpdateState("unknown"))
                                ELSE UpdateState("unknown")

\* Both streams are stopped, the pipeline is cleared, and both start again as
\* far as they are needed.
RestartNetwork(q) ==
  /\ FillWritePipeline(Closed(writeStream, "initial"), <<>>, q, NoCall)
  /\ LET s == Closed(watchStream, "initial") IN
     IF Listening
     THEN /\ watchStream' = Start(s)
          /\ online' = HandleWatchStreamStart(UpdateState("unknown"))
     ELSE /\ watchStream' = s
          /\ online' = UpdateState("unknown")

-----------------------------------------------------------------------------
Init ==
  /\ ready = FALSE
  /\ writeStream = NewStream
  /\ watchStream = NewStream
  /\ pipeline = <<>>
  /\ call = NoCall
  /\ online = UpdateState("unknown")
  /\ incidents = 0 /\ breaks = 0 /\ lost = 0 /\ refusals = 0
  /\ Store!Init

\* What happens above the remote store happens as in GroceryStore.
Above == UNCHANGED <<remoteVars, countVars>>

GetAllGroceries         == Above /\ Store!GetAllGroceries
WriteGrocery(n, d)      == Above /\ Store!WriteGrocery(n, d)
WriteRow(n, d)          == Above /\ Store!WriteRow(n, d)
Deliver                 == Above /\ Store!Deliver
OtherDeviceWrites(n, d) == Above /\ Store!OtherDeviceWrites(n, d)

SignIn(u) ==
  /\ incidents < MaxRestarts
  /\ incidents' = incidents + 1
  /\ UNCHANGED <<remoteVars, breaks, lost, refusals>>
  /\ Store!SignIn(u)

\* The process ends: everything in memory is gone.
Restart ==
  /\ incidents < MaxRestarts
  /\ ready' = FALSE
  /\ writeStream' = NewStream /\ pipeline' = <<>> /\ call' = NoCall
  /\ watchStream' = NewStream /\ online' = UpdateState("unknown")
  /\ incidents' = incidents + 1
  /\ UNCHANGED <<breaks, lost, refusals>>
  /\ Store!Restart

-----------------------------------------------------------------------------
(* The worker's tasks. *)

\* The client is initialized before its first task; EnableNetwork fills the
\* pipeline from the mutation queue on disk.
StartClient ==
  /\ ~ready
  /\ worker # <<>>
  /\ ready' = TRUE
  /\ FillWritePipeline(writeStream, pipeline, pending[user], call)
  /\ UNCHANGED <<appVars, viewVars, watchVars, countVars>>

\* The first listen starts the watch stream.
RunListen ==
  /\ ready
  /\ watchStream' = Start(watchStream)
  /\ online' = HandleWatchStreamStart(online)
  /\ UNCHANGED <<ready, writeVars, countVars>>
  /\ Store!RunListen

RunWrite ==
  /\ ready
  /\ worker # <<>> /\ Head(worker).op = "write"
  /\ FillWritePipeline(writeStream, pipeline,
       Append(pending[user],
              [id |-> issued + 1, name |-> Head(worker).name, doc |-> Head(worker).doc]),
       call)
  /\ UNCHANGED <<ready, watchVars, countVars>>
  /\ Store!RunWrite

RunSignIn ==
  /\ ready
  /\ worker # <<>> /\ Head(worker).op = "signIn"
  /\ RestartNetwork(pending[Head(worker).user])
  /\ UNCHANGED <<ready, countVars>>
  /\ Store!RunSignIn

-----------------------------------------------------------------------------
(* The life of the write stream. *)

\* A failure of the environment that the bound allows.
Breaks == breaks < MaxBreaks /\ breaks' = breaks + 1

\* The credentials provider answers; an open stream sends its handshake.
WriteTokenArrives(token) ==
  /\ token \in writeStream.tokens
  /\ writeStream' = Resumed(writeStream, token)
  /\ UNCHANGED <<appVars, viewVars, ready, pipeline, call, watchVars, countVars>>

\* There is no token: the stream fails and is tried again.
WriteTokenFails ==
  /\ "current" \in writeStream.tokens
  /\ Breaks
  /\ writeStream' = StartIfNeeded(
                      Closed([writeStream EXCEPT !.tokens = @ \ {"current"}], "error"),
                      pipeline)
  /\ UNCHANGED <<appVars, viewVars, ready, pipeline, call, watchVars, incidents, lost,
                 refusals>>

WriteBackoffElapses ==
  /\ writeStream.state = "backoff"
  /\ writeStream' = Retried(writeStream)
  /\ UNCHANGED <<appVars, viewVars, ready, pipeline, call, watchVars, countVars>>

\* The first message on the stream answers the handshake; the whole pipeline
\* goes out.
HandshakeCompletes ==
  /\ writeStream.state = "open"
  /\ ~call.shaken
  /\ call.ended = "no"
  /\ call' = Send(pipeline, [call EXCEPT !.shaken = TRUE])
  /\ UNCHANGED <<appVars, viewVars, ready, writeStream, pipeline, watchVars, countVars>>

\* The cloud commits the next request and answers it.
TakeWrite ==
  /\ call.ended = "no"
  /\ call.requests # <<>>
  /\ LET m == Head(call.requests) IN
       log' = Append(log, [who |-> user, id |-> m.id, name |-> m.name,
                           docs |-> [Store!Cloud EXCEPT ![m.name] = m.doc]])
  /\ call' = [call EXCEPT !.requests = Tail(@), !.answers = Append(@, Len(log) + 1)]
  /\ UNCHANGED <<diskVars, user, worker, groceries, viewVars, ready, writeStream, pipeline,
                 watchVars, countVars>>

\* The cloud refuses the next request for good, by ending the call.
RefuseWrite ==
  /\ call.ended = "no"
  /\ call.requests # <<>>
  /\ call' = [call EXCEPT !.requests = <<>>, !.ended = "permanent"]
  /\ refusals' = refusals + 1
  /\ UNCHANGED <<appVars, viewVars, ready, writeStream, pipeline, watchVars, incidents,
                 breaks, lost>>

\* The call ends for another reason.  Only a handshake is refused for good.
CallEnds(status) ==
  /\ writeStream.state = "open"
  /\ call.ended = "no"
  /\ status = "permanent" => ~call.shaken
  /\ Breaks
  /\ call' = [call EXCEPT !.requests = <<>>, !.ended = status]
  /\ UNCHANGED <<appVars, viewVars, ready, writeStream, pipeline, watchVars, incidents, lost,
                 refusals>>

\* A read or a write of the ended call fails: the client asks for the status
\* and turns what it has not read into a no-op.
OperationFails ==
  /\ call.ended # "no"
  /\ ~call.finishing
  /\ call' = [call EXCEPT !.answers = <<>>, !.finishing = TRUE]
  /\ IF call.answers = <<>> THEN UNCHANGED <<breaks, lost>>
                            ELSE Breaks /\ lost' = lost + 1
  /\ UNCHANGED <<appVars, viewVars, ready, writeStream, pipeline, watchVars, incidents,
                 refusals>>

\* Mutant of ReadAnswer: the answered write stays in front.
ReadAnswerKeepsFront ==
  /\ call.answers # <<>>
  /\ ~call.finishing
  /\ LET m  == Head(pipeline)
         q  == RemoveBatch(pending[user], m)
         kn == [known EXCEPT ![m.name] = Store!Newer(@, Head(call.answers))]
     IN /\ known' = kn
        /\ pending' = [pending EXCEPT ![user] = q]
        /\ Store!Emit({m.name}, q, kn, watched, FALSE)
        /\ FillWritePipeline(writeStream, pipeline, q,
                             [call EXCEPT !.answers = Tail(@)])
  /\ UNCHANGED <<log, watched, rejected, issued, user, worker, groceries, ready, watchVars,
                 countVars>>

\* An answer is for the front of the pipeline, whatever it is.
ReadAnswer ==
  /\ call.answers # <<>>
  /\ ~call.finishing
  /\ LET m  == Head(pipeline)
         q  == RemoveBatch(pending[user], m)
         kn == [known EXCEPT ![m.name] = Store!Newer(@, Head(call.answers))]
     IN /\ known' = kn
        /\ pending' = [pending EXCEPT ![user] = q]
        /\ Store!Emit({m.name}, q, kn, watched, FALSE)
        /\ FillWritePipeline(writeStream, Tail(pipeline), q,
                             [call EXCEPT !.answers = Tail(@)])
  /\ UNCHANGED <<log, watched, rejected, issued, user, worker, groceries, ready, watchVars,
                 countVars>>

\* Mutant of IsRejection: a refused handshake counts as a refused write.
AnyPermanentError == call.ended = "permanent" /\ pipeline # <<>>

\* The status of the call rejects a write, as far as the client can tell.
IsRejection == call.ended = "permanent" /\ call.shaken /\ pipeline # <<>>

\* The status arrives.  A rejection costs the front of the pipeline its place
\* and the stream starts again without a delay; anything else is tried again
\* after one.
StreamFinishes ==
  /\ call.finishing
  /\ IF IsRejection
     THEN LET m == Head(pipeline)
              q == RemoveBatch(pending[user], m)
          IN /\ rejected' = rejected \cup {m.id}
             /\ pending' = [pending EXCEPT ![user] = q]
             /\ Store!Emit({m.name}, q, known, watched, FALSE)
             /\ FillWritePipeline(Closed(writeStream, "initial"), Tail(pipeline), q, NoCall)
     ELSE /\ writeStream' = StartIfNeeded(Closed(writeStream, "error"), pipeline)
          /\ call' = NoCall
          /\ UNCHANGED <<rejected, pending, viewVars, pipeline>>
  /\ UNCHANGED <<log, watched, known, issued, user, worker, groceries, ready, watchVars,
                 countVars>>

\* A minute without a write: the stream is stopped.
IdleTimeout ==
  /\ call.idle
  /\ writeStream' = Closed(writeStream, "initial")
  /\ call' = NoCall
  /\ UNCHANGED <<appVars, viewVars, ready, pipeline, watchVars, countVars>>

-----------------------------------------------------------------------------
(* The life of the watch stream. *)

\* An open stream sends the listen.
WatchTokenArrives(token) ==
  /\ token \in watchStream.tokens
  /\ watchStream' = Resumed(watchStream, token)
  /\ UNCHANGED <<appVars, viewVars, ready, writeVars, online, countVars>>

WatchBackoffElapses ==
  /\ watchStream.state = "backoff"
  /\ watchStream' = Retried(watchStream)
  /\ UNCHANGED <<appVars, viewVars, ready, writeVars, online, countVars>>

\* There is no token, or the open stream breaks.
WatchBreaks ==
  /\ watchStream.state \in {"starting", "open"}
  /\ Breaks
  /\ OnWatchStreamClose
  /\ UNCHANGED <<appVars, ready, writeVars, incidents, lost, refusals>>

\* Any message, such as the confirmation of the listen, shows that the client
\* is online.
WatchTalks ==
  /\ watchStream.state = "open"
  /\ online' = UpdateState("online")
  /\ UNCHANGED <<appVars, viewVars, ready, writeVars, watchStream, countVars>>

WatchSnapshot(v) ==
  /\ watchStream.state = "open"
  /\ online' = UpdateState("online")
  /\ UNCHANGED <<ready, writeVars, watchStream, countVars>>
  /\ Store!WatchSnapshot(v)

ListenFails ==
  /\ watchStream.state = "open"
  /\ online' = UpdateState("online")
  /\ UNCHANGED <<ready, writeVars, watchStream, countVars>>
  /\ Store!ListenFails

\* Ten seconds without a message.
OnlineTimeout ==
  /\ online.timer
  /\ online' = [online EXCEPT !.state = "offline", !.timer = FALSE]
  /\ Broadcast(online')
  /\ UNCHANGED <<appVars, ready, writeVars, watchStream, countVars>>

\* The device changes its network, or the app comes to the foreground: the
\* connection ends every call, and if there is a network the remote store
\* starts over without a delay.
NetworkChanges ==
  /\ ready
  /\ Breaks
  /\ RestartNetwork(pending[user])
  /\ IF watchStream.state = "open" /\ Listening
     THEN Broadcast(HandleWatchStreamFailure(online))
     ELSE UNCHANGED viewVars
  /\ lost' = IF call.answers = <<>> THEN lost ELSE lost + 1
  /\ UNCHANGED <<appVars, ready, incidents, refusals>>

\* The device loses its network: the open streams close with an error.
NetworkIsLost ==
  /\ ready
  /\ Breaks
  /\ IF writeStream.state = "open"
     THEN /\ writeStream' = StartIfNeeded(Closed(writeStream, "error"), pipeline)
          /\ call' = NoCall
     ELSE UNCHANGED <<writeStream, call>>
  /\ IF watchStream.state = "open" THEN OnWatchStreamClose
                                   ELSE UNCHANGED <<watchVars, viewVars>>
  /\ lost' = IF call.answers = <<>> THEN lost ELSE lost + 1
  /\ UNCHANGED <<appVars, ready, pipeline, incidents, refusals>>

-----------------------------------------------------------------------------
WorkerStep == StartClient \/ RunListen \/ RunWrite \/ RunSignIn

WriteStreamStep ==
  \/ \E token \in {"current", "stale"} : WriteTokenArrives(token)
  \/ WriteTokenFails \/ WriteBackoffElapses \/ HandshakeCompletes
  \/ TakeWrite \/ RefuseWrite
  \/ \E status \in {"transient", "permanent"} : CallEnds(status)
  \/ OperationFails \/ ReadAnswer \/ StreamFinishes \/ IdleTimeout

WatchStreamStep ==
  \/ \E token \in {"current", "stale"} : WatchTokenArrives(token)
  \/ WatchBackoffElapses \/ WatchBreaks \/ WatchTalks
  \/ \E v \in watched..Len(log) : WatchSnapshot(v)
  \/ ListenFails \/ OnlineTimeout

Next ==
  \/ GetAllGroceries
  \/ \E n \in Names, d \in Store!Values : WriteGrocery(n, d) \/ WriteRow(n, d)
  \/ \E u \in Users : SignIn(u)
  \/ WorkerStep
  \/ WriteStreamStep
  \/ WatchStreamStep
  \/ NetworkChanges \/ NetworkIsLost
  \/ Deliver
  \/ \E n \in Names, d \in Store!Values : OtherDeviceWrites(n, d)
  \/ Restart

Spec == Init /\ [][Next]_vars

-----------------------------------------------------------------------------
(* Properties. *)

RemoteTypeOK ==
  /\ ready \in BOOLEAN
  /\ {writeStream, watchStream} \subseteq
       [state : {"initial", "starting", "backoff", "open", "error"},
        tokens : SUBSET {"current", "stale"}]
  /\ pipeline \in Seq(Store!Writes)
  /\ call \in [shaken : BOOLEAN, idle : BOOLEAN, requests : Seq(Store!Writes),
               answers : Seq(1..Len(log)), ended : {"no", "transient", "permanent"},
               finishing : BOOLEAN]
  /\ online \in [state : {"unknown", "online", "offline"}, failures : Nat, timer : BOOLEAN]
  /\ {breaks, lost, refusals} \subseteq Nat

\* The remote store keeps its own copy of the writes to send.  Whatever was
\* answered, refused, written, broken or signed in meanwhile, it is the front
\* of the user's mutation queue, as long as there is room: nothing is skipped,
\* stays behind after its answer, or is taken over from another user's queue.
PipelineIsFront ==
  ready => pipeline = SubSeq(pending[user], 1,
                             Smaller(kMaxPendingWrites, Len(pending[user])))

\* While a call lasts, the answers on the way followed by the requests on the
\* way are the pipeline, in its order: OnWriteStreamMutationResult may take any
\* answer for the front of the pipeline.
WireMatchesPipeline ==
  call.shaken /\ call.ended = "no" =>
    /\ Len(call.answers) + Len(call.requests) = Len(pipeline)
    /\ call.requests = SubSeq(pipeline, Len(call.answers) + 1, Len(pipeline))
    /\ \A k \in 1..Len(call.answers) :
         log[call.answers[k]].who = user /\ log[call.answers[k]].id = pipeline[k].id

\* The pipeline, the queue and the wire hold the same writes in the same order,
\* so answers can be taken by position.
PipelineAgrees == PipelineIsFront /\ WireMatchesPipeline

\* The idle timer stops the stream without an error, and OnWriteStreamClose
\* asserts that nobody needs it then: the timer runs only while the pipeline is
\* empty.
IdleMeansEmpty == call.idle => writeStream.state = "open" /\ pipeline = <<>>

\* ResumeStartWithCredentials asserts that its stream is starting: a stream is
\* starting exactly as long as the token that it asked for last is on its way,
\* and tokens of earlier starts change nothing.
TokenIsAwaited ==
  \A s \in {writeStream, watchStream} : "current" \in s.tokens <=> s.state = "starting"

\* What OnlineStateTracker asserts of its timer and its counter.
TrackerAgrees ==
  /\ online.timer => online.state = "unknown" /\ online.failures = 0
  /\ online.state = "online" => online.failures = 0

\* Start asserts that its stream is not started already, and
\* HandleWatchStreamStart that no timer runs: what was closed or reset in the same
\* step aside, that is up to the first listen.
FirstListenStartsAll ==
  listener = "none" => watchStream.state = "initial" /\ ~online.timer

\* These assertions of the streams and of the tracker cannot fail, whatever order
\* tokens, timers, breaks, sign-ins and writes come in.
AssertionsHold == /\ IdleMeansEmpty /\ TokenIsAwaited
                  /\ TrackerAgrees /\ FirstListenStartsAll

\* A stream that is needed never stays stopped, whichever of an error, an idle
\* stop, a restart of the network or a new write came last.
NeededStreamsAreStarted ==
  ready => /\ pipeline # <<>> => IsStarted(writeStream)
           /\ Listening => IsStarted(watchStream)

\* A list that has heard nothing yet never waits for good: the client is
\* connected, or the timer that gives up on the connection is running.
WaitingIsTimed == listener = "waiting" => online.state = "online" \/ online.timer

\* A refused request costs one write its place in the queue, a refused
\* handshake none.
RefusalsCostOneWriteEach == Cardinality(rejected) <= refusals

\* The client takes a refusal for one of the front of its pipeline.  As long as
\* no answer was lost that is the refused write: a write that failed on the
\* device is not in the cloud.
RefusedIsNotTaken ==
  lost + incidents = 0 =>
    \A p \in 1..Len(log) : log[p].who # OtherDevice => log[p].id \notin rejected

\* The cloud commits a write twice only after a call was given up with its
\* answer, by a break, another user or the end of the process.
TwiceOnlyAfterLoss ==
  lost + incidents = 0 =>
    \A p, r \in 1..Len(log) :
      p < r /\ log[p].who # OtherDevice => log[p].id # log[r].id

\* All of it behaves as GroceryStore does.
StoreSpec == Store!Spec

-----------------------------------------------------------------------------
(* Fairness.  The device serves its queues and its timer fires whatever the   *)
(* network does; a network that is not broken brings tokens, answers and      *)
(* snapshots.                                                                 *)

LocalFairness ==
  /\ WF_vars(GetAllGroceries)
  /\ WF_vars(WorkerStep)
  /\ WF_vars(OnlineTimeout)
  /\ WF_vars(Deliver)

NetworkFairness ==
  /\ WF_vars(WriteTokenArrives("current"))
  /\ WF_vars(WriteBackoffElapses)
  /\ WF_vars(HandshakeCompletes)
  /\ WF_vars(TakeWrite)
  /\ WF_vars(OperationFails)
  /\ WF_vars(ReadAnswer)
  /\ WF_vars(StreamFinishes)
  /\ WF_vars(WatchTokenArrives("current"))
  /\ WF_vars(WatchBackoffElapses)
  /\ WF_vars(\E v \in watched..Len(log) : WatchSnapshot(v))

FairSpec == Spec /\ LocalFairness

\* If the network works, every write is answered in the end and the list is
\* the collection in the cloud, back-off, handshakes and repeated sends
\* included.
StoreConverges == NetworkFairness => Store!Converges

\* The list is filled even if the network never answers: the app asks for it,
\* and with the time-out at the latest gets what the device holds, unless the
\* cloud is talking to it.
ListComesOffline ==
  <>[]( \/ listener \in {"live", "dead"} /\ mainQueue = <<>>
        \/ online.state = "online" )
=============================================================================
