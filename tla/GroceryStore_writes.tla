-------------------------- MODULE GroceryStore_writes --------------------------
(***************************************************************************)
(* What becomes of the writes of this device, and of the cache, for every  *)
(* value of the constants of GroceryStore.                                 *)
(***************************************************************************)
EXTENDS GroceryStore_proofs

-----------------------------------------------------------------------------
(* The cache. *)

\* Only an answer and a watch snapshot touch the cache, and each of them only
\* takes what is newer.
LEMMA CacheStep ==
  ASSUME TypeInv, [Next]_vars, NEW n \in Names
  PROVE  known'[n] >= known[n]
<1> USE DEF diskVars
<1>1. /\ known \in [Names -> watched..Len(log)] /\ watched \in 0..Len(log)
      /\ Len(log) \in Nat
      /\ known[n] \in Nat
  BY DEF TypeInv, TypeOK
<1>2. CASE Ack
  <2> DEFINE m == Head(pending[user]).name
  <2>1. known' = [known EXCEPT ![m] = Newer(@, Head(commits))]
    BY <1>2 DEF Ack
  <2>2. Head(commits) \in Nat
    BY <1>1, <1>2, AnswerHasWrite DEF Ack
  <2> QED
    BY <1>1, <2>1, <2>2 DEF Newer
<1>3. ASSUME NEW v \in watched..Len(log), WatchSnapshot(v)
      PROVE  known'[n] >= known[n]
  BY <1>1, <1>3 DEF WatchSnapshot, Newer
<1>4. CASE UNCHANGED known
  BY <1>1, <1>4
<1>5. CASE RunListen \/ RunWrite \/ RunSignIn \/ Commit \/ Deliver
  BY <1>4, <1>5 DEF RunListen, RunWrite, RunSignIn, Commit, Deliver
<1>6. CASE Reject \/ StreamBreaks \/ Offline \/ ListenFails \/ Restart
  BY <1>4, <1>6 DEF Reject, StreamBreaks, Offline, ListenFails, Restart
<1>7. CASE GetAllGroceries
  BY <1>4, <1>7 DEF GetAllGroceries, OnlyEnqueues
<1>8. ASSUME NEW m \in Names, NEW d \in Values,
             WriteGrocery(m, d) \/ WriteRow(m, d) \/ OtherDeviceWrites(m, d)
      PROVE  known'[n] >= known[n]
  BY <1>4, <1>8 DEF WriteGrocery, WriteRow, EnqueueWrite, OtherDeviceWrites, OnlyEnqueues
<1>9. ASSUME NEW u \in Users, SignIn(u)
      PROVE  known'[n] >= known[n]
  BY <1>4, <1>9 DEF SignIn
<1>10. CASE UNCHANGED vars
  BY <1>4, <1>10 DEF vars
<1> QED
  BY <1>2, <1>3, <1>5, <1>6, <1>7, <1>8, <1>9, <1>10 DEF Next, Sync

\* A document in the cache is never replaced by an older version, whichever of
\* the write stream and the watch stream is ahead.
THEOREM CacheNeverGoesBackAlways == Spec => CacheNeverGoesBack
<1>1. TypeInv /\ [Next]_vars => [\A n \in Names : known'[n] >= known[n]]_vars
  BY CacheStep
<1> QED
  BY TypeInvInit, TypeInvStep, <1>1, PTL DEF Spec, CacheNeverGoesBack

-----------------------------------------------------------------------------
(* What a step can do to the queues and to the cloud. *)

LEMMA StepKinds ==
  ASSUME [Next]_vars
  PROVE  \/ RunWrite \/ Commit \/ Ack \/ Reject
         \/ \E n \in Names, d \in Values : OtherDeviceWrites(n, d)
         \/ /\ UNCHANGED <<log, pending, rejected, issued>>
            /\ commits' = <<>> \/ UNCHANGED <<user, commits>>
<1> USE DEF diskVars
<1>1. CASE Sync
  BY <1>1 DEF Sync, RunListen, RunSignIn, WatchSnapshot
<1>2. CASE Deliver \/ Reject \/ StreamBreaks \/ Offline \/ ListenFails \/ Restart
  BY <1>2 DEF Deliver, StreamBreaks, Offline, ListenFails, Restart
<1>3. CASE GetAllGroceries \/ \E u \in Users : SignIn(u)
  BY <1>3 DEF GetAllGroceries, SignIn, OnlyEnqueues
<1>4. CASE \E n \in Names, d \in Values : WriteGrocery(n, d) \/ WriteRow(n, d)
  BY <1>4 DEF WriteGrocery, WriteRow, EnqueueWrite, OnlyEnqueues
<1>5. CASE UNCHANGED vars
  BY <1>5 DEF vars
<1> QED
  BY <1>1, <1>2, <1>3, <1>4, <1>5 DEF Next

\* The worker accepts a write under the next number.
LEMMA RunWriteQueue ==
  ASSUME TypeInv, RunWrite
  PROVE  /\ Len(pending[user]) \in Nat
         /\ Len(pending'[user]) = Len(pending[user]) + 1
         /\ \A k \in 1..Len(pending[user]) : pending'[user][k] = pending[user][k]
         /\ pending'[user][Len(pending[user]) + 1].id = issued + 1
         /\ \A u \in Users \ {user} : pending'[u] = pending[u]
         /\ issued' = issued + 1
         /\ UNCHANGED <<log, user, commits, rejected>>
<1> DEFINE m == [id |-> issued + 1, name |-> Head(worker).name, doc |-> Head(worker).doc]
           q == Append(pending[user], m)
<1>1. /\ pending' = [pending EXCEPT ![user] = q]
      /\ issued' = issued + 1
      /\ UNCHANGED <<log, user, commits, rejected>>
  BY DEF RunWrite
<1>2. Head(worker) \in Tasks /\ Head(worker).op = "write"
  BY TaskType DEF TypeInv, RunWrite
<1>3. m \in Writes
  BY <1>2 DEF Tasks, Writes, TypeInv, TypeOK
<1>4. pending[user] \in Seq(Writes) /\ user \in Users /\ pending \in [Users -> Seq(Writes)]
  BY DEF TypeInv, TypeOK
<1>5. m.id = issued + 1
  OBVIOUS
<1> HIDE DEF m
<1>6. /\ Len(q) = Len(pending[user]) + 1
      /\ \A k \in 1..Len(pending[user]) : q[k] = pending[user][k]
      /\ q[Len(pending[user]) + 1] = m
      /\ Len(pending[user]) \in Nat
  BY <1>3, <1>4, AppendProperties
<1>7. pending'[user] = q /\ \A u \in Users \ {user} : pending'[u] = pending[u]
  BY <1>1, <1>4
<1> QED
  BY <1>1, <1>5, <1>6, <1>7

\* A commit at the end leaves the history before it alone.
LEMMA LogStep ==
  ASSUME TypeInv, NEW c, log' = Append(log, c)
  PROVE  /\ Len(log) \in Nat
         /\ Len(log') = Len(log) + 1
         /\ \A v \in 1..Len(log) : log'[v] = log[v]
         /\ log'[Len(log) + 1] = c
<1>1. log \in Seq(Commits \cup {c})
  BY DEF TypeInv, TypeOK
<1> QED
  BY <1>1, AppendProperties

\* The head of the queue is answered: it leaves the queue, and either the
\* cloud has it, or it is refused.
LEMMA HeadIsAnswered ==
  ASSUME TypeInv, Ack \/ Reject
  PROVE  /\ pending[user] # <<>>
         /\ pending' = [pending EXCEPT ![user] = Tail(pending[user])]
         /\ UNCHANGED <<log, user, issued>>
         /\ Ack => /\ commits[1] \in 1..Len(log)
                   /\ log[commits[1]].who = user
                   /\ log[commits[1]].id = pending[user][1].id
                   /\ UNCHANGED rejected
         /\ Reject => /\ rejected' = rejected \cup {pending[user][1].id}
                      /\ commits = <<>> /\ UNCHANGED commits
<1>1. CASE Ack
  <2>1. /\ commits # <<>>
        /\ pending' = [pending EXCEPT ![user] = Tail(pending[user])]
        /\ UNCHANGED <<log, user, issued, rejected>>
    BY <1>1 DEF Ack
  <2>2. pending[user] # <<>> /\ 1 \in 1..Len(commits) /\ commits[1] \in 1..Len(log)
    BY <2>1, AnswerHasWrite
  <2>3. log[commits[1]].who = user /\ log[commits[1]].id = pending[user][1].id
    BY <2>2 DEF TypeInv, AnswersMatch
  <2>4. ~ Reject
    BY <2>1 DEF Reject
  <2> QED
    BY <2>1, <2>2, <2>3, <2>4
<1>2. CASE Reject
  <2>1. /\ commits = <<>> /\ UNCHANGED commits
        /\ pending[user] # <<>>
        /\ pending' = [pending EXCEPT ![user] = Tail(pending[user])]
        /\ UNCHANGED <<log, user, issued>>
        /\ rejected' = rejected \cup {Head(pending[user]).id}
    BY <1>2 DEF Reject
  <2>2. UNCHANGED issued
    BY <2>1
  <2>3. Head(pending[user]) = pending[user][1]
    BY <2>1, <2>2, AnsweredQueue
  <2>4. ~ Ack
    BY <2>1 DEF Ack
  <2> QED
    BY <2>1, <2>3, <2>4
<1> QED
  BY <1>1, <1>2

-----------------------------------------------------------------------------
(* No write is lost. *)

Queued(i) == \E u \in Users : \E k \in 1..Len(pending[u]) : pending[u][k].id = i

Committed(i) == \E v \in 1..Len(log) : log[v].who # OtherDevice /\ log[v].id = i

LEMMA NoWriteIsLostStep ==
  ASSUME TypeInv, NoWriteIsLost, [Next]_vars
  PROVE  NoWriteIsLost'
<1> SUFFICES ASSUME NEW i \in 1..issued'
             PROVE  Queued(i)' \/ Committed(i)' \/ i \in rejected'
  BY DEF NoWriteIsLost, Queued, Committed
<1>1. i \in 1..issued => Queued(i) \/ Committed(i) \/ i \in rejected
  BY DEF NoWriteIsLost, Queued, Committed
<1>2. user \in Users /\ issued \in Nat
  BY DEF TypeInv, TypeOK
<1>3. CASE RunWrite
  <2>1. /\ Len(pending[user]) \in Nat
        /\ Len(pending'[user]) = Len(pending[user]) + 1
        /\ \A k \in 1..Len(pending[user]) : pending'[user][k] = pending[user][k]
        /\ pending'[user][Len(pending[user]) + 1].id = issued + 1
        /\ \A u \in Users \ {user} : pending'[u] = pending[u]
        /\ issued' = issued + 1
        /\ UNCHANGED <<log, user, commits, rejected>>
    BY <1>3, RunWriteQueue
  <2>2. i = issued + 1 => Queued(i)'
    BY <2>1, <1>2 DEF Queued
  <2>3. Queued(i) => Queued(i)'
    <3> SUFFICES ASSUME NEW u \in Users, NEW k \in 1..Len(pending[u]), pending[u][k].id = i
                 PROVE  \E l \in 1..Len(pending'[u]) : pending'[u][l].id = i
      BY DEF Queued
    <3>1. k \in 1..Len(pending'[u]) /\ pending'[u][k] = pending[u][k]
      BY <2>1
    <3> QED
      BY <3>1
  <2>4. Committed(i) => Committed(i)'
    BY <2>1 DEF Committed
  <2>5. i \in 1..issued \/ i = issued + 1
    BY <2>1, <1>2
  <2> QED
    BY <2>1, <2>2, <2>3, <2>4, <2>5, <1>1
<1>4. CASE Ack \/ Reject
  <2>1. /\ pending[user] # <<>>
        /\ pending' = [pending EXCEPT ![user] = Tail(pending[user])]
        /\ UNCHANGED <<log, user, issued>>
        /\ Ack => /\ commits[1] \in 1..Len(log)
                  /\ log[commits[1]].who = user
                  /\ log[commits[1]].id = pending[user][1].id
                  /\ UNCHANGED rejected
        /\ Reject => /\ rejected' = rejected \cup {pending[user][1].id}
                     /\ commits = <<>> /\ UNCHANGED commits
    BY <1>4, HeadIsAnswered
  <2>2. UNCHANGED issued
    BY <2>1
  <2>3. /\ Len(pending[user]) \in Nat \ {0}
        /\ Len(pending'[user]) = Len(pending[user]) - 1
        /\ \A k \in 1..Len(pending'[user]) : pending'[user][k] = pending[user][k + 1]
        /\ \A u \in Users \ {user} : pending'[u] = pending[u]
    BY <2>1, <2>2, AnsweredQueue
  <2>4. Committed(i) => Committed(i)'
    BY <2>1 DEF Committed
  <2>5. CASE i = pending[user][1].id
    <3>1. Ack => Committed(i)
      BY <2>1, <2>5, <1>2, StoreAssumption DEF Committed
    <3> QED
      BY <3>1, <2>1, <2>4, <2>5, <1>4
  <2>6. CASE i # pending[user][1].id
    <3>1. ASSUME NEW u \in Users, NEW k \in 1..Len(pending[u]), pending[u][k].id = i
          PROVE  \E l \in 1..Len(pending'[u]) : pending'[u][l].id = i
      <4>1. CASE u # user
        BY <4>1, <3>1, <2>3
      <4>2. CASE u = user
        <5>1. k # 1
          BY <4>2, <3>1, <2>6
        <5>2. k - 1 \in 1..Len(pending'[user]) /\ pending'[user][k - 1] = pending[user][k]
          BY <5>1, <4>2, <2>3
        <5> QED
          BY <5>2, <4>2, <3>1
      <4> QED
        BY <4>1, <4>2
    <3>2. Queued(i) => Queued(i)'
      BY <3>1 DEF Queued
    <3> QED
      BY <3>2, <2>1, <2>4, <1>1, <1>4
  <2> QED
    BY <2>5, <2>6
<1>5. ASSUME NEW c, log' = Append(log, c), UNCHANGED <<pending, rejected, issued>>
      PROVE  Queued(i)' \/ Committed(i)' \/ i \in rejected'
  <2>1. /\ Len(log) \in Nat
        /\ Len(log') = Len(log) + 1
        /\ \A v \in 1..Len(log) : log'[v] = log[v]
    BY <1>5, LogStep
  <2>2. Committed(i) => Committed(i)'
    BY <2>1 DEF Committed
  <2>3. Queued(i) => Queued(i)'
    BY <1>5 DEF Queued
  <2> QED
    BY <2>2, <2>3, <1>1, <1>5
<1>6. CASE Commit
  BY <1>5, <1>6 DEF Commit, diskVars
<1>7. CASE \E n \in Names, d \in Values : OtherDeviceWrites(n, d)
  BY <1>5, <1>7 DEF OtherDeviceWrites, diskVars
<1>8. CASE UNCHANGED <<log, pending, rejected, issued>>
  BY <1>1, <1>8 DEF Queued, Committed
<1> QED
  BY <1>3, <1>4, <1>6, <1>7, <1>8, StepKinds

\* A write the worker accepted is never dropped, across restarts, broken
\* streams and changes of user: it is in a mutation queue, or the cloud took
\* it, or the cloud refused it.
THEOREM NoWriteIsLostEver == Spec => []NoWriteIsLost
<1>1. Init => NoWriteIsLost
  BY DEF Init, NoWriteIsLost
<1>2. TypeInv /\ NoWriteIsLost /\ [Next]_vars => NoWriteIsLost'
  BY NoWriteIsLostStep
<1> QED
  BY TypeInvInit, TypeInvStep, <1>1, <1>2, PTL DEF Spec

-----------------------------------------------------------------------------
(* Writes keep their order.  Four facts about the numbers of the writes make *)
(* the property inductive.                                                   *)

CommittedIssued ==
  \A p \in 1..Len(log) : log[p].who # OtherDevice => log[p].id \in 1..issued

\* Every mutation queue is in the order in which the writes were accepted.
Ascending ==
  \A u \in Users : \A k \in 1..Len(pending[u]) : \A j \in 1..(k-1) :
    pending[u][j].id < pending[u][k].id

\* A committed write that is newer than a pending one is itself still pending.
NoneSkipped ==
  \A p \in 1..Len(log) : \A u \in Users : \A k \in 1..Len(pending[u]) :
    log[p].who = u /\ log[p].id > pending[u][k].id =>
      \E l \in 1..Len(pending[u]) : pending[u][l].id = log[p].id

\* Since a write whose answer is on the way, the cloud only took newer ones of
\* the signed-in user.
AnsweredInOrder ==
  \A k \in 1..Len(commits) : \A r \in (commits[k]+1)..Len(log) :
    log[r].who = user => log[r].id > pending[user][k].id

OrderInv ==
  CommittedIssued /\ Ascending /\ NoneSkipped /\ AnsweredInOrder /\ WritesKeepTheirOrder

\* How a pair of commits in the wrong order is made up for.
MadeUpFor(u, id, r) ==
  \/ \E k \in 1..Len(pending[u]) : pending[u][k].id = id
  \/ \E s \in (r+1)..Len(log) : log[s].who = u /\ log[s].id = id
  \/ id \in rejected

LEMMA WritesKeepTheirOrderMeans ==
  WritesKeepTheirOrder <=>
    \A p, r \in 1..Len(log) :
      p < r /\ log[p].who = log[r].who /\ log[p].who # OtherDevice
        /\ log[p].id > log[r].id => MadeUpFor(log[p].who, log[p].id, r)
BY DEF WritesKeepTheirOrder, MadeUpFor

LEMMA OrderTypes ==
  ASSUME TypeInv
  PROVE  /\ Len(log) \in Nat /\ issued \in Nat /\ user \in Users
         /\ \A p \in 1..Len(log) : log[p].id \in Nat /\ log[p].who \in Users \cup {OtherDevice}
         /\ \A u \in Users : Len(pending[u]) \in Nat
         /\ \A u \in Users : \A k \in 1..Len(pending[u]) : pending[u][k].id \in Nat
         /\ Len(commits) \in Nat
         /\ \A k \in 1..Len(commits) : commits[k] \in 1..Len(log)
         /\ \A k \in 1..Len(commits) : k \in 1..Len(pending[user])
<1>1. /\ log \in Seq(Commits) /\ issued \in Nat /\ user \in Users
      /\ pending \in [Users -> Seq(Writes)]
      /\ commits \in Seq(1..Len(log))
  BY DEF TypeInv, TypeOK
<1>2. \A p \in 1..Len(log) : log[p].id \in Nat /\ log[p].who \in Users \cup {OtherDevice}
  <2> SUFFICES ASSUME NEW p \in 1..Len(log)
               PROVE  log[p].id \in Nat /\ log[p].who \in Users \cup {OtherDevice}
    OBVIOUS
  <2>1. log[p] \in Commits
    BY <1>1
  <2> QED
    BY <2>1 DEF Commits
<1>3. ASSUME NEW u \in Users, NEW k \in 1..Len(pending[u])
      PROVE  pending[u][k].id \in Nat
  <2>1. pending[u][k] \in Writes
    BY <1>1
  <2> QED
    BY <2>1 DEF Writes
<1>4. \A k \in 1..Len(commits) : commits[k] \in 1..Len(log)
  BY <1>1
<1>5. \A k \in 1..Len(commits) : k <= Len(pending[user])
  BY DEF TypeInv, AnswersMatch
<1>6. /\ \A u \in Users : Len(pending[u]) \in Nat
      /\ Len(commits) \in Nat /\ Len(log) \in Nat
  BY <1>1
<1> QED
  BY <1>1, <1>2, <1>3, <1>4, <1>5, <1>6

\* What a pair of commits needs stays true, if it does for a pair that is made
\* up for by a pending write.
LEMMA PairsStay ==
  ASSUME TypeInv, WritesKeepTheirOrder,
         Len(log') \in Nat, Len(log) <= Len(log'),
         \A v \in 1..Len(log) : log'[v] = log[v],
         rejected \subseteq rejected',
         NEW p \in 1..Len(log), NEW r \in 1..Len(log), NEW u \in Users, NEW id \in Nat,
         p < r, log[p].who = u, log[r].who = u, log[p].id = id, id > log[r].id,
         (\E k \in 1..Len(pending[u]) : pending[u][k].id = id) => MadeUpFor(u, id, r)'
  PROVE  MadeUpFor(u, id, r)'
<1>1. Len(log) \in Nat
  BY OrderTypes
<1>2. MadeUpFor(u, id, r)
  BY WritesKeepTheirOrderMeans, StoreAssumption
<1>3. CASE \E s \in (r+1)..Len(log) : log[s].who = u /\ log[s].id = id
  <2>1. PICK s \in (r+1)..Len(log) : log[s].who = u /\ log[s].id = id
    BY <1>3
  <2>2. s \in (r+1)..Len(log') /\ log'[s] = log[s]
    BY <2>1, <1>1
  <2> QED
    BY <2>1, <2>2 DEF MadeUpFor
<1>4. CASE id \in rejected
  BY <1>4 DEF MadeUpFor
<1> QED
  BY <1>2, <1>3, <1>4 DEF MadeUpFor

\* The property after a step, from its old pairs and those of a new commit.
LEMMA OrderAfter ==
  ASSUME \A p, r \in 1..Len(log') : \A u \in Users : \A id \in Nat :
           p < r /\ log'[p].who = u /\ log'[r].who = u /\ log'[p].id = id
             /\ id > log'[r].id => MadeUpFor(u, id, r)',
         TypeInv'
  PROVE  WritesKeepTheirOrder'
<1> SUFFICES ASSUME NEW p \in 1..Len(log'), NEW r \in 1..Len(log'),
                    p < r, log'[p].who = log'[r].who, log'[p].who # OtherDevice,
                    log'[p].id > log'[r].id
             PROVE  \/ \E k \in 1..Len(pending'[log'[p].who]) :
                          pending'[log'[p].who][k].id = log'[p].id
                    \/ \E s \in (r+1)..Len(log') :
                          log'[s].who = log'[p].who /\ log'[s].id = log'[p].id
                    \/ log'[p].id \in rejected'
  BY DEF WritesKeepTheirOrder
<1>1. log' \in Seq(Commits)
  BY DEF TypeInv, TypeOK, Commits, Writes
<1>2. log'[p] \in Commits
  BY <1>1
<1>3. log'[p].who \in Users /\ log'[p].id \in Nat
  BY <1>2 DEF Commits
<1> QED
  BY <1>3 DEF MadeUpFor

LEMMA RunWriteKeepsOrder ==
  ASSUME TypeInv, OrderInv, RunWrite
  PROVE  OrderInv'
<1>1. /\ Len(pending[user]) \in Nat
      /\ Len(pending'[user]) = Len(pending[user]) + 1
      /\ \A k \in 1..Len(pending[user]) : pending'[user][k] = pending[user][k]
      /\ pending'[user][Len(pending[user]) + 1].id = issued + 1
      /\ \A u \in Users \ {user} : pending'[u] = pending[u]
      /\ issued' = issued + 1
      /\ UNCHANGED <<log, user, commits, rejected>>
  BY RunWriteQueue
<1>2. /\ Len(log) \in Nat /\ issued \in Nat /\ user \in Users
      /\ \A p \in 1..Len(log) : log[p].id \in Nat /\ log[p].who \in Users \cup {OtherDevice}
      /\ \A u \in Users : Len(pending[u]) \in Nat
      /\ \A u \in Users : \A k \in 1..Len(pending[u]) : pending[u][k].id \in Nat
      /\ \A k \in 1..Len(commits) : k \in 1..Len(pending[user])
  BY OrderTypes
<1>3. CommittedIssued'
  BY <1>1, <1>2 DEF OrderInv, CommittedIssued
<1>4. \A u \in Users : \A k \in 1..Len(pending[u]) :
        k \in 1..Len(pending'[u]) /\ pending'[u][k] = pending[u][k]
  BY <1>1, <1>2
<1>5. \A u \in Users : \A k \in 1..Len(pending'[u]) :
        k \in 1..Len(pending[u]) \/ (u = user /\ k = Len(pending[u]) + 1)
  BY <1>1, <1>2
<1>6. Ascending'
  <2> SUFFICES ASSUME NEW u \in Users, NEW k \in 1..Len(pending'[u]), NEW j \in 1..(k-1)
               PROVE  pending'[u][j].id < pending'[u][k].id
    BY DEF Ascending
  <2>1. CASE k \in 1..Len(pending[u])
    <3>1. j \in 1..Len(pending[u])
      BY <2>1, <1>2
    <3> QED
      BY <2>1, <3>1, <1>4 DEF OrderInv, Ascending
  <2>2. CASE u = user /\ k = Len(pending[u]) + 1
    <3>1. j \in 1..Len(pending[u])
      BY <2>2, <1>2
    <3>2. pending[u][j].id \in 1..issued
      BY <3>1 DEF TypeInv, IdsIssued
    <3> QED
      BY <2>2, <3>1, <3>2, <1>1, <1>2, <1>4
  <2> QED
    BY <2>1, <2>2, <1>5
<1>7. NoneSkipped'
  <2> SUFFICES ASSUME NEW p \in 1..Len(log), NEW u \in Users, NEW k \in 1..Len(pending'[u]),
                      log[p].who = u, log[p].id > pending'[u][k].id
               PROVE  \E l \in 1..Len(pending'[u]) : pending'[u][l].id = log[p].id
    BY <1>1 DEF NoneSkipped
  <2>1. CASE k \in 1..Len(pending[u])
    <3>1. PICK l \in 1..Len(pending[u]) : pending[u][l].id = log[p].id
      BY <2>1, <1>4 DEF OrderInv, NoneSkipped
    <3> QED
      BY <3>1, <1>4
  <2>2. CASE u = user /\ k = Len(pending[u]) + 1
    <3>1. log[p].id \in 1..issued
      BY <2>2, <1>2, StoreAssumption DEF OrderInv, CommittedIssued
    <3>2. pending'[u][k].id = issued + 1
      BY <2>2, <1>1
    <3>3. FALSE
      BY <3>1, <3>2, <1>2
    <3> QED
      BY <3>3
  <2> QED
    BY <2>1, <2>2, <1>5
<1>8. AnsweredInOrder'
  <2> SUFFICES ASSUME NEW k \in 1..Len(commits), NEW r \in (commits[k]+1)..Len(log),
                      log[r].who = user
               PROVE  log[r].id > pending'[user][k].id
    BY <1>1 DEF AnsweredInOrder
  <2>1. pending'[user][k] = pending[user][k]
    BY <1>1, <1>2
  <2> QED
    BY <2>1 DEF OrderInv, AnsweredInOrder
<1>9. WritesKeepTheirOrder'
  <2> SUFFICES ASSUME NEW p \in 1..Len(log'), NEW r \in 1..Len(log'),
                      NEW u \in Users, NEW id \in Nat,
                      p < r, log'[p].who = u, log'[r].who = u, log'[p].id = id,
                      id > log'[r].id
               PROVE  MadeUpFor(u, id, r)'
    BY OrderAfter, RunWriteKeepsTypeInv
  <2>1. ASSUME NEW k \in 1..Len(pending[u]), pending[u][k].id = id
        PROVE  MadeUpFor(u, id, r)'
    BY <2>1, <1>4 DEF MadeUpFor
  <2> QED
    BY <2>1, <1>1, <1>2, PairsStay DEF OrderInv
<1> QED
  BY <1>3, <1>6, <1>7, <1>8, <1>9 DEF OrderInv

\* The write that is committed next is the oldest one not yet sent, so every
\* newer write of the user that the cloud already has will be sent again.
LEMMA CommitKeepsOrder ==
  ASSUME TypeInv, OrderInv, Commit
  PROVE  OrderInv'
<1> DEFINE K == Len(commits) + 1
           L == Len(log) + 1
<1>1. /\ pending[user][K].id \in 1..issued
      /\ K \in 1..Len(pending[user])
      /\ Len(log') = L
      /\ \A v \in 1..Len(log) : log'[v] = log[v]
      /\ log'[L].who = user /\ log'[L].id = pending[user][K].id
      /\ UNCHANGED <<pending, rejected, issued, user>>
      /\ Len(commits') = K
      /\ \A k \in 1..Len(commits) : commits'[k] = commits[k]
      /\ commits'[K] = L
  <2> DEFINE m == pending[user][K]
             c == [who |-> user, id |-> m.id, name |-> m.name,
                   docs |-> [Cloud EXCEPT ![m.name] = m.doc]]
  <2>1. /\ K \in 1..Len(pending[user])
        /\ log' = Append(log, c)
    BY CommitIsOfQueue
  <2>2. /\ commits' = Append(commits, Len(log) + 1)
        /\ UNCHANGED <<pending, rejected, issued, user>>
    BY DEF Commit, diskVars
  <2>3. m.id \in 1..issued
    BY <2>1 DEF TypeInv, TypeOK, IdsIssued
  <2>4. c.who = user /\ c.id = m.id
    OBVIOUS
  <2> HIDE DEF c
  <2>5. /\ Len(log') = Len(log) + 1
        /\ \A v \in 1..Len(log) : log'[v] = log[v]
        /\ log'[Len(log) + 1] = c
    BY <2>1, LogStep
  <2>6. commits \in Seq(Nat) /\ Len(log) + 1 \in Nat
    BY DEF TypeInv, TypeOK
  <2>7. /\ Len(commits') = Len(commits) + 1
        /\ \A k \in 1..Len(commits) : commits'[k] = commits[k]
        /\ commits'[Len(commits) + 1] = Len(log) + 1
    BY <2>2, <2>6, AppendProperties
  <2> QED
    BY <2>1, <2>2, <2>3, <2>4, <2>5, <2>7
<1>2. /\ Len(log) \in Nat /\ issued \in Nat /\ user \in Users
      /\ \A v \in 1..Len(log) : log[v].id \in Nat
      /\ \A u \in Users : \A k \in 1..Len(pending[u]) : pending[u][k].id \in Nat
      /\ Len(commits) \in Nat
      /\ \A k \in 1..Len(commits) : commits[k] \in 1..Len(log)
      /\ \A k \in 1..Len(commits) : k \in 1..Len(pending[user])
  BY OrderTypes
<1> HIDE DEF K, L
<1>3. L = Len(log) + 1 /\ K = Len(commits) + 1
  BY DEF K, L
<1>4. CommittedIssued'
  <2> SUFFICES ASSUME NEW v \in 1..L, log'[v].who # OtherDevice
               PROVE  log'[v].id \in 1..issued
    BY <1>1 DEF CommittedIssued
  <2>1. CASE v = L
    BY <2>1, <1>1
  <2>2. CASE v \in 1..Len(log)
    BY <2>2, <1>1 DEF OrderInv, CommittedIssued
  <2> QED
    BY <2>1, <2>2, <1>2, <1>3
<1>5. Ascending'
  BY <1>1 DEF OrderInv, Ascending
<1>6. NoneSkipped'
  <2> SUFFICES ASSUME NEW v \in 1..L, NEW u \in Users, NEW k \in 1..Len(pending[u]),
                      log'[v].who = u, log'[v].id > pending[u][k].id
               PROVE  \E l \in 1..Len(pending[u]) : pending[u][l].id = log'[v].id
    BY <1>1 DEF NoneSkipped
  <2>1. CASE v = L
    BY <2>1, <1>1
  <2>2. CASE v \in 1..Len(log)
    <3>1. log[v] = log'[v]
      BY <2>2, <1>1
    <3> QED
      BY <2>2, <3>1 DEF OrderInv, NoneSkipped
  <2> QED
    BY <2>1, <2>2, <1>2, <1>3
<1>7. AnsweredInOrder'
  <2> SUFFICES ASSUME NEW k \in 1..K, NEW v \in (commits'[k]+1)..L, log'[v].who = user
               PROVE  log'[v].id > pending[user][k].id
    BY <1>1 DEF AnsweredInOrder
  <2>1. k \in 1..Len(commits)
    BY <1>1, <1>2, <1>3
  <2>2. CASE v = L
    <3>1. k \in 1..(K-1)
      BY <2>1, <1>2, <1>3
    <3>2. pending[user][k].id < pending[user][K].id
      BY <3>1, <1>1, <1>2 DEF OrderInv, Ascending
    <3> QED
      BY <2>1, <2>2, <3>2, <1>1, <1>2
  <2>3. CASE v # L
    <3>1. v \in (commits[k]+1)..Len(log) /\ v \in 1..Len(log)
      BY <2>1, <2>3, <1>1, <1>2, <1>3
    <3> QED
      BY <2>1, <3>1, <1>1 DEF OrderInv, AnsweredInOrder
  <2> QED
    BY <2>2, <2>3
<1>8. WritesKeepTheirOrder'
  <2> SUFFICES ASSUME NEW p \in 1..Len(log'), NEW r \in 1..Len(log'),
                      NEW u \in Users, NEW id \in Nat,
                      p < r, log'[p].who = u, log'[r].who = u, log'[p].id = id,
                      id > log'[r].id
               PROVE  MadeUpFor(u, id, r)'
    BY OrderAfter, CommitKeepsTypeInv
  <2>1. (\E k \in 1..Len(pending[u]) : pending[u][k].id = id) => MadeUpFor(u, id, r)'
    BY <1>1 DEF MadeUpFor
  <2>2. p \in 1..Len(log) /\ (r \in 1..Len(log) \/ r = L)
    BY <1>1, <1>2, <1>3
  <2>3. CASE r = L
    <3>1. u = user /\ log[p].who = user /\ log[p].id = id /\ id > pending[user][K].id
      BY <2>2, <2>3, <1>1
    <3>2. \E l \in 1..Len(pending[user]) : pending[user][l].id = log[p].id
      BY <2>2, <3>1, <1>1, <1>2 DEF OrderInv, NoneSkipped
    <3> QED
      BY <2>1, <3>1, <3>2
  <2>4. CASE r \in 1..Len(log)
    <3>1. log[p].who = u /\ log[r].who = u /\ log[p].id = id /\ id > log[r].id
      BY <2>2, <2>4, <1>1
    <3>2. Len(log') \in Nat /\ Len(log) <= Len(log') /\ rejected \subseteq rejected'
      BY <1>1, <1>2, <1>3
    <3> QED
      BY <2>1, <2>2, <2>4, <3>1, <3>2, <1>1, PairsStay DEF OrderInv
  <2> QED
    BY <2>2, <2>3, <2>4
<1> QED
  BY <1>4, <1>5, <1>6, <1>7, <1>8 DEF OrderInv

\* The head of the queue is the oldest pending write.  When the cloud has it,
\* it came after every newer write the cloud then had: they follow again.
LEMMA AnswerKeepsOrder ==
  ASSUME TypeInv, OrderInv, Ack \/ Reject
  PROVE  OrderInv'
<1>1. /\ pending[user] # <<>>
      /\ pending' = [pending EXCEPT ![user] = Tail(pending[user])]
      /\ UNCHANGED <<log, user, issued>>
      /\ Ack => /\ commits[1] \in 1..Len(log)
                /\ log[commits[1]].who = user
                /\ log[commits[1]].id = pending[user][1].id
                /\ UNCHANGED rejected
      /\ Reject => /\ rejected' = rejected \cup {pending[user][1].id}
                   /\ commits = <<>> /\ UNCHANGED commits
  BY HeadIsAnswered
<1>2. UNCHANGED issued
  BY <1>1
<1>3. /\ Len(pending[user]) \in Nat \ {0}
      /\ Len(pending'[user]) = Len(pending[user]) - 1
      /\ \A k \in 1..Len(pending'[user]) :
           k + 1 \in 1..Len(pending[user]) /\ pending'[user][k] = pending[user][k + 1]
      /\ \A u \in Users \ {user} : pending'[u] = pending[u]
  BY <1>1, <1>2, AnsweredQueue
<1>4. /\ Len(log) \in Nat /\ user \in Users
      /\ \A v \in 1..Len(log) : log[v].id \in Nat
      /\ \A u \in Users : \A k \in 1..Len(pending[u]) : pending[u][k].id \in Nat
      /\ \A k \in 1..Len(commits) : commits[k] \in 1..Len(log)
  BY OrderTypes
<1>5. CommittedIssued'
  BY <1>1 DEF OrderInv, CommittedIssued
<1>6. Ascending'
  <2> SUFFICES ASSUME NEW u \in Users, NEW k \in 1..Len(pending'[u]), NEW j \in 1..(k-1)
               PROVE  pending'[u][j].id < pending'[u][k].id
    BY DEF Ascending
  <2>1. CASE u # user
    BY <2>1, <1>3 DEF OrderInv, Ascending
  <2>2. CASE u = user
    <3>1. j \in 1..Len(pending'[user]) /\ j + 1 \in 1..((k + 1) - 1)
      BY <2>2, <1>3
    <3>2. pending[user][j + 1].id < pending[user][k + 1].id
      BY <2>2, <3>1, <1>3, <1>4 DEF OrderInv, Ascending
    <3> QED
      BY <2>2, <3>1, <3>2, <1>3
  <2> QED
    BY <2>1, <2>2
<1>7. NoneSkipped'
  <2>0. log' = log
    BY <1>1
  <2> SUFFICES ASSUME NEW v \in 1..Len(log), NEW u \in Users, NEW k \in 1..Len(pending'[u]),
                      log[v].who = u, log[v].id > pending'[u][k].id
               PROVE  \E l \in 1..Len(pending'[u]) : pending'[u][l].id = log[v].id
    BY <2>0 DEF NoneSkipped
  <2>1. CASE u # user
    BY <2>1, <1>3 DEF OrderInv, NoneSkipped
  <2>2. CASE u = user
    <3>1. k + 1 \in 1..Len(pending[user]) /\ log[v].id > pending[user][k + 1].id
      BY <2>2, <1>3
    <3>2. PICK l \in 1..Len(pending[user]) : pending[user][l].id = log[v].id
      BY <2>2, <3>1 DEF OrderInv, NoneSkipped
    <3>3. 1 \in 1..((k + 1) - 1) /\ 1 \in 1..Len(pending[user])
      BY <2>2, <1>3
    <3>4. pending[user][1].id < pending[user][k + 1].id
      BY <3>1, <3>3, <1>4 DEF OrderInv, Ascending
    <3>5. l # 1
      BY <3>1, <3>2, <3>3, <3>4, <1>4
    <3>6. l - 1 \in 1..Len(pending'[user]) /\ pending'[user][l - 1] = pending[user][l]
      BY <3>5, <1>3
    <3> QED
      BY <2>2, <3>2, <3>6
  <2> QED
    BY <2>1, <2>2
<1>8. AnsweredInOrder'
  <2>1. CASE Reject
    <3>1. Len(commits') = 0
      BY <2>1, <1>1
    <3> QED
      BY <3>1 DEF AnsweredInOrder
  <2>2. CASE Ack
    <3>1. commits # <<>> /\ commits' = Tail(commits)
      BY <2>2 DEF Ack
    <3>2. \A k \in 1..Len(commits') :
            k + 1 \in 1..Len(commits) /\ commits'[k] = commits[k + 1]
      BY <3>1, AnswerHasWrite
    <3> SUFFICES ASSUME NEW k \in 1..Len(commits'), NEW r \in (commits'[k]+1)..Len(log),
                        log[r].who = user
                 PROVE  log[r].id > pending'[user][k].id
      BY <1>1 DEF AnsweredInOrder
    <3>3. k \in 1..Len(pending'[user])
      <4>1. k + 1 \in 1..Len(pending[user])
        BY <3>2, OrderTypes
      <4> QED
        BY <4>1, <1>3
    <3>4. log[r].id > pending[user][k + 1].id
      BY <3>2 DEF OrderInv, AnsweredInOrder
    <3> QED
      BY <3>3, <3>4, <1>3
  <2> QED
    BY <2>1, <2>2
<1>9. WritesKeepTheirOrder'
  <2> SUFFICES ASSUME NEW p \in 1..Len(log), NEW r \in 1..Len(log),
                      NEW u \in Users, NEW id \in Nat,
                      p < r, log[p].who = u, log[r].who = u, log[p].id = id, id > log[r].id
               PROVE  MadeUpFor(u, id, r)'
    BY <1>1, OrderAfter, AckKeepsTypeInv, RejectKeepsTypeInv
  <2>1. ASSUME NEW k \in 1..Len(pending[u]), pending[u][k].id = id
        PROVE  MadeUpFor(u, id, r)'
    <3>1. CASE u # user
      BY <2>1, <3>1, <1>3 DEF MadeUpFor
    <3>2. CASE u = user /\ k # 1
      <4>1. k - 1 \in 1..Len(pending'[user]) /\ pending'[user][k - 1] = pending[user][k]
        BY <3>2, <1>3
      <4> QED
        BY <2>1, <3>2, <4>1 DEF MadeUpFor
    <3>3. CASE u = user /\ k = 1 /\ Reject
      BY <2>1, <3>3, <1>1 DEF MadeUpFor
    <3>4. CASE u = user /\ k = 1 /\ Ack
      <4>1. 1 \in 1..Len(commits)
        BY <3>4, AnswerHasWrite DEF Ack
      <4>2. r \in (commits[1] + 1)..Len(log) => log[r].id > pending[user][1].id
        BY <3>4, <4>1 DEF OrderInv, AnsweredInOrder
      <4>3. r # commits[1]
        BY <2>1, <3>4, <1>1, <1>4
      <4>4. commits[1] \in (r + 1)..Len(log)
        BY <2>1, <3>4, <4>2, <4>3, <1>1, <1>4
      <4> QED
        BY <2>1, <3>4, <4>4, <1>1 DEF MadeUpFor
    <3> QED
      BY <3>1, <3>2, <3>3, <3>4
  <2>2. Len(log') \in Nat /\ Len(log) <= Len(log') /\ rejected \subseteq rejected'
    BY <1>1, <1>4
  <2> QED
    BY <2>1, <2>2, <1>1, PairsStay DEF OrderInv
<1> QED
  BY <1>5, <1>6, <1>7, <1>8, <1>9 DEF OrderInv

LEMMA OtherDeviceKeepsOrder ==
  ASSUME TypeInv, OrderInv, NEW n \in Names, NEW d \in Values, OtherDeviceWrites(n, d)
  PROVE  OrderInv'
<1> DEFINE L == Len(log) + 1
           c == [who |-> OtherDevice, id |-> 0, name |-> n,
                 docs |-> [Cloud EXCEPT ![n] = d]]
<1>1. /\ log' = Append(log, c)
      /\ UNCHANGED <<pending, rejected, issued, user, commits>>
  BY DEF OtherDeviceWrites, diskVars
<1>2. c.who = OtherDevice
  OBVIOUS
<1> HIDE DEF c, L
<1>3. /\ Len(log) \in Nat /\ Len(log') = L /\ L = Len(log) + 1
      /\ \A v \in 1..Len(log) : log'[v] = log[v]
      /\ log'[L].who = OtherDevice
  BY <1>1, <1>2, LogStep DEF L
<1>4. \A v \in 1..Len(log') : log'[v].who # OtherDevice => v \in 1..Len(log)
  BY <1>3
<1>5. /\ user \in Users /\ OtherDevice \notin Users
      /\ \A k \in 1..Len(commits) : commits[k] \in 1..Len(log)
  BY OrderTypes, StoreAssumption
<1>6. CommittedIssued'
  BY <1>1, <1>3, <1>4 DEF OrderInv, CommittedIssued
<1>7. Ascending'
  BY <1>1 DEF OrderInv, Ascending
<1>8. NoneSkipped'
  <2> SUFFICES ASSUME NEW v \in 1..Len(log'), NEW u \in Users, NEW k \in 1..Len(pending[u]),
                      log'[v].who = u, log'[v].id > pending[u][k].id
               PROVE  \E l \in 1..Len(pending[u]) : pending[u][l].id = log'[v].id
    BY <1>1 DEF NoneSkipped
  <2>1. log'[v].who # OtherDevice
    BY <1>5
  <2>2. v \in 1..Len(log)
    BY <1>4, <2>1
  <2>3. log[v] = log'[v]
    BY <1>3, <2>2
  <2> QED
    BY <2>2, <2>3 DEF OrderInv, NoneSkipped
<1>9. AnsweredInOrder'
  <2> SUFFICES ASSUME NEW k \in 1..Len(commits), NEW v \in (commits[k]+1)..Len(log'),
                      log'[v].who = user
               PROVE  log'[v].id > pending[user][k].id
    BY <1>1 DEF AnsweredInOrder
  <2>1. v # L
    BY <1>3, <1>5
  <2>2. v \in (commits[k]+1)..Len(log) /\ v \in 1..Len(log)
    BY <2>1, <1>3, <1>5
  <2> QED
    BY <2>2, <1>3 DEF OrderInv, AnsweredInOrder
<1>10. WritesKeepTheirOrder'
  <2> SUFFICES ASSUME NEW p \in 1..Len(log'), NEW r \in 1..Len(log'),
                      NEW u \in Users, NEW id \in Nat,
                      p < r, log'[p].who = u, log'[r].who = u, log'[p].id = id,
                      id > log'[r].id
               PROVE  MadeUpFor(u, id, r)'
    BY OrderAfter, OtherDeviceKeepsTypeInv
  <2>1. (\E k \in 1..Len(pending[u]) : pending[u][k].id = id) => MadeUpFor(u, id, r)'
    BY <1>1 DEF MadeUpFor
  <2>2. p \in 1..Len(log) /\ r \in 1..Len(log)
    BY <1>4, <1>5
  <2>3. log[p].who = u /\ log[r].who = u /\ log[p].id = id /\ id > log[r].id
    BY <2>2, <1>3
  <2>4. Len(log') \in Nat /\ Len(log) <= Len(log') /\ rejected \subseteq rejected'
    BY <1>1, <1>3
  <2> QED
    BY <2>1, <2>2, <2>3, <2>4, <1>3, PairsStay DEF OrderInv
<1> QED
  BY <1>6, <1>7, <1>8, <1>9, <1>10 DEF OrderInv

\* A broken stream, a sign-in or a restart forgets the answers on the way; no
\* other step touches what the order depends on.
LEMMA QuietStepsKeepOrder ==
  ASSUME OrderInv, UNCHANGED <<log, pending, rejected, issued>>,
         commits' = <<>> \/ UNCHANGED <<user, commits>>
  PROVE  OrderInv'
<1>1. CommittedIssued' /\ Ascending' /\ NoneSkipped' /\ WritesKeepTheirOrder'
  BY DEF OrderInv, CommittedIssued, Ascending, NoneSkipped, WritesKeepTheirOrder
<1>2. CASE commits' = <<>>
  <2>1. Len(commits') = 0
    BY <1>2
  <2>2. AnsweredInOrder'
    BY <2>1 DEF AnsweredInOrder
  <2> QED
    BY <1>1, <2>2 DEF OrderInv
<1>3. CASE UNCHANGED <<user, commits>>
  BY <1>1, <1>3 DEF OrderInv, AnsweredInOrder
<1> QED
  BY <1>2, <1>3

LEMMA OrderInvInit == Init => OrderInv
BY DEF Init, OrderInv, CommittedIssued, Ascending, NoneSkipped, AnsweredInOrder,
       WritesKeepTheirOrder

LEMMA OrderInvStep == TypeInv /\ OrderInv /\ [Next]_vars => OrderInv'
BY StepKinds, RunWriteKeepsOrder, CommitKeepsOrder, AnswerKeepsOrder,
   OtherDeviceKeepsOrder, QuietStepsKeepOrder

\* The cloud applies the writes of a user in the order the app made them.  A
\* repeated send after a broken stream may put an older write after a newer
\* one, but then the newer one follows again, or is still queued to follow, or
\* was refused the second time.
THEOREM WritesKeepTheirOrderAlways == Spec => []WritesKeepTheirOrder
<1>1. OrderInv => WritesKeepTheirOrder
  BY DEF OrderInv
<1> QED
  BY TypeInvInit, TypeInvStep, OrderInvInit, OrderInvStep, <1>1, PTL DEF Spec

-----------------------------------------------------------------------------
(* Until an answer is lost, somebody signs in or the process ends, the cloud *)
(* takes or refuses every write once, in the order of the queue.             *)

NobodySignsIn == \A k \in 1..Len(worker) : worker[k].op # "signIn"

TakenAscending ==
  \A p \in 1..Len(log) : \A r \in (p+1)..Len(log) :
    log[p].who # OtherDevice /\ log[r].who # OtherDevice => log[p].id < log[r].id

\* What is pending beyond the answers on the way is newer than all the cloud
\* has.
TakenBeforeUnsent ==
  \A p \in 1..Len(log) : \A k \in (Len(commits)+1)..Len(pending[user]) :
    log[p].who # OtherDevice => log[p].id < pending[user][k].id

RefusedBeforePending ==
  \A i \in rejected : \A k \in 1..Len(pending[user]) : i < pending[user][k].id

TakenNotRefused ==
  \A p \in 1..Len(log) : log[p].who # OtherDevice => log[p].id \notin rejected

\* What other devices write has no number here.
OthersUnnumbered == \A p \in 1..Len(log) : log[p].who = OtherDevice => log[p].id = 0

OnceInv ==
  incidents = 0 => /\ NobodySignsIn
                   /\ TakenAscending /\ TakenBeforeUnsent
                   /\ RefusedBeforePending /\ TakenNotRefused /\ OthersUnnumbered

\* A step that is no incident leaves the queues to one of five actions, and
\* asks the worker for no change of user.
LEMMA CalmSteps ==
  ASSUME TypeInv, OnceInv, [Next]_vars, incidents' = 0
  PROVE  /\ incidents = 0
         /\ \/ UNCHANGED worker
            \/ worker # <<>> /\ worker' = Tail(worker)
            \/ \E t \in Tasks : t.op # "signIn" /\ worker' = Append(worker, t)
         /\ \/ RunWrite \/ Commit \/ Ack \/ Reject
            \/ \E n \in Names, d \in Values : OtherDeviceWrites(n, d)
            \/ UNCHANGED <<log, pending, rejected, user, commits>>
<1> USE DEF diskVars
<1>0. incidents \in Nat /\ worker \in Seq(Tasks)
  BY DEF TypeInv, TypeOK
<1>1. CASE Sync
  <2>1. incidents = 0
    BY <1>1 DEF Sync, RunListen, RunWrite, RunSignIn, Commit, Ack, WatchSnapshot
  <2>2. ~RunSignIn
    <3> SUFFICES ASSUME RunSignIn
                 PROVE  FALSE
      OBVIOUS
    <3>1. worker # <<>> /\ Head(worker).op = "signIn"
      BY DEF RunSignIn, NextTask
    <3>2. 1 \in 1..Len(worker) /\ Head(worker) = worker[1]
      BY <1>0, <3>1, EmptySeq, LenProperties, HeadTailProperties
    <3> QED
      BY <2>1, <3>1, <3>2 DEF OnceInv, NobodySignsIn
  <2> QED
    BY <1>1, <2>1, <2>2 DEF Sync, RunListen, RunWrite, Commit, Ack, WatchSnapshot, NextTask
<1>2. CASE Deliver \/ Reject \/ Offline \/ ListenFails
  BY <1>2 DEF Deliver, Reject, Offline, ListenFails
<1>3. CASE StreamBreaks \/ Restart \/ \E u \in Users : SignIn(u)
  <2>1. incidents' = incidents + 1
    BY <1>3 DEF StreamBreaks, Restart, SignIn
  <2> QED
    BY <1>0, <2>1
<1>4. CASE GetAllGroceries
  <2>1. [op |-> "listen"] \in Tasks
    BY DEF Tasks
  <2> QED
    BY <1>4, <2>1 DEF GetAllGroceries, Enqueue, OnlyEnqueues
<1>5. ASSUME NEW n \in Names, NEW d \in Values, WriteGrocery(n, d) \/ WriteRow(n, d)
      PROVE  /\ incidents = 0 /\ UNCHANGED <<log, pending, rejected, user, commits>>
             /\ \E t \in Tasks : t.op # "signIn" /\ worker' = Append(worker, t)
  <2>1. [op |-> "write", name |-> n, doc |-> d] \in Tasks
    BY DEF Tasks
  <2> QED
    BY <1>5, <2>1 DEF WriteGrocery, WriteRow, EnqueueWrite, Enqueue, OnlyEnqueues
<1>6. ASSUME NEW n \in Names, NEW d \in Values, OtherDeviceWrites(n, d)
      PROVE  incidents = 0 /\ UNCHANGED worker
  BY <1>6 DEF OtherDeviceWrites
<1>7. CASE UNCHANGED vars
  BY <1>7 DEF vars
<1> QED
  BY <1>1, <1>2, <1>3, <1>4, <1>5, <1>6, <1>7 DEF Next

LEMMA NobodySignsInStep ==
  ASSUME TypeInv, NobodySignsIn,
         \/ UNCHANGED worker
         \/ worker # <<>> /\ worker' = Tail(worker)
         \/ \E t \in Tasks : t.op # "signIn" /\ worker' = Append(worker, t)
  PROVE  NobodySignsIn'
<1>0. worker \in Seq(Tasks) /\ Len(worker) \in Nat
  BY DEF TypeInv, TypeOK
<1>1. CASE worker # <<>> /\ worker' = Tail(worker)
  <2>1. /\ Len(worker') = Len(worker) - 1
        /\ \A k \in 1..Len(worker') : worker'[k] = worker[k + 1]
    BY <1>0, <1>1, HeadTailProperties
  <2> QED
    BY <1>0, <2>1 DEF NobodySignsIn
<1>2. ASSUME NEW t \in Tasks, t.op # "signIn", worker' = Append(worker, t)
      PROVE  NobodySignsIn'
  <2>1. /\ Len(worker') = Len(worker) + 1
        /\ \A k \in 1..Len(worker) : worker'[k] = worker[k]
        /\ worker'[Len(worker) + 1] = t
    BY <1>0, <1>2, AppendProperties
  <2> QED
    BY <1>0, <1>2, <2>1 DEF NobodySignsIn
<1> QED
  BY <1>1, <1>2 DEF NobodySignsIn

\* What a step keeps of the facts about writes.
OnceFacts ==
  /\ TakenAscending /\ TakenBeforeUnsent /\ RefusedBeforePending /\ TakenNotRefused
  /\ OthersUnnumbered

\* A new write is newer than all there are.
LEMMA RunWriteKeepsOnce ==
  ASSUME TypeInv, OrderInv, OnceFacts, RunWrite
  PROVE  OnceFacts'
<1>1. /\ Len(pending[user]) \in Nat
      /\ Len(pending'[user]) = Len(pending[user]) + 1
      /\ \A k \in 1..Len(pending[user]) : pending'[user][k] = pending[user][k]
      /\ pending'[user][Len(pending[user]) + 1].id = issued + 1
      /\ UNCHANGED <<log, user, commits, rejected>>
  BY RunWriteQueue
<1>2. /\ issued \in Nat /\ rejected \subseteq 1..issued /\ Len(commits) \in Nat
      /\ \A p \in 1..Len(log) : log[p].who # OtherDevice => log[p].id \in 1..issued
  BY DEF TypeInv, TypeOK, OrderInv, CommittedIssued
<1>3. TakenBeforeUnsent'
  <2> SUFFICES ASSUME NEW p \in 1..Len(log),
                      NEW k \in (Len(commits)+1)..(Len(pending[user])+1),
                      log[p].who # OtherDevice
               PROVE  log[p].id < pending'[user][k].id
    BY <1>1 DEF TakenBeforeUnsent
  <2>1. CASE k = Len(pending[user]) + 1
    BY <2>1, <1>1, <1>2
  <2>2. CASE k # Len(pending[user]) + 1
    <3>1. k \in (Len(commits)+1)..Len(pending[user]) /\ k \in 1..Len(pending[user])
      BY <2>2, <1>1, <1>2
    <3> QED
      BY <3>1, <1>1 DEF OnceFacts, TakenBeforeUnsent
  <2> QED
    BY <2>1, <2>2
<1>4. RefusedBeforePending'
  BY <1>1, <1>2 DEF OnceFacts, RefusedBeforePending
<1> QED
  BY <1>1, <1>3, <1>4 DEF OnceFacts, TakenAscending, TakenNotRefused, OthersUnnumbered

\* The write taken next is newer than all that were taken, and older than the
\* rest of the queue.
LEMMA CommitKeepsOnce ==
  ASSUME TypeInv, OrderInv, OnceFacts, Commit
  PROVE  OnceFacts'
<1> DEFINE K == Len(commits) + 1
           L == Len(log) + 1
           m == pending[user][K]
           c == [who |-> user, id |-> m.id, name |-> m.name,
                 docs |-> [Cloud EXCEPT ![m.name] = m.doc]]
<1>1. /\ Len(commits) \in Nat /\ K \in 1..Len(pending[user])
      /\ log' = Append(log, c)
  BY CommitIsOfQueue
<1>2. /\ commits' = Append(commits, Len(log) + 1)
      /\ UNCHANGED <<pending, rejected, user>>
  BY DEF Commit, diskVars
<1>3. Len(commits') = K
  <2>1. commits \in Seq(Nat) /\ Len(log) + 1 \in Nat
    BY DEF TypeInv, TypeOK
  <2> QED
    BY <1>2, <2>1, AppendProperties
<1>4. c.id = m.id /\ c.who = user
  OBVIOUS
<1> HIDE DEF c
<1>5. /\ Len(log) \in Nat /\ Len(log') = L
      /\ \A v \in 1..Len(log) : log'[v] = log[v]
      /\ log'[L].id = m.id /\ log'[L].who = user
  BY <1>1, <1>4, LogStep
<1>6. /\ user \in Users
      /\ \A k \in 1..Len(pending[user]) : pending[user][k].id \in Nat
      /\ \A p \in 1..Len(log) : log[p].id \in Nat
      /\ Len(pending[user]) \in Nat
  BY OrderTypes
<1>7. \A p \in 1..Len(log) : log[p].who # OtherDevice => log[p].id < m.id
  BY <1>1 DEF OnceFacts, TakenBeforeUnsent
<1>8. \A k \in (K+1)..Len(pending[user]) : m.id < pending[user][k].id
  <2> SUFFICES ASSUME NEW k \in (K+1)..Len(pending[user])
               PROVE  m.id < pending[user][k].id
    OBVIOUS
  <2>1. k \in 1..Len(pending[user]) /\ K \in 1..(k-1)
    BY <1>1, <1>6
  <2> QED
    BY <2>1, <1>6 DEF OrderInv, Ascending
<1> HIDE DEF K, L, m
<1>9. TakenAscending'
  BY <1>5, <1>7 DEF OnceFacts, TakenAscending, L
<1>10. TakenBeforeUnsent'
  <2> SUFFICES ASSUME NEW p \in 1..L, NEW k \in (K+1)..Len(pending[user]),
                      log'[p].who # OtherDevice
               PROVE  log'[p].id < pending[user][k].id
    BY <1>2, <1>3, <1>5 DEF TakenBeforeUnsent
  <2>1. CASE p = L
    BY <2>1, <1>5, <1>8
  <2>2. CASE p # L
    <3>1. p \in 1..Len(log) /\ k \in (Len(commits)+1)..Len(pending[user])
      BY <2>2, <1>1, <1>5, <1>6 DEF K, L
    <3> QED
      BY <3>1, <1>5 DEF OnceFacts, TakenBeforeUnsent
  <2> QED
    BY <2>1, <2>2
<1>11. TakenNotRefused'
  <2>1. m.id \notin rejected
    <3>1. m.id \in Nat
      BY <1>1, <1>6 DEF m
    <3>2. \A i \in rejected : i < m.id
      BY <1>1 DEF OnceFacts, RefusedBeforePending, m
    <3> QED
      BY <3>1, <3>2
  <2> QED
    BY <2>1, <1>2, <1>5 DEF OnceFacts, TakenNotRefused, L
<1>12. RefusedBeforePending'
  BY <1>2 DEF OnceFacts, RefusedBeforePending
<1>13. OthersUnnumbered'
  BY <1>5, <1>6, StoreAssumption DEF OnceFacts, OthersUnnumbered, L
<1> QED
  BY <1>9, <1>10, <1>11, <1>12, <1>13 DEF OnceFacts

\* An answered write leaves the queue and the answers together; a refused one
\* is older than the rest and newer than all that was taken.
LEMMA AnswerKeepsOnce ==
  ASSUME TypeInv, OrderInv, OnceFacts, Ack \/ Reject
  PROVE  OnceFacts'
<1> DEFINE q == pending[user]
<1>1. /\ q # <<>>
      /\ pending' = [pending EXCEPT ![user] = Tail(q)]
      /\ UNCHANGED <<log, user, issued>>
      /\ Ack => UNCHANGED rejected
      /\ Reject => rejected' = rejected \cup {q[1].id} /\ commits = <<>> /\ commits' = <<>>
  BY HeadIsAnswered
<1>2. UNCHANGED issued
  BY <1>1
<1>3. /\ Len(q) \in Nat \ {0}
      /\ Len(pending'[user]) = Len(q) - 1
      /\ \A k \in 1..Len(pending'[user]) :
           k + 1 \in 1..Len(q) /\ pending'[user][k] = q[k + 1]
  BY <1>1, <1>2, AnsweredQueue
<1>4. /\ user \in Users /\ Len(commits) \in Nat /\ Len(log) \in Nat
      /\ \A k \in 1..Len(q) : q[k].id \in Nat
      /\ \A p \in 1..Len(log) : log[p].id \in Nat
  BY OrderTypes
<1> DEFINE r == pending'[user]
<1>5. pending'[user'] = r
  BY <1>1
<1>6. \A k \in 1..Len(r) : q[1].id < r[k].id
  <2> SUFFICES ASSUME NEW k \in 1..Len(r)
               PROVE  q[1].id < r[k].id
    OBVIOUS
  <2>1. k + 1 \in 1..Len(q) /\ 1 \in 1..((k + 1) - 1) /\ r[k] = q[k + 1]
    BY <1>3
  <2> QED
    BY <2>1, <1>4 DEF OrderInv, Ascending
<1> HIDE DEF r
<1>7. TakenAscending' /\ OthersUnnumbered'
  BY <1>1 DEF OnceFacts, TakenAscending, OthersUnnumbered
<1>8. Len(commits') = IF Reject THEN 0 ELSE Len(commits) - 1
  <2>1. CASE Reject
    BY <1>1, <2>1
  <2>2. CASE Ack /\ ~Reject
    <3>1. commits # <<>> /\ commits' = Tail(commits) /\ commits \in Seq(1..Len(log))
      BY <2>2 DEF Ack, TypeInv, TypeOK
    <3> QED
      BY <2>2, <3>1, HeadTailProperties
  <2> QED
    BY <2>1, <2>2
<1>9. TakenBeforeUnsent'
  <2> SUFFICES ASSUME NEW p \in 1..Len(log), NEW k \in (Len(commits')+1)..Len(r),
                      log[p].who # OtherDevice
               PROVE  log[p].id < r[k].id
    BY <1>1, <1>5 DEF TakenBeforeUnsent
  <2>0. Len(commits) \in Nat /\ Len(commits') \in Nat /\ Len(commits') + 1 >= Len(commits)
    <3>1. CASE Reject
      BY <3>1, <1>1, <1>8
    <3>2. CASE Ack /\ ~Reject
      <4>1. Len(commits) # 0
        BY <3>2, <1>4, EmptySeq DEF Ack, TypeInv, TypeOK
      <4> QED
        BY <3>2, <4>1, <1>4, <1>8
    <3> QED
      BY <3>1, <3>2
  <2>1. k \in 1..Len(r) /\ k + 1 \in (Len(commits)+1)..Len(q)
    BY <2>0, <1>3, <1>4 DEF r
  <2>2. r[k] = q[k + 1]
    BY <2>1, <1>3 DEF r
  <2> QED
    BY <2>1, <2>2 DEF OnceFacts, TakenBeforeUnsent
<1>10. RefusedBeforePending'
  <2> SUFFICES ASSUME NEW i \in rejected', NEW k \in 1..Len(r)
               PROVE  i < r[k].id
    BY <1>5 DEF RefusedBeforePending
  <2>1. CASE i \in rejected
    <3>1. k + 1 \in 1..Len(q) /\ r[k] = q[k + 1]
      BY <1>3 DEF r
    <3> QED
      BY <2>1, <3>1 DEF OnceFacts, RefusedBeforePending
  <2>2. CASE i = q[1].id
    BY <2>2, <1>6
  <2> QED
    BY <2>1, <2>2, <1>1
<1>11. TakenNotRefused'
  <2>1. CASE Reject
    <3>1. Len(commits) = 0 /\ 1 \in (Len(commits)+1)..Len(q) /\ 1 \in 1..Len(q)
      BY <2>1, <1>1, <1>3
    <3>2. \A p \in 1..Len(log) : log[p].who # OtherDevice => log[p].id < q[1].id
      BY <3>1 DEF OnceFacts, TakenBeforeUnsent
    <3>3. \A p \in 1..Len(log) : log[p].who # OtherDevice => log[p].id # q[1].id
      BY <3>1, <3>2, <1>4
    <3> QED
      BY <2>1, <3>3, <1>1 DEF OnceFacts, TakenNotRefused
  <2>2. CASE Ack
    BY <2>2, <1>1 DEF OnceFacts, TakenNotRefused
  <2> QED
    BY <2>1, <2>2
<1> QED
  BY <1>7, <1>9, <1>10, <1>11 DEF OnceFacts

LEMMA OtherDeviceKeepsOnce ==
  ASSUME TypeInv, OnceFacts, NEW n \in Names, NEW d \in Values, OtherDeviceWrites(n, d)
  PROVE  OnceFacts'
<1> DEFINE c == [who |-> OtherDevice, id |-> 0, name |-> n,
                 docs |-> [Cloud EXCEPT ![n] = d]]
<1>1. log' = Append(log, c) /\ UNCHANGED <<pending, rejected, user, commits>>
  BY DEF OtherDeviceWrites, diskVars
<1>2. c.who = OtherDevice /\ c.id = 0
  OBVIOUS
<1> HIDE DEF c
<1>3. /\ Len(log) \in Nat /\ Len(log') = Len(log) + 1
      /\ \A v \in 1..Len(log) : log'[v] = log[v]
      /\ log'[Len(log) + 1].who = OtherDevice /\ log'[Len(log) + 1].id = 0
  BY <1>1, <1>2, LogStep
<1>4. TakenAscending' /\ TakenNotRefused' /\ OthersUnnumbered'
  BY <1>1, <1>3 DEF OnceFacts, TakenAscending, TakenNotRefused, OthersUnnumbered
<1>5. TakenBeforeUnsent' /\ RefusedBeforePending'
  BY <1>1, <1>3 DEF OnceFacts, TakenBeforeUnsent, RefusedBeforePending
<1> QED
  BY <1>4, <1>5 DEF OnceFacts

LEMMA OnceInvInit == Init => OnceInv
BY DEF Init, OnceInv, NobodySignsIn, TakenAscending, TakenBeforeUnsent,
       RefusedBeforePending, TakenNotRefused, OthersUnnumbered

LEMMA OnceInvStep == TypeInv /\ OrderInv /\ OnceInv /\ [Next]_vars => OnceInv'
<1> SUFFICES ASSUME TypeInv, OrderInv, OnceInv, [Next]_vars, incidents' = 0
             PROVE  NobodySignsIn' /\ OnceFacts'
  BY DEF OnceInv, OnceFacts
<1>1. NobodySignsIn /\ OnceFacts
  BY CalmSteps DEF OnceInv, OnceFacts
<1>2. NobodySignsIn'
  BY <1>1, CalmSteps, NobodySignsInStep
<1>3. ASSUME UNCHANGED <<log, pending, rejected, user, commits>>
      PROVE  OnceFacts'
  <2>1. TakenAscending' /\ TakenNotRefused' /\ OthersUnnumbered'
    BY <1>1, <1>3 DEF OnceFacts, TakenAscending, TakenNotRefused, OthersUnnumbered
  <2>2. TakenBeforeUnsent'
    BY <1>1, <1>3 DEF OnceFacts, TakenBeforeUnsent
  <2>3. RefusedBeforePending'
    BY <1>1, <1>3 DEF OnceFacts, RefusedBeforePending
  <2> QED
    BY <2>1, <2>2, <2>3 DEF OnceFacts
<1>4. OnceFacts'
  BY <1>1, <1>3, CalmSteps, RunWriteKeepsOnce, CommitKeepsOnce, AnswerKeepsOnce,
    OtherDeviceKeepsOnce
<1> QED
  BY <1>2, <1>4

LEMMA OnceInvAlways == Spec => [](TypeInv /\ OrderInv /\ OnceInv)
BY TypeInvInit, TypeInvStep, OrderInvInit, OrderInvStep, OnceInvInit, OnceInvStep, PTL DEF Spec

=============================================================================
