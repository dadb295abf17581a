------------------------- MODULE GroceryStore_proofs -------------------------
(***************************************************************************)
(* What GroceryStore guarantees for every set of names, documents and      *)
(* users and for every value of its bounds.                                *)
(***************************************************************************)
EXTENDS GroceryStore, WellFoundedInduction, SequenceTheorems, TLAPS

-----------------------------------------------------------------------------
(* Lemmas about a queue of writes laid over a document. *)

\* A name that a queue mentions has a last write on it.
LEMMA LastExists ==
  ASSUME NEW q \in Seq(Writes), NEW n \in Keys(q)
  PROVE  \E i \in 1..Len(q) : IsLastOn(q, n, i)
<1> DEFINE At == {i \in 1..Len(q) : q[i].name = n}
           Left == {Len(q) - i : i \in At}
<1>1. Len(q) \in Nat
  OBVIOUS
<1>2. Left \subseteq Nat /\ Left # {}
  BY <1>1 DEF Keys
<1>3. PICK m \in Left : \A k \in Left : <<k, m>> \notin OpToRel(<, Nat)
  BY <1>2, NatLessThanWellFounded, WFMin
<1>4. \A k \in Left : m <= k
  <2>1. Left \subseteq Nat
    BY <1>2
  <2> HIDE DEF Left, At
  <2>2. ASSUME NEW k \in Left, k < m
        PROVE  FALSE
    <3>1. k \in Nat /\ m \in Nat
      BY <2>1
    <3>2. <<k, m>> \in OpToRel(<, Nat)
      BY <2>2, <3>1 DEF OpToRel
    <3> QED
      BY <3>2, <1>3
  <2> QED
    BY <2>1, <2>2
<1>5. PICK i \in At : m = Len(q) - i
  OBVIOUS
<1>6. \A j \in (i+1)..Len(q) : q[j].name # n
  <2> SUFFICES ASSUME NEW j \in (i+1)..Len(q), q[j].name = n
               PROVE  FALSE
    OBVIOUS
  <2>1. i \in 1..Len(q) /\ j \in 1..Len(q) /\ j > i
    BY <1>1
  <2>2. Len(q) - j \in Left
    BY <2>1
  <2>3. m <= Len(q) - j
    BY <2>2, <1>4
  <2> QED
    BY <1>1, <1>5, <2>1, <2>3
<1> QED
  BY <1>5, <1>6 DEF IsLastOn

\* There is only one.
LEMMA LastIsUnique ==
  ASSUME NEW q \in Seq(Writes), NEW n, NEW i, NEW j,
         IsLastOn(q, n, i), IsLastOn(q, n, j)
  PROVE  i = j
<1>1. i \in 1..Len(q) /\ j \in 1..Len(q) /\ Len(q) \in Nat
  BY DEF IsLastOn
<1>2. ~ (i < j) /\ ~ (j < i)
  BY <1>1 DEF IsLastOn
<1> QED
  BY <1>1, <1>2

\* So the overlay is the document of that write.
LEMMA OverlayIsLast ==
  ASSUME NEW q \in Seq(Writes), NEW n, NEW base, NEW i, IsLastOn(q, n, i)
  PROVE  Overlay(q, n, base) = q[i].doc /\ n \in Keys(q)
<1>1. n \in Keys(q)
  BY DEF IsLastOn, Keys
<1>2. i \in 1..Len(q)
  BY DEF IsLastOn
<1>3. IsLastOn(q, n, CHOOSE j \in 1..Len(q) : IsLastOn(q, n, j))
  BY <1>2
<1>4. (CHOOSE j \in 1..Len(q) : IsLastOn(q, n, j)) = i
  BY <1>3, LastIsUnique
<1> QED
  BY <1>1, <1>4 DEF Overlay

LEMMA OverlayType ==
  ASSUME NEW q \in Seq(Writes), NEW n, NEW base \in Values
  PROVE  Overlay(q, n, base) \in Values
<1>1. CASE n \in Keys(q)
  <2>1. PICK i \in 1..Len(q) : IsLastOn(q, n, i)
    BY <1>1, LastExists
  <2>2. q[i] \in Writes
    OBVIOUS
  <2>3. q[i].doc \in Values
    BY <2>2 DEF Writes
  <2>4. Overlay(q, n, base) = q[i].doc
    BY <2>1, OverlayIsLast
  <2> QED
    BY <2>3, <2>4
<1>2. CASE n \notin Keys(q)
  BY <1>2 DEF Overlay
<1> QED
  BY <1>1, <1>2

\* A new write at the end decides its own name and no other.
LEMMA OverlayAppend ==
  ASSUME NEW q \in Seq(Writes), NEW m \in Writes, NEW n, NEW base
  PROVE  /\ Overlay(Append(q, m), n, base) =
              IF n = m.name THEN m.doc ELSE Overlay(q, n, base)
         /\ Keys(Append(q, m)) = Keys(q) \cup {m.name}
<1> DEFINE r == Append(q, m)
<1>1. /\ r \in Seq(Writes)
      /\ Len(q) \in Nat
      /\ Len(r) = Len(q) + 1
      /\ \A i \in 1..Len(q) : r[i] = q[i]
      /\ r[Len(q) + 1] = m
  BY AppendProperties
<1>2. Keys(r) = Keys(q) \cup {m.name}
  BY <1>1 DEF Keys
<1> SUFFICES Overlay(r, n, base) = IF n = m.name THEN m.doc ELSE Overlay(q, n, base)
  BY <1>2
<1> HIDE DEF r
<1>3. CASE n = m.name
  <2>1. IsLastOn(r, n, Len(q) + 1)
    BY <1>1, <1>3 DEF IsLastOn
  <2>2. Overlay(r, n, base) = r[Len(q) + 1].doc
    BY <2>1, <1>1, OverlayIsLast
  <2> QED
    BY <2>2, <1>1, <1>3
<1>4. CASE n # m.name /\ n \in Keys(q)
  <2>1. PICK i \in 1..Len(q) : IsLastOn(q, n, i)
    BY <1>4, LastExists
  <2>2. IsLastOn(r, n, i)
    BY <2>1, <1>1, <1>4 DEF IsLastOn
  <2>3. Overlay(r, n, base) = r[i].doc
    BY <2>2, <1>1, OverlayIsLast
  <2>4. Overlay(q, n, base) = q[i].doc
    BY <2>1, OverlayIsLast
  <2> QED
    BY <2>3, <2>4, <1>1, <1>4
<1>5. CASE n # m.name /\ n \notin Keys(q)
  BY <1>2, <1>5 DEF Overlay
<1> QED
  BY <1>3, <1>4, <1>5

\* Taking the head away uncovers a document only if no later write is on it.
LEMMA OverlayTail ==
  ASSUME NEW q \in Seq(Writes), q # <<>>, NEW n, NEW base
  PROVE  /\ n \in Keys(Tail(q)) => Overlay(Tail(q), n, base) = Overlay(q, n, base)
         /\ n \notin Keys(Tail(q)) => Overlay(Tail(q), n, base) = base
         /\ n \notin Keys(Tail(q)) /\ n = Head(q).name
              => Overlay(q, n, base) = Head(q).doc
         /\ Keys(q) = Keys(Tail(q)) \cup {Head(q).name}
<1> DEFINE r == Tail(q)
<1>1. /\ r \in Seq(Writes)
      /\ Len(q) \in Nat \ {0}
      /\ Len(r) = Len(q) - 1
      /\ \A i \in 1..Len(r) : r[i] = q[i+1]
      /\ Head(q) = q[1]
  BY HeadTailProperties, EmptySeq, LenProperties
<1> HIDE DEF r
<1>2. Keys(q) = Keys(r) \cup {q[1].name}
  <2>1. \A i \in 1..Len(q) : i = 1 \/ (i - 1 \in 1..Len(r) /\ q[i] = r[i-1])
    BY <1>1
  <2>2. Keys(q) \subseteq Keys(r) \cup {q[1].name}
    BY <2>1 DEF Keys
  <2>3. Keys(r) \cup {q[1].name} \subseteq Keys(q)
    BY <1>1 DEF Keys
  <2> QED
    BY <2>2, <2>3
<1>3. ASSUME n \in Keys(r)
      PROVE  Overlay(r, n, base) = Overlay(q, n, base)
  <2>1. PICK i \in 1..Len(r) : IsLastOn(r, n, i)
    BY <1>1, <1>3, LastExists
  <2>2. IsLastOn(q, n, i + 1)
    <3>1. i + 1 \in 1..Len(q) /\ q[i+1].name = n
      BY <1>1, <2>1 DEF IsLastOn
    <3>2. ASSUME NEW j \in (i + 1 + 1)..Len(q)
          PROVE  q[j].name # n
      <4>1. j - 1 \in (i+1)..Len(r) /\ r[j-1] = q[j]
        BY <1>1
      <4> QED
        BY <4>1, <2>1 DEF IsLastOn
    <3> QED
      BY <3>1, <3>2 DEF IsLastOn
  <2>3. r[i] = q[i+1]
    BY <1>1
  <2>4. Overlay(r, n, base) = r[i].doc
    BY <1>1, <2>1, OverlayIsLast
  <2>5. Overlay(q, n, base) = q[i+1].doc
    BY <2>2, OverlayIsLast
  <2> QED
    BY <2>3, <2>4, <2>5
<1>4. ASSUME n \notin Keys(r), n = q[1].name
      PROVE  Overlay(q, n, base) = q[1].doc
  <2>1. \A j \in 2..Len(q) : q[j].name # n
    <3> SUFFICES ASSUME NEW j \in 2..Len(q)
                 PROVE  q[j].name # n
      OBVIOUS
    <3>1. j - 1 \in 1..Len(r) /\ r[j-1] = q[j]
      BY <1>1
    <3> QED
      BY <3>1, <1>4 DEF Keys
  <2>2. IsLastOn(q, n, 1)
    BY <1>1, <1>4, <2>1 DEF IsLastOn
  <2> QED
    BY <2>2, OverlayIsLast
<1>5. n \notin Keys(r) => Overlay(r, n, base) = base
  BY DEF Overlay
<1> QED
  BY <1>1, <1>2, <1>3, <1>4, <1>5 DEF r

-----------------------------------------------------------------------------
(* Types. *)

LEMMA DocAtType ==
  ASSUME log \in Seq(Commits), NEW v \in 0..Len(log), NEW n \in Names
  PROVE  DocAt(v, n) \in Values
<1>1. CASE v = 0
  BY <1>1 DEF DocAt, Values
<1>2. CASE v # 0
  <2>1. v \in 1..Len(log)
    BY <1>2
  <2>2. log[v] \in Commits
    BY <2>1
  <2>3. log[v].docs \in Lists
    BY <2>2 DEF Commits
  <2> QED
    BY <1>2, <2>3 DEF DocAt, Lists
<1> QED
  BY <1>1, <1>2

\* The newest version of the collection is a list.
LEMMA CloudType ==
  ASSUME TypeOK
  PROVE  Cloud \in Lists
<1>1. \A n \in Names : DocAt(Len(log), n) \in Values
  BY DocAtType DEF TypeOK
<1> QED
  BY <1>1 DEF Cloud, Lists

LEMMA LocalViewType ==
  ASSUME log \in Seq(Commits),
         NEW q \in Seq(Writes), NEW kn \in [Names -> 0..Len(log)]
  PROVE  LocalView(q, kn) \in Lists
<1>1. ASSUME NEW n \in Names
      PROVE  Overlay(q, n, DocAt(kn[n], n)) \in Values
  BY DocAtType, OverlayType
<1> QED
  BY <1>1 DEF LocalView, Lists

LEMMA KeysType ==
  ASSUME NEW q \in Seq(Writes)
  PROVE  Keys(q) \subseteq Names
<1> SUFFICES ASSUME NEW i \in 1..Len(q) PROVE q[i].name \in Names
  BY DEF Keys
<1>1. q[i] \in Writes
  OBVIOUS
<1> QED
  BY <1>1 DEF Writes

\* Whatever is recomputed, a view stays a view.
LEMMA EmitType ==
  ASSUME TypeOK,
         NEW changed, NEW q \in Seq(Writes), NEW kn \in [Names -> 0..Len(log)],
         NEW w, NEW synced,
         Emit(changed, q, kn, w, synced)
  PROVE  /\ listener' \in {"none", "waiting", "live", "dead"}
         /\ shown' \in Lists
         /\ mutated' \subseteq Names
         /\ mainQueue' \in Seq(Events)
<1>1. CASE listener \in {"none", "dead"}
  BY <1>1 DEF Emit, viewVars, TypeOK
<1>2. CASE listener \notin {"none", "dead"}
  <2> DEFINE replaced == Replaced(changed, q, kn, w)
             rows == [n \in Names |-> IF n \in replaced THEN LocalView(q, kn)[n]
                                                      ELSE shown[n]]
             raise == Raises(rows, synced)
  <2>1. /\ shown' = rows
        /\ mutated' = (mutated \ replaced)
                        \cup {n \in replaced : n \in Keys(q) /\ rows[n] # NoDoc}
        /\ listener' = IF raise THEN "live" ELSE listener
        /\ mainQueue' = IF raise THEN Append(mainQueue, Snapshot(rows)) ELSE mainQueue
    BY <1>2 DEF Emit
  <2>2. LocalView(q, kn) \in Lists
    BY LocalViewType DEF TypeOK
  <2>3. rows \in Lists
    BY <2>2 DEF Lists, TypeOK
  <2>4. Snapshot(rows) \in Events
    BY <2>3 DEF Snapshot, Events
  <2>5. mutated' \subseteq Names
    <3>1. mutated \subseteq Names
      BY DEF TypeOK
    <3>2. {n \in replaced : n \in Keys(q) /\ rows[n] # NoDoc} \subseteq Names
      <4>1. Keys(q) \subseteq Names
        BY KeysType
      <4> QED
        BY <4>1
    <3> QED
      BY <2>1, <3>1, <3>2
  <2> HIDE DEF rows, replaced, raise
  <2>6. mainQueue' \in Seq(Events)
    <3>1. mainQueue \in Seq(Events)
      BY DEF TypeOK
    <3> QED
      BY <2>1, <2>4, <3>1, AppendProperties
  <2> QED
    BY <2>1, <2>3, <2>5, <2>6 DEF TypeOK
<1> QED
  BY <1>1, <1>2

\* Every write in a mutation queue was accepted by the worker.
IdsIssued ==
  \A u \in Users : \A k \in 1..Len(pending[u]) : pending[u][k].id \in 1..issued

\* What the types need: an answer is only ever on the way for a pending write.
TypeInv == TypeOK /\ IdsIssued /\ AnswersMatch

\* The app's calls only enqueue tasks.
LEMMA CallsKeepTypeInv ==
  ASSUME TypeInv,
         NEW task \in Tasks, Enqueue(task), incidents' \in Nat,
         UNCHANGED <<log, diskVars, user, commits, viewVars>>, groceries' \in Lists
  PROVE  TypeInv'
<1>1. worker' \in Seq(Tasks)
  BY AppendProperties DEF TypeInv, TypeOK, Enqueue
<1>2. TypeOK'
  BY <1>1 DEF TypeInv, TypeOK, diskVars, viewVars
<1>3. IdsIssued' /\ AnswersMatch'
  BY DEF TypeInv, IdsIssued, AnswersMatch, diskVars
<1> QED
  BY <1>2, <1>3 DEF TypeInv

LEMMA TaskType ==
  ASSUME TypeOK, NEW op, NextTask(op)
  PROVE  /\ Head(worker) \in Tasks /\ Head(worker).op = op
         /\ worker' \in Seq(Tasks)
BY HeadTailProperties DEF TypeOK, NextTask

LEMMA RunListenKeepsTypeInv ==
  ASSUME TypeInv, RunListen
  PROVE  TypeInv'
<1> DEFINE rows == LocalView(pending[user], known)
<1>1. pending[user] \in Seq(Writes) /\ known \in [Names -> 0..Len(log)]
  BY DEF TypeInv, TypeOK
<1>2. rows \in Lists
  BY <1>1, LocalViewType DEF TypeInv, TypeOK
<1>3. Snapshot(rows) \in Events
  BY <1>2 DEF Snapshot, Events
<1>4. /\ shown' = rows
      /\ mutated' = {n \in Keys(pending[user]) : rows[n] # NoDoc}
      /\ listener' = IF rows # NoRows THEN "live" ELSE "waiting"
      /\ mainQueue' = IF rows # NoRows THEN Append(mainQueue, Snapshot(rows))
                                       ELSE mainQueue
  BY DEF RunListen
<1>5. Keys(pending[user]) \subseteq Names
  BY <1>1, KeysType
<1>6. worker' \in Seq(Tasks)
  BY TaskType DEF TypeInv, RunListen
<1> HIDE DEF rows
<1>7. mainQueue' \in Seq(Events)
  BY <1>3, <1>4, AppendProperties DEF TypeInv, TypeOK
<1>8. TypeOK'
  BY <1>2, <1>4, <1>5, <1>6, <1>7 DEF TypeInv, TypeOK, RunListen, diskVars
<1>9. IdsIssued' /\ AnswersMatch'
  BY DEF TypeInv, IdsIssued, AnswersMatch, diskVars, RunListen
<1> QED
  BY <1>8, <1>9 DEF TypeInv

LEMMA RunWriteKeepsTypeInv ==
  ASSUME TypeInv, RunWrite
  PROVE  TypeInv'
<1> DEFINE m == [id |-> issued + 1, name |-> Head(worker).name, doc |-> Head(worker).doc]
           q == Append(pending[user], m)
<1>1. /\ pending' = [pending EXCEPT ![user] = q]
      /\ Emit({Head(worker).name}, q, known, watched, FALSE)
      /\ issued' = issued + 1
      /\ UNCHANGED <<log, watched, known, user, commits, rejected, groceries, incidents>>
  BY DEF RunWrite
<1>2. /\ Head(worker) \in Tasks /\ Head(worker).op = "write"
      /\ worker' \in Seq(Tasks)
  BY TaskType DEF TypeInv, RunWrite
<1>3. Head(worker).name \in Names /\ Head(worker).doc \in Values
  BY <1>2 DEF Tasks
<1>4. m \in Writes
  BY <1>3 DEF Writes, TypeInv, TypeOK
<1>5. pending[user] \in Seq(Writes) /\ known \in [Names -> 0..Len(log)] /\ user \in Users
  BY DEF TypeInv, TypeOK
<1> HIDE DEF m
<1>6. /\ q \in Seq(Writes)
      /\ Len(q) = Len(pending[user]) + 1
      /\ \A k \in 1..Len(pending[user]) : q[k] = pending[user][k]
      /\ q[Len(pending[user]) + 1] = m
      /\ Len(pending[user]) \in Nat
  BY <1>4, <1>5, AppendProperties
<1> HIDE DEF q
<1>7. pending'[user] = q /\ \A u \in Users \ {user} : pending'[u] = pending[u]
  BY <1>1, <1>5 DEF TypeInv, TypeOK
<1>8. /\ listener' \in {"none", "waiting", "live", "dead"}
      /\ shown' \in Lists
      /\ mutated' \subseteq Names
      /\ mainQueue' \in Seq(Events)
  BY <1>1, <1>5, <1>6, EmitType DEF TypeInv
<1>9. TypeOK'
  BY <1>1, <1>2, <1>5, <1>6, <1>8 DEF TypeInv, TypeOK
<1>10. IdsIssued'
  <2> SUFFICES ASSUME NEW u \in Users, NEW k \in 1..Len(pending'[u])
               PROVE  pending'[u][k].id \in 1..issued'
    BY DEF IdsIssued
  <2>1. issued \in Nat /\ issued' = issued + 1
    BY <1>1 DEF TypeInv, TypeOK
  <2>2. CASE u # user
    BY <2>1, <2>2, <1>7 DEF TypeInv, IdsIssued
  <2>3. CASE u = user /\ k \in 1..Len(pending[user])
    BY <2>1, <2>3, <1>5, <1>6, <1>7 DEF TypeInv, IdsIssued
  <2>4. CASE u = user /\ k = Len(pending[user]) + 1
    BY <2>1, <2>4, <1>6, <1>7 DEF m
  <2> QED
    BY <2>2, <2>3, <2>4, <1>6, <1>7
<1>11. AnswersMatch'
  BY <1>1, <1>6, <1>7 DEF TypeInv, AnswersMatch
<1> QED
  BY <1>9, <1>10, <1>11 DEF TypeInv

LEMMA RunSignInKeepsTypeInv ==
  ASSUME TypeInv, RunSignIn
  PROVE  TypeInv'
<1>1. /\ Head(worker) \in Tasks /\ Head(worker).op = "signIn"
      /\ worker' \in Seq(Tasks)
  BY TaskType DEF TypeInv, RunSignIn
<1>2. user' \in Users
  BY <1>1 DEF RunSignIn, Tasks
<1>3. pending[user'] \in Seq(Writes) /\ known \in [Names -> 0..Len(log)]
  BY <1>2 DEF TypeInv, TypeOK
<1> DEFINE changed == IF user' = user THEN {}
                                      ELSE Keys(pending[user]) \cup Keys(pending[user'])
<1>4. Emit(changed, pending[user'], known, watched, FALSE)
  BY DEF RunSignIn
<1> HIDE DEF changed
<1>5. /\ listener' \in {"none", "waiting", "live", "dead"}
      /\ shown' \in Lists
      /\ mutated' \subseteq Names
      /\ mainQueue' \in Seq(Events)
  BY <1>3, <1>4, EmitType DEF TypeInv
<1>6. commits' = <<>>
  BY DEF RunSignIn
<1>7. TypeOK'
  BY <1>1, <1>2, <1>5, <1>6 DEF TypeInv, TypeOK, RunSignIn, diskVars
<1>8. IdsIssued' /\ AnswersMatch'
  BY <1>6 DEF TypeInv, IdsIssued, AnswersMatch, RunSignIn, diskVars
<1> QED
  BY <1>7, <1>8 DEF TypeInv

\* A longer history says the same of every version it already had.
LEMMA LogGrows ==
  ASSUME log \in Seq(Commits), NEW c \in Commits, log' = Append(log, c)
  PROVE  /\ log' \in Seq(Commits)
         /\ Len(log) \in Nat
         /\ Len(log') = Len(log) + 1
         /\ \A v \in 1..Len(log) : log'[v] = log[v]
         /\ log'[Len(log) + 1] = c
         /\ \A v \in 0..Len(log) : \A n : DocAt(v, n)' = DocAt(v, n)
<1>1. /\ log' \in Seq(Commits)
      /\ Len(log) \in Nat
      /\ Len(log') = Len(log) + 1
      /\ \A v \in 1..Len(log) : log'[v] = log[v]
      /\ log'[Len(log) + 1] = c
  BY AppendProperties
<1>2. \A v \in 0..Len(log) : \A n : DocAt(v, n)' = DocAt(v, n)
  BY <1>1 DEF DocAt
<1> QED
  BY <1>1, <1>2

\* The next write to send is one of the queue.
LEMMA CommitIsOfQueue ==
  ASSUME TypeInv, Commit
  PROVE  LET q == pending[user]
             m == q[Len(commits) + 1]
             c == [who |-> user, id |-> m.id, name |-> m.name,
                   docs |-> [Cloud EXCEPT ![m.name] = m.doc]]
         IN /\ Len(commits) \in Nat /\ Len(commits) + 1 \in 1..Len(q)
            /\ m \in Writes
            /\ c \in Commits
            /\ log' = Append(log, c)
            /\ c.docs[m.name] = m.doc
            /\ c.docs \in Lists
<1> DEFINE q == pending[user]
           m == q[Len(commits) + 1]
           c == [who |-> user, id |-> m.id, name |-> m.name,
                 docs |-> [Cloud EXCEPT ![m.name] = m.doc]]
<1>1. q \in Seq(Writes) /\ commits \in Seq(1..Len(log)) /\ user \in Users
  BY DEF TypeInv, TypeOK
<1>2. Len(commits) \in Nat /\ Len(commits) + 1 \in 1..Len(q)
  BY <1>1 DEF Commit
<1>3. m \in Writes
  BY <1>1, <1>2
<1>4. Cloud \in Lists
  BY CloudType DEF TypeInv
<1>5. log' = Append(log, c)
  BY DEF Commit, NextToSend
<1>6. m.name \in Names /\ m.doc \in Values /\ m.id \in Nat
  BY <1>3 DEF Writes
<1>7. c.docs \in Lists /\ c.docs[m.name] = m.doc
  BY <1>4, <1>6 DEF Lists
<1>8. c \in Commits
  BY <1>1, <1>6, <1>7 DEF Commits
<1> QED
  BY <1>2, <1>3, <1>5, <1>7, <1>8

LEMMA CommitKeepsTypeInv ==
  ASSUME TypeInv, Commit
  PROVE  TypeInv'
<1> DEFINE q == pending[user]
           m == q[Len(commits) + 1]
           c == [who |-> user, id |-> m.id, name |-> m.name,
                 docs |-> [Cloud EXCEPT ![m.name] = m.doc]]
<1>1. /\ Len(commits) \in Nat /\ Len(commits) + 1 \in 1..Len(q)
      /\ m \in Writes
      /\ c \in Commits
      /\ log' = Append(log, c)
      /\ c.docs[m.name] = m.doc
  BY CommitIsOfQueue
<1>2. c.who = user /\ c.id = m.id /\ c.name = m.name
  OBVIOUS
<1>3. commits' = Append(commits, Len(log) + 1)
      /\ UNCHANGED <<diskVars, user, worker, viewVars, groceries, incidents>>
  BY DEF Commit
<1> HIDE DEF c
<1>4. /\ log' \in Seq(Commits)
      /\ Len(log) \in Nat
      /\ Len(log') = Len(log) + 1
      /\ \A v \in 1..Len(log) : log'[v] = log[v]
      /\ log'[Len(log) + 1] = c
  BY <1>1, LogGrows DEF TypeInv, TypeOK
<1>5. /\ commits \in Seq(1..Len(log'))
      /\ Len(log) + 1 \in 1..Len(log')
  <2>1. 1..Len(log) \subseteq 1..Len(log')
    BY <1>4
  <2> QED
    BY <2>1, <1>4 DEF TypeInv, TypeOK
<1>6. /\ commits' \in Seq(1..Len(log'))
      /\ Len(commits') = Len(commits) + 1
      /\ \A k \in 1..Len(commits) : commits'[k] = commits[k]
      /\ commits'[Len(commits) + 1] = Len(log) + 1
  BY <1>3, <1>5, AppendProperties
<1>7. known' \in [Names -> watched'..Len(log')] /\ watched' \in 0..Len(log')
  <2>1. watched..Len(log) \subseteq watched..Len(log')
    BY <1>4 DEF TypeInv, TypeOK
  <2> QED
    BY <2>1, <1>3, <1>4 DEF TypeInv, TypeOK, diskVars
<1>8. TypeOK'
  BY <1>3, <1>4, <1>6, <1>7 DEF TypeInv, TypeOK, diskVars, viewVars
<1>9. IdsIssued'
  BY <1>3 DEF TypeInv, IdsIssued, diskVars
<1>10. AnswersMatch'
  <2> SUFFICES ASSUME NEW k \in 1..Len(commits')
               PROVE  /\ k <= Len(q)
                      /\ log'[commits'[k]].who = user
                      /\ log'[commits'[k]].id = q[k].id
                      /\ log'[commits'[k]].name = q[k].name
                      /\ log'[commits'[k]].docs[q[k].name] = q[k].doc
    BY <1>3 DEF AnswersMatch, diskVars
  <2>1. CASE k \in 1..Len(commits)
    <3>1. commits[k] \in 1..Len(log)
      BY <2>1 DEF TypeInv, TypeOK
    <3>2. log'[commits'[k]] = log[commits[k]]
      BY <2>1, <3>1, <1>4, <1>6
    <3> QED
      BY <2>1, <3>2 DEF TypeInv, AnswersMatch
  <2>2. CASE k = Len(commits) + 1
    BY <2>2, <1>1, <1>2, <1>4, <1>6
  <2>3. k \in 1..Len(commits) \/ k = Len(commits) + 1
    BY <1>1, <1>6
  <2> HIDE DEF q
  <2> QED
    BY <2>1, <2>2, <2>3
<1> QED
  BY <1>8, <1>9, <1>10 DEF TypeInv

\* The head of a queue leaves it; the rest moves up.
LEMMA TailShifts ==
  ASSUME NEW S, NEW q \in Seq(S), q # <<>>
  PROVE  /\ Head(q) = q[1] /\ Head(q) \in S
         /\ Tail(q) \in Seq(S)
         /\ Len(q) \in Nat \ {0}
         /\ Len(Tail(q)) = Len(q) - 1
         /\ \A k \in 1..Len(Tail(q)) : k + 1 \in 1..Len(q) /\ Tail(q)[k] = q[k + 1]
<1>1. /\ Head(q) = q[1] /\ Head(q) \in S
      /\ Tail(q) \in Seq(S)
      /\ Len(q) \in Nat \ {0}
      /\ Len(Tail(q)) = Len(q) - 1
  BY HeadTailProperties, EmptySeq, LenProperties
<1>2. \A k \in 1..Len(Tail(q)) : k + 1 \in 1..Len(q) /\ Tail(q)[k] = q[k + 1]
  BY <1>1
<1> QED
  BY <1>1, <1>2

\* The head of the signed-in user's queue is answered, one way or the other.
LEMMA AnsweredQueue ==
  ASSUME TypeInv, pending[user] # <<>>,
         pending' = [pending EXCEPT ![user] = Tail(pending[user])],
         UNCHANGED issued
  PROVE  /\ pending[user] \in Seq(Writes) /\ Tail(pending[user]) \in Seq(Writes)
         /\ Head(pending[user]) = pending[user][1]
         /\ Head(pending[user]) \in Writes
         /\ Head(pending[user]).id \in 1..issued
         /\ Len(pending[user]) \in Nat \ {0}
         /\ Len(pending'[user]) = Len(pending[user]) - 1
         /\ \A k \in 1..Len(pending'[user]) :
              k + 1 \in 1..Len(pending[user]) /\ pending'[user][k] = pending[user][k + 1]
         /\ pending'[user] = Tail(pending[user])
         /\ \A u \in Users \ {user} : pending'[u] = pending[u]
         /\ pending' \in [Users -> Seq(Writes)]
         /\ IdsIssued'
<1>1. pending \in [Users -> Seq(Writes)] /\ user \in Users /\ pending[user] \in Seq(Writes)
  BY DEF TypeInv, TypeOK
<1> DEFINE q == pending[user]
           r == Tail(q)
<1>2. /\ Head(q) = q[1] /\ Head(q) \in Writes
      /\ r \in Seq(Writes)
      /\ Len(q) \in Nat \ {0}
      /\ Len(r) = Len(q) - 1
      /\ \A k \in 1..Len(r) : k + 1 \in 1..Len(q) /\ r[k] = q[k + 1]
  BY <1>1, TailShifts
<1>3. pending'[user] = r /\ \A u \in Users \ {user} : pending'[u] = pending[u]
  BY <1>1
<1>4. pending' \in [Users -> Seq(Writes)]
  BY <1>1, <1>2
<1>5. Head(q).id \in 1..issued
  BY <1>1, <1>2 DEF TypeInv, IdsIssued
<1>6. IdsIssued'
  <2> SUFFICES ASSUME NEW u \in Users, NEW k \in 1..Len(pending'[u])
               PROVE  pending'[u][k].id \in 1..issued
    BY DEF IdsIssued
  <2>1. CASE u # user
    BY <2>1, <1>3 DEF TypeInv, IdsIssued
  <2>2. CASE u = user
    <3>1. k + 1 \in 1..Len(q) /\ pending'[u][k] = q[k + 1]
      BY <2>2, <1>2, <1>3
    <3> QED
      BY <3>1, <1>1 DEF TypeInv, IdsIssued
  <2> QED
    BY <2>1, <2>2
<1> QED
  BY <1>1, <1>2, <1>3, <1>4, <1>5, <1>6

\* An answer means that there is a write to answer.
LEMMA AnswerHasWrite ==
  ASSUME TypeInv, commits # <<>>
  PROVE  /\ pending[user] # <<>>
         /\ Len(commits) \in Nat \ {0}
         /\ Head(commits) = commits[1] /\ commits[1] \in 1..Len(log)
         /\ Tail(commits) \in Seq(1..Len(log))
         /\ Len(Tail(commits)) = Len(commits) - 1
         /\ \A k \in 1..Len(Tail(commits)) :
              k + 1 \in 1..Len(commits) /\ Tail(commits)[k] = commits[k + 1]
<1>1. commits \in Seq(1..Len(log)) /\ pending[user] \in Seq(Writes)
  BY DEF TypeInv, TypeOK
<1>2. Len(commits) \in Nat \ {0}
  BY <1>1, TailShifts
<1>3. 1 <= Len(pending[user])
  BY <1>2 DEF TypeInv, AnswersMatch
<1>4. pending[user] # <<>>
  BY <1>3, <1>1, EmptySeq
<1> QED
  BY <1>1, <1>4, TailShifts

LEMMA AckKeepsTypeInv ==
  ASSUME TypeInv, Ack
  PROVE  TypeInv'
<1> DEFINE n  == Head(pending[user]).name
           q  == Tail(pending[user])
           kn == [known EXCEPT ![n] = Newer(@, Head(commits))]
<1>1. /\ commits # <<>>
      /\ known' = kn
      /\ pending' = [pending EXCEPT ![user] = q]
      /\ Emit({n}, q, kn, watched, FALSE)
      /\ commits' = Tail(commits)
      /\ UNCHANGED <<log, watched, user, rejected, issued, worker, groceries, incidents>>
  BY DEF Ack
<1>2. /\ pending[user] # <<>>
      /\ Len(commits) \in Nat \ {0}
      /\ Head(commits) = commits[1] /\ commits[1] \in 1..Len(log)
      /\ Tail(commits) \in Seq(1..Len(log))
      /\ Len(Tail(commits)) = Len(commits) - 1
      /\ \A k \in 1..Len(Tail(commits)) :
           k + 1 \in 1..Len(commits) /\ Tail(commits)[k] = commits[k + 1]
  BY <1>1, AnswerHasWrite
<1>3. UNCHANGED issued
  BY <1>1
<1>4. /\ pending[user] \in Seq(Writes) /\ q \in Seq(Writes)
      /\ Head(pending[user]) \in Writes
      /\ Len(pending[user]) \in Nat \ {0}
      /\ Len(pending'[user]) = Len(pending[user]) - 1
      /\ \A k \in 1..Len(pending'[user]) :
           k + 1 \in 1..Len(pending[user]) /\ pending'[user][k] = pending[user][k + 1]
      /\ pending' \in [Users -> Seq(Writes)]
      /\ IdsIssued'
  BY <1>1, <1>2, <1>3, AnsweredQueue
<1>5. kn \in [Names -> watched..Len(log)]
  <2>1. n \in Names
    BY <1>4 DEF Writes
  <2>2. known \in [Names -> watched..Len(log)] /\ watched \in 0..Len(log)
        /\ Len(log) \in Nat
    BY DEF TypeInv, TypeOK
  <2>3. Newer(known[n], Head(commits)) \in watched..Len(log)
    BY <2>1, <2>2, <1>2 DEF Newer
  <2> QED
    BY <2>2, <2>3
<1>6. kn \in [Names -> 0..Len(log)]
  BY <1>5 DEF TypeInv, TypeOK
<1> HIDE DEF n, q, kn
<1>7. /\ listener' \in {"none", "waiting", "live", "dead"}
      /\ shown' \in Lists
      /\ mutated' \subseteq Names
      /\ mainQueue' \in Seq(Events)
  BY <1>1, <1>4, <1>6, EmitType DEF TypeInv
<1>8. TypeOK'
  BY <1>1, <1>2, <1>4, <1>5, <1>7 DEF TypeInv, TypeOK
<1>9. AnswersMatch'
  <2> SUFFICES ASSUME NEW k \in 1..Len(commits')
               PROVE  /\ k <= Len(pending'[user])
                      /\ log[commits'[k]].who = user
                      /\ log[commits'[k]].id = pending'[user][k].id
                      /\ log[commits'[k]].name = pending'[user][k].name
                      /\ log[commits'[k]].docs[pending'[user][k].name] = pending'[user][k].doc
    BY <1>1 DEF AnswersMatch
  <2>1. k + 1 \in 1..Len(commits) /\ commits'[k] = commits[k + 1]
    BY <1>1, <1>2
  <2>2. k + 1 <= Len(pending[user])
    BY <2>1 DEF TypeInv, AnswersMatch
  <2>3. k \in 1..Len(pending'[user]) /\ pending'[user][k] = pending[user][k + 1]
    BY <2>1, <2>2, <1>4
  <2> QED
    BY <2>1, <2>3 DEF TypeInv, AnswersMatch
<1> QED
  BY <1>4, <1>8, <1>9 DEF TypeInv

LEMMA RejectKeepsTypeInv ==
  ASSUME TypeInv, Reject
  PROVE  TypeInv'
<1> DEFINE head == Head(pending[user])
           q    == Tail(pending[user])
<1>1. /\ pending[user] # <<>>
      /\ rejected' = rejected \cup {head.id}
      /\ pending' = [pending EXCEPT ![user] = q]
      /\ Emit({head.name}, q, known, watched, FALSE)
      /\ commits = <<>>
      /\ UNCHANGED <<log, watched, known, user, commits, issued, worker, groceries,
                     incidents>>
  BY DEF Reject
<1>2. UNCHANGED issued
  BY <1>1
<1>3. /\ q \in Seq(Writes)
      /\ head.id \in 1..issued
      /\ pending' \in [Users -> Seq(Writes)]
      /\ IdsIssued'
  BY <1>1, <1>2, AnsweredQueue
<1>4. known \in [Names -> 0..Len(log)]
  BY DEF TypeInv, TypeOK
<1> HIDE DEF head, q
<1>5. /\ listener' \in {"none", "waiting", "live", "dead"}
      /\ shown' \in Lists
      /\ mutated' \subseteq Names
      /\ mainQueue' \in Seq(Events)
  BY <1>1, <1>3, <1>4, EmitType DEF TypeInv
<1>6. TypeOK'
  BY <1>1, <1>3, <1>5 DEF TypeInv, TypeOK
<1>7. AnswersMatch'
  BY <1>1 DEF AnswersMatch
<1> QED
  BY <1>3, <1>6, <1>7 DEF TypeInv

LEMMA WatchSnapshotKeepsTypeInv ==
  ASSUME TypeInv, NEW v \in watched..Len(log), WatchSnapshot(v)
  PROVE  TypeInv'
<1> DEFINE kn == [n \in Names |-> Newer(known[n], v)]
<1>1. /\ known' = kn
      /\ Emit(Updates(v), pending[user], kn, v, TRUE)
      /\ watched' = v
      /\ UNCHANGED <<log, user, pending, commits, rejected, issued, worker, groceries,
                     incidents>>
  BY DEF WatchSnapshot
<1>2. v \in 0..Len(log) /\ kn \in [Names -> v..Len(log)]
  <2>1. known \in [Names -> watched..Len(log)] /\ watched \in 0..Len(log)
        /\ Len(log) \in Nat
    BY DEF TypeInv, TypeOK
  <2>2. \A n \in Names : Newer(known[n], v) \in v..Len(log)
    BY <2>1 DEF Newer
  <2> QED
    BY <2>1, <2>2
<1>3. kn \in [Names -> 0..Len(log)] /\ pending[user] \in Seq(Writes)
  BY <1>2 DEF TypeInv, TypeOK
<1> HIDE DEF kn
<1>4. /\ listener' \in {"none", "waiting", "live", "dead"}
      /\ shown' \in Lists
      /\ mutated' \subseteq Names
      /\ mainQueue' \in Seq(Events)
  BY <1>1, <1>3, EmitType DEF TypeInv
<1>5. TypeOK'
  BY <1>1, <1>2, <1>4 DEF TypeInv, TypeOK
<1>6. IdsIssued' /\ AnswersMatch'
  BY <1>1 DEF TypeInv, IdsIssued, AnswersMatch
<1> QED
  BY <1>5, <1>6 DEF TypeInv

LEMMA NoRowsType == NoRows \in Lists
BY DEF NoRows, Lists, Values

\* The events of the listener that no document causes, and their delivery.
LEMMA EventsKeepTypeInv ==
  ASSUME TypeInv, Offline \/ ListenFails \/ Deliver
  PROVE  TypeInv'
<1>1. /\ Snapshot(shown) \in Events
      /\ Failure \in Events
      /\ NoRows \in Lists
  BY NoRowsType DEF TypeInv, TypeOK, Snapshot, Failure, Events
<1>2. /\ mainQueue \in Seq(Events)
      /\ Append(mainQueue, Snapshot(shown)) \in Seq(Events)
      /\ Append(mainQueue, Failure) \in Seq(Events)
  BY <1>1, AppendProperties DEF TypeInv, TypeOK
<1>3. IdsIssued' /\ AnswersMatch'
  BY DEF TypeInv, IdsIssued, AnswersMatch, diskVars, Offline, ListenFails, Deliver
<1>4. CASE Offline
  <2>1. TypeOK'
    BY <1>2, <1>4 DEF TypeInv, TypeOK, Offline, GivesUp, diskVars
  <2> QED
    BY <1>3, <2>1 DEF TypeInv
<1>5. CASE ListenFails
  <2>1. TypeOK'
    BY <1>1, <1>2, <1>5 DEF TypeInv, TypeOK, ListenFails, diskVars
  <2> QED
    BY <1>3, <2>1 DEF TypeInv
<1>6. CASE Deliver
  <2>1. Head(mainQueue) \in Events /\ Tail(mainQueue) \in Seq(Events)
    BY <1>2, <1>6, TailShifts DEF Deliver
  <2>2. Head(mainQueue).rows \in Lists
    BY <2>1 DEF Events
  <2>3. groceries' \in Lists /\ mainQueue' \in Seq(Events)
    BY <1>1, <2>1, <2>2, <1>6 DEF Deliver
  <2>4. TypeOK'
    BY <2>3, <1>6 DEF TypeInv, TypeOK, Deliver, diskVars
  <2> QED
    BY <1>3, <2>4 DEF TypeInv
<1> QED
  BY <1>4, <1>5, <1>6

LEMMA StreamBreaksKeepsTypeInv ==
  ASSUME TypeInv, StreamBreaks
  PROVE  TypeInv'
<1>1. mainQueue' \in Seq(Events) /\ listener' \in {"none", "waiting", "live", "dead"}
  <2>1. mainQueue \in Seq(Events) /\ Snapshot(shown) \in Events
    BY DEF TypeInv, TypeOK, Snapshot, Events
  <2>2. Append(mainQueue, Snapshot(shown)) \in Seq(Events)
    BY <2>1, AppendProperties
  <2>3. CASE GivesUp
    BY <2>2, <2>3 DEF GivesUp
  <2>4. CASE UNCHANGED viewVars
    BY <2>1, <2>4 DEF TypeInv, TypeOK, viewVars
  <2> QED
    BY <2>3, <2>4 DEF StreamBreaks
<1>2. UNCHANGED <<shown, mutated>>
  BY DEF StreamBreaks, GivesUp, viewVars
<1>3. TypeOK'
  BY <1>1, <1>2 DEF TypeInv, TypeOK, StreamBreaks, diskVars
<1>4. IdsIssued' /\ AnswersMatch'
  BY DEF TypeInv, IdsIssued, AnswersMatch, StreamBreaks, diskVars
<1> QED
  BY <1>3, <1>4 DEF TypeInv

LEMMA RestartKeepsTypeInv ==
  ASSUME TypeInv, Restart
  PROVE  TypeInv'
<1>1. TypeOK'
  BY NoRowsType DEF TypeInv, TypeOK, Restart, diskVars
<1>2. IdsIssued' /\ AnswersMatch'
  BY DEF TypeInv, IdsIssued, AnswersMatch, Restart, diskVars
<1> QED
  BY <1>1, <1>2 DEF TypeInv

LEMMA OtherDeviceKeepsTypeInv ==
  ASSUME TypeInv, NEW n \in Names, NEW d \in Values, OtherDeviceWrites(n, d)
  PROVE  TypeInv'
<1> DEFINE c == [who |-> OtherDevice, id |-> 0, name |-> n,
                 docs |-> [Cloud EXCEPT ![n] = d]]
<1>1. /\ log' = Append(log, c)
      /\ UNCHANGED <<diskVars, user, commits, worker, viewVars, groceries, incidents>>
  BY DEF OtherDeviceWrites
<1>2. Cloud \in Lists
  BY CloudType DEF TypeInv
<1>3. c \in Commits
  BY <1>2 DEF Commits, Lists
<1> HIDE DEF c
<1>4. /\ log' \in Seq(Commits)
      /\ Len(log) \in Nat
      /\ Len(log') = Len(log) + 1
      /\ \A v \in 1..Len(log) : log'[v] = log[v]
  BY <1>1, <1>3, LogGrows DEF TypeInv, TypeOK
<1>5. /\ commits \in Seq(1..Len(log'))
      /\ known' \in [Names -> watched'..Len(log')]
      /\ watched' \in 0..Len(log')
  <2>1. 1..Len(log) \subseteq 1..Len(log') /\ watched..Len(log) \subseteq watched..Len(log')
    BY <1>4 DEF TypeInv, TypeOK
  <2> QED
    BY <2>1, <1>1, <1>4 DEF TypeInv, TypeOK, diskVars
<1>6. TypeOK'
  BY <1>1, <1>4, <1>5 DEF TypeInv, TypeOK, diskVars, viewVars
<1>7. IdsIssued'
  BY <1>1 DEF TypeInv, IdsIssued, diskVars
<1>8. AnswersMatch'
  <2>1. \A k \in 1..Len(commits) : commits[k] \in 1..Len(log)
    BY DEF TypeInv, TypeOK
  <2> QED
    BY <1>1, <1>4, <2>1 DEF TypeInv, AnswersMatch, diskVars
<1> QED
  BY <1>6, <1>7, <1>8 DEF TypeInv

\* One step keeps the types.
LEMMA TypeInvStep == TypeInv /\ [Next]_vars => TypeInv'
<1> SUFFICES ASSUME TypeInv, [Next]_vars
             PROVE  TypeInv'
  OBVIOUS
<1>1. CASE GetAllGroceries
  <2>1. [op |-> "listen"] \in Tasks
    BY DEF Tasks
  <2> QED
    BY <1>1, <2>1, CallsKeepTypeInv
       DEF GetAllGroceries, OnlyEnqueues, TypeInv, TypeOK
<1>2. ASSUME NEW n \in Names, NEW d \in Values, WriteGrocery(n, d) \/ WriteRow(n, d)
      PROVE  TypeInv'
  <2>1. [op |-> "write", name |-> n, doc |-> d] \in Tasks
    BY DEF Tasks
  <2>2. groceries' \in Lists
    <3>1. groceries \in Lists
      BY DEF TypeInv, TypeOK
    <3> QED
      BY <1>2, <3>1 DEF WriteGrocery, WriteRow, Lists
  <2>3. EnqueueWrite(n, d)
    BY <1>2 DEF WriteGrocery, WriteRow
  <2> QED
    BY <2>1, <2>2, <2>3, CallsKeepTypeInv DEF EnqueueWrite, OnlyEnqueues, TypeInv, TypeOK
<1>3. ASSUME NEW u \in Users, SignIn(u)
      PROVE  TypeInv'
  <2>1. [op |-> "signIn", user |-> u] \in Tasks
    BY DEF Tasks
  <2> QED
    BY <1>3, <2>1, CallsKeepTypeInv DEF SignIn, TypeInv, TypeOK
<1>4. CASE Sync
  <2>1. CASE RunListen \/ RunWrite \/ RunSignIn
    BY <2>1, RunListenKeepsTypeInv, RunWriteKeepsTypeInv, RunSignInKeepsTypeInv
  <2>2. CASE Commit \/ Ack
    BY <2>2, CommitKeepsTypeInv, AckKeepsTypeInv
  <2>3. ASSUME NEW v \in watched..Len(log), WatchSnapshot(v)
        PROVE  TypeInv'
    BY <2>3, WatchSnapshotKeepsTypeInv
  <2> QED
    BY <1>4, <2>1, <2>2, <2>3 DEF Sync
<1>5. CASE Deliver \/ Reject \/ StreamBreaks \/ Offline \/ ListenFails \/ Restart
  BY <1>5, RejectKeepsTypeInv, StreamBreaksKeepsTypeInv, EventsKeepTypeInv,
     RestartKeepsTypeInv
<1>6. ASSUME NEW n \in Names, NEW d \in Values, OtherDeviceWrites(n, d)
      PROVE  TypeInv'
  BY <1>6, OtherDeviceKeepsTypeInv
<1>7. CASE UNCHANGED vars
  BY <1>7 DEF vars, TypeInv, TypeOK, IdsIssued, AnswersMatch
<1> QED
  BY <1>1, <1>2, <1>3, <1>4, <1>5, <1>6, <1>7 DEF Next

LEMMA TypeInvInit == Init => TypeInv
<1> SUFFICES ASSUME Init
             PROVE  TypeInv
  OBVIOUS
<1>1. known \in [Names -> watched..Len(log)]
  BY DEF Init
<1>2. TypeOK
  BY <1>1, StoreAssumption, NoRowsType DEF Init, TypeOK
<1>3. IdsIssued /\ AnswersMatch
  BY DEF Init, IdsIssued, AnswersMatch
<1> QED
  BY <1>2, <1>3 DEF TypeInv

\* Every variable of the data path keeps its type, in particular: the cache is
\* never behind the last watch snapshot nor ahead of the cloud.
THEOREM TypeCorrect == Spec => []TypeOK
<1>1. TypeInv => TypeOK
  BY DEF TypeInv
<1> QED
  BY TypeInvInit, TypeInvStep, <1>1, PTL DEF Spec

\* Whatever answer arrives next is the answer to the head of the mutation
\* queue of the signed-in user: the write stream may match them by position.
THEOREM AnswersMatchAlways == Spec => []AnswersMatch
<1>1. TypeInv => AnswersMatch
  BY DEF TypeInv
<1> QED
  BY TypeInvInit, TypeInvStep, <1>1, PTL DEF Spec

-----------------------------------------------------------------------------
(* That the list on the screen agrees with the cache and the pending       *)
(* writes.                                                                 *)

(* What recomputing some documents of the view does. *)

\* The documents that are recomputed become what the device holds, but for the
\* ones the view waits for; the others stay.
LEMMA EmitShows ==
  ASSUME NEW changed, NEW q, NEW kn, NEW w, NEW synced,
         TypeOK,
         Emit(changed, q, kn, w, synced)
  PROVE  /\ listener' \in {"waiting", "live"} => listener \in {"waiting", "live"}
         /\ listener \in {"waiting", "live"} =>
              \A n \in Names : n \in changed =>
                \/ shown'[n] = LocalView(q, kn)[n]
                \/ n \in mutated' /\ kn[n] > w /\ n \notin Keys(q)
         /\ \A n \in Names : n \notin changed =>
              shown'[n] = shown[n] /\ (n \in mutated' <=> n \in mutated)
<1>1. CASE listener \in {"none", "dead"}
  BY <1>1 DEF Emit, viewVars
<1>2. CASE listener \notin {"none", "dead"}
  <2> DEFINE new == LocalView(q, kn)
             replaced == Replaced(changed, q, kn, w)
             rows == [n \in Names |-> IF n \in replaced THEN new[n] ELSE shown[n]]
             marked == {n \in replaced : n \in Keys(q) /\ rows[n] # NoDoc}
  <2>1. /\ shown' = rows
        /\ mutated' = (mutated \ replaced) \cup marked
        /\ listener' \in {listener, "live"}
    BY <1>2 DEF Emit
  <2>2. \A n : n \in marked => n \in replaced
    OBVIOUS
  <2>3. \A n : n \in replaced => n \in changed
    BY DEF Replaced
  <2>4. ASSUME NEW n \in changed, n \notin replaced, shown[n] # new[n]
        PROVE  n \in mutated /\ kn[n] > w /\ n \notin Keys(q)
    BY <2>4 DEF Replaced, ShouldWaitForSyncedDocument
  <2> HIDE DEF new, replaced, marked
  <2>5. \A n \in Names : shown'[n] = IF n \in replaced THEN new[n] ELSE shown[n]
    BY <2>1 DEF TypeOK, Lists
  <2>6. \A n : n \notin replaced => (n \in mutated' <=> n \in mutated)
    BY <2>1, <2>2
  <2>7. ASSUME NEW n \in Names, n \in changed
        PROVE  \/ shown'[n] = new[n]
               \/ n \in mutated' /\ kn[n] > w /\ n \notin Keys(q)
    BY <2>4, <2>5, <2>6, <2>7
  <2>8. \A n \in Names : n \notin changed =>
          shown'[n] = shown[n] /\ (n \in mutated' <=> n \in mutated)
    BY <2>3, <2>5, <2>6
  <2>9. listener' \in {"waiting", "live"} => listener \in {"waiting", "live"}
    BY <1>2, <2>1 DEF TypeOK
  <2> QED
    BY <2>7, <2>8, <2>9 DEF new
<1> QED
  BY <1>1, <1>2

\* A row that is right already stays.
LEMMA EmitKeepsWhatIsRight ==
  ASSUME NEW changed, NEW q, NEW kn, NEW w, NEW synced,
         TypeOK,
         Emit(changed, q, kn, w, synced),
         NEW n \in Names, shown[n] = LocalView(q, kn)[n]
  PROVE  shown'[n] = shown[n]
<1>1. CASE listener \in {"none", "dead"}
  BY <1>1 DEF Emit, viewVars
<1>2. CASE listener \notin {"none", "dead"}
  BY <1>2 DEF Emit
<1> QED
  BY <1>1, <1>2

\* The view was fresh and is recomputed for the queue `q', the cache `kn' and
\* the watch version `w' that the step leaves.
Recomputes(changed, q, kn, w, synced) ==
  /\ TypeOK /\ ListIsFresh /\ UNCHANGED log
  /\ q = pending'[user'] /\ kn = known' /\ w = watched'
  /\ Emit(changed, q, kn, w, synced)

\* The names left out look the same before and after the step.
Unaffected(changed, q, kn, w) ==
  \A n \in Names : n \notin changed =>
    /\ LocalView(q, kn)[n] = LocalView(pending[user], known)[n]
    /\ known[n] > watched /\ n \notin Keys(pending[user])
         => kn[n] > w /\ n \notin Keys(q)

\* After a step that recomputes the documents `changed', the list is fresh if
\* the others mean what they meant before.
LEMMA FreshAfterEmit ==
  ASSUME NEW changed, NEW q, NEW kn, NEW w, NEW synced,
         Recomputes(changed, q, kn, w, synced), Unaffected(changed, q, kn, w)
  PROVE  ListIsFresh'
<1> USE DEF Recomputes, Unaffected
<1>1. LocalView(pending[user], known)' = LocalView(q, kn)
  BY DEF LocalView, DocAt
<1>2. Keys(pending[user])' = Keys(q)
  BY DEF Keys
<1> SUFFICES ASSUME listener' \in {"waiting", "live"}, NEW n \in Names
             PROVE  \/ shown'[n] = LocalView(q, kn)[n]
                    \/ n \in mutated' /\ kn[n] > w /\ n \notin Keys(q)
  BY <1>1, <1>2 DEF ListIsFresh, ShouldWaitForSyncedDocument
<1>3. listener \in {"waiting", "live"}
  BY EmitShows
<1>4. CASE n \in changed
  BY <1>3, <1>4, EmitShows
<1>5. CASE n \notin changed
  <2>1. shown'[n] = shown[n] /\ (n \in mutated' <=> n \in mutated)
    BY <1>5, EmitShows
  <2>2. \/ shown[n] = LocalView(pending[user], known)[n]
        \/ n \in mutated /\ known[n] > watched /\ n \notin Keys(pending[user])
    BY <1>3 DEF ListIsFresh, ShouldWaitForSyncedDocument
  <2> QED
    BY <1>5, <2>1, <2>2
<1> QED
  BY <1>4, <1>5

-----------------------------------------------------------------------------
(* The history of the collection. *)

\* A document stays the same from one version to another when no commit in
\* between is on its name.
LogCoherent ==
  \A j \in 0..Len(log) : \A i \in 0..j : \A n \in Names :
    (\A k \in (i+1)..j : log[k].name # n) => DocAt(i, n) = DocAt(j, n)

\* What the cache knows beyond the last watch snapshot, it knows from the
\* acknowledgement of a write on that name.
KnownIsCommit ==
  \A n \in Names : known[n] > watched => log[known[n]].name = n

LEMMA LogCoherentAfterCommit ==
  ASSUME TypeOK, LogCoherent, NEW c \in Commits, NEW d, log' = Append(log, c),
         c.docs = [Cloud EXCEPT ![c.name] = d]
  PROVE  LogCoherent'
<1> DEFINE L == Len(log) + 1
<1>1. /\ Len(log) \in Nat /\ Len(log') = L
      /\ \A v \in 1..Len(log) : log'[v] = log[v]
      /\ log'[L] = c
      /\ \A v \in 0..Len(log) : \A n : DocAt(v, n)' = DocAt(v, n)
  BY LogGrows DEF TypeOK
<1> HIDE DEF L
<1>0. L = Len(log) + 1
  BY DEF L
<1> SUFFICES ASSUME NEW j \in 0..L, NEW i \in 0..j, NEW n \in Names,
                    \A k \in (i+1)..j : log'[k].name # n
             PROVE  DocAt(i, n)' = DocAt(j, n)'
  BY <1>1 DEF LogCoherent
<1>2. CASE j \in 0..Len(log)
  <2>1. i \in 0..Len(log) /\ \A k \in (i+1)..j : k \in 1..Len(log)
    BY <1>0, <1>1, <1>2
  <2>2. \A k \in (i+1)..j : log[k].name # n
    BY <1>0, <1>1, <2>1
  <2>3. DocAt(i, n) = DocAt(j, n)
    BY <1>2, <2>2 DEF LogCoherent
  <2> QED
    BY <1>0, <1>1, <1>2, <2>1, <2>3
<1>3. CASE j = L /\ i = L
  BY <1>3
<1>4. CASE j = L /\ i # L
  <2>1. i \in 0..Len(log) /\ Len(log) \in 0..Len(log) /\ i \in 0..Len(log)
    BY <1>0, <1>1, <1>4
  <2>2. \A k \in (i+1)..Len(log) : log[k].name # n
    <3>1. \A k \in (i+1)..Len(log) : k \in 1..Len(log) /\ k \in (i+1)..j
      BY <1>0, <1>1, <1>4
    <3> QED
      BY <1>0, <1>1, <3>1
  <2>3. DocAt(i, n) = DocAt(Len(log), n)
    BY <2>1, <2>2 DEF LogCoherent
  <2>4. L \in (i+1)..j
    BY <1>0, <1>1, <1>4
  <2>5. c.name # n
    BY <1>0, <1>1, <2>4
  <2>6. c.docs[n] = DocAt(Len(log), n)
    <3>1. Cloud[n] = DocAt(Len(log), n)
      BY DEF Cloud
    <3>2. [Cloud EXCEPT ![c.name] = d][n] = Cloud[n]
      BY <2>5 DEF Cloud
    <3> QED
      BY <3>1, <3>2
  <2>7. DocAt(j, n)' = log'[j].docs[n]
    BY <1>0, <1>1, <1>4 DEF DocAt
  <2>8. log'[j].docs[n] = c.docs[n]
    BY <1>1, <1>4
  <2>9. DocAt(i, n)' = DocAt(i, n)
    BY <1>1, <2>1
  <2> QED
    BY <2>3, <2>6, <2>7, <2>8, <2>9
<1> QED
  BY <1>0, <1>1, <1>2, <1>3, <1>4

-----------------------------------------------------------------------------
(* The list is fresh. *)

ViewInv == LogCoherent /\ KnownIsCommit /\ ListIsFresh

LEMMA ViewTypes ==
  ASSUME TypeInv
  PROVE  /\ user \in Users /\ pending \in [Users -> Seq(Writes)]
         /\ pending[user] \in Seq(Writes)
         /\ Len(log) \in Nat /\ watched \in 0..Len(log)
         /\ \A n \in Names : known[n] \in watched..Len(log)
         /\ known \in [Names -> watched..Len(log)]
BY DEF TypeInv, TypeOK

LEMMA HistoryStays ==
  ASSUME LogCoherent, KnownIsCommit, UNCHANGED <<log, watched, known>>
  PROVE  LogCoherent' /\ KnownIsCommit'
<1>1. LogCoherent'
  BY DEF LogCoherent, DocAt
<1>2. KnownIsCommit'
  BY DEF KnownIsCommit
<1> QED
  BY <1>1, <1>2

\* Steps that leave the view and all it is made of alone.
LEMMA QuietStepsKeepView ==
  ASSUME ViewInv, UNCHANGED <<log, watched, known, pending, user>>,
         \/ UNCHANGED <<shown, mutated>> /\ (listener' = listener \/ listener = "waiting")
         \/ listener' \notin {"waiting", "live"}
  PROVE  ViewInv'
<1>1. LogCoherent' /\ KnownIsCommit'
  BY HistoryStays DEF ViewInv
<1>2. LocalView(pending[user], known)' = LocalView(pending[user], known)
  BY DEF LocalView, DocAt
<1>3. Keys(pending[user])' = Keys(pending[user])
  BY DEF Keys
<1>4. ListIsFresh'
  BY <1>2, <1>3 DEF ViewInv, ListIsFresh, ShouldWaitForSyncedDocument
<1> QED
  BY <1>1, <1>4 DEF ViewInv

\* A new view shows what the device holds.
LEMMA RunListenKeepsView ==
  ASSUME ViewInv, RunListen
  PROVE  ViewInv'
<1>1. /\ shown' = LocalView(pending[user], known)
      /\ UNCHANGED <<log, watched, known, pending, user>>
  BY DEF RunListen, diskVars
<1>2. LocalView(pending[user], known)' = LocalView(pending[user], known)
  BY <1>1 DEF LocalView, DocAt
<1>3. LogCoherent' /\ KnownIsCommit'
  BY <1>1, HistoryStays DEF ViewInv
<1>4. ListIsFresh'
  BY <1>1, <1>2 DEF ListIsFresh
<1> QED
  BY <1>3, <1>4 DEF ViewInv

\* A write changes no other document than its own.
LEMMA RunWriteKeepsView ==
  ASSUME TypeInv, ViewInv, RunWrite
  PROVE  ViewInv'
<1> DEFINE m == [id |-> issued + 1, name |-> Head(worker).name, doc |-> Head(worker).doc]
           q == Append(pending[user], m)
<1>1. /\ pending' = [pending EXCEPT ![user] = q]
      /\ Emit({Head(worker).name}, q, known, watched, FALSE)
      /\ UNCHANGED <<log, watched, known, user>>
  BY DEF RunWrite
<1>2. Head(worker) \in Tasks /\ Head(worker).op = "write"
  BY TaskType DEF TypeInv, RunWrite
<1>3. m \in Writes /\ m.name = Head(worker).name
  BY <1>2 DEF Tasks, Writes, TypeInv, TypeOK
<1> HIDE DEF m
<1>4. q = pending'[user']
  <2>1. user \in Users /\ pending \in [Users -> Seq(Writes)] /\ user' = user
    BY <1>1, ViewTypes
  <2> HIDE DEF q
  <2> QED
    BY <1>1, <2>1
<1>5. ASSUME NEW n \in Names, n # m.name
      PROVE  /\ LocalView(q, known)[n] = LocalView(pending[user], known)[n]
             /\ n \in Keys(q) => n \in Keys(pending[user])
  <2>1. pending[user] \in Seq(Writes)
    BY ViewTypes
  <2>2. ASSUME NEW p \in Seq(Writes), NEW base
        PROVE  /\ Overlay(Append(p, m), n, base) = Overlay(p, n, base)
               /\ Keys(Append(p, m)) = Keys(p) \cup {m.name}
    BY <1>3, <1>5, OverlayAppend
  <2>3. /\ Overlay(q, n, DocAt(known[n], n)) = Overlay(pending[user], n, DocAt(known[n], n))
        /\ Keys(q) = Keys(pending[user]) \cup {m.name}
    BY <2>1, <2>2
  <2> HIDE DEF q
  <2> QED
    BY <1>5, <2>3 DEF LocalView
<1> HIDE DEF q
<1>6. Unaffected({m.name}, q, known, watched)
  BY <1>5 DEF Unaffected
<1>7. Recomputes({m.name}, q, known, watched, FALSE)
  BY <1>1, <1>3, <1>4 DEF ViewInv, TypeInv, Recomputes
<1>8. ListIsFresh'
  BY <1>6, <1>7, FreshAfterEmit
<1> QED
  BY <1>1, <1>8, HistoryStays DEF ViewInv

\* A document that neither queue mentions is the cached one for both users.
LEMMA RunSignInKeepsView ==
  ASSUME TypeInv, ViewInv, RunSignIn
  PROVE  ViewInv'
<1> DEFINE changed == IF user' = user THEN {} ELSE Keys(pending[user]) \cup Keys(pending[user'])
           q == pending[user']
<1>1. /\ Emit(changed, q, known, watched, FALSE)
      /\ UNCHANGED <<log, watched, known, pending>>
  BY DEF RunSignIn, diskVars
<1>2. ASSUME NEW n \in Names, n \notin changed
      PROVE  /\ LocalView(q, known)[n] = LocalView(pending[user], known)[n]
             /\ n \in Keys(q) => n \in Keys(pending[user])
  <2>1. CASE user' = user
    BY <2>1
  <2>2. CASE n \notin Keys(q) /\ n \notin Keys(pending[user])
    BY <2>2 DEF LocalView, Overlay
  <2> QED
    BY <1>2, <2>1, <2>2
<1> HIDE DEF changed
<1>3. Unaffected(changed, q, known, watched)
  BY <1>2 DEF Unaffected
<1>4. Recomputes(changed, q, known, watched, FALSE)
  BY <1>1 DEF ViewInv, TypeInv, Recomputes
<1> HIDE DEF q
<1>5. ListIsFresh'
  BY <1>3, <1>4, FreshAfterEmit
<1> QED
  BY <1>1, <1>5, HistoryStays DEF ViewInv

\* A commit is news the device does not have yet.
LEMMA NewCommitKeepsView ==
  ASSUME TypeInv, ViewInv, NEW c \in Commits, NEW d, log' = Append(log, c),
         c.docs = [Cloud EXCEPT ![c.name] = d],
         UNCHANGED <<watched, known, pending, user, listener, shown, mutated>>
  PROVE  ViewInv'
<1>1. /\ \A v \in 1..Len(log) : log'[v] = log[v]
      /\ \A v \in 0..Len(log) : \A n : DocAt(v, n)' = DocAt(v, n)
  BY LogGrows DEF TypeInv, TypeOK
<1>2. \A n \in Names : known[n] \in 0..Len(log) /\ (known[n] > watched => known[n] \in 1..Len(log))
  BY ViewTypes
<1>3. LogCoherent'
  BY LogCoherentAfterCommit DEF ViewInv, TypeInv
<1>4. KnownIsCommit'
  BY <1>1, <1>2 DEF ViewInv, KnownIsCommit
<1>5. LocalView(pending[user], known)' = LocalView(pending[user], known)
  <2>1. \A n \in Names : DocAt(known[n], n)' = DocAt(known[n], n)
    <3> SUFFICES ASSUME NEW n \in Names
                 PROVE  DocAt(known[n], n)' = DocAt(known[n], n)
      OBVIOUS
    <3>1. known[n]' = known[n] /\ known[n] \in 0..Len(log)
      BY <1>2
    <3>2. \A v \in 0..Len(log) : IF v = 0 THEN TRUE ELSE log'[v].docs[n] = log[v].docs[n]
      BY <1>1
    <3> QED
      BY <3>1, <3>2 DEF DocAt
  <2>2. \A n \in Names : Overlay(pending[user], n, DocAt(known[n], n))'
                          = Overlay(pending[user], n, DocAt(known[n], n))
    BY <2>1 DEF Overlay, Keys, IsLastOn
  <2> QED
    BY <2>2 DEF LocalView
<1>6. Keys(pending[user])' = Keys(pending[user])
  BY DEF Keys
<1>7. ListIsFresh'
  BY <1>5, <1>6 DEF ViewInv, ListIsFresh, ShouldWaitForSyncedDocument
<1> QED
  BY <1>3, <1>4, <1>7 DEF ViewInv

LEMMA CommitsKeepView ==
  ASSUME TypeInv, ViewInv, Commit \/ \E n \in Names, d \in Values : OtherDeviceWrites(n, d)
  PROVE  ViewInv'
<1>1. CASE Commit
  <2> DEFINE m == pending[user][Len(commits) + 1]
             c == [who |-> user, id |-> m.id, name |-> m.name,
                   docs |-> [Cloud EXCEPT ![m.name] = m.doc]]
  <2>1. c \in Commits /\ log' = Append(log, c)
    BY <1>1, CommitIsOfQueue
  <2>2. c.docs = [Cloud EXCEPT ![c.name] = m.doc]
    OBVIOUS
  <2>3. UNCHANGED <<watched, known, pending, user, listener, shown, mutated>>
    BY <1>1 DEF Commit, diskVars, viewVars
  <2> HIDE DEF m, c
  <2> QED
    BY <2>1, <2>2, <2>3, NewCommitKeepsView
<1>2. ASSUME NEW n \in Names, NEW d \in Values, OtherDeviceWrites(n, d)
      PROVE  ViewInv'
  <2> DEFINE c == [who |-> OtherDevice, id |-> 0, name |-> n,
                   docs |-> [Cloud EXCEPT ![n] = d]]
  <2>1. log' = Append(log, c)
    BY <1>2 DEF OtherDeviceWrites
  <2>2. c.docs = [Cloud EXCEPT ![c.name] = d]
    OBVIOUS
  <2>3. c \in Commits
    <3>1. \A k \in Names : Cloud[k] \in Values
      <4>1. log \in Seq(Commits) /\ Len(log) \in 0..Len(log)
        BY ViewTypes DEF TypeInv, TypeOK
      <4> QED
        BY <4>1, DocAtType DEF Cloud
    <3> QED
      BY <3>1 DEF Commits, Lists, Cloud
  <2>4. UNCHANGED <<watched, known, pending, user, listener, shown, mutated>>
    BY <1>2 DEF OtherDeviceWrites, diskVars, viewVars
  <2> HIDE DEF c
  <2> QED
    BY <2>1, <2>2, <2>3, <2>4, NewCommitKeepsView
<1> QED
  BY <1>1, <1>2

\* An answer changes what the device holds of the answered document only.
LEMMA AnswerStep ==
  ASSUME TypeInv, Ack \/ Reject
  PROVE  /\ pending[user] \in Seq(Writes) /\ pending[user] # <<>>
         /\ pending'[user] = Tail(pending[user])
         /\ Head(pending[user]).name \in Names
         /\ UNCHANGED <<log, watched, user>>
         /\ Emit({Head(pending[user]).name}, Tail(pending[user]), known', watched, FALSE)
         /\ Reject => UNCHANGED known
         /\ Ack => /\ Head(commits) \in 1..Len(log)
                   /\ known' = [known EXCEPT ![Head(pending[user]).name] =
                                               Newer(@, Head(commits))]
                   /\ log[Head(commits)].name = Head(pending[user]).name
                   /\ log[Head(commits)].docs[Head(pending[user]).name]
                        = Head(pending[user]).doc
<1>1. /\ pending' = [pending EXCEPT ![user] = Tail(pending[user])]
      /\ UNCHANGED <<log, watched, user, issued>>
      /\ Emit({Head(pending[user]).name}, Tail(pending[user]), known', watched, FALSE)
  BY DEF Ack, Reject
<1>2. Reject => UNCHANGED known /\ pending[user] # <<>>
  BY DEF Reject
<1>3. Ack => /\ commits # <<>>
             /\ known' = [known EXCEPT ![Head(pending[user]).name] =
                                         Newer(@, Head(commits))]
  BY DEF Ack
<1>4. Ack => /\ pending[user] # <<>> /\ Head(commits) = commits[1]
             /\ 1 \in 1..Len(commits) /\ Head(commits) \in 1..Len(log)
  BY <1>3, AnswerHasWrite
<1>5. UNCHANGED issued /\ pending[user] # <<>>
  BY <1>1, <1>2, <1>4
<1>6. /\ pending[user] \in Seq(Writes)
      /\ Head(pending[user]) = pending[user][1]
      /\ Head(pending[user]) \in Writes
      /\ pending'[user] = Tail(pending[user])
  BY <1>1, <1>5, AnsweredQueue
<1>7. Ack => /\ log[Head(commits)].name = Head(pending[user]).name
             /\ log[Head(commits)].docs[Head(pending[user]).name] = Head(pending[user]).doc
  BY <1>4, <1>6 DEF TypeInv, AnswersMatch
<1>8. Head(pending[user]).name \in Names
  BY <1>6 DEF Writes
<1> QED
  BY <1>1, <1>2, <1>3, <1>4, <1>5, <1>6, <1>7, <1>8

LEMMA AnswerKeepsView ==
  ASSUME TypeInv, ViewInv, Ack \/ Reject
  PROVE  ViewInv'
<1> DEFINE q == Tail(pending[user])
           h == Head(pending[user]).name
<1>1. /\ pending[user] \in Seq(Writes) /\ pending[user] # <<>>
      /\ q = pending'[user'] /\ h \in Names
      /\ UNCHANGED <<log, watched, user>>
      /\ Emit({h}, q, known', watched, FALSE)
      /\ Reject => UNCHANGED known
      /\ Ack => /\ Head(commits) \in 1..Len(log)
                /\ known' = [known EXCEPT ![h] = Newer(@, Head(commits))]
                /\ log[Head(commits)].name = h
  BY AnswerStep
<1>2. \A n \in Names : n # h => known'[n] = known[n]
  BY <1>1, ViewTypes
<1>3. ASSUME NEW n \in Names, n # h
      PROVE  /\ LocalView(q, known')[n] = LocalView(pending[user], known)[n]
             /\ n \in Keys(q) <=> n \in Keys(pending[user])
  <2>1. /\ n \in Keys(q) => Overlay(q, n, DocAt(known[n], n))
                               = Overlay(pending[user], n, DocAt(known[n], n))
        /\ Keys(pending[user]) = Keys(q) \cup {h}
    BY <1>1, OverlayTail
  <2>2. n \notin Keys(q) => Overlay(q, n, DocAt(known[n], n))
                              = Overlay(pending[user], n, DocAt(known[n], n))
    BY <1>3, <2>1 DEF Overlay
  <2>3. known'[n] = known[n]
    BY <1>2, <1>3
  <2> HIDE DEF q, h
  <2> QED
    BY <1>3, <2>1, <2>2, <2>3 DEF LocalView
<1>4. KnownIsCommit'
  <2>1. CASE Reject
    BY <2>1, <1>1 DEF ViewInv, KnownIsCommit
  <2>2. CASE Ack
    <3> SUFFICES ASSUME NEW n \in Names, known'[n] > watched
                 PROVE  log[known'[n]].name = n
      BY <1>1 DEF KnownIsCommit
    <3>1. CASE known'[n] = known[n]
      BY <3>1 DEF ViewInv, KnownIsCommit
    <3>2. CASE known'[n] # known[n]
      <4>1. n = h
        BY <3>2, <1>2
      <4>2. known'[n] = Newer(known[n], Head(commits))
        BY <4>1, <2>2, <1>1, ViewTypes
      <4>3. known'[n] = Head(commits)
        BY <3>2, <4>2 DEF Newer
      <4> QED
        BY <4>1, <4>3, <2>2, <1>1
    <3> QED
      BY <3>1, <3>2
  <2> QED
    BY <2>1, <2>2
<1> HIDE DEF q, h
<1>5. Unaffected({h}, q, known', watched)
  BY <1>2, <1>3 DEF Unaffected
<1>6. Recomputes({h}, q, known', watched, FALSE)
  BY <1>1 DEF ViewInv, TypeInv, Recomputes
<1>7. ListIsFresh'
  BY <1>5, <1>6, FreshAfterEmit
<1>8. LogCoherent'
  BY <1>1 DEF ViewInv, LogCoherent, DocAt
<1> QED
  BY <1>4, <1>7, <1>8 DEF ViewInv

\* A snapshot leaves a document out only if the cached one is as it is in that
\* version already, or newer.
LEMMA WatchSnapshotKeepsView ==
  ASSUME TypeInv, ViewInv, NEW v \in watched..Len(log), WatchSnapshot(v)
  PROVE  ViewInv'
<1> DEFINE q == pending[user]
           changed == Updates(v)
<1>1. /\ known' = [n \in Names |-> Newer(known[n], v)]
      /\ watched' = v
      /\ UNCHANGED <<log, user, pending>>
      /\ Emit(changed, q, known', v, TRUE)
  BY DEF WatchSnapshot
<1>2. /\ Len(log) \in Nat /\ watched \in Nat /\ v \in Nat /\ watched <= v /\ v <= Len(log)
      /\ \A n \in Names : known[n] \in Nat /\ watched <= known[n] /\ known[n] <= Len(log)
  BY ViewTypes
<1>3. \A n \in Names : known'[n] = IF known[n] < v THEN v ELSE known[n]
  BY <1>1 DEF Newer
<1>4. KnownIsCommit'
  <2> SUFFICES ASSUME NEW n \in Names, known'[n] > v
               PROVE  log[known'[n]].name = n
    BY <1>1 DEF KnownIsCommit
  <2>1. known'[n] = known[n] /\ known[n] > watched
    BY <1>2, <1>3
  <2> QED
    BY <2>1 DEF ViewInv, KnownIsCommit
<1>5. ASSUME NEW n \in Names, n \notin changed
      PROVE  /\ LocalView(q, known')[n] = LocalView(q, known)[n]
             /\ known[n] > watched => known'[n] > v
  <2>1. CASE known[n] > v
    <3>1. known'[n] = known[n]
      BY <2>1, <1>2, <1>3
    <3> QED
      BY <2>1, <3>1 DEF LocalView
  <2>2. CASE known[n] <= v
    <3>1. \A k \in (watched+1)..v : log[k].name # n
      BY <1>5, <2>2 DEF Updates
    <3>2. ~ (known[n] > watched)
      <4> SUFFICES ASSUME known[n] > watched
                   PROVE  FALSE
        OBVIOUS
      <4>1. known[n] \in (watched+1)..v
        BY <2>2, <1>2
      <4>2. log[known[n]].name = n
        BY DEF ViewInv, KnownIsCommit
      <4> QED
        BY <3>1, <4>1, <4>2
    <3>3. known'[n] = v
      BY <2>2, <1>2, <1>3
    <3>4. known[n] = watched
      BY <3>2, <1>2
    <3>5. v \in 0..Len(log) /\ watched \in 0..v
      BY <1>2
    <3>6. DocAt(watched, n) = DocAt(v, n)
      BY <3>1, <3>5 DEF ViewInv, LogCoherent
    <3>7. DocAt(known'[n], n) = DocAt(known[n], n)
      BY <3>3, <3>4, <3>6
    <3>8. LocalView(q, known')[n] = LocalView(q, known)[n]
      BY <3>7 DEF LocalView
    <3> QED
      BY <3>2, <3>8
  <2> QED
    BY <2>1, <2>2, <1>2
<1> HIDE DEF changed
<1>6. Unaffected(changed, q, known', v)
  BY <1>5 DEF Unaffected
<1>7. Recomputes(changed, q, known', v, TRUE)
  BY <1>1 DEF ViewInv, TypeInv, Recomputes
<1> HIDE DEF q
<1>8. ListIsFresh'
  BY <1>6, <1>7, FreshAfterEmit
<1>9. LogCoherent'
  <2>1. log' = log
    BY <1>1
  <2> QED
    BY <2>1 DEF ViewInv, LogCoherent, DocAt
<1> QED
  BY <1>4, <1>8, <1>9 DEF ViewInv

LEMMA ViewInvStep == TypeInv /\ ViewInv /\ [Next]_vars => ViewInv'
<1> SUFFICES ASSUME TypeInv, ViewInv, [Next]_vars
             PROVE  ViewInv'
  OBVIOUS
<1> USE DEF diskVars, viewVars
<1>1. CASE GetAllGroceries
  BY <1>1, QuietStepsKeepView DEF GetAllGroceries, OnlyEnqueues
<1>2. ASSUME NEW n \in Names, NEW d \in Values, WriteGrocery(n, d) \/ WriteRow(n, d)
      PROVE  ViewInv'
  BY <1>2, QuietStepsKeepView DEF WriteGrocery, WriteRow, EnqueueWrite, OnlyEnqueues
<1>3. ASSUME NEW u \in Users, SignIn(u)
      PROVE  ViewInv'
  BY <1>3, QuietStepsKeepView DEF SignIn
<1>4. CASE RunListen \/ RunWrite \/ RunSignIn
  BY <1>4, RunListenKeepsView, RunWriteKeepsView, RunSignInKeepsView
<1>5. CASE Commit \/ \E n \in Names, d \in Values : OtherDeviceWrites(n, d)
  BY <1>5, CommitsKeepView
<1>6. CASE Ack \/ Reject
  BY <1>6, AnswerKeepsView
<1>7. ASSUME NEW v \in watched..Len(log), WatchSnapshot(v)
      PROVE  ViewInv'
  BY <1>7, WatchSnapshotKeepsView
<1>8. CASE Deliver
  BY <1>8, QuietStepsKeepView DEF Deliver
<1>9. CASE StreamBreaks
  BY <1>9, QuietStepsKeepView DEF StreamBreaks, GivesUp
<1>10. CASE Offline
  BY <1>10, QuietStepsKeepView DEF Offline, GivesUp
<1>11. CASE ListenFails
  BY <1>11, QuietStepsKeepView DEF ListenFails
<1>12. CASE Restart
  BY <1>12, QuietStepsKeepView DEF Restart
<1>13. CASE UNCHANGED vars
  BY <1>13, QuietStepsKeepView DEF vars
<1> QED
  BY <1>1, <1>2, <1>3, <1>4, <1>5, <1>6, <1>7, <1>8, <1>9, <1>10, <1>11, <1>12, <1>13
  DEF Next, Sync

LEMMA ViewInvInit == Init => ViewInv
<1> SUFFICES ASSUME Init PROVE ViewInv
  OBVIOUS
<1>1. LogCoherent
  <2>1. Len(log) = 0
    BY DEF Init
  <2> QED
    BY <2>1 DEF LogCoherent
<1>2. KnownIsCommit
  BY DEF Init, KnownIsCommit
<1>3. ListIsFresh
  BY DEF Init, ListIsFresh
<1> QED
  BY <1>1, <1>2, <1>3 DEF ViewInv

\* A live list shows, for every name, what the cache and the pending writes
\* say, or a document the view waits for, although the view recomputes no more
\* than the documents a write, an answer or a watch snapshot mentions.
THEOREM ListIsFreshAlways == Spec => []ListIsFresh
<1>1. ViewInv => ListIsFresh
  BY DEF ViewInv
<1> QED
  BY TypeInvInit, TypeInvStep, ViewInvInit, ViewInvStep, <1>1, PTL DEF Spec

-----------------------------------------------------------------------------
(* Acknowledgements. *)

\* The acknowledged document is what the pending write showed already, unless
\* the cache holds a newer one.
LEMMA AckShowsNothingNew ==
  ASSUME TypeInv, ViewInv, Ack, NEW n \in Names, shown'[n] # shown[n]
  PROVE  n = Head(pending[user]).name /\ known[n] > Head(commits)
<1> DEFINE q == Tail(pending[user])
           h == Head(pending[user]).name
           c == Head(commits)
<1>1. /\ pending[user] \in Seq(Writes) /\ pending[user] # <<>> /\ h \in Names
      /\ Emit({h}, q, known', watched, FALSE)
      /\ c \in 1..Len(log)
      /\ known' = [known EXCEPT ![h] = Newer(@, c)]
      /\ log[c].docs[h] = Head(pending[user]).doc
  BY AnswerStep
<1>2. /\ TypeOK
      /\ \A k \in Names : k \notin {h} => shown'[k] = shown[k]
      /\ \A k \in Names : shown[k] = LocalView(q, known')[k] => shown'[k] = shown[k]
  <2>1. TypeOK /\ Emit({h}, q, known', watched, FALSE)
    BY <1>1 DEF TypeInv
  <2> HIDE DEF q, h, c
  <2>2. \A k \in Names : k \notin {h} => shown'[k] = shown[k]
    BY <2>1, EmitShows
  <2>3. \A k \in Names : shown[k] = LocalView(q, known')[k] => shown'[k] = shown[k]
    BY <2>1, EmitKeepsWhatIsRight
  <2> QED
    BY <2>1, <2>2, <2>3
<1>3. n = h
  BY <1>2
<1> SUFFICES ASSUME ~ (known[h] > c)
             PROVE  FALSE
  BY <1>3
<1>4. known[h] \in Nat /\ c \in Nat /\ c # 0
  BY <1>1, ViewTypes
<1>5. known'[h] = c
  <2>1. known'[h] = Newer(known[h], c)
    BY <1>1, ViewTypes
  <2> QED
    BY <1>4, <2>1 DEF Newer
<1>6. listener \in {"waiting", "live"}
  <2>1. CASE listener \in {"none", "dead"}
    BY <1>1, <2>1 DEF Emit, viewVars
  <2> QED
    BY <1>2, <2>1 DEF TypeOK
<1>7. /\ n \in Keys(q) => Overlay(q, n, DocAt(c, n)) = Overlay(pending[user], n, DocAt(c, n))
      /\ n \notin Keys(q) => Overlay(q, n, DocAt(c, n)) = DocAt(c, n)
      /\ n \notin Keys(q) => Overlay(pending[user], n, DocAt(known[n], n))
                               = Head(pending[user]).doc
      /\ n \in Keys(pending[user])
  BY <1>1, <1>3, OverlayTail
<1>8. Overlay(pending[user], n, DocAt(c, n)) = Overlay(pending[user], n, DocAt(known[n], n))
  BY <1>7 DEF Overlay
<1>9. DocAt(c, n) = Head(pending[user]).doc
  BY <1>1, <1>3, <1>4 DEF DocAt
<1>10. LocalView(q, known')[n] = LocalView(pending[user], known)[n]
  <2>1. known'[n] = c
    BY <1>3, <1>5
  <2>2. Overlay(q, n, DocAt(known'[n], n)) = Overlay(pending[user], n, DocAt(known[n], n))
    BY <1>7, <1>8, <1>9, <2>1
  <2> QED
    BY <2>2 DEF LocalView
<1>11. shown[n] = LocalView(pending[user], known)[n]
  BY <1>6, <1>7 DEF ViewInv, ListIsFresh, ShouldWaitForSyncedDocument
<1>12. shown[n] = LocalView(q, known')[n]
  BY <1>10, <1>11
<1> QED
  BY <1>2, <1>12

\* An acknowledgement changes no row on the screen, except by revealing a
\* newer version of that document that the watch stream brought before it.
THEOREM AckDoesNotFlickerEver == Spec => AckDoesNotFlicker
<1>1. TypeInv /\ ViewInv /\ [Next]_vars =>
        [Ack => \A n \in Names :
           shown'[n] # shown[n] => /\ n = Head(pending[user]).name
                                   /\ known[n] > Head(commits)]_vars
  BY AckShowsNothingNew
<1> QED
  BY TypeInvInit, TypeInvStep, ViewInvInit, ViewInvStep, <1>1, PTL
  DEF Spec, AckDoesNotFlicker

-----------------------------------------------------------------------------
(* Events. *)

\* A call leaves the writes that wait where they are.
LEMMA AheadAfterCall ==
  ASSUME TypeInv, NEW task, Enqueue(task), NEW n,
         groceries'[n] = groceries[n], IsAhead(n)
  PROVE  IsAhead(n)'
<1>1. PICK i \in 1..Len(worker) :
        worker[i].op = "write" /\ worker[i].name = n /\ worker[i].doc = groceries[n]
  BY DEF IsAhead
<1>2. worker \in Seq(Tasks \cup {task}) /\ worker' = Append(worker, task)
  BY DEF TypeInv, TypeOK, Enqueue
<1>3. worker'[i] = worker[i] /\ i \in 1..Len(worker')
  BY <1>2, AppendProperties
<1> QED
  BY <1>1, <1>3 DEF IsAhead

\* So does a task, but for the write that it is itself.
LEMMA AheadAfterTask ==
  ASSUME TypeInv, NEW op, NextTask(op), UNCHANGED groceries, NEW n, IsAhead(n),
         ~ /\ Head(worker).op = "write"
           /\ Head(worker).name = n
           /\ Head(worker).doc = groceries[n]
  PROVE  IsAhead(n)'
<1>1. PICK i \in 1..Len(worker) :
        worker[i].op = "write" /\ worker[i].name = n /\ worker[i].doc = groceries[n]
  BY DEF IsAhead
<1>2. worker \in Seq(Tasks) /\ worker # <<>> /\ worker' = Tail(worker)
  BY DEF TypeInv, TypeOK, NextTask
<1>3. /\ Head(worker) = worker[1]
      /\ Len(worker) \in Nat \ {0}
      /\ Len(worker') = Len(worker) - 1
      /\ \A k \in 1..Len(worker') : worker'[k] = worker[k + 1]
  BY <1>2, TailShifts
<1>4. i # 1
  BY <1>1, <1>3
<1>5. i - 1 \in 1..Len(worker') /\ (i - 1) + 1 = i
  BY <1>3, <1>4
<1>6. worker'[i - 1] = worker[i]
  BY <1>3, <1>5
<1> QED
  BY <1>1, <1>5, <1>6 DEF IsAhead

\* A write is in the view as soon as it is accepted.
LEMMA RunWriteShows ==
  ASSUME TypeInv, RunWrite, listener \in {"waiting", "live"}
  PROVE  shown'[Head(worker).name] = Head(worker).doc
<1> DEFINE m == [id |-> issued + 1, name |-> Head(worker).name, doc |-> Head(worker).doc]
           q == Append(pending[user], m)
<1>1. Emit({m.name}, q, known, watched, FALSE)
  BY DEF RunWrite
<1>2. m \in Writes /\ m.name \in Names
  <2>1. Head(worker) \in Tasks /\ Head(worker).op = "write"
    BY TaskType DEF TypeInv, RunWrite
  <2> QED
    BY <2>1 DEF Tasks, Writes, TypeInv, TypeOK
<1>3. m.name = Head(worker).name /\ m.doc = Head(worker).doc
  OBVIOUS
<1> HIDE DEF m
<1>4. pending[user] \in Seq(Writes)
  BY ViewTypes
<1>5. ASSUME NEW base
      PROVE  Overlay(q, m.name, base) = m.doc /\ m.name \in Keys(q)
  BY <1>2, <1>4, OverlayAppend
<1> HIDE DEF q
<1>6. LocalView(q, known)[m.name] = m.doc /\ m.name \in Keys(q)
  BY <1>2, <1>5 DEF LocalView
<1>7. PICK n \in Names : n = m.name
  BY <1>2
<1>8. shown'[n] = LocalView(q, known)[n] \/ n \notin Keys(q)
  <2>1. Emit({n}, q, known, watched, FALSE) /\ TypeOK
    BY <1>1, <1>7 DEF TypeInv
  <2>2. \A k \in Names : k \in {n} =>
          \/ shown'[k] = LocalView(q, known)[k]
          \/ k \in mutated' /\ known[k] > watched /\ k \notin Keys(q)
    BY <2>1, EmitShows
  <2> QED
    BY <2>2
<1> QED
  BY <1>3, <1>6, <1>7, <1>8

\* An event carries the view; without one a row may be ahead, until its write
\* shows the same.
LEMMA EventsOfView ==
  ASSUME TypeInv, LastEventIsShown, UNCHANGED groceries,
         NEW changed, NEW q, NEW kn, NEW w, NEW synced, Emit(changed, q, kn, w, synced),
         listener = "live" =>
           \A n \in Names : IsAhead(n) => IsAhead(n)' \/ shown'[n] = groceries[n]
  PROVE  LastEventIsShown'
<1>1. CASE listener \in {"none", "dead"}
  BY <1>1 DEF Emit, viewVars, LastEventIsShown
<1>2. CASE listener \notin {"none", "dead"}
  <2> DEFINE rows == [n \in Names |-> IF n \in Replaced(changed, q, kn, w)
                                      THEN LocalView(q, kn)[n] ELSE shown[n]]
  <2>1. /\ shown' = rows
        /\ listener' = IF Raises(rows, synced) THEN "live" ELSE listener
        /\ mainQueue' = IF Raises(rows, synced) THEN Append(mainQueue, Snapshot(rows))
                                                 ELSE mainQueue
    BY <1>2 DEF Emit
  <2> HIDE DEF rows
  <2>2. CASE Raises(rows, synced)
    <3>1. mainQueue \in Seq(Events \cup {Snapshot(rows)})
      BY DEF TypeInv, TypeOK
    <3>2. mainQueue' # <<>> /\ mainQueue'[Len(mainQueue')] = Snapshot(shown')
      BY <2>1, <2>2, <3>1, AppendProperties
    <3>3. Snapshot(shown') = Snapshot(shown)'
      BY DEF Snapshot
    <3> QED
      BY <3>2, <3>3 DEF LastEventIsShown
  <2>3. CASE ~ Raises(rows, synced) /\ listener = "live"
    <3>1. rows = shown
      BY <2>3 DEF Raises
    <3>2. /\ shown' = shown /\ mainQueue' = mainQueue /\ listener' = "live"
          /\ Snapshot(shown)' = Snapshot(shown)
      BY <2>1, <2>3, <3>1 DEF Snapshot
    <3>3. ASSUME mainQueue = <<>>, NEW n \in Names
          PROVE  groceries'[n] = shown'[n] \/ IsAhead(n)'
      BY <2>3, <3>2, <3>3 DEF LastEventIsShown
    <3> QED
      BY <2>3, <3>2, <3>3 DEF LastEventIsShown
  <2>4. CASE ~ Raises(rows, synced) /\ listener # "live"
    BY <2>1, <2>4 DEF LastEventIsShown
  <2> QED
    BY <2>2, <2>3, <2>4
<1> QED
  BY <1>1, <1>2

LEMMA LastEventStep == TypeInv /\ LastEventIsShown /\ [Next]_vars => LastEventIsShown'
<1> SUFFICES ASSUME TypeInv, LastEventIsShown, [Next]_vars
             PROVE  LastEventIsShown'
  OBVIOUS
<1>0. mainQueue \in Seq(Events) /\ groceries \in Lists
  BY DEF TypeInv, TypeOK
<1>a. ASSUME UNCHANGED <<groceries, worker>>, NEW n
      PROVE  IsAhead(n)' <=> IsAhead(n)
  BY <1>a DEF IsAhead
<1>1. CASE UNCHANGED viewVars /\ UNCHANGED <<groceries, worker>>
  BY <1>1, <1>a DEF viewVars, LastEventIsShown, Snapshot
<1>2. ASSUME NEW task, Enqueue(task), UNCHANGED viewVars,
             \A n \in Names : groceries'[n] = groceries[n] \/ IsAhead(n)'
      PROVE  LastEventIsShown'
  <2>1. ASSUME NEW n \in Names, groceries[n] = shown[n] \/ IsAhead(n)
        PROVE  groceries'[n] = shown'[n] \/ IsAhead(n)'
    BY <1>2, <2>1, AheadAfterCall DEF viewVars
  <2> QED
    BY <1>2, <2>1 DEF viewVars, LastEventIsShown, Snapshot
<1>3. CASE GetAllGroceries \/ (\E u \in Users : SignIn(u))
           \/ \E n \in Names, d \in Values : WriteGrocery(n, d)
  <2>1. PICK task : Enqueue(task)
    BY <1>3 DEF GetAllGroceries, SignIn, WriteGrocery, EnqueueWrite
  <2>2. UNCHANGED viewVars /\ groceries' = groceries
    BY <1>3 DEF GetAllGroceries, SignIn, WriteGrocery, EnqueueWrite, OnlyEnqueues
  <2> QED
    BY <1>2, <2>1, <2>2
<1>4. ASSUME NEW n \in Names, NEW d \in Values, WriteRow(n, d)
      PROVE  LastEventIsShown'
  <2> DEFINE task == [op |-> "write", name |-> n, doc |-> d]
  <2>1. Enqueue(task) /\ UNCHANGED viewVars /\ groceries' = [groceries EXCEPT ![n] = d]
    BY <1>4 DEF WriteRow, EnqueueWrite, OnlyEnqueues
  <2>2. groceries'[n] = d /\ \A m \in Names : m # n => groceries'[m] = groceries[m]
    BY <1>0, <2>1 DEF Lists
  <2>3. IsAhead(n)'
    <3>1. /\ Len(worker') \in 1..Len(worker')
          /\ worker'[Len(worker')] = task
      <4>1. worker \in Seq(Tasks \cup {task}) /\ worker' = Append(worker, task)
        BY <2>1 DEF TypeInv, TypeOK, Enqueue
      <4> HIDE DEF task
      <4> QED
        BY <4>1, AppendProperties
    <3> QED
      BY <2>2, <3>1 DEF IsAhead
  <2> QED
    BY <1>2, <2>1, <2>2, <2>3
<1>b. CASE (\E n \in Names, d \in Values : OtherDeviceWrites(n, d)) \/ Commit
  BY <1>1, <1>b DEF OtherDeviceWrites, Commit
<1>5. CASE RunWrite \/ RunSignIn \/ Ack \/ Reject
  <2>1. CASE RunWrite
    <3>1. NextTask("write") /\ UNCHANGED groceries
      BY <2>1 DEF RunWrite
    <3>2. ASSUME listener = "live", NEW n \in Names, IsAhead(n)
          PROVE  IsAhead(n)' \/ shown'[n] = groceries[n]
      BY <2>1, <3>1, <3>2, AheadAfterTask, RunWriteShows
    <3> QED
      BY <2>1, <3>2, EventsOfView DEF RunWrite
  <2>2. CASE RunSignIn
    <3>1. NextTask("signIn") /\ UNCHANGED groceries /\ Head(worker).op # "write"
      BY <2>2 DEF RunSignIn, NextTask
    <3>2. ASSUME NEW n \in Names, IsAhead(n)
          PROVE  IsAhead(n)'
      BY <3>1, <3>2, AheadAfterTask
    <3> QED
      BY <2>2, <3>2, EventsOfView DEF RunSignIn
  <2>3. CASE Ack
    BY <2>3, <1>a, EventsOfView DEF Ack
  <2>4. CASE Reject
    BY <2>4, <1>a, EventsOfView DEF Reject
  <2> QED
    BY <1>5, <2>1, <2>2, <2>3, <2>4
<1>6. ASSUME NEW v \in watched..Len(log), WatchSnapshot(v)
      PROVE  LastEventIsShown'
  BY <1>6, <1>a, EventsOfView DEF WatchSnapshot
<1>7. ASSUME NEW rows, rows = shown', mainQueue' = Append(mainQueue, Snapshot(rows))
      PROVE  LastEventIsShown'
  <2>1. mainQueue \in Seq(Events \cup {Snapshot(rows)})
    BY <1>0
  <2>2. mainQueue' # <<>> /\ mainQueue'[Len(mainQueue')] = Snapshot(rows)
    BY <1>7, <2>1, AppendProperties
  <2> QED
    BY <1>7, <2>2 DEF LastEventIsShown, Snapshot
<1>8. CASE RunListen
  <2> DEFINE rows == LocalView(pending[user], known)
  <2>1. /\ shown' = rows
        /\ listener' = IF rows # NoRows THEN "live" ELSE "waiting"
        /\ rows # NoRows => mainQueue' = Append(mainQueue, Snapshot(rows))
    BY <1>8 DEF RunListen
  <2> HIDE DEF rows
  <2>2. CASE rows = NoRows
    BY <2>1, <2>2 DEF LastEventIsShown
  <2> QED
    BY <1>7, <2>1, <2>2
<1>9. CASE Offline \/ StreamBreaks
  <2>1. CASE GivesUp
    <3>1. shown = shown' /\ mainQueue' = Append(mainQueue, Snapshot(shown))
      BY <2>1 DEF GivesUp
    <3> QED
      BY <1>7, <3>1
  <2> QED
    BY <1>1, <1>9, <2>1 DEF Offline, StreamBreaks
<1>10. CASE ListenFails \/ Restart
  BY <1>10 DEF ListenFails, Restart, LastEventIsShown
<1>11. CASE Deliver
  <2> SUFFICES ASSUME listener' = "live"
               PROVE  LastEventIsShown'
    BY DEF LastEventIsShown
  <2>1. /\ mainQueue # <<>> /\ mainQueue' = Tail(mainQueue) /\ shown' = shown
        /\ groceries' = IF Head(mainQueue).failed THEN NoRows ELSE Head(mainQueue).rows
        /\ listener = "live"
    BY <1>11 DEF Deliver
  <2>2. mainQueue[Len(mainQueue)] = Snapshot(shown)
    BY <2>1 DEF LastEventIsShown
  <2>3. /\ Head(mainQueue) = mainQueue[1]
        /\ Len(mainQueue) \in Nat \ {0}
        /\ mainQueue' \in Seq(Events)
        /\ Len(mainQueue') = Len(mainQueue) - 1
        /\ \A k \in 1..Len(mainQueue') : mainQueue'[k] = mainQueue[k + 1]
    BY <1>0, <2>1, TailShifts
  <2>4. CASE Len(mainQueue) = 1
    <3>1. groceries' = shown'
      BY <2>1, <2>2, <2>3, <2>4 DEF Snapshot
    <3>2. mainQueue' = <<>>
      BY <2>3, <2>4, EmptySeq
    <3> QED
      BY <3>1, <3>2 DEF LastEventIsShown
  <2>5. CASE Len(mainQueue) # 1
    <3>1. Len(mainQueue') \in 1..Len(mainQueue') /\ Len(mainQueue') + 1 = Len(mainQueue)
      BY <2>3, <2>5
    <3>2. mainQueue'[Len(mainQueue')] = Snapshot(shown)
      BY <2>2, <2>3, <3>1
    <3>3. mainQueue' # <<>>
      BY <2>3, <3>1, EmptySeq
    <3> QED
      BY <2>1, <3>2, <3>3 DEF LastEventIsShown, Snapshot
  <2> QED
    BY <2>4, <2>5
<1>12. CASE UNCHANGED vars
  BY <1>1, <1>12 DEF vars, viewVars
<1> QED
  BY <1>3, <1>4, <1>b, <1>5, <1>6, <1>8, <1>9, <1>10, <1>11, <1>12 DEF Next, Sync

\* Events reach the main thread in the order the view raised them, and none is
\* skipped: once the main queue is empty the view model has the view's list, but
\* for rows that uploadImage changed in place and whose write is still to run.
THEOREM LastEventIsShownAlways == Spec => []LastEventIsShown
<1>1. Init => LastEventIsShown
  BY DEF Init, LastEventIsShown
<1> QED
  BY TypeInvInit, TypeInvStep, LastEventStep, <1>1, PTL DEF Spec

\* A list that nothing is on the way to is right, and so is the cache.
LEMMA SettledIsCloud ==
  TypeInv /\ ViewInv /\ LastEventIsShown => SettledListIsCloud
<1> SUFFICES ASSUME TypeInv, ViewInv, LastEventIsShown, listener = "live", mainQueue = <<>>,
                    pending[user] = <<>>, watched = Len(log)
             PROVE  \A n \in Names : groceries[n] = Cloud[n] \/ IsAhead(n)
  BY DEF SettledListIsCloud
<1>1. \A n \in Names : groceries[n] = shown[n] \/ IsAhead(n)
  BY DEF LastEventIsShown
<1>2. ASSUME NEW n \in Names
      PROVE  shown[n] = DocAt(Len(log), n)
  <2>1. known[n] = Len(log) /\ ~(known[n] > watched)
    BY ViewTypes
  <2>2. n \notin Keys(pending[user])
    <3>1. Len(pending[user]) = 0
      OBVIOUS
    <3> QED
      BY <3>1 DEF Keys
  <2>3. shown[n] = LocalView(pending[user], known)[n]
    BY <2>1 DEF ViewInv, ListIsFresh, ShouldWaitForSyncedDocument
  <2>4. LocalView(pending[user], known)[n] = DocAt(known[n], n)
    BY <2>2 DEF LocalView, Overlay
  <2> QED
    BY <2>1, <2>3, <2>4
<1> QED
  BY <1>1, <1>2 DEF Cloud

\* Once nothing is pending, on its way to the screen or on its way to the cache,
\* the list is the collection in the cloud, however the write stream, the watch
\* stream and the worker took turns before (View::ComputeDocumentChanges,
\* EmitNewSnapshotsAndNotifyLocalStore).
THEOREM SettledListIsCloudAlways == Spec => []SettledListIsCloud
<1>1. Init => LastEventIsShown
  BY DEF Init, LastEventIsShown
<1> QED
  BY TypeInvInit, TypeInvStep, ViewInvInit, ViewInvStep, LastEventStep, SettledIsCloud,
     <1>1, PTL DEF Spec
=============================================================================
