------------------------ MODULE RemoteStore_pipeline ------------------------
(***************************************************************************)
(* Lemmas about the write pipeline of RemoteStore: what FillWritePipeline  *)
(* adds is the next batches of the mutation queue, a batch is removed from *)
(* the front, and the requests and answers of the call stay in the         *)
(* pipeline's order.                                                       *)
(***************************************************************************)
EXTENDS RemoteStore, SequenceTheorems, TLAPS

\* GroceryStore under the refinement mapping of RemoteStore, with the theorems
\* on its writes.
W == INSTANCE GroceryStore_writes WITH
  commits <- call.answers,
  incidents <- incidents + lost,
  MaxIncidents <- MaxRestarts + MaxBreaks

LEMMA Assumed ==
  /\ W!StoreAssumption
  /\ kMaxPendingWrites \in Nat \ {0}
  /\ MaxRestarts \in Nat /\ MaxBreaks \in Nat
BY RemoteAssumption DEF Store!StoreAssumption, W!StoreAssumption

-----------------------------------------------------------------------------
(* Lemmas on the pipeline. *)

\* A mutation queue in the order in which its writes were accepted.
Sorted(q) ==
  /\ \A k \in 1..Len(q) : q[k].id \in Nat \ {0}
  /\ \A k \in 1..Len(q) : \A j \in 1..(k-1) : q[j].id < q[k].id

\* `p' is what `q' begins with, and is not too long for a pipeline.
IsPrefix(p, q) ==
  /\ Len(p) <= Len(q) /\ Len(p) <= kMaxPendingWrites
  /\ \A k \in 1..Len(p) : p[k] = q[k]

\* The same, and there is no room for more.
IsFront(p, q) ==
  IsPrefix(p, q) /\ Len(p) = Smaller(kMaxPendingWrites, Len(q))

LEMMA FrontIsSubSeq ==
  ASSUME NEW S, NEW p \in Seq(S), NEW q \in Seq(S)
  PROVE  IsFront(p, q) <=> p = SubSeq(q, 1, Smaller(kMaxPendingWrites, Len(q)))
<1> DEFINE n == Smaller(kMaxPendingWrites, Len(q))
           r == SubSeq(q, 1, n)
<1>1. /\ n \in 0..Len(q) /\ n <= kMaxPendingWrites
      /\ Len(p) \in Nat /\ Len(q) \in Nat
  BY Assumed DEF Smaller
<1>2. /\ r \in Seq(S)
      /\ Len(r) = n
      /\ \A k \in 1..n : r[k] = q[k]
  <2> HIDE DEF n
  <2> QED
    BY <1>1, SubSeqProperties
<1> HIDE DEF r
<1>3. IsFront(p, q) => p = r
  <2> HIDE DEF n
  <2> SUFFICES ASSUME IsFront(p, q)
               PROVE  p = r
    OBVIOUS
  <2>1. Len(p) = Len(r) /\ \A k \in 1..Len(p) : p[k] = r[k]
    BY <1>1, <1>2 DEF IsFront, IsPrefix, n
  <2> QED
    BY <2>1, <1>2, SeqEqual
<1>4. p = r => IsFront(p, q)
  BY <1>1, <1>2 DEF IsFront, IsPrefix
<1> QED
  BY <1>3, <1>4 DEF r

\* `f' is the pipeline `p' with the batches `b' at its end.
Extends(f, p, b) ==
  /\ Len(f) = Len(p) + Len(b)
  /\ \A k \in 1..Len(p) : f[k] = p[k]
  /\ \A k \in 1..Len(b) : f[Len(p) + k] = b[k]

LEMMA ConcatExtends ==
  ASSUME NEW S, NEW p \in Seq(S), NEW b \in Seq(S)
  PROVE  p \o b \in Seq(S) /\ Extends(p \o b, p, b)
<1> DEFINE f == p \o b
<1>1. /\ f \in Seq(S)
      /\ Len(f) = Len(p) + Len(b)
      /\ \A k \in 1..(Len(p) + Len(b)) : f[k] = IF k <= Len(p) THEN p[k] ELSE b[k - Len(p)]
  BY ConcatProperties
<1>2. Len(p) \in Nat /\ Len(b) \in Nat
  OBVIOUS
<1> HIDE DEF f
<1>3. \A k \in 1..Len(p) : f[k] = p[k]
  BY <1>1, <1>2
<1>4. ASSUME NEW k \in 1..Len(b)
      PROVE  f[Len(p) + k] = b[k]
  <2>1. /\ Len(p) + k \in 1..(Len(p) + Len(b)) /\ ~(Len(p) + k <= Len(p))
        /\ Len(p) + k - Len(p) = k
    BY <1>2
  <2> QED
    BY <1>1, <2>1
<1> QED
  BY <1>1, <1>3, <1>4 DEF Extends, f

\* What FillWritePipeline adds: the batches of the queue after the last one of
\* the pipeline, until it is full.
LEMMA FilledIsFront ==
  ASSUME NEW p \in Seq(W!Writes), NEW q \in Seq(W!Writes), Sorted(q), IsPrefix(p, q)
  PROVE  /\ NextBatches(p, q) \in Seq(W!Writes)
         /\ p \o NextBatches(p, q) \in Seq(W!Writes)
         /\ Extends(p \o NextBatches(p, q), p, NextBatches(p, q))
         /\ IsFront(p \o NextBatches(p, q), q)
<1> DEFINE After(i) == /\ \A j \in 1..i : q[j].id <= LastId(p)
                       /\ i < Len(q) => q[i+1].id > LastId(p)
           b == NextBatches(p, q)
           f == p \o b
           n == Smaller(kMaxPendingWrites, Len(q))
<1>1. Len(p) \in 0..Len(q) /\ Len(p) <= kMaxPendingWrites /\ Len(q) \in Nat
  BY DEF IsPrefix
<1>2. After(Len(p))
  <2>1. CASE p = <<>>
    <3>1. LastId(p) = 0 /\ Len(p) = 0
      BY <2>1 DEF LastId
    <3> QED
      BY <3>1, <1>1 DEF Sorted
  <2>2. CASE p # <<>>
    <3>1. Len(p) \in 1..Len(p) /\ Len(p) \in 1..Len(q)
      BY <1>1, <2>2, EmptySeq
    <3>2. LastId(p) = q[Len(p)].id
      BY <2>2, <3>1 DEF LastId, IsPrefix
    <3> QED
      BY <1>1, <3>1, <3>2 DEF Sorted
  <2> QED
    BY <2>1, <2>2
<1>3. \A i \in 0..Len(q) : After(i) => i = Len(p)
  <2> SUFFICES ASSUME NEW i \in 0..Len(q), After(i)
               PROVE  i = Len(p)
    OBVIOUS
  <2>0. \A k \in 1..Len(q) : q[k].id \in Nat
    BY DEF Sorted
  <2>1. LastId(p) \in Nat
    <3>1. CASE p = <<>>
      BY <3>1 DEF LastId
    <3>2. CASE p # <<>>
      BY <3>2, <1>1, <2>0, EmptySeq DEF LastId, IsPrefix
    <3> QED
      BY <3>1, <3>2
  <2>2. ~ (i < Len(p))
    <3> SUFFICES ASSUME i < Len(p)
                 PROVE  FALSE
      OBVIOUS
    <3>1. q[i+1].id > LastId(p)
      BY <1>1
    <3>2. i + 1 \in 1..Len(p) /\ i + 1 \in 1..Len(q)
      BY <1>1
    <3>3. q[i+1].id <= LastId(p)
      BY <1>2, <3>2
    <3> QED
      BY <2>0, <2>1, <3>1, <3>2, <3>3
  <2>3. ~ (Len(p) < i)
    <3> SUFFICES ASSUME Len(p) < i
                 PROVE  FALSE
      OBVIOUS
    <3>1. Len(p) + 1 \in 1..i /\ Len(p) + 1 \in 1..Len(q)
      BY <1>1
    <3>2. q[Len(p) + 1].id <= LastId(p)
      BY <3>1
    <3>3. q[Len(p) + 1].id > LastId(p)
      BY <1>1, <1>2, <3>1
    <3> QED
      BY <2>0, <2>1, <3>1, <3>2, <3>3
  <2> QED
    BY <1>1, <2>2, <2>3
<1>4. (CHOOSE i \in 0..Len(q) : After(i)) = Len(p)
  <2> HIDE DEF After
  <2> QED
    BY <1>1, <1>2, <1>3
<1>5. b = SubSeq(q, Len(p) + 1, n)
  <2>1. b = SubSeq(q, Len(p) + 1, Smaller(Len(p) + kMaxPendingWrites - Len(p), Len(q)))
    BY <1>4 DEF NextBatches
  <2>2. Len(p) + kMaxPendingWrites - Len(p) = kMaxPendingWrites
    BY <1>1, Assumed
  <2> QED
    BY <2>1, <2>2
<1>6. n \in Len(p)..Len(q) /\ n <= kMaxPendingWrites
  BY <1>1, Assumed DEF Smaller
<1> HIDE DEF b, n
<1>7. /\ b \in Seq(W!Writes)
      /\ Len(b) = n - Len(p)
      /\ \A k \in 1..Len(b) : b[k] = q[Len(p) + k]
  <2>1. b \in Seq(W!Writes) /\ Len(b) = IF Len(p) + 1 <= n THEN n - (Len(p) + 1) + 1 ELSE 0
    BY <1>1, <1>5, <1>6, SubSeqProperties
  <2>2. \A k \in 1..(n - (Len(p) + 1) + 1) : b[k] = q[Len(p) + 1 + k - 1]
    BY <1>1, <1>5, <1>6, SubSeqProperties
  <2>3. Len(b) = n - Len(p)
    BY <1>1, <1>6, <2>1
  <2>4. \A k \in 1..Len(b) : b[k] = q[Len(p) + k]
    <3> SUFFICES ASSUME NEW k \in 1..Len(b)
                 PROVE  b[k] = q[Len(p) + k]
      OBVIOUS
    <3>1. k \in 1..(n - (Len(p) + 1) + 1) /\ Len(p) + 1 + k - 1 = Len(p) + k
      BY <1>1, <1>6, <2>3
    <3> QED
      BY <3>1, <2>2
  <2> QED
    BY <2>1, <2>3, <2>4
<1>8. f \in Seq(W!Writes) /\ Extends(f, p, b)
  BY <1>7, ConcatExtends
<1> HIDE DEF f
<1>9. IsFront(f, q)
  <2>1. Len(f) = n /\ Len(p) \in Nat /\ Len(b) \in Nat
    BY <1>1, <1>6, <1>7, <1>8 DEF Extends
  <2>2. ASSUME NEW k \in 1..Len(f)
        PROVE  f[k] = q[k]
    <3>1. CASE k <= Len(p)
      <4>1. k \in 1..Len(p)
        BY <3>1, <2>1, <1>6
      <4> QED
        BY <4>1, <1>8 DEF IsPrefix, Extends
    <3>2. CASE ~ (k <= Len(p))
      <4>1. k - Len(p) \in 1..Len(b) /\ Len(p) + (k - Len(p)) = k
        BY <3>2, <2>1, <1>6, <1>7
      <4> QED
        BY <4>1, <1>7, <1>8 DEF Extends
    <3> QED
      BY <3>1, <3>2
  <2> QED
    BY <1>6, <2>1, <2>2 DEF IsFront, IsPrefix, n
<1> QED
  BY <1>7, <1>8, <1>9 DEF f, b

\* An answered or refused batch is found by its id: it is the first one.
LEMMA RemoveFirst ==
  ASSUME NEW q \in Seq(W!Writes), Sorted(q), q # <<>>
  PROVE  RemoveBatch(q, Head(q)) = Tail(q)
<1> DEFINE At(i) == IF i = 0 THEN \A j \in 1..Len(q) : q[j].id # Head(q).id
                             ELSE q[i].id = Head(q).id
<1>1. Len(q) \in Nat \ {0} /\ Head(q) = q[1] /\ 1 \in 1..Len(q)
  BY EmptySeq, LenProperties, HeadTailProperties
<1>2. \A k \in 1..Len(q) : q[k].id \in Nat
  BY DEF Sorted
<1>3. \A i \in 0..Len(q) : At(i) => i = 1
  <2> SUFFICES ASSUME NEW i \in 0..Len(q), At(i)
               PROVE  i = 1
    OBVIOUS
  <2>1. i # 0
    BY <1>1
  <2>2. i \in 1..Len(q) /\ q[i].id = q[1].id
    BY <1>1, <2>1
  <2>3. ~ (1 < i)
    <3> SUFFICES ASSUME 1 < i
                 PROVE  FALSE
      OBVIOUS
    <3>1. 1 \in 1..(i-1)
      BY <2>2
    <3>2. q[1].id < q[i].id
      BY <2>2, <3>1 DEF Sorted
    <3> QED
      BY <1>1, <1>2, <2>2, <3>2
  <2> QED
    BY <2>2, <2>3
<1>4. (CHOOSE i \in 0..Len(q) : At(i)) = 1
  <2>1. 1 \in 0..Len(q) /\ At(1)
    BY <1>1
  <2> HIDE DEF At
  <2> QED
    BY <2>1, <1>3
<1>5. RemoveBatch(q, Head(q)) = SubSeq(q, 1, 1 - 1) \o SubSeq(q, 1 + 1, Len(q))
  BY <1>4, Zenon DEF RemoveBatch
<1>6. SubSeq(q, 1, 1 - 1) = <<>>
  OBVIOUS
<1>7. Tail(q) \in Seq(W!Writes) /\ SubSeq(q, 1 + 1, Len(q)) = Tail(q)
  BY <1>1, HeadTailProperties
<1> QED
  BY <1>5, <1>6, <1>7

LEMMA TailIndex ==
  ASSUME NEW S, NEW q \in Seq(S), q # <<>>
  PROVE  /\ Tail(q) \in Seq(S) /\ Head(q) \in S /\ Head(q) = q[1]
         /\ Len(q) \in Nat \ {0} /\ Len(Tail(q)) = Len(q) - 1
         /\ \A k \in 1..Len(Tail(q)) : Tail(q)[k] = q[k+1]
BY HeadTailProperties, EmptySeq, LenProperties

\* A queue without its first write is still sorted, and the pipeline without
\* its front is what it begins with.
LEMMA TailsAgree ==
  ASSUME NEW p \in Seq(W!Writes), NEW q \in Seq(W!Writes), Sorted(q), IsPrefix(p, q),
         p # <<>>
  PROVE  /\ q # <<>> /\ Head(p) = Head(q)
         /\ Sorted(Tail(q)) /\ IsPrefix(Tail(p), Tail(q))
<1>1. /\ Len(p) \in Nat \ {0} /\ Len(q) \in Nat /\ Len(p) <= Len(q)
      /\ Len(p) <= kMaxPendingWrites
  BY TailIndex DEF IsPrefix
<1>2. q # <<>>
  BY <1>1, EmptySeq
<1>3. /\ Tail(q) \in Seq(W!Writes) /\ Head(q) = q[1]
      /\ Len(Tail(q)) = Len(q) - 1
      /\ \A k \in 1..Len(Tail(q)) : Tail(q)[k] = q[k+1]
  BY <1>2, TailIndex
<1>4. /\ Head(p) = p[1]
      /\ Len(Tail(p)) = Len(p) - 1
      /\ \A k \in 1..Len(Tail(p)) : Tail(p)[k] = p[k+1]
  BY TailIndex
<1> DEFINE r == Tail(q)
           o == Tail(p)
<1> HIDE DEF r, o
<1>5. Sorted(r)
  <2>1. ASSUME NEW k \in 1..Len(r)
        PROVE  r[k].id \in Nat \ {0} /\ \A j \in 1..(k-1) : r[j].id < r[k].id
    <3>1. k + 1 \in 1..Len(q) /\ r[k] = q[k+1]
      BY <1>1, <1>3 DEF r
    <3>2. ASSUME NEW j \in 1..(k-1)
          PROVE  r[j].id < r[k].id
      <4>1. j \in 1..Len(r) /\ j + 1 \in 1..(k + 1 - 1)
        BY <1>1, <1>3 DEF r
      <4>2. r[j] = q[j+1]
        BY <4>1, <1>3 DEF r
      <4> QED
        BY <3>1, <4>1, <4>2 DEF Sorted
    <3> QED
      BY <3>1, <3>2 DEF Sorted
  <2> QED
    BY <2>1 DEF Sorted
<1>6. IsPrefix(o, r)
  <2>1. Len(o) <= Len(r) /\ Len(o) <= kMaxPendingWrites
    BY <1>1, <1>3, <1>4, Assumed DEF o, r
  <2>2. ASSUME NEW k \in 1..Len(o)
        PROVE  o[k] = r[k]
    <3>1. k + 1 \in 1..Len(p) /\ k \in 1..Len(r) /\ o[k] = p[k+1] /\ r[k] = q[k+1]
      BY <1>1, <1>3, <1>4 DEF o, r
    <3> QED
      BY <3>1 DEF IsPrefix
  <2> QED
    BY <2>1, <2>2 DEF IsPrefix
<1>7. Head(p) = Head(q)
  <2>1. 1 \in 1..Len(p)
    BY <1>1
  <2> QED
    BY <1>3, <1>4, <2>1 DEF IsPrefix
<1> QED
  BY <1>2, <1>5, <1>6, <1>7 DEF o, r

\* A queue with a new write at its end is still sorted, and begins as before.
LEMMA AppendAgrees ==
  ASSUME NEW p \in Seq(W!Writes), NEW q \in Seq(W!Writes), Sorted(q), IsPrefix(p, q),
         NEW m \in W!Writes, m.id # 0, \A k \in 1..Len(q) : q[k].id < m.id
  PROVE  Sorted(Append(q, m)) /\ IsPrefix(p, Append(q, m))
<1> DEFINE r == Append(q, m)
<1>1. /\ Len(q) \in Nat /\ Len(r) = Len(q) + 1
      /\ \A k \in 1..Len(q) : r[k] = q[k]
      /\ r[Len(q) + 1] = m
  BY AppendProperties
<1>2. Len(p) \in Nat /\ Len(p) <= Len(q)
  BY DEF IsPrefix
<1>3. m.id \in Nat
  BY DEF W!Writes
<1> HIDE DEF r
<1>4. IsPrefix(p, r)
  BY <1>1, <1>2 DEF IsPrefix
<1>5. ASSUME NEW k \in 1..Len(r)
      PROVE  r[k].id \in Nat \ {0} /\ \A j \in 1..(k-1) : r[j].id < r[k].id
  <2>1. CASE k \in 1..Len(q)
    <3>1. \A j \in 1..(k-1) : j \in 1..Len(q)
      BY <2>1
    <3> QED
      BY <1>1, <2>1, <3>1 DEF Sorted
  <2>2. CASE k = Len(q) + 1
    <3>1. \A j \in 1..(k-1) : j \in 1..Len(q)
      BY <1>1, <2>2
    <3> QED
      BY <1>1, <1>3, <2>2, <3>1
  <2> QED
    BY <1>1, <2>1, <2>2
<1> QED
  BY <1>4, <1>5 DEF Sorted, r

-----------------------------------------------------------------------------
(* Streams and the call of the write stream. *)

Streams == [state : {"initial", "starting", "backoff", "open", "error"},
            tokens : SUBSET {"current", "stale"}]

\* A stream is starting exactly as long as it waits for a token.
StreamOK(s) == s \in Streams /\ ("current" \in s.tokens <=> s.state = "starting")

LEMMA StreamSteps ==
  ASSUME NEW s, StreamOK(s)
  PROVE  /\ StreamOK(Start(s)) /\ IsStarted(Start(s)) /\ Start(s).state # "open"
         /\ \A state \in {"initial", "error"} :
              StreamOK(Closed(s, state)) /\ ~IsStarted(Closed(s, state))
         /\ \A t \in s.tokens : StreamOK(Resumed(s, t))
                                /\ (IsStarted(s) => IsStarted(Resumed(s, t)))
                                /\ (Resumed(s, t).state = "open" => IsStarted(s))
                                /\ (s.state = "open" => Resumed(s, t).state = "open")
         /\ s.state = "backoff" => /\ StreamOK(Retried(s)) /\ IsStarted(Retried(s))
                                   /\ Retried(s).state # "open"
         /\ "current" \in s.tokens =>
              StreamOK(Closed([s EXCEPT !.tokens = @ \ {"current"}], "error"))
<1>1. s = [state |-> s.state, tokens |-> s.tokens]
  BY DEF StreamOK, Streams
<1>2. StreamOK(Start(s)) /\ IsStarted(Start(s)) /\ Start(s).state # "open"
  BY <1>1 DEF StreamOK, Streams, Start, IsStarted
<1>3. ASSUME NEW r \in Streams, NEW state \in {"initial", "error"}
      PROVE  StreamOK(Closed(r, state)) /\ ~IsStarted(Closed(r, state))
  <2>1. {"stale" : t \in r.tokens} \subseteq {"stale"}
    OBVIOUS
  <2> QED
    BY <2>1 DEF StreamOK, Streams, Closed, IsStarted
<1>4. ASSUME NEW t \in s.tokens
      PROVE  /\ StreamOK(Resumed(s, t))
             /\ IsStarted(s) => IsStarted(Resumed(s, t))
             /\ Resumed(s, t).state = "open" => IsStarted(s)
             /\ s.state = "open" => Resumed(s, t).state = "open"
  BY DEF StreamOK, Streams, Resumed, IsStarted
<1>5. ASSUME s.state = "backoff"
      PROVE  StreamOK(Retried(s)) /\ IsStarted(Retried(s)) /\ Retried(s).state # "open"
  BY <1>1, <1>5 DEF StreamOK, Streams, Retried, Start, IsStarted
<1>6. [s EXCEPT !.tokens = @ \ {"current"}] \in Streams
  BY DEF StreamOK, Streams
<1> QED
  BY <1>2, <1>3, <1>4, <1>5, <1>6 DEF StreamOK

LEMMA NewStreamOK == StreamOK(NewStream) /\ ~IsStarted(NewStream)
BY DEF StreamOK, Streams, NewStream, IsStarted

Calls == [shaken : BOOLEAN, idle : BOOLEAN, requests : Seq(W!Writes), answers : Seq(Nat),
          ended : {"no", "transient", "permanent"}, finishing : BOOLEAN]

\* What is on the wire, answers ahead of requests, is no more than the pipeline
\* `p'; or it is all of it, in its order.
WireFits(p, a, r) == Len(a) + Len(r) <= Len(p)

WireIsAll(p, a, r) ==
  /\ Len(a) + Len(r) = Len(p)
  /\ \A k \in 1..Len(r) : r[k] = p[Len(a) + k]

\* The call `c' over the pipeline `p'.  All of it is on the wire after the
\* handshake, as long as the cloud has not ended the call.
CallOK(p, c) ==
  /\ c \in Calls
  /\ c.finishing => c.ended # "no" /\ c.answers = <<>>
  /\ ~c.shaken => c.requests = <<>> /\ c.answers = <<>> /\ ~c.idle
  /\ c.idle => p = <<>>
  /\ WireFits(p, c.answers, c.requests)
  /\ c.shaken /\ c.ended = "no" => WireIsAll(p, c.answers, c.requests)

\* The stream `s' with it: only an open stream has a call, and a stream is
\* started for a pipeline that is not empty; one that has answered everything
\* has shaken hands.
OpenOK(s, p, c) ==
  /\ s.state # "open" => c = NoCall
  /\ IsStarted(s) /\ p = <<>> => c.shaken

LEMMA NoCallOK ==
  ASSUME NEW p \in Seq(W!Writes)
  PROVE  CallOK(p, NoCall)
<1>1. WireFits(p, <<>>, <<>>)
  BY LenProperties DEF WireFits
<1>2. NoCall \in Calls
  BY DEF NoCall, Calls
<1>3. NoCall.answers = <<>> /\ NoCall.requests = <<>> /\ ~NoCall.shaken /\ ~NoCall.idle
      /\ ~NoCall.finishing
  BY DEF NoCall
<1> QED
  BY <1>1, <1>2, <1>3 DEF CallOK

\* Requests are added to the wire as batches are to the pipeline.
LEMMA WireGrows ==
  ASSUME NEW p, NEW b, NEW f, NEW a, NEW r, NEW n,
         Len(p) \in Nat, Len(b) \in Nat, Len(a) \in Nat, Len(r) \in Nat,
         Extends(f, p, b), Extends(n, r, b)
  PROVE  /\ WireFits(p, a, r) => WireFits(f, a, n)
         /\ WireIsAll(p, a, r) => WireIsAll(f, a, n)
<1>1. Len(f) = Len(p) + Len(b) /\ Len(n) = Len(r) + Len(b)
  BY DEF Extends
<1>2. WireFits(p, a, r) => WireFits(f, a, n)
  BY <1>1 DEF WireFits
<1>3. ASSUME WireIsAll(p, a, r)
      PROVE  WireIsAll(f, a, n)
  <2>0. Len(a) + Len(r) = Len(p)
    BY <1>3 DEF WireIsAll
  <2>1. Len(a) + Len(n) = Len(f)
    BY <1>1, <2>0
  <2>2. ASSUME NEW k \in 1..Len(n)
        PROVE  n[k] = f[Len(a) + k]
    <3>1. CASE k <= Len(r)
      <4>1. k \in 1..Len(r) /\ Len(a) + k \in 1..Len(p)
        BY <2>0, <3>1
      <4> QED
        BY <1>3, <4>1 DEF WireIsAll, Extends
    <3>2. CASE ~(k <= Len(r))
      <4>1. /\ k - Len(r) \in 1..Len(b) /\ Len(r) + (k - Len(r)) = k
            /\ Len(p) + (k - Len(r)) = Len(a) + k
        BY <1>1, <2>0, <3>2
      <4>2. n[k] = b[k - Len(r)] /\ f[Len(a) + k] = b[k - Len(r)]
        BY <4>1 DEF Extends
      <4> QED
        BY <4>2
    <3> QED
      BY <3>1, <3>2
  <2> QED
    BY <2>1, <2>2 DEF WireIsAll
<1> QED
  BY <1>2, <1>3

\* All of it on the wire: the requests are the rest of the pipeline.
LEMMA WireIsRest ==
  ASSUME NEW p \in Seq(W!Writes), NEW a \in Seq(Nat), NEW r \in Seq(W!Writes),
         WireIsAll(p, a, r)
  PROVE  r = SubSeq(p, Len(a) + 1, Len(p))
<1> DEFINE n == Len(a) + 1
           m == Len(p)
           t == SubSeq(p, n, m)
<1>1. Len(a) + Len(r) = m /\ Len(a) \in Nat /\ Len(r) \in Nat /\ m \in Nat
  BY DEF WireIsAll
<1>2. n \in 1..(m + 1)
  BY <1>1
<1>3. /\ t \in Seq(W!Writes)
      /\ Len(t) = IF n <= m THEN m - n + 1 ELSE 0
      /\ \A k \in 1..(m - n + 1) : t[k] = p[n + k - 1]
  BY <1>1, <1>2, SubSeqProperties
<1>4. Len(t) = Len(r)
  BY <1>1, <1>3
<1>5. ASSUME NEW k \in 1..Len(r)
      PROVE  r[k] = t[k]
  <2>1. k \in 1..(m - n + 1) /\ n + k - 1 = Len(a) + k
    BY <1>1
  <2>2. t[k] = p[Len(a) + k]
    BY <1>3, <2>1
  <2> QED
    BY <2>2 DEF WireIsAll
<1> HIDE DEF t
<1>6. r = t
  BY <1>3, <1>4, <1>5, SeqEqual
<1> QED
  BY <1>6 DEF t

\* An answer is read: it leaves the wire, and its write the pipeline.
LEMMA WirePops ==
  ASSUME NEW p \in Seq(W!Writes), NEW a \in Seq(Nat), NEW r \in Seq(W!Writes),
         a # <<>>, WireFits(p, a, r)
  PROVE  /\ p # <<>> /\ Tail(a) \in Seq(Nat) /\ Tail(p) \in Seq(W!Writes)
         /\ WireFits(Tail(p), Tail(a), r)
         /\ WireIsAll(p, a, r) => WireIsAll(Tail(p), Tail(a), r)
<1> DEFINE ta == Tail(a)
           tp == Tail(p)
<1>1. ta \in Seq(Nat) /\ Len(a) \in Nat \ {0} /\ Len(ta) = Len(a) - 1
  BY TailIndex
<1>2. Len(r) \in Nat /\ Len(p) \in Nat
  OBVIOUS
<1>3. p # <<>>
  BY <1>1, <1>2 DEF WireFits
<1>4. /\ tp \in Seq(W!Writes) /\ Len(tp) = Len(p) - 1
      /\ \A k \in 1..Len(tp) : tp[k] = p[k+1]
  BY <1>3, TailIndex
<1> HIDE DEF ta, tp
<1>5. WireFits(tp, ta, r)
  BY <1>1, <1>2, <1>4 DEF WireFits
<1>6. ASSUME WireIsAll(p, a, r)
      PROVE  WireIsAll(tp, ta, r)
  <2>0. Len(a) + Len(r) = Len(p)
    BY <1>6 DEF WireIsAll
  <2>a. Len(ta) = Len(a) - 1 /\ Len(tp) = Len(p) - 1 /\ Len(a) \in Nat
    BY <1>1, <1>4
  <2>1. Len(ta) + Len(r) = Len(tp)
    BY <1>2, <2>0, <2>a
  <2>2. ASSUME NEW k \in 1..Len(r)
        PROVE  r[k] = tp[Len(ta) + k]
    <3>1. /\ Len(ta) + k \in 1..Len(tp) /\ (Len(ta) + k) + 1 = Len(a) + k
      BY <1>2, <2>a, <2>1, <2>0
    <3>2. tp[Len(ta) + k] = p[(Len(ta) + k) + 1]
      BY <1>4, <3>1
    <3> QED
      BY <1>6, <3>1, <3>2 DEF WireIsAll
  <2> QED
    BY <2>1, <2>2 DEF WireIsAll
<1> QED
  BY <1>1, <1>3, <1>4, <1>5, <1>6 DEF ta, tp

\* The cloud answers a request.
LEMMA WireTakes ==
  ASSUME NEW p \in Seq(W!Writes), NEW a \in Seq(Nat), NEW r \in Seq(W!Writes),
         NEW v \in Nat, r # <<>>, WireFits(p, a, r)
  PROVE  /\ Append(a, v) \in Seq(Nat) /\ Tail(r) \in Seq(W!Writes)
         /\ WireFits(p, Append(a, v), Tail(r))
         /\ WireIsAll(p, a, r) => /\ WireIsAll(p, Append(a, v), Tail(r))
                                  /\ Len(a) + 1 \in 1..Len(p)
                                  /\ Head(r) = p[Len(a) + 1]
<1> DEFINE na == Append(a, v)
           tr == Tail(r)
<1>1. na \in Seq(Nat) /\ Len(a) \in Nat /\ Len(na) = Len(a) + 1
  BY AppendProperties
<1>2. /\ tr \in Seq(W!Writes) /\ Len(r) \in Nat \ {0} /\ Len(tr) = Len(r) - 1
      /\ Head(r) = r[1]
      /\ \A k \in 1..Len(tr) : tr[k] = r[k+1]
  BY TailIndex
<1>3. Len(p) \in Nat
  OBVIOUS
<1> HIDE DEF na, tr
<1>4. WireFits(p, na, tr)
  BY <1>1, <1>2, <1>3 DEF WireFits
<1>5. ASSUME WireIsAll(p, a, r)
      PROVE  /\ WireIsAll(p, na, tr)
             /\ Len(a) + 1 \in 1..Len(p)
             /\ Head(r) = p[Len(a) + 1]
  <2>0. Len(a) + Len(r) = Len(p)
    BY <1>5 DEF WireIsAll
  <2>a. /\ Len(na) = Len(a) + 1 /\ Len(tr) = Len(r) - 1
        /\ Len(a) \in Nat /\ Len(r) \in Nat \ {0}
    BY <1>1, <1>2
  <2>1. Len(na) + Len(tr) = Len(p) /\ Len(a) + 1 \in 1..Len(p) /\ 1 \in 1..Len(r)
    <3>1. Len(na) + Len(tr) = Len(p)
      BY <1>3, <2>0, <2>a
    <3>2. Len(a) + 1 \in 1..Len(p)
      BY <1>3, <2>0, <2>a
    <3>3. 1 \in 1..Len(r)
      BY <2>a
    <3> QED
      BY <3>1, <3>2, <3>3
  <2>2. ASSUME NEW k \in 1..Len(tr)
        PROVE  tr[k] = p[Len(na) + k]
    <3>1. k + 1 \in 1..Len(r) /\ Len(a) + (k + 1) = Len(na) + k
      BY <2>a
    <3>2. r[k+1] = p[Len(a) + (k + 1)]
      BY <1>5, <3>1 DEF WireIsAll
    <3> QED
      BY <1>2, <3>1, <3>2
  <2> QED
    BY <1>2, <1>5, <2>1, <2>2 DEF WireIsAll
<1> QED
  BY <1>1, <1>2, <1>4, <1>5 DEF na, tr

\* Sending what was added to the pipeline.
LEMMA SendKeepsCall ==
  ASSUME NEW p \in Seq(W!Writes), NEW b \in Seq(W!Writes), NEW f \in Seq(W!Writes),
         Extends(f, p, b),
         NEW c, CallOK(p, c), f # <<>>
  PROVE  /\ CallOK(f, Send(b, c))
         /\ Send(b, c).answers = c.answers /\ Send(b, c).shaken = c.shaken
<1> DEFINE s == Send(b, c)
           a == c.answers
           r == c.requests
<1>1. c \in Calls /\ a \in Seq(Nat) /\ r \in Seq(W!Writes)
  BY DEF CallOK, Calls
<1>2. Len(p) \in Nat /\ Len(b) \in Nat
  OBVIOUS
<1>3. WireFits(p, a, r)
  BY DEF CallOK
<1>4. CASE ~c.shaken
  <2>1. s = c
    BY <1>4 DEF Send
  <2>2. a = <<>> /\ r = <<>>
    BY <1>4 DEF CallOK
  <2>3. WireFits(f, <<>>, <<>>)
    BY LenProperties DEF WireFits
  <2>4. CallOK(f, c)
    BY <1>1, <1>4, <2>2, <2>3 DEF CallOK
  <2> QED
    BY <2>1, <2>4
<1>5. CASE c.shaken /\ b = <<>>
  <2>1. s = c
    BY <1>5 DEF Send
  <2>2. Len(b) = 0
    BY <1>5
  <2>3. Len(f) = Len(p) /\ \A k \in 1..Len(p) : f[k] = p[k]
    BY <1>2, <2>2 DEF Extends
  <2>4. f = p
    BY <2>3, SeqEqual
  <2> QED
    BY <2>1, <2>4
<1>6. CASE c.shaken /\ b # <<>>
  <2>1. s = [c EXCEPT !.requests = r \o b, !.idle = FALSE]
    BY <1>6 DEF Send
  <2>2. /\ r \o b \in Seq(W!Writes)
        /\ WireFits(p, a, r) => WireFits(f, a, r \o b)
        /\ WireIsAll(p, a, r) => WireIsAll(f, a, r \o b)
    <3> HIDE DEF a, r
    <3>1. Len(a) \in Nat /\ Len(r) \in Nat
      BY <1>1
    <3>2. r \o b \in Seq(W!Writes) /\ Extends(r \o b, r, b)
      BY <1>1, ConcatExtends
    <3> QED
      BY <1>2, <3>1, <3>2, WireGrows
  <2> DEFINE n == r \o b
  <2> HIDE DEF n
  <2>3. /\ s \in Calls /\ s.requests = n /\ ~s.idle /\ s.answers = c.answers
        /\ s.shaken = c.shaken /\ s.ended = c.ended /\ s.finishing = c.finishing
    BY <1>1, <2>1, <2>2 DEF Calls, n
  <2> HIDE DEF s
  <2>4. CallOK(f, s)
    BY <1>3, <1>6, <2>2, <2>3 DEF CallOK, n
  <2> QED
    BY <2>3, <2>4 DEF s
<1> QED
  BY <1>4, <1>5, <1>6

\* FillWritePipeline makes the pipeline the front of the queue and keeps the
\* stream and the call right; the answers on the way stay as they are.
LEMMA FillKeeps ==
  ASSUME NEW s, NEW p \in Seq(W!Writes), NEW q \in Seq(W!Writes), NEW c,
         Sorted(q), IsPrefix(p, q), StreamOK(s), CallOK(p, c), OpenOK(s, p, c),
         FillWritePipeline(s, p, q, c)
  PROVE  /\ pipeline' \in Seq(W!Writes) /\ IsFront(pipeline', q)
         /\ StreamOK(writeStream') /\ CallOK(pipeline', call')
         /\ OpenOK(writeStream', pipeline', call')
         /\ pipeline' # <<>> => IsStarted(writeStream')
         /\ call'.answers = c.answers
<1> DEFINE b == NextBatches(p, q)
           f == p \o b
<1>1. /\ b \in Seq(W!Writes) /\ f \in Seq(W!Writes)
      /\ Extends(f, p, b) /\ IsFront(f, q)
  BY FilledIsFront
<1>2. /\ pipeline' = f
      /\ call' = IF s.state # "open" THEN c
                 ELSE IF f = <<>> THEN [c EXCEPT !.idle = TRUE]
                 ELSE Send(b, c)
      /\ writeStream' = StartIfNeeded(s, f)
  BY DEF FillWritePipeline
<1> HIDE DEF b, f
<1>3. /\ StreamOK(writeStream')
      /\ f # <<>> => IsStarted(writeStream')
      /\ writeStream'.state = "open" => s.state = "open"
      /\ f = <<>> => writeStream' = s
  BY <1>2, StreamSteps DEF StartIfNeeded
<1>4. f = <<>> => p = <<>>
  <2>1. Len(f) = Len(p) + Len(b) /\ Len(p) \in Nat /\ Len(b) \in Nat
    BY <1>1 DEF Extends
  <2>2. f = <<>> => Len(p) = 0
    BY <2>1
  <2> QED
    BY <2>2, EmptySeq
<1>5. CASE s.state # "open"
  <2>1. call' = NoCall /\ c = NoCall
    BY <1>2, <1>5 DEF OpenOK
  <2>2. CallOK(f, NoCall)
    BY <1>1, NoCallOK
  <2>3. IsStarted(s) /\ f = <<>> => NoCall.shaken
    BY <1>4, <2>1 DEF OpenOK
  <2>4. OpenOK(writeStream', f, NoCall)
    BY <1>3, <2>3 DEF OpenOK
  <2> QED
    BY <1>1, <1>2, <1>3, <2>1, <2>2, <2>4
<1>6. CASE s.state = "open" /\ f = <<>>
  <2>1. call' = [c EXCEPT !.idle = TRUE]
    BY <1>2, <1>6
  <2>2. p = <<>> /\ c.shaken
    BY <1>4, <1>6 DEF OpenOK, IsStarted
  <2> DEFINE n == [c EXCEPT !.idle = TRUE]
  <2>3. /\ n \in Calls /\ n.idle /\ n.answers = c.answers /\ n.requests = c.requests
        /\ n.shaken = c.shaken /\ n.ended = c.ended /\ n.finishing = c.finishing
    BY DEF CallOK, Calls
  <2> HIDE DEF n
  <2>4. CallOK(f, n)
    BY <1>6, <2>2, <2>3 DEF CallOK
  <2>5. OpenOK(writeStream', f, n)
    BY <1>3, <1>6, <2>2, <2>3 DEF OpenOK
  <2> QED
    BY <1>1, <1>2, <1>3, <2>1, <2>3, <2>4, <2>5 DEF n
<1>7. CASE s.state = "open" /\ f # <<>>
  <2>1. call' = Send(b, c)
    BY <1>2, <1>7
  <2>2. CallOK(f, Send(b, c)) /\ Send(b, c).answers = c.answers
    BY <1>1, <1>7, SendKeepsCall
  <2>3. writeStream' = s
    BY <1>2, <1>7 DEF StartIfNeeded, IsStarted
  <2>4. OpenOK(writeStream', f, Send(b, c))
    BY <1>7, <2>3 DEF OpenOK
  <2> QED
    BY <1>1, <1>2, <1>3, <2>1, <2>2, <2>4
<1> QED
  BY <1>5, <1>6, <1>7
=============================================================================
