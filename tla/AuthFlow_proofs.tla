--------------------------- MODULE AuthFlow_proofs ---------------------------
(***************************************************************************)
(* What AuthFlow guarantees for any set of accounts and any number of      *)
(* taps.                                                                   *)
(***************************************************************************)
EXTENDS AuthFlow, SequenceTheorems, TLAPS

-----------------------------------------------------------------------------
(* Queues in which everything waits once.                                  *)

Elements(q) == {q[k] : k \in DOMAIN q}
Distinct(q) == \A k, m \in DOMAIN q : q[k] = q[m] => k = m
Of(q)       == {q[k].of : k \in DOMAIN q}
OnceEach(q) == \A k, m \in DOMAIN q : q[k].of = q[m].of => k = m

LEMMA AppendOnce ==
  ASSUME NEW S, NEW q \in Seq(S), NEW e \in S,
         OnceEach(q), e.of \notin Of(q)
  PROVE  /\ OnceEach(Append(q, e))
         /\ Of(Append(q, e)) = Of(q) \cup {e.of}
         /\ Elements(Append(q, e)) = Elements(q) \cup {e}
<1> DEFINE a == Append(q, e)
<1>1. /\ Len(q) \in Nat /\ DOMAIN q = 1..Len(q)
      /\ DOMAIN a = 1..(Len(q) + 1)
      /\ a[Len(q) + 1] = e
      /\ \A k \in 1..Len(q) : a[k] = q[k]
  OBVIOUS
<1>2. DOMAIN a = DOMAIN q \cup {Len(q) + 1} /\ Len(q) + 1 \notin DOMAIN q
  BY <1>1
<1> HIDE DEF a
<1>3. OnceEach(a)
  BY <1>1, <1>2 DEF OnceEach, Of
<1>4. Of(a) = Of(q) \cup {e.of}
  BY <1>1, <1>2 DEF Of
<1>5. Elements(a) = Elements(q) \cup {e}
  BY <1>1, <1>2 DEF Elements
<1> QED
  BY <1>3, <1>4, <1>5 DEF a

LEMMA TailOnce ==
  ASSUME NEW S, NEW q \in Seq(S), q # <<>>, OnceEach(q)
  PROVE  /\ Head(q) \in S /\ Head(q) \in Elements(q) /\ Head(q).of \in Of(q)
         /\ Tail(q) \in Seq(S)
         /\ OnceEach(Tail(q))
         /\ Of(Tail(q)) = Of(q) \ {Head(q).of}
         /\ Elements(Tail(q)) \subseteq Elements(q)
<1> DEFINE t == Tail(q)
<1>1. /\ Len(q) \in Nat /\ DOMAIN q = 1..Len(q) /\ Len(q) > 0
      /\ Head(q) = q[1] /\ q[1] \in S
      /\ t \in Seq(S) /\ DOMAIN t = 1..(Len(q) - 1)
      /\ \A k \in 1..(Len(q) - 1) : t[k] = q[k+1]
  <2>1. Len(q) \in Nat /\ DOMAIN q = 1..Len(q) /\ Len(q) > 0
    BY LenProperties, EmptySeq
  <2>2. Head(q) = q[1] /\ q[1] \in S
    BY <2>1, ElementOfSeq
  <2>3. t \in Seq(S) /\ Len(t) = Len(q) - 1 /\ \A k \in 1..Len(t) : t[k] = q[k+1]
    BY HeadTailProperties
  <2>4. DOMAIN t = 1..Len(t)
    BY <2>3, LenProperties
  <2> QED
    BY <2>1, <2>2, <2>3, <2>4
<1> HIDE DEF t
<1>2. OnceEach(t)
  <2> SUFFICES ASSUME NEW k \in DOMAIN t, NEW m \in DOMAIN t, t[k].of = t[m].of
               PROVE  k = m
    BY DEF OnceEach
  <2>1. k + 1 \in DOMAIN q /\ m + 1 \in DOMAIN q /\ t[k] = q[k+1] /\ t[m] = q[m+1]
    BY <1>1
  <2>2. k + 1 = m + 1
    BY <2>1 DEF OnceEach
  <2> QED
    BY <1>1, <2>2
<1>3. Elements(t) \subseteq Elements(q)
  BY <1>1 DEF Elements
<1>4. Of(t) \subseteq Of(q) \ {Head(q).of}
  <2> SUFFICES ASSUME NEW k \in DOMAIN t
               PROVE  t[k].of \in Of(q) /\ t[k].of # q[1].of
    BY <1>1 DEF Of
  <2>1. k + 1 \in DOMAIN q /\ k + 1 # 1 /\ t[k] = q[k+1] /\ 1 \in DOMAIN q
    BY <1>1
  <2> QED
    BY <2>1 DEF Of, OnceEach
<1>5. Of(q) \ {Head(q).of} \subseteq Of(t)
  <2> SUFFICES ASSUME NEW k \in DOMAIN q, q[k].of # q[1].of
               PROVE  q[k].of \in Of(t)
    BY <1>1 DEF Of
  <2>1. k - 1 \in DOMAIN t /\ t[k-1] = q[k]
    BY <1>1
  <2> QED
    BY <2>1 DEF Of
<1>6. Head(q) \in Elements(q) /\ Head(q).of \in Of(q)
  BY <1>1 DEF Elements, Of
<1> QED
  BY <1>1, <1>2, <1>3, <1>4, <1>5, <1>6 DEF t

\* Taking a request out of the profile changes leaves the others as they are.
LEMMA WithoutOne ==
  ASSUME NEW S, naming \in Seq(S), Distinct(naming), NEW i \in Elements(naming)
  PROVE  /\ Without(i) \in Seq(S)
         /\ Distinct(Without(i))
         /\ Elements(Without(i)) = Elements(naming) \ {i}
<1> DEFINE n == Len(naming)
           k == CHOOSE k \in DOMAIN naming : naming[k] = i
           w == SubSeq(naming, 1, k-1) \o SubSeq(naming, k+1, n)
<1>1. n \in Nat /\ DOMAIN naming = 1..n /\ \A j \in 1..n : naming[j] \in S
  BY LenProperties, ElementOfSeq
<1>2. k \in 1..n /\ naming[k] = i
  BY <1>1 DEF Elements
<1>3. w = Without(i)
  BY DEF Without
<1> HIDE DEF k, n
<1>4. /\ SubSeq(naming, 1, k-1) \in Seq(S) /\ Len(SubSeq(naming, 1, k-1)) = k - 1
      /\ \A j \in 1..(k-1) : SubSeq(naming, 1, k-1)[j] = naming[j]
  BY <1>1, <1>2, SubSeqProperties
<1>5. /\ SubSeq(naming, k+1, n) \in Seq(S) /\ Len(SubSeq(naming, k+1, n)) = n - k
      /\ \A j \in 1..(n-k) : SubSeq(naming, k+1, n)[j] = naming[k+j]
  BY <1>1, <1>2, SubSeqProperties
<1>6. /\ w \in Seq(S) /\ Len(w) = n - 1 /\ DOMAIN w = 1..(n-1)
      /\ \A j \in 1..(n-1) : w[j] = IF j < k THEN naming[j] ELSE naming[j+1]
  <2> DEFINE front == SubSeq(naming, 1, k-1)
             back == SubSeq(naming, k+1, n)
  <2>1. front \in Seq(S) /\ back \in Seq(S) /\ Len(front) = k - 1 /\ Len(back) = n - k
    BY <1>4, <1>5
  <2>2. \A j \in 1..(k-1) : front[j] = naming[j]
    BY <1>4
  <2>3. \A j \in 1..(n-k) : back[j] = naming[k+j]
    BY <1>5
  <2>4. w = front \o back
    OBVIOUS
  <2> HIDE DEF front, back, w
  <2>5. /\ w \in Seq(S) /\ Len(w) = Len(front) + Len(back)
        /\ \A j \in 1..Len(w) : w[j] = IF j <= Len(front) THEN front[j]
                                       ELSE back[j - Len(front)]
    BY <2>1, <2>4, ConcatProperties
  <2>6. Len(w) = n - 1 /\ DOMAIN w = 1..(n-1)
    BY <2>1, <2>5, <1>1, <1>2, LenProperties
  <2>7. ASSUME NEW j \in 1..(n-1)
        PROVE  w[j] = IF j < k THEN naming[j] ELSE naming[j+1]
    <3>1. CASE j < k
      BY <3>1, <2>1, <2>2, <2>5, <2>6, <1>1, <1>2
    <3>2. CASE ~(j < k)
      <4>1. j - (k-1) \in 1..(n-k) /\ k + (j - (k-1)) = j + 1
        BY <3>2, <1>1, <1>2
      <4> QED
        BY <3>2, <4>1, <2>1, <2>3, <2>5, <2>6, <1>1, <1>2
    <3> QED
      BY <3>1, <3>2
  <2> QED
    BY <2>5, <2>6, <2>7
<1> DEFINE At(j) == IF j < k THEN j ELSE j + 1
<1>61. \A j \in DOMAIN w : At(j) \in DOMAIN naming /\ At(j) # k /\ w[j] = naming[At(j)]
  <2> HIDE DEF w
  <2> SUFFICES ASSUME NEW j \in 1..(n-1)
               PROVE  At(j) \in 1..n /\ At(j) # k /\ w[j] = naming[At(j)]
    BY <1>1, <1>6
  <2>1. CASE j < k
    BY <2>1, <1>1, <1>2, <1>6
  <2>2. CASE ~(j < k)
    BY <2>2, <1>1, <1>2, <1>6
  <2> QED
    BY <2>1, <2>2
<1> HIDE DEF w
<1>7. Distinct(w)
  <2> SUFFICES ASSUME NEW j \in DOMAIN w, NEW m \in DOMAIN w, w[j] = w[m]
               PROVE  j = m
    BY DEF Distinct
  <2>1. At(j) = At(m)
    <3> HIDE DEF At
    <3> QED
      BY <1>61 DEF Distinct
  <2> QED
    BY <2>1, <1>1, <1>2, <1>6
<1>8. Elements(w) = Elements(naming) \ {i}
  <2>1. ASSUME NEW j \in DOMAIN w
        PROVE  w[j] \in Elements(naming) \ {i}
    <3>1. k \in DOMAIN naming
      BY <1>1, <1>2
    <3> HIDE DEF At
    <3> QED
      BY <1>61, <1>2, <3>1 DEF Elements, Distinct
  <2>2. ASSUME NEW j \in DOMAIN naming, naming[j] # i
        PROVE  naming[j] \in Elements(w)
    <3>1. CASE j < k
      BY <1>1, <1>2, <1>6, <3>1 DEF Elements
    <3>2. CASE j > k
      <4>1. j - 1 \in DOMAIN w /\ w[j-1] = naming[j]
        BY <1>1, <1>2, <1>6, <3>2
      <4> QED
        BY <4>1 DEF Elements
    <3>3. j \in Nat /\ k \in Nat /\ j # k
      BY <1>1, <1>2, <2>2
    <3> QED
      BY <3>1, <3>2, <3>3
  <2> QED
    BY <2>1, <2>2 DEF Elements
<1> QED
  BY <1>3, <1>6, <1>7, <1>8

LEMMA ElementsOf ==
  ASSUME NEW S, NEW q \in Seq(S)
  PROVE  Elements(q) \subseteq S
<1>1. DOMAIN q = 1..Len(q)
  BY LenProperties
<1>2. \A k \in DOMAIN q : q[k] \in S
  BY <1>1, ElementOfSeq
<1> QED
  BY <1>2 DEF Elements

LEMMA AppendDistinct ==
  ASSUME NEW S, NEW q \in Seq(S), NEW e \in S, Distinct(q), e \notin Elements(q)
  PROVE  /\ Distinct(Append(q, e))
         /\ Elements(Append(q, e)) = Elements(q) \cup {e}
<1> DEFINE a == Append(q, e)
<1>1. /\ Len(q) \in Nat /\ DOMAIN q = 1..Len(q)
      /\ DOMAIN a = 1..(Len(q) + 1)
      /\ a[Len(q) + 1] = e
      /\ \A k \in 1..Len(q) : a[k] = q[k]
  OBVIOUS
<1>2. DOMAIN a = DOMAIN q \cup {Len(q) + 1} /\ Len(q) + 1 \notin DOMAIN q
  BY <1>1
<1> HIDE DEF a
<1>3. Distinct(a)
  BY <1>1, <1>2 DEF Distinct, Elements
<1>4. Elements(a) = Elements(q) \cup {e}
  BY <1>1, <1>2 DEF Elements
<1> QED
  BY <1>3, <1>4 DEF a
-----------------------------------------------------------------------------
(* What a step does to the requests.                                       *)

\* new is requests, with the stage and the target of request i replaced.
Becoming(new, i, stage, target) ==
  /\ new \in Seq(Requests)
  /\ Len(new) = Len(requests)
  /\ DOMAIN new = DOMAIN requests
  /\ \A j \in DOMAIN requests :
       /\ new[j].at = IF j = i THEN stage ELSE requests[j].at
       /\ new[j].target = IF j = i THEN target ELSE requests[j].target

Same(new) == Becoming(new, NoUser, "lost", NoUser)

LEMMA RequestsOf ==
  ASSUME NEW n \in Nat, NEW f \in [1..n -> Requests]
  PROVE  f \in Seq(Requests) /\ Len(f) = n /\ DOMAIN f = 1..n
<1>1. f \in Seq(Requests)
  BY SeqDef
<1> QED
  BY <1>1, LenProperties

LEMMA RequestsType ==
  ASSUME requests \in Seq(Requests)
  PROVE  /\ Len(requests) \in Nat /\ DOMAIN requests = 1..Len(requests)
         /\ requests \in [1..Len(requests) -> Requests]
         /\ NoUser \notin DOMAIN requests
BY LenProperties DEF NoUser

LEMMA MovedBecomes ==
  ASSUME requests \in Seq(Requests), NEW i \in DOMAIN requests, NEW stage \in Stages
  PROVE  Becoming(Moved(i, stage), i, stage, requests[i].target)
<1>1. Moved(i, stage) \in [1..Len(requests) -> Requests]
  BY RequestsType DEF Moved, Requests
<1>2. \A j \in DOMAIN requests :
       /\ Moved(i, stage)[j].at = IF j = i THEN stage ELSE requests[j].at
       /\ Moved(i, stage)[j].target = requests[j].target
  BY RequestsType DEF Moved, Requests
<1> QED
  BY <1>1, <1>2, RequestsOf, RequestsType DEF Becoming

LEMMA MovedAndAnswered ==
  ASSUME requests \in Seq(Requests), NEW i \in DOMAIN requests, NEW stage \in Stages
  PROVE  Becoming([Moved(i, stage) EXCEPT ![i].call = "none"], i, stage, requests[i].target)
<1> DEFINE new == [Moved(i, stage) EXCEPT ![i].call = "none"]
<1>1. new \in [1..Len(requests) -> Requests]
  <2>1. Moved(i, stage) \in [1..Len(requests) -> Requests] /\ i \in 1..Len(requests)
    BY RequestsType, MovedBecomes, LenProperties DEF Becoming
  <2>2. \A r \in Requests : [r EXCEPT !.call = "none"] \in Requests
    BY DEF Requests
  <2> QED
    BY <2>1, <2>2
<1>2. \A j \in DOMAIN requests :
       /\ new[j].at = IF j = i THEN stage ELSE requests[j].at
       /\ new[j].target = requests[j].target
  BY RequestsType DEF Moved, Requests
<1> HIDE DEF new
<1>3. Becoming(new, i, stage, requests[i].target)
  BY <1>1, <1>2, RequestsOf, RequestsType DEF Becoming
<1> QED
  BY <1>3 DEF new

LEMMA ReplacedBecomes ==
  ASSUME requests \in Seq(Requests), NEW rs, NEW i, NEW stage, NEW target, NEW kinds,
         Becoming(rs, i, stage, target)
  PROVE  Becoming(Replaced(rs, kinds), i, stage, target)
<1>1. rs \in [1..Len(requests) -> Requests] /\ DOMAIN rs = 1..Len(requests)
  BY RequestsType, LenProperties DEF Becoming
<1>2. /\ Replaced(rs, kinds) \in [1..Len(requests) -> Requests]
      /\ \A j \in DOMAIN requests : /\ Replaced(rs, kinds)[j].at = rs[j].at
                                     /\ Replaced(rs, kinds)[j].target = rs[j].target
  <2>1. \A r \in Requests, b \in BOOLEAN :
          /\ [r EXCEPT !.form = @ /\ b] \in Requests
          /\ [r EXCEPT !.form = @ /\ b].at = r.at
          /\ [r EXCEPT !.form = @ /\ b].target = r.target
    BY DEF Requests
  <2>2. DOMAIN requests = 1..Len(requests)
    BY RequestsType
  <2>3. \A j \in 1..Len(requests) : (rs[j].kind \notin kinds) \in BOOLEAN
    OBVIOUS
  <2> HIDE DEF Requests
  <2> QED
    BY <1>1, <2>1, <2>2, <2>3 DEF Replaced
<1> HIDE DEF Replaced
<1> QED
  BY <1>1, <1>2, RequestsOf, RequestsType DEF Becoming

LEMMA CalledBecomes ==
  ASSUME requests \in Seq(Requests), NEW i \in DOMAIN requests,
         NEW call \in {"out", "good", "bad"}
  PROVE  Same([requests EXCEPT ![i].call = call])
<1> DEFINE new == [requests EXCEPT ![i].call = call]
<1>1. new \in [1..Len(requests) -> Requests]
  BY RequestsType DEF Requests
<1>2. \A j \in DOMAIN requests :
       /\ new[j].at = requests[j].at
       /\ new[j].target = requests[j].target
  BY RequestsType DEF Requests
<1> HIDE DEF new
<1>3. Same(new)
  BY <1>1, <1>2, RequestsOf, RequestsType DEF Same, Becoming
<1> QED
  BY <1>3 DEF new

LEMMA SameAsBefore ==
  ASSUME requests \in Seq(Requests)
  PROVE  Same(requests)
BY RequestsType DEF Same, Becoming

-----------------------------------------------------------------------------
(* The inductive invariant.                                                *)

InPlace(rs, turns, queue) ==
  /\ OnceEach(queue)
  /\ Distinct(turns)
  /\ \A i \in DOMAIN rs :
       /\ i \in Elements(turns) <=> rs[i].at = "naming"
       /\ i \in Of(queue) <=> rs[i].at \in {"signedIn", "named", "failing"}
  /\ \A b \in Elements(queue) :
       b.run \in {"signedIn", "named"} => rs[b.of].at = b.run

LEMMA PlaceForm ==
  /\ InOnePlace <=> InPlace(requests, naming, mainQueue)
  /\ InOnePlace' <=> InPlace(requests', naming', mainQueue')
BY DEF InOnePlace, InPlace, OnceEach, Distinct, Elements, Of

\* The current user is the last who signed in, or nobody; a callback in the
\* main queue belongs to a sign-in that has happened.
CurrentIsLast ==
  currentUser # NoUser => Len(signIns) > 0 /\ currentUser = signIns[Len(signIns)]

CallbacksSignedIn ==
  \A b \in Elements(mainQueue) : b.run = "signedIn" => b.of \in Elements(signIns)

SignInInv == CurrentIsLast /\ CallbacksSignedIn /\ NameNeverGoesToEarlierUser

AuthInv == AuthTypeOK /\ SignInInv

QueueVars == <<currentUser, naming, mainQueue, signIns>>

\* Steps that only change accounts, screens and view models.
LEMMA IdleKeeps ==
  ASSUME AuthInv, Same(requests'), UNCHANGED QueueVars,
         accounts' \in [Accounts -> Taps \cup {NoName, Free}],
         screen' \in Screens, disturbed' \subseteq DOMAIN requests
  PROVE  AuthInv'
<1>1. /\ DOMAIN requests' = DOMAIN requests /\ Len(requests') = Len(requests)
      /\ requests' \in Seq(Requests)
      /\ \A j \in DOMAIN requests : /\ requests'[j].at = requests[j].at
                                    /\ requests'[j].target = requests[j].target
  BY RequestsType DEF AuthInv, AuthTypeOK, AuthTypes, Same, Becoming
<1>2. AuthTypes'
  BY <1>1 DEF AuthInv, AuthTypeOK, AuthTypes, QueueVars
<1>3. InOnePlace'
  <2>1. \A b \in Elements(mainQueue) : b.of \in DOMAIN requests
    <3> DEFINE B == [of : DOMAIN requests, run : Blocks]
    <3>1. mainQueue \in Seq(B)
      BY DEF AuthInv, AuthTypeOK, AuthTypes
    <3>2. Elements(mainQueue) \subseteq B
      BY <3>1, ElementsOf
    <3> QED
      BY <3>2
  <2> QED
    BY <1>1, <2>1, PlaceForm DEF InPlace, AuthInv, AuthTypeOK, QueueVars
<1>4. SignInInv'
  BY <1>1 DEF AuthInv, SignInInv, CurrentIsLast, CallbacksSignedIn,
     NameNeverGoesToEarlierUser, NotBefore, QueueVars, Elements
<1> QED
  BY <1>2, <1>3, <1>4 DEF AuthInv, AuthTypeOK

\* A block of the main queue that ends its request.
LEMMA BlockEnds ==
  ASSUME AuthInv, mainQueue # <<>>, NEW i, i = Head(mainQueue).of,
         NEW stage \in {"ok", "failed", "silent"},
         Becoming(requests', i, stage, requests[i].target),
         mainQueue' = Tail(mainQueue), screen' \in Screens,
         UNCHANGED <<accounts, currentUser, naming, signIns, disturbed>>
  PROVE  AuthInv'
<1> DEFINE B == [of : DOMAIN requests, run : Blocks]
<1>1. AuthTypes /\ InPlace(requests, naming, mainQueue) /\ SignInInv
  BY PlaceForm DEF AuthInv, AuthTypeOK
<1>2. mainQueue \in Seq(B) /\ OnceEach(mainQueue)
  BY <1>1 DEF AuthTypes, InPlace
<1>3. /\ Head(mainQueue) \in B /\ i \in Of(mainQueue)
      /\ mainQueue' \in Seq(B) /\ OnceEach(mainQueue')
      /\ Of(mainQueue') = Of(mainQueue) \ {i}
      /\ Elements(mainQueue') \subseteq Elements(mainQueue)
  BY <1>2, TailOnce
<1>4. i \in DOMAIN requests /\ requests[i].at # "naming" /\ i \notin Elements(naming)
  BY <1>1, <1>3 DEF InPlace
<1>5. /\ DOMAIN requests' = DOMAIN requests /\ Len(requests') = Len(requests)
      /\ requests' \in Seq(Requests)
      /\ \A j \in DOMAIN requests :
           /\ requests'[j].at = IF j = i THEN stage ELSE requests[j].at
           /\ requests'[j].target = requests[j].target
  BY <1>4 DEF Becoming
<1>6. AuthTypes'
  BY <1>1, <1>3, <1>5 DEF AuthTypes
<1>7. InPlace(requests', naming', mainQueue')
  <2>1. \A b \in Elements(mainQueue') : b.of \in DOMAIN requests /\ b.of # i
    <3>1. \A b \in Elements(mainQueue') : b \in B /\ b.of \in Of(mainQueue')
      BY <1>3, ElementsOf DEF Elements, Of
    <3> QED
      BY <3>1, <1>3
  <2>2. \A b \in Elements(mainQueue') :
          b.run \in {"signedIn", "named"} => requests'[b.of].at = b.run
    BY <1>1, <1>3, <1>5, <2>1 DEF InPlace
  <2>3. \A j \in DOMAIN requests :
          /\ j \in Elements(naming) <=> requests'[j].at = "naming"
          /\ j \in Of(mainQueue') <=> requests'[j].at \in {"signedIn", "named", "failing"}
    BY <1>1, <1>3, <1>4, <1>5 DEF InPlace
  <2> QED
    BY <1>1, <1>3, <1>5, <2>2, <2>3 DEF InPlace
<1>8. SignInInv'
  <2>1. CurrentIsLast' /\ CallbacksSignedIn'
    BY <1>1, <1>3 DEF SignInInv, CurrentIsLast, CallbacksSignedIn
  <2>2. NameNeverGoesToEarlierUser'
    BY <1>1, <1>5 DEF SignInInv, NameNeverGoesToEarlierUser, NotBefore
  <2> QED
    BY <2>1, <2>2 DEF SignInInv
<1> QED
  BY <1>6, <1>7, <1>8, PlaceForm DEF AuthInv, AuthTypeOK

\* A block that the work queue dispatches when a request is done with the
\* server, or with its turn on its user.
LEMMA BlockAppended ==
  ASSUME AuthInv, NEW i \in DOMAIN requests, requests[i].at \in {"sent", "naming"},
         NEW stage \in {"signedIn", "named", "failing"}, NEW run \in Blocks,
         Becoming(requests', i, stage, requests[i].target),
         mainQueue' = Append(mainQueue, [of |-> i, run |-> run]),
         run \in {"signedIn", "named"} => run = stage,
         \/ requests[i].at = "sent" /\ naming' = naming
         \/ requests[i].at = "naming" /\ naming' = Without(i)
  PROVE  /\ InOnePlace'
         /\ naming' \in Seq(DOMAIN requests)
         /\ mainQueue' \in Seq([of : DOMAIN requests, run : Blocks])
         /\ Elements(mainQueue') = Elements(mainQueue) \cup {[of |-> i, run |-> run]}
<1> DEFINE B == [of : DOMAIN requests, run : Blocks]
           b == [of |-> i, run |-> run]
<1>1. AuthTypes /\ InPlace(requests, naming, mainQueue)
  BY PlaceForm DEF AuthInv, AuthTypeOK
<1>2. /\ mainQueue \in Seq(B) /\ OnceEach(mainQueue) /\ b \in B
      /\ naming \in Seq(DOMAIN requests) /\ Distinct(naming)
  BY <1>1 DEF AuthTypes, InPlace
<1>3. b.of = i /\ i \notin Of(mainQueue)
  BY <1>1 DEF InPlace
<1>4. /\ mainQueue' \in Seq(B) /\ OnceEach(mainQueue')
      /\ Of(mainQueue') = Of(mainQueue) \cup {i}
      /\ Elements(mainQueue') = Elements(mainQueue) \cup {b}
  <2>1. mainQueue' = Append(mainQueue, b)
    OBVIOUS
  <2> HIDE DEF B, b
  <2> QED
    BY <1>2, <1>3, <2>1, AppendOnce
<1>5. /\ naming' \in Seq(DOMAIN requests) /\ Distinct(naming')
      /\ Elements(naming') = Elements(naming) \ {i}
  <2>1. CASE requests[i].at = "sent" /\ naming' = naming
    BY <1>1, <1>2, <2>1 DEF InPlace
  <2>2. CASE requests[i].at = "naming" /\ naming' = Without(i)
    <3>1. i \in Elements(naming)
      BY <1>1, <2>2 DEF InPlace
    <3> QED
      BY <1>2, <2>2, <3>1, WithoutOne
  <2> QED
    BY <2>1, <2>2
<1>6. /\ DOMAIN requests' = DOMAIN requests
      /\ \A j \in DOMAIN requests :
           requests'[j].at = IF j = i THEN stage ELSE requests[j].at
  BY DEF Becoming
<1>7. \A e \in Elements(mainQueue') :
        e.run \in {"signedIn", "named"} => requests'[e.of].at = e.run
  <2>1. \A e \in Elements(mainQueue) : e \in B /\ e.of # i
    BY <1>2, <1>3, ElementsOf DEF Elements, Of
  <2> QED
    BY <1>1, <1>4, <1>6, <2>1 DEF InPlace
<1>8. \A j \in DOMAIN requests :
        /\ j \in Elements(naming') <=> requests'[j].at = "naming"
        /\ j \in Of(mainQueue') <=> requests'[j].at \in {"signedIn", "named", "failing"}
  BY <1>1, <1>4, <1>5, <1>6 DEF InPlace
<1>9. InPlace(requests', naming', mainQueue')
  BY <1>4, <1>5, <1>6, <1>7, <1>8 DEF InPlace
<1> QED
  BY <1>4, <1>5, <1>9, PlaceForm

\* A current user and a history that only grow older keep what was known of
\* the targets.
LEMMA HistoryGrows ==
  ASSUME signIns \in Seq(DOMAIN requests), NEW i \in DOMAIN requests,
         signIns' = Append(signIns, i)
  PROVE  /\ Len(signIns') > 0 /\ signIns'[Len(signIns')] = i
         /\ Elements(signIns') = Elements(signIns) \cup {i}
         /\ \A j, user : NotBefore(j, user) => NotBefore(j, user)'
<1>1. /\ Len(signIns) \in Nat /\ DOMAIN signIns = 1..Len(signIns)
      /\ DOMAIN signIns' = 1..(Len(signIns) + 1) /\ Len(signIns') = Len(signIns) + 1
      /\ signIns'[Len(signIns) + 1] = i
      /\ \A k \in 1..Len(signIns) : signIns'[k] = signIns[k]
  OBVIOUS
<1>2. DOMAIN signIns' = DOMAIN signIns \cup {Len(signIns) + 1}
  BY <1>1
<1>3. Elements(signIns') = Elements(signIns) \cup {i}
  BY <1>1, <1>2 DEF Elements
<1>4. \A j, user : NotBefore(j, user) => NotBefore(j, user)'
  BY <1>1, <1>2 DEF NotBefore
<1> QED
  BY <1>1, <1>3, <1>4

-----------------------------------------------------------------------------
(* One lemma per kind of action.                                           *)

LEMMA InvFacts ==
  ASSUME AuthInv
  PROVE  /\ requests \in Seq(Requests) /\ DOMAIN requests = 1..Len(requests)
         /\ Len(requests) \in Nat /\ NoUser \notin DOMAIN requests
         /\ \A i \in DOMAIN requests : requests[i] \in Requests
         /\ mainQueue \in Seq([of : DOMAIN requests, run : Blocks])
         /\ mainQueue # <<>> => /\ Head(mainQueue).of \in DOMAIN requests
                                /\ Head(mainQueue).run \in Blocks
                                /\ Head(mainQueue) \in Elements(mainQueue)
<1>1. AuthTypes /\ OnceEach(mainQueue)
  BY PlaceForm DEF AuthInv, AuthTypeOK, InPlace
<1> DEFINE B == [of : DOMAIN requests, run : Blocks]
<1>2. requests \in Seq(Requests) /\ mainQueue \in Seq(B)
  BY <1>1 DEF AuthTypes
<1>3. mainQueue # <<>> => Head(mainQueue) \in B /\ Head(mainQueue) \in Elements(mainQueue)
  BY <1>1, <1>2, TailOnce
<1> QED
  BY <1>2, <1>3, RequestsType

LEMMA SendKeeps ==
  ASSUME AuthInv, NEW a \in Accounts, NEW kind \in {"login", "register"}, Send(kind, a)
  PROVE  AuthInv'
<1> DEFINE n == Len(requests) + 1
           r == [kind |-> kind, account |-> a, at |-> "sent", call |-> "out",
                 target |-> NoUser, form |-> TRUE]
<1>1. AuthTypes /\ InPlace(requests, naming, mainQueue) /\ SignInInv
  BY PlaceForm DEF AuthInv, AuthTypeOK
<1>2. r \in Requests
  BY DEF Requests, Stages
<1>3. /\ requests' \in Seq(Requests) /\ Len(requests') = n /\ n <= MaxTaps
      /\ DOMAIN requests' = DOMAIN requests \cup {n} /\ n \notin DOMAIN requests
      /\ requests'[n] = r
      /\ \A j \in DOMAIN requests : requests'[j] = requests[j]
  <2>1. requests' = Append(requests, r) /\ n <= MaxTaps
    BY DEF Send
  <2> HIDE DEF r
  <2>2. Len(requests) \in Nat /\ DOMAIN requests = 1..Len(requests)
    BY InvFacts
  <2> QED
    BY <1>1, <1>2, <2>1, <2>2 DEF AuthTypes
<1>4. UNCHANGED <<accounts, currentUser, naming, mainQueue, screen, signIns>>
  BY DEF Send
<1>5. AuthTypes'
  <2>1. /\ naming' \in Seq(DOMAIN requests') /\ signIns' \in Seq(DOMAIN requests')
        /\ mainQueue' \in Seq([of : DOMAIN requests', run : Blocks])
    <3>1. /\ DOMAIN requests \subseteq DOMAIN requests'
          /\ [of : DOMAIN requests, run : Blocks] \subseteq [of : DOMAIN requests', run : Blocks]
      BY <1>3
    <3> QED
      BY <1>1, <1>4, <3>1, SeqMonotonic DEF AuthTypes
  <2>2. disturbed' \subseteq DOMAIN requests'
    BY <1>1, <1>3 DEF AuthTypes, Send, InProgress
  <2>3. /\ currentUser' \in DOMAIN requests' \cup {NoUser}
        /\ \A i \in DOMAIN requests' : requests'[i].target \in DOMAIN requests' \cup {NoUser}
    BY <1>1, <1>3, <1>4 DEF AuthTypes
  <2> QED
    BY <1>1, <1>3, <1>4, <2>1, <2>2, <2>3 DEF AuthTypes
<1>6. InPlace(requests', naming', mainQueue')
  <2>1. n \notin Elements(naming) /\ n \notin Of(mainQueue)
    <3>1. Elements(naming) \subseteq DOMAIN requests
      BY <1>1, ElementsOf DEF AuthTypes
    <3>2. Of(mainQueue) \subseteq DOMAIN requests
      <4> DEFINE B == [of : DOMAIN requests, run : Blocks]
      <4>1. Elements(mainQueue) \subseteq B
        BY InvFacts, ElementsOf
      <4> QED
        BY <4>1 DEF Elements, Of
    <3> QED
      BY <1>3, <3>1, <3>2
  <2>2. \A b \in Elements(mainQueue) : b.of \in DOMAIN requests
    <3> DEFINE B == [of : DOMAIN requests, run : Blocks]
    <3>1. Elements(mainQueue) \subseteq B
      BY InvFacts, ElementsOf
    <3> QED
      BY <3>1
  <2> QED
    BY <1>1, <1>3, <1>4, <2>1, <2>2 DEF InPlace
<1>7. SignInInv'
  <2>1. \A i \in DOMAIN requests' : requests'[i].target # NoUser =>
          i \in DOMAIN requests /\ requests'[i].target = requests[i].target
    BY <1>3
  <2>2. NameNeverGoesToEarlierUser'
    BY <1>1, <1>4, <2>1 DEF SignInInv, NameNeverGoesToEarlierUser, NotBefore
  <2> QED
    BY <1>1, <1>4, <2>2 DEF SignInInv, CurrentIsLast, CallbacksSignedIn
<1> QED
  BY <1>5, <1>6, <1>7, PlaceForm DEF AuthInv, AuthTypeOK

\* A sign-in.
LEMMA SignedInKeeps ==
  ASSUME AuthInv, NEW i \in DOMAIN requests, SignedIn(i)
  PROVE  AuthInv'
<1>1. AuthTypes /\ SignInInv
  BY DEF AuthInv, AuthTypeOK
<1>2. Becoming(requests', i, "signedIn", requests[i].target)
  BY <1>1, MovedAndAnswered DEF AuthTypes, Stages, SignedIn
<1>3. /\ InOnePlace' /\ naming' \in Seq(DOMAIN requests)
      /\ mainQueue' \in Seq([of : DOMAIN requests, run : Blocks])
      /\ Elements(mainQueue') = Elements(mainQueue) \cup {[of |-> i, run |-> "signedIn"]}
  BY <1>2, BlockAppended DEF SignedIn, Blocks
<1>4. /\ DOMAIN requests' = DOMAIN requests /\ Len(requests') = Len(requests)
      /\ requests' \in Seq(Requests)
      /\ \A j \in DOMAIN requests : requests'[j].target = requests[j].target
  BY <1>2 DEF Becoming
<1>5. /\ signIns' \in Seq(DOMAIN requests)
      /\ Len(signIns') > 0 /\ signIns'[Len(signIns')] = i /\ currentUser' = i
      /\ Elements(signIns') = Elements(signIns) \cup {i}
      /\ \A j, user : NotBefore(j, user) => NotBefore(j, user)'
  <2>1. signIns' = Append(signIns, i) /\ currentUser' = i
    BY DEF SignedIn
  <2>2. signIns \in Seq(DOMAIN requests)
    BY <1>1 DEF AuthTypes
  <2>3. signIns' \in Seq(DOMAIN requests)
    BY <2>1, <2>2
  <2> QED
    BY <2>1, <2>2, <2>3, HistoryGrows
<1>6. AuthTypes'
  BY <1>1, <1>3, <1>4, <1>5 DEF AuthTypes, SignedIn
<1>7. SignInInv'
  <2>1. CurrentIsLast'
    BY <1>5 DEF CurrentIsLast
  <2>2. CallbacksSignedIn'
    BY <1>1, <1>3, <1>5 DEF SignInInv, CallbacksSignedIn
  <2>3. NameNeverGoesToEarlierUser'
    BY <1>1, <1>4, <1>5 DEF SignInInv, NameNeverGoesToEarlierUser
  <2> QED
    BY <2>1, <2>2, <2>3 DEF SignInInv
<1> QED
  BY <1>3, <1>6, <1>7 DEF AuthInv, AuthTypeOK

\* A request that fails, or whose profile change succeeds, on the work queue.
LEMMA WorkEnds ==
  ASSUME AuthInv, NEW i \in DOMAIN requests, SignInFails(i) \/ Named(i) \/ NamingFails(i)
  PROVE  AuthInv'
<1>1. AuthTypes /\ SignInInv
  BY DEF AuthInv, AuthTypeOK
<1>2. PICK stage \in {"named", "failing"}, run \in {"named", "error"} :
        /\ Becoming(requests', i, stage, requests[i].target)
        /\ mainQueue' = Append(mainQueue, [of |-> i, run |-> run])
        /\ run = "named" => stage = "named"
        /\ \/ requests[i].at = "sent" /\ naming' = naming
           \/ requests[i].at = "naming" /\ naming' = Without(i)
  <2>1. CASE SignInFails(i)
    BY <1>1, <2>1, MovedBecomes DEF AuthTypes, Stages, SignInFails
  <2>2. CASE Named(i)
    BY <1>1, <2>2, MovedAndAnswered DEF AuthTypes, Stages, Named, Running
  <2>3. CASE NamingFails(i)
    BY <1>1, <2>3, MovedBecomes DEF AuthTypes, Stages, NamingFails, Running
  <2> QED
    BY <2>1, <2>2, <2>3
<1>3. /\ InOnePlace' /\ naming' \in Seq(DOMAIN requests)
      /\ mainQueue' \in Seq([of : DOMAIN requests, run : Blocks])
      /\ Elements(mainQueue') = Elements(mainQueue) \cup {[of |-> i, run |-> run]}
  <2>1. /\ requests[i].at \in {"sent", "naming"} /\ run \in Blocks
        /\ stage \in {"signedIn", "named", "failing"}
        /\ run \in {"signedIn", "named"} => run = stage
    BY <1>2 DEF Blocks
  <2> QED
    BY <1>2, <2>1, BlockAppended
<1>4. /\ DOMAIN requests' = DOMAIN requests /\ Len(requests') = Len(requests)
      /\ requests' \in Seq(Requests)
      /\ \A j \in DOMAIN requests : requests'[j].target = requests[j].target
  BY <1>2 DEF Becoming
<1>5. /\ currentUser' \in {currentUser, NoUser}
      /\ UNCHANGED <<accounts, screen, signIns, disturbed>>
  BY DEF SignInFails, Named, NamingFails
<1>6. AuthTypes'
  BY <1>1, <1>3, <1>4, <1>5 DEF AuthTypes
<1>7. SignInInv'
  <2>1. CurrentIsLast'
    BY <1>1, <1>5 DEF SignInInv, CurrentIsLast
  <2>2. CallbacksSignedIn'
    BY <1>1, <1>2, <1>3, <1>5 DEF SignInInv, CallbacksSignedIn
  <2>3. NameNeverGoesToEarlierUser'
    BY <1>1, <1>4, <1>5 DEF SignInInv, NameNeverGoesToEarlierUser, NotBefore
  <2> QED
    BY <2>1, <2>2, <2>3 DEF SignInInv
<1> QED
  BY <1>3, <1>6, <1>7 DEF AuthInv, AuthTypeOK

\* The callback of createUser.
LEMMA StartNamingKeeps ==
  ASSUME AuthInv, StartNaming
  PROVE  AuthInv'
<1> DEFINE i == Head(mainQueue).of
           B == [of : DOMAIN requests, run : Blocks]
<1>1. AuthTypes /\ InPlace(requests, naming, mainQueue) /\ SignInInv
  BY PlaceForm DEF AuthInv, AuthTypeOK
<1>2. /\ mainQueue # <<>> /\ i \in DOMAIN requests /\ Head(mainQueue).run = "signedIn"
      /\ Head(mainQueue) \in Elements(mainQueue)
      /\ mainQueue' = Tail(mainQueue)
      /\ UNCHANGED <<accounts, currentUser, screen, signIns, disturbed>>
  BY InvFacts DEF StartNaming, Block
<1>3. CASE currentUser = NoUser
  <2>1. requests' = Moved(i, "silent") /\ naming' = naming
    BY <1>3 DEF StartNaming
  <2>2. Becoming(requests', i, "silent", requests[i].target)
    BY <1>1, <1>2, <2>1, MovedBecomes DEF AuthTypes, Stages, Ended
  <2>3. screen' \in Screens
    BY <1>1, <1>2 DEF AuthTypes
  <2> HIDE DEF i
  <2>4. i = Head(mainQueue).of
    BY DEF i
  <2> QED
    BY <1>2, <2>1, <2>2, <2>3, <2>4, BlockEnds
<1>4. CASE currentUser # NoUser
  <2>1. /\ requests' = [Moved(i, "naming") EXCEPT ![i].target = currentUser]
        /\ naming' = Append(naming, i)
    BY <1>4 DEF StartNaming
  <2>2. currentUser \in DOMAIN requests /\ currentUser \in Taps
    BY <1>1, <1>4, InvFacts, AuthAssumption DEF AuthTypes, Taps
  <2>3. Becoming(requests', i, "naming", currentUser)
    <3> HIDE DEF i
    <3>1. requests' \in [1..Len(requests) -> Requests]
      <4>1. Moved(i, "naming") \in [1..Len(requests) -> Requests] /\ i \in 1..Len(requests)
        BY <1>1, <1>2, MovedBecomes, InvFacts, LenProperties DEF AuthTypes, Stages, Becoming
      <4>2. \A r \in Requests : [r EXCEPT !.target = currentUser] \in Requests
        BY <2>2 DEF Requests
      <4> QED
        BY <2>1, <4>1, <4>2
    <3>2. \A j \in DOMAIN requests :
            /\ requests'[j].at = IF j = i THEN "naming" ELSE requests[j].at
            /\ requests'[j].target = IF j = i THEN currentUser ELSE requests[j].target
      BY <1>1, <1>2, <2>1, RequestsType DEF AuthTypes, Moved, Requests
    <3>3. requests' \in Seq(Requests) /\ Len(requests') = Len(requests)
          /\ DOMAIN requests' = 1..Len(requests)
      BY <3>1, RequestsOf, InvFacts
    <3> QED
      BY <3>2, <3>3, InvFacts DEF Becoming
  <2>4. requests[i].at = "signedIn" /\ i \notin Elements(naming)
    BY <1>1, <1>2 DEF InPlace
  <2>5. /\ mainQueue' \in Seq(B) /\ OnceEach(mainQueue')
        /\ Of(mainQueue') = Of(mainQueue) \ {i}
        /\ Elements(mainQueue') \subseteq Elements(mainQueue)
    <3>1. mainQueue \in Seq(B) /\ OnceEach(mainQueue)
      BY <1>1 DEF AuthTypes, InPlace
    <3> QED
      BY <1>2, <3>1, TailOnce
  <2>6. /\ naming' \in Seq(DOMAIN requests) /\ Distinct(naming')
        /\ Elements(naming') = Elements(naming) \cup {i}
    <3>1. naming \in Seq(DOMAIN requests) /\ Distinct(naming)
      BY <1>1 DEF AuthTypes, InPlace
    <3> HIDE DEF i
    <3>2. naming' \in Seq(DOMAIN requests)
      BY <1>2, <2>1, <3>1
    <3> QED
      BY <1>2, <2>1, <2>4, <3>1, <3>2, AppendDistinct
  <2>7. /\ DOMAIN requests' = DOMAIN requests /\ Len(requests') = Len(requests)
        /\ requests' \in Seq(Requests)
        /\ \A j \in DOMAIN requests :
             /\ requests'[j].at = IF j = i THEN "naming" ELSE requests[j].at
             /\ requests'[j].target = IF j = i THEN currentUser ELSE requests[j].target
    BY <2>3 DEF Becoming
  <2>8. AuthTypes'
    BY <1>1, <1>2, <2>2, <2>5, <2>6, <2>7 DEF AuthTypes
  <2>9. InPlace(requests', naming', mainQueue')
    <3>1. \A b \in Elements(mainQueue') : b.of \in DOMAIN requests /\ b.of # i
      <4>1. Elements(mainQueue') \subseteq B
        BY <2>5, ElementsOf
      <4>2. \A b \in Elements(mainQueue') : b.of \in Of(mainQueue')
        BY DEF Elements, Of
      <4> QED
        BY <2>5, <4>1, <4>2
    <3>2. \A b \in Elements(mainQueue') :
            b.run \in {"signedIn", "named"} => requests'[b.of].at = b.run
      BY <1>1, <2>5, <2>7, <3>1 DEF InPlace
    <3>3. \A j \in DOMAIN requests :
            /\ j \in Elements(naming') <=> requests'[j].at = "naming"
            /\ j \in Of(mainQueue') <=> requests'[j].at \in {"signedIn", "named", "failing"}
      BY <1>1, <2>4, <2>5, <2>6, <2>7 DEF InPlace
    <3> QED
      BY <2>5, <2>6, <2>7, <3>2, <3>3 DEF InPlace
  <2>10. NotBefore(i, currentUser)
    <3>1. PICK k \in DOMAIN signIns : signIns[k] = i
      BY <1>1, <1>2 DEF SignInInv, CallbacksSignedIn, Elements
    <3>2. Len(signIns) \in DOMAIN signIns /\ k <= Len(signIns)
      BY <1>1, <3>1 DEF AuthTypes
    <3>3. signIns[Len(signIns)] = currentUser
      BY <1>1, <1>4 DEF SignInInv, CurrentIsLast
    <3> QED
      BY <3>1, <3>2, <3>3 DEF NotBefore
  <2>11. SignInInv'
    <3>1. CurrentIsLast' /\ CallbacksSignedIn'
      BY <1>1, <1>2, <2>5 DEF SignInInv, CurrentIsLast, CallbacksSignedIn
    <3>2. NameNeverGoesToEarlierUser'
      BY <1>1, <1>2, <2>7, <2>10 DEF SignInInv, NameNeverGoesToEarlierUser, NotBefore
    <3> QED
      BY <3>1, <3>2 DEF SignInInv
  <2> QED
    BY <2>8, <2>9, <2>11, PlaceForm DEF AuthInv, AuthTypeOK
<1> QED
  BY <1>3, <1>4

\* An error is dispatched a second time.
LEMMA FailsKeeps ==
  ASSUME AuthInv, Fails
  PROVE  AuthInv'
<1> DEFINE i == Head(mainQueue).of
           B == [of : DOMAIN requests, run : Blocks]
           b == [of |-> i, run |-> "alert"]
<1>1. AuthTypes /\ InPlace(requests, naming, mainQueue) /\ SignInInv
  BY PlaceForm DEF AuthInv, AuthTypeOK
<1>2. /\ mainQueue # <<>> /\ i \in DOMAIN requests
      /\ mainQueue' = Append(Tail(mainQueue), b)
      /\ UNCHANGED <<accounts, requests, currentUser, naming, screen, signIns, disturbed>>
  BY InvFacts DEF Fails
<1>3. /\ Tail(mainQueue) \in Seq(B) /\ OnceEach(Tail(mainQueue))
      /\ Of(Tail(mainQueue)) = Of(mainQueue) \ {i} /\ i \in Of(mainQueue)
      /\ Elements(Tail(mainQueue)) \subseteq Elements(mainQueue)
  <2>1. mainQueue \in Seq(B) /\ OnceEach(mainQueue)
    BY <1>1 DEF AuthTypes, InPlace
  <2> QED
    BY <1>2, <2>1, TailOnce
<1>4. b \in B /\ b.of = i /\ b.run \notin {"signedIn", "named"}
  BY <1>2 DEF Blocks
<1> HIDE DEF b
<1>5. /\ mainQueue' \in Seq(B) /\ OnceEach(mainQueue')
      /\ Of(mainQueue') = Of(mainQueue)
      /\ Elements(mainQueue') \subseteq Elements(mainQueue) \cup {b}
  <2>1. /\ OnceEach(mainQueue') /\ Of(mainQueue') = Of(Tail(mainQueue)) \cup {b.of}
        /\ Elements(mainQueue') = Elements(Tail(mainQueue)) \cup {b}
    <3> DEFINE t == Tail(mainQueue)
    <3>1. t \in Seq(B) /\ OnceEach(t) /\ b \in B /\ b.of \notin Of(t)
      BY <1>3, <1>4
    <3>2. mainQueue' = Append(t, b)
      BY <1>2
    <3> HIDE DEF B, t
    <3>3. /\ OnceEach(Append(t, b)) /\ Of(Append(t, b)) = Of(t) \cup {b.of}
          /\ Elements(Append(t, b)) = Elements(t) \cup {b}
      BY <3>1, AppendOnce
    <3>4. /\ OnceEach(mainQueue') /\ Of(mainQueue') = Of(t) \cup {b.of}
          /\ Elements(mainQueue') = Elements(t) \cup {b}
      BY <3>2, <3>3
    <3> QED
      BY <3>4 DEF t
  <2>2. mainQueue' \in Seq(B)
    BY <1>2, <1>3, <1>4
  <2> QED
    BY <1>3, <1>4, <2>1, <2>2
<1>6. AuthTypes'
  BY <1>1, <1>2, <1>5 DEF AuthTypes
<1>7. InPlace(requests', naming', mainQueue')
  BY <1>1, <1>2, <1>4, <1>5 DEF InPlace
<1>8. SignInInv'
  <2>1. CurrentIsLast' /\ CallbacksSignedIn'
    BY <1>1, <1>2, <1>4, <1>5 DEF SignInInv, CurrentIsLast, CallbacksSignedIn
  <2>2. NameNeverGoesToEarlierUser'
    BY <1>1, <1>2 DEF SignInInv, NameNeverGoesToEarlierUser, NotBefore
  <2> QED
    BY <2>1, <2>2 DEF SignInInv
<1> QED
  BY <1>6, <1>7, <1>8, PlaceForm DEF AuthInv, AuthTypeOK

LEMMA RestartKeeps ==
  ASSUME AuthInv, Restart
  PROVE  AuthInv'
<1>1. AuthTypes /\ InPlace(requests, naming, mainQueue) /\ SignInInv
  BY PlaceForm DEF AuthInv, AuthTypeOK
<1>2. /\ naming' = <<>> /\ mainQueue' = <<>> /\ screen' = LoginScreen
      /\ UNCHANGED <<accounts, currentUser, signIns, disturbed>>
  BY DEF Restart
<1>3. /\ requests' \in [1..Len(requests) -> Requests]
      /\ \A j \in DOMAIN requests : /\ requests'[j].at \in Ended
                                    /\ requests'[j].target = requests[j].target
  <2> DEFINE r(j) == [requests[j] EXCEPT !.at = IF j \in InProgress THEN "lost" ELSE @,
                                         !.form = FALSE]
  <2>1. requests' = [j \in 1..Len(requests) |-> r(j)]
    BY InvFacts DEF Restart
  <2>2. \A j \in 1..Len(requests) :
          r(j) \in Requests /\ r(j).at \in Ended /\ r(j).target = requests[j].target
    BY InvFacts DEF InProgress, Requests, Stages, Ended
  <2> HIDE DEF r
  <2> QED
    BY <2>1, <2>2, InvFacts
<1>4. /\ requests' \in Seq(Requests) /\ Len(requests') = Len(requests)
      /\ DOMAIN requests' = DOMAIN requests
  BY <1>3, RequestsOf, InvFacts
<1>5. AuthTypes'
  <2>1. /\ naming' \in Seq(DOMAIN requests)
        /\ mainQueue' \in Seq([of : DOMAIN requests, run : Blocks])
    BY <1>2, EmptySeq
  <2>2. screen' \in Screens
    BY <1>2 DEF Screens, LoginScreen
  <2>3. \A j \in DOMAIN requests' : requests'[j].target \in DOMAIN requests' \cup {NoUser}
    BY <1>1, <1>3, <1>4 DEF AuthTypes
  <2> QED
    BY <1>1, <1>2, <1>4, <2>1, <2>2, <2>3 DEF AuthTypes
<1>6. InPlace(requests', naming', mainQueue')
  BY <1>2, <1>3, <1>4 DEF InPlace, OnceEach, Distinct, Elements, Of, Ended
<1>7. SignInInv'
  <2>1. CurrentIsLast' /\ CallbacksSignedIn'
    BY <1>1, <1>2 DEF SignInInv, CurrentIsLast, CallbacksSignedIn, Elements
  <2>2. NameNeverGoesToEarlierUser'
    BY <1>1, <1>2, <1>3, <1>4 DEF SignInInv, NameNeverGoesToEarlierUser, NotBefore
  <2> QED
    BY <2>1, <2>2 DEF SignInInv
<1> QED
  BY <1>5, <1>6, <1>7, PlaceForm DEF AuthInv, AuthTypeOK

LEMMA RunMainKeeps ==
  ASSUME AuthInv, RunMain
  PROVE  AuthInv'
<1> DEFINE i == Head(mainQueue).of
<1>1. AuthTypes
  BY DEF AuthInv, AuthTypeOK
<1>2. CASE StartNaming
  BY <1>2, StartNamingKeeps
<1>3. CASE Fails
  BY <1>3, FailsKeeps
<1>4. CASE LoginSucceeds \/ RegisterSucceeds \/ LoginAlert \/ RegisterAlert
  <2>1. /\ mainQueue # <<>> /\ i \in DOMAIN requests /\ mainQueue' = Tail(mainQueue)
        /\ UNCHANGED <<accounts, currentUser, naming, signIns, disturbed>>
    BY <1>4, InvFacts DEF LoginSucceeds, RegisterSucceeds, LoginAlert, RegisterAlert, Block
  <2>2. screen' \in Screens
    BY <1>1, <1>4 DEF AuthTypes, Screens, LoginSucceeds, RegisterSucceeds, LoginAlert,
       RegisterAlert, Behind
  <2>3. PICK stage \in {"ok", "failed"} :
          requests' \in {Moved(i, stage), Republished(Moved(i, stage))}
    BY <1>4 DEF LoginSucceeds, RegisterSucceeds, LoginAlert, RegisterAlert
  <2>4. Becoming(requests', i, stage, requests[i].target)
    <3>1. Becoming(Moved(i, stage), i, stage, requests[i].target)
      BY <1>1, <2>1, MovedBecomes DEF AuthTypes, Stages, Ended
    <3>2. Becoming(Republished(Moved(i, stage)), i, stage, requests[i].target)
      BY <1>1, <3>1, ReplacedBecomes DEF AuthTypes, Republished
    <3> QED
      BY <2>3, <3>1, <3>2
  <2>5. stage \in {"ok", "failed", "silent"}
    BY <2>3
  <2> HIDE DEF i
  <2>6. i = Head(mainQueue).of
    BY DEF i
  <2> QED
    BY <2>1, <2>2, <2>4, <2>5, <2>6, BlockEnds
<1> QED
  BY <1>2, <1>3, <1>4 DEF RunMain

\* Moving between screens.
LEMMA ScreenKeeps ==
  ASSUME AuthInv,
         \/ OpenRegister \/ LeaveRegister \/ LeaveHome
         \/ DismissLoginAlert \/ DismissRegisterAlert \/ OpenURL \/ LeaveLink
  PROVE  AuthInv'
<1>1. AuthTypes
  BY DEF AuthInv, AuthTypeOK
<1>2. /\ UNCHANGED <<accounts, QueueVars>>
      /\ disturbed' \subseteq disturbed \cup InProgress
      /\ requests' \in {requests, Republished(requests),
                        Replaced(requests, {"login", "register"})}
  BY DEF OpenRegister, LeaveRegister, LeaveHome, DismissLoginAlert, DismissRegisterAlert,
     OpenURL, LeaveLink, Link, QueueVars
<1>3. screen' \in Screens
  BY <1>1 DEF AuthTypes, Screens, LoginScreen, OpenRegister, LeaveRegister, LeaveHome,
     DismissLoginAlert, DismissRegisterAlert, OpenURL, LeaveLink, Link, Behind
<1>4. Same(requests')
  <2>1. Same(requests) /\ requests \in Seq(Requests)
    BY <1>1, SameAsBefore DEF AuthTypes
  <2>2. \A kinds : Same(Replaced(requests, kinds))
    BY <2>1, ReplacedBecomes DEF Same
  <2> QED
    BY <1>2, <2>1, <2>2 DEF Republished
<1> QED
  BY <1>1, <1>2, <1>3, <1>4, IdleKeeps DEF AuthTypes, InProgress

\* A call that goes out, arrives or is answered.
LEMMA CallKeeps ==
  ASSUME AuthInv, NEW i \in DOMAIN requests, ServeStep(i) \/ SendName(i)
  PROVE  AuthInv'
<1>1. AuthTypes
  BY DEF AuthInv, AuthTypeOK
<1>2. UNCHANGED <<QueueVars, screen, disturbed>>
  BY DEF ServeStep, ServeSignIn, ServeCreate, ServeName, ServeRefuses, Serve, SendName, QueueVars
<1>3. PICK call \in {"out", "good", "bad"} :
        requests' = [requests EXCEPT ![i].call = call]
  BY DEF ServeStep, ServeSignIn, ServeCreate, ServeName, ServeRefuses, Serve, SendName
<1>4. accounts' \in [Accounts -> Taps \cup {NoName, Free}]
  <2>1. i \in Taps /\ NoName \in Taps \cup {NoName, Free}
    BY <1>1, InvFacts, AuthAssumption DEF AuthTypes, Taps
  <2> QED
    BY <1>1, <2>1 DEF AuthTypes, ServeStep, ServeSignIn, ServeCreate, ServeName,
       ServeRefuses, SendName
<1>5. Same(requests')
  BY <1>1, <1>3, CalledBecomes DEF AuthTypes
<1> QED
  BY <1>1, <1>2, <1>4, <1>5, IdleKeeps DEF AuthTypes

-----------------------------------------------------------------------------
(* The theorems.                                                           *)

LEMMA AuthInvInit == Init => AuthInv
<1> SUFFICES ASSUME Init
             PROVE  AuthInv
  OBVIOUS
<1>1. requests = <<>> /\ naming = <<>> /\ mainQueue = <<>> /\ signIns = <<>>
  BY DEF Init
<1>2. DOMAIN requests = {} /\ DOMAIN naming = {} /\ DOMAIN mainQueue = {} /\ Len(requests) = 0
  BY <1>1
<1>3. AuthTypes
  <2>1. /\ requests \in Seq(Requests) /\ naming \in Seq(DOMAIN requests)
        /\ mainQueue \in Seq([of : DOMAIN requests, run : Blocks])
        /\ signIns \in Seq(DOMAIN requests)
    BY <1>1, EmptySeq
  <2>2. screen \in Screens /\ accounts \in [Accounts -> Taps \cup {NoName, Free}]
    BY DEF Init, Screens, LoginScreen
  <2> QED
    BY <1>2, <2>1, <2>2, AuthAssumption DEF Init, AuthTypes
<1>4. InOnePlace
  BY <1>2 DEF InOnePlace
<1>5. SignInInv
  BY <1>2 DEF Init, SignInInv, CurrentIsLast, CallbacksSignedIn, Elements,
     NameNeverGoesToEarlierUser
<1> QED
  BY <1>3, <1>4, <1>5 DEF AuthInv, AuthTypeOK

LEMMA AuthInvStep == AuthInv /\ [Next]_vars => AuthInv'
<1> SUFFICES ASSUME AuthInv, [Next]_vars
             PROVE  AuthInv'
  OBVIOUS
<1>1. ASSUME NEW a \in Accounts, TapLogin(a) \/ TapRegister(a)
      PROVE  AuthInv'
  BY <1>1, SendKeeps DEF TapLogin, TapRegister
<1>2. CASE \/ OpenRegister \/ LeaveRegister \/ LeaveHome
           \/ DismissLoginAlert \/ DismissRegisterAlert \/ OpenURL \/ LeaveLink
  BY <1>2, ScreenKeeps
<1>3. ASSUME NEW i \in DOMAIN requests, ServeStep(i) \/ SignInEnds(i) \/ NamingStep(i)
      PROVE  AuthInv'
  <2>1. CASE ServeStep(i) \/ SendName(i)
    BY <2>1, CallKeeps
  <2>2. CASE SignedIn(i)
    BY <2>2, SignedInKeeps
  <2>3. CASE SignInFails(i) \/ Named(i) \/ NamingFails(i)
    BY <2>3, WorkEnds
  <2> QED
    BY <1>3, <2>1, <2>2, <2>3 DEF SignInEnds, NamingStep
<1>4. CASE RunMain
  BY <1>4, RunMainKeeps
<1>5. CASE Restart
  BY <1>5, RestartKeeps
<1>6. CASE UNCHANGED vars
  <2>1. AuthTypes /\ Same(requests')
    BY <1>6, SameAsBefore DEF AuthInv, AuthTypeOK, AuthTypes, vars
  <2> QED
    BY <1>6, <2>1, IdleKeeps DEF AuthTypes, QueueVars, vars
<1> QED
  BY <1>1, <1>2, <1>3, <1>4, <1>5, <1>6 DEF Next

\* Every variable keeps its type, and every request in progress waits in one
\* place: with the server, in the task queue of its user, or in the main
\* queue.  No callback of the Auth SDK is dispatched twice or forgotten.
THEOREM AuthTypeCorrect == Spec => []AuthTypeOK
<1>1. AuthInv => AuthTypeOK
  BY DEF AuthInv
<1> QED
  BY AuthInvInit, AuthInvStep, <1>1, PTL DEF Spec

\* However many taps overlap and whatever is signed out, answered late or
\* restarted, register never writes the name to a user who signed in before
\* the registration it was typed in.
THEOREM NameNeverGoesToEarlierUserEver == Spec => []NameNeverGoesToEarlierUser
<1>1. AuthInv => NameNeverGoesToEarlierUser
  BY DEF AuthInv, SignInInv
<1> QED
  BY AuthInvInit, AuthInvStep, <1>1, PTL DEF Spec

-----------------------------------------------------------------------------
(* A request that nothing disturbs.  Two taps that overlap disturb each    *)
(* other, and so does whatever takes the screen away, so that a request    *)
(* that is not disturbed is the only one in progress.                      *)

Quiet == InProgress \ disturbed

\* The account of a registration was free, and has been made for it.
Created(i) ==
  /\ requests[i].kind = "register"
  /\ \/ requests[i].at = "sent" /\ requests[i].call = "good"
     \/ requests[i].at \in {"signedIn", "naming", "named"}

\* The server has given the account the name.
Bears(i) ==
  /\ requests[i].kind = "register"
  /\ \/ requests[i].at = "naming" /\ requests[i].call = "good"
     \/ requests[i].at = "named"

KeepsScreen(i) ==
  /\ requests[i].form
  /\ requests[i].kind = "register" => screen.front = "register" /\ ~screen.loginAlert

KeepsUser(i) ==
  /\ requests[i].at = "signedIn" => currentUser = i
  /\ requests[i].kind = "register" /\ requests[i].at \in {"naming", "named"} =>
       requests[i].target = i

\* Calls of other requests that are still on their way name other accounts.
KeepsAccount(i) ==
  /\ Created(i) => \A j \in DOMAIN requests \ {i} :
       requests[j].target # NoUser => AccountOf(requests[j].target) # requests[i].account
  /\ Bears(i) => accounts[requests[i].account] = i

QuietInv ==
  \A i \in Quiet : InProgress = {i} /\ KeepsScreen(i) /\ KeepsUser(i) /\ KeepsAccount(i)

Registered(user) == accounts[AccountOf(user)] # Free

\* Whoever is signed in, and whoever is to be named, has an account.
AccountsInv ==
  /\ currentUser # NoUser => Registered(currentUser)
  /\ \A i \in DOMAIN requests :
       /\ requests[i].target # NoUser => Registered(requests[i].target)
       /\ requests[i].at = "sent" => requests[i].target = NoUser
       /\ requests[i].at = "sent" /\ requests[i].call = "good" => Registered(i)
       /\ requests[i].at = "signedIn" => requests[i].call = "none"

AloneInv == QuietInv /\ NeverSilent /\ AccountsInv

\* A step that touches the stage, the call or the target of request i only, and
\* replaces the view models of some kinds.
Touched(i, kinds) ==
  /\ DOMAIN requests' = DOMAIN requests
  /\ \A j \in DOMAIN requests :
       /\ requests'[j].kind = requests[j].kind
       /\ requests'[j].account = requests[j].account
       /\ requests'[j].form <=> requests[j].form /\ requests[j].kind \notin kinds
       /\ j # i => /\ requests'[j].at = requests[j].at
                   /\ requests'[j].call = requests[j].call
                   /\ requests'[j].target = requests[j].target

\* The records of requests whose request i has moved to another stage.
Records(s) == [kind : {"login", "register"}, account : Accounts, at : Stages \cup {s},
               call : {"none", "out", "good", "bad"}, target : Taps \cup {NoUser},
               form : BOOLEAN]

LEMMA MovedFields ==
  ASSUME requests \in Seq(Requests), NEW i \in DOMAIN requests, NEW s
  PROVE  /\ Moved(i, s) \in [DOMAIN requests -> Records(s)]
         /\ \A j \in DOMAIN requests :
              /\ Moved(i, s)[j].kind = requests[j].kind
              /\ Moved(i, s)[j].account = requests[j].account
              /\ Moved(i, s)[j].form = requests[j].form
              /\ Moved(i, s)[j].call = requests[j].call
              /\ Moved(i, s)[j].target = requests[j].target
              /\ Moved(i, s)[j].at = IF j = i THEN s ELSE requests[j].at
<1>1. requests \in [DOMAIN requests -> Requests]
  BY RequestsType
<1>2. /\ DOMAIN Moved(i, s) = DOMAIN requests
      /\ \A j \in DOMAIN requests :
           Moved(i, s)[j] = IF j = i THEN [requests[i] EXCEPT !.at = s] ELSE requests[j]
  BY <1>1 DEF Moved
<1>3. Moved(i, s) \in [DOMAIN requests -> Records(s)]
  BY <1>1 DEF Moved, Requests, Records
<1>4. \A j \in DOMAIN requests :
        /\ Moved(i, s)[j].kind = requests[j].kind
        /\ Moved(i, s)[j].account = requests[j].account
        /\ Moved(i, s)[j].form = requests[j].form
        /\ Moved(i, s)[j].call = requests[j].call
        /\ Moved(i, s)[j].target = requests[j].target
        /\ Moved(i, s)[j].at = IF j = i THEN s ELSE requests[j].at
  BY <1>1, <1>2 DEF Requests
<1> QED
  BY <1>3, <1>4

LEMMA MovedTouches ==
  ASSUME requests \in Seq(Requests), NEW i \in DOMAIN requests, NEW s, NEW kinds,
         (requests' = Moved(i, s) /\ kinds = {}) \/ requests' = Replaced(Moved(i, s), kinds)
  PROVE  /\ Touched(i, kinds)
         /\ requests'[i].at = s
         /\ requests'[i].call = requests[i].call
         /\ requests'[i].target = requests[i].target
<1> DEFINE rs == Moved(i, s)
<1>1. rs \in [DOMAIN requests -> Records(s)]
  BY MovedFields
<1>2. CASE requests' = rs /\ kinds = {}
  BY <1>1, <1>2, MovedFields DEF Touched
<1>3. CASE requests' = Replaced(rs, kinds)
  <2> HIDE DEF rs
  <2>1. /\ DOMAIN requests' = DOMAIN requests
        /\ \A j \in DOMAIN requests :
             requests'[j] = [rs[j] EXCEPT !.form = @ /\ rs[j].kind \notin kinds]
    BY <1>1, <1>3 DEF Replaced
  <2> DEFINE With(r) == [r EXCEPT !.form = @ /\ r.kind \notin kinds]
  <2>2. ASSUME NEW r \in Records(s)
        PROVE  /\ With(r).kind = r.kind /\ With(r).account = r.account
               /\ With(r).call = r.call /\ With(r).target = r.target
               /\ With(r).at = r.at
               /\ With(r).form <=> r.form /\ r.kind \notin kinds
    BY DEF Records
  <2>3. \A j \in DOMAIN requests : /\ requests'[j] = With(rs[j])
                                   /\ rs[j] \in Records(s)
    BY <1>1, <2>1
  <2> HIDE DEF With
  <2>4. \A j \in DOMAIN requests :
          /\ requests'[j].kind = rs[j].kind
          /\ requests'[j].account = rs[j].account
          /\ requests'[j].form <=> rs[j].form /\ rs[j].kind \notin kinds
          /\ requests'[j].call = rs[j].call
          /\ requests'[j].target = rs[j].target
          /\ requests'[j].at = rs[j].at
    BY <2>2, <2>3
  <2> QED
    BY <2>1, <2>4, MovedFields DEF Touched, rs
<1> QED
  BY <1>2, <1>3

\* A request that moves to another stage, with its call or its target set.
Called(i, s, u)   == [Moved(i, s) EXCEPT ![i].call = u]
Targeted(i, s, u) == [Moved(i, s) EXCEPT ![i].target = u]

LEMMA MovedAndCalledTouches ==
  ASSUME requests \in Seq(Requests), NEW i \in DOMAIN requests, NEW s, NEW u,
         requests' = Called(i, s, u)
  PROVE  /\ Touched(i, {})
         /\ requests'[i].at = s
         /\ requests'[i].call = u
         /\ requests'[i].target = requests[i].target
<1>1. PICK rs : rs = Moved(i, s)
  OBVIOUS
<1>2. PICK r : r = rs[i]
  OBVIOUS
<1>3. PICK e : e = [r EXCEPT !.call = u]
  OBVIOUS
<1>4. rs \in [DOMAIN requests -> Records(s)] /\ requests' = [rs EXCEPT ![i].call = u]
  BY <1>1, MovedFields DEF Called
<1>5. /\ DOMAIN requests' = DOMAIN requests
      /\ requests'[i] = e
      /\ \A j \in DOMAIN requests : j # i => requests'[j] = rs[j]
  BY <1>2, <1>3, <1>4
<1>6. /\ e.kind = r.kind /\ e.account = r.account /\ e.at = r.at /\ e.form = r.form
      /\ e.call = u /\ e.target = r.target
  <2>1. r \in Records(s)
    BY <1>2, <1>4
  <2> QED
    BY <1>3, <2>1 DEF Records
<1>7. /\ \A j \in DOMAIN requests :
           /\ rs[j].kind = requests[j].kind /\ rs[j].account = requests[j].account
           /\ rs[j].form = requests[j].form /\ rs[j].call = requests[j].call
           /\ rs[j].target = requests[j].target
           /\ j # i => rs[j].at = requests[j].at
      /\ rs[i].at = s
  BY <1>1, MovedFields
<1>8. ASSUME NEW j \in DOMAIN requests
      PROVE  /\ requests'[j].kind = requests[j].kind
             /\ requests'[j].account = requests[j].account
             /\ requests'[j].form <=> requests[j].form /\ requests[j].kind \notin {}
             /\ j # i => /\ requests'[j].at = requests[j].at
                         /\ requests'[j].call = requests[j].call
                         /\ requests'[j].target = requests[j].target
  <2>1. CASE j = i
    BY <1>2, <1>5, <1>6, <1>7, <2>1
  <2>2. CASE j # i
    BY <1>5, <1>7, <2>2
  <2> QED
    BY <2>1, <2>2
<1>9. requests'[i].at = s /\ requests'[i].call = u /\ requests'[i].target = requests[i].target
  BY <1>2, <1>5, <1>6, <1>7
<1> QED
  BY <1>5, <1>8, <1>9 DEF Touched

LEMMA MovedAndTargetedTouches ==
  ASSUME requests \in Seq(Requests), NEW i \in DOMAIN requests, NEW s, NEW u,
         requests' = Targeted(i, s, u)
  PROVE  /\ Touched(i, {})
         /\ requests'[i].at = s
         /\ requests'[i].call = requests[i].call
         /\ requests'[i].target = u
<1>1. PICK rs : rs = Moved(i, s)
  OBVIOUS
<1>2. PICK r : r = rs[i]
  OBVIOUS
<1>3. PICK e : e = [r EXCEPT !.target = u]
  OBVIOUS
<1>4. rs \in [DOMAIN requests -> Records(s)] /\ requests' = [rs EXCEPT ![i].target = u]
  BY <1>1, MovedFields DEF Targeted
<1>5. /\ DOMAIN requests' = DOMAIN requests
      /\ requests'[i] = e
      /\ \A j \in DOMAIN requests : j # i => requests'[j] = rs[j]
  BY <1>2, <1>3, <1>4
<1>6. /\ e.kind = r.kind /\ e.account = r.account /\ e.at = r.at /\ e.form = r.form
      /\ e.target = u /\ e.call = r.call
  <2>1. r \in Records(s)
    BY <1>2, <1>4
  <2> QED
    BY <1>3, <2>1 DEF Records
<1>7. /\ \A j \in DOMAIN requests :
           /\ rs[j].kind = requests[j].kind /\ rs[j].account = requests[j].account
           /\ rs[j].form = requests[j].form /\ rs[j].call = requests[j].call
           /\ rs[j].target = requests[j].target
           /\ j # i => rs[j].at = requests[j].at
      /\ rs[i].at = s
  BY <1>1, MovedFields
<1>8. ASSUME NEW j \in DOMAIN requests
      PROVE  /\ requests'[j].kind = requests[j].kind
             /\ requests'[j].account = requests[j].account
             /\ requests'[j].form <=> requests[j].form /\ requests[j].kind \notin {}
             /\ j # i => /\ requests'[j].at = requests[j].at
                         /\ requests'[j].call = requests[j].call
                         /\ requests'[j].target = requests[j].target
  <2>1. CASE j = i
    BY <1>2, <1>5, <1>6, <1>7, <2>1
  <2>2. CASE j # i
    BY <1>5, <1>7, <2>2
  <2> QED
    BY <2>1, <2>2
<1>9. requests'[i].at = s /\ requests'[i].target = u /\ requests'[i].call = requests[i].call
  BY <1>2, <1>5, <1>6, <1>7
<1> QED
  BY <1>5, <1>8, <1>9 DEF Touched

LEMMA CallTouches ==
  ASSUME requests \in Seq(Requests), NEW i \in DOMAIN requests, NEW u,
         requests' = [requests EXCEPT ![i].call = u]
  PROVE  /\ Touched(i, {})
         /\ requests'[i].at = requests[i].at
         /\ requests'[i].call = u
         /\ requests'[i].target = requests[i].target
<1>1. requests \in [DOMAIN requests -> Requests]
  BY RequestsType
<1> QED
  BY <1>1 DEF Touched, Requests

LEMMA ReplacedTouches ==
  ASSUME requests \in Seq(Requests), NEW kinds,
         requests' = Replaced(requests, kinds) \/ (requests' = requests /\ kinds = {})
  PROVE  Touched(NoUser, kinds)
<1>1. requests \in [DOMAIN requests -> Requests]
  BY RequestsType
<1>2. CASE requests' = Replaced(requests, kinds)
  <2>1. /\ DOMAIN requests' = DOMAIN requests
        /\ \A j \in DOMAIN requests :
             requests'[j] = [requests[j] EXCEPT !.form = @ /\ requests[j].kind \notin kinds]
    BY <1>2 DEF Replaced
  <2>2. ASSUME NEW j \in DOMAIN requests
        PROVE  /\ requests'[j].kind = requests[j].kind
               /\ requests'[j].account = requests[j].account
               /\ requests'[j].form <=> requests[j].form /\ requests[j].kind \notin kinds
               /\ requests'[j].at = requests[j].at
               /\ requests'[j].call = requests[j].call
               /\ requests'[j].target = requests[j].target
    <3>1. PICK b : b = (requests[j].form /\ requests[j].kind \notin kinds)
      OBVIOUS
    <3>2. requests'[j] = [requests[j] EXCEPT !.form = b]
      BY <2>1, <3>1
    <3>3. requests[j] \in Requests
      BY <1>1
    <3> QED
      BY <3>1, <3>2, <3>3 DEF Requests
  <2> QED
    BY <2>1, <2>2 DEF Touched
<1>3. CASE requests' = requests /\ kinds = {}
  BY <1>3 DEF Touched
<1> QED
  BY <1>2, <1>3

-----------------------------------------------------------------------------
(* What a step that touches one request, or none, keeps.                   *)

LEMMA TouchedProgress ==
  ASSUME NEW i, NEW kinds, Touched(i, kinds)
  PROVE  /\ \A j \in DOMAIN requests : j # i => (j \in InProgress' <=> j \in InProgress)
         /\ i \in DOMAIN requests => (i \in InProgress' <=> requests'[i].at \notin Ended)
BY DEF Touched, InProgress

\* Nothing that is not disturbed is left when the only request in progress ends.
LEMMA EndsQuiet ==
  ASSUME QuietInv, NEW i \in InProgress, NEW kinds, Touched(i, kinds),
         requests'[i].at \in Ended, disturbed' = disturbed
  PROVE  QuietInv'
<1>1. i \notin InProgress' /\ InProgress' \subseteq InProgress
  BY TouchedProgress DEF InProgress, Touched
<1> QED
  BY <1>1 DEF QuietInv, Quiet

\* A step of the request in progress that is not its last.
LEMMA GoesOnQuiet ==
  ASSUME QuietInv, AuthTypes,
         NEW i \in InProgress, Touched(i, {}), disturbed' = disturbed,
         requests'[i].at \notin Ended,
         UNCHANGED <<screen, accounts>>,
         i \in Quiet => KeepsUser(i)',
         i \in Quiet /\ Created(i)' => Created(i),
         i \in Quiet /\ Bears(i)' => Bears(i)
  PROVE  QuietInv'
<1> SUFFICES ASSUME NEW q \in Quiet'
             PROVE  InProgress' = {q} /\ KeepsScreen(q)' /\ KeepsUser(q)' /\ KeepsAccount(q)'
  BY DEF QuietInv
<1>1. InProgress' = InProgress
  BY TouchedProgress DEF InProgress, Touched
<1>2. q \in Quiet /\ q = i /\ InProgress = {i} /\ KeepsScreen(i) /\ KeepsAccount(i)
  BY <1>1 DEF Quiet, QuietInv
<1>3. i \in DOMAIN requests
  BY DEF InProgress
<1>4. KeepsScreen(i)'
  BY <1>2, <1>3 DEF KeepsScreen, Touched
<1>5. KeepsAccount(i)'
  <2>1. Created(i)' => \A j \in DOMAIN requests \ {i} :
          requests[j].target # NoUser => AccountOf(requests[j].target) # requests[i].account
    BY <1>2 DEF KeepsAccount
  <2>2. \A j \in DOMAIN requests : requests[j].target \in DOMAIN requests \cup {NoUser}
    BY DEF AuthTypes
  <2> QED
    BY <1>2, <1>3, <2>1, <2>2 DEF KeepsAccount, Touched, AccountOf
<1> QED
  BY <1>1, <1>2, <1>4, <1>5

LEMMA TouchedSilent ==
  ASSUME NeverSilent, NEW i, NEW kinds, Touched(i, kinds), disturbed \subseteq disturbed',
         i \in DOMAIN requests /\ requests'[i].at = "silent" => i \in disturbed'
  PROVE  NeverSilent'
BY DEF NeverSilent, Touched

\* Accounts are never deleted.
LEMMA TouchedAccounts ==
  ASSUME AuthTypes, AccountsInv, NEW i, NEW kinds, Touched(i, kinds),
         \A a \in Accounts : accounts[a] # Free => accounts'[a] # Free,
         currentUser' \in {currentUser, NoUser},
         i \in DOMAIN requests =>
           /\ requests'[i].target \in {requests[i].target, currentUser}
           /\ requests'[i].at = "sent" => requests'[i].target = NoUser
           /\ requests'[i].at = "sent" /\ requests'[i].call = "good" => Registered(i)'
           /\ requests'[i].at = "signedIn" => requests'[i].call = "none"
  PROVE  AccountsInv'
<1>1. \A u \in DOMAIN requests : Registered(u) => Registered(u)'
  <2>1. \A u \in DOMAIN requests : requests[u].account \in Accounts
    BY RequestsType DEF AuthTypes, Requests
  <2> QED
    BY <2>1 DEF Registered, AccountOf, Touched
<1>2. /\ currentUser \in DOMAIN requests \cup {NoUser}
      /\ \A j \in DOMAIN requests : requests[j].target \in DOMAIN requests \cup {NoUser}
  BY DEF AuthTypes
<1>3. currentUser' # NoUser => Registered(currentUser)'
  BY <1>1, <1>2 DEF AccountsInv
<1>4. \A j \in DOMAIN requests :
        /\ requests'[j].target # NoUser => Registered(requests[j].target)'
        /\ requests'[j].at = "sent" => requests'[j].target = NoUser
        /\ requests'[j].at = "sent" /\ requests'[j].call = "good" => Registered(j)'
        /\ requests'[j].at = "signedIn" => requests'[j].call = "none"
  BY <1>1, <1>2 DEF AccountsInv, Touched
<1> QED
  BY <1>3, <1>4 DEF AccountsInv, Touched

-----------------------------------------------------------------------------
(* One lemma per kind of action.                                           *)

\* A tap disturbs whatever is in progress, and is disturbed by it.
LEMMA SendAlone ==
  ASSUME AuthInv, AloneInv, NEW a \in Accounts, TapLogin(a) \/ TapRegister(a)
  PROVE  AloneInv'
<1>0. PICK n \in Nat : n = Len(requests) + 1
  BY InvFacts
<1>1. PICK kind \in {"login", "register"} :
        Send(kind, a) /\ (kind = "register" => screen.front = "register" /\ ~screen.loginAlert)
  BY DEF TapLogin, TapRegister, InFront
<1> DEFINE r == [kind |-> kind, account |-> a, at |-> "sent", call |-> "out",
                 target |-> NoUser, form |-> TRUE]
<1>2. /\ DOMAIN requests' = DOMAIN requests \cup {n} /\ n \notin DOMAIN requests
      /\ requests'[n] = r
      /\ \A j \in DOMAIN requests : requests'[j] = requests[j]
  <2>1. requests' = Append(requests, r)
    BY <1>1 DEF Send
  <2>2. requests \in Seq(Requests) /\ Len(requests) \in Nat /\ DOMAIN requests = 1..Len(requests)
    BY InvFacts
  <2> HIDE DEF r
  <2> QED
    BY <1>0, <2>1, <2>2
<1>3. /\ UNCHANGED <<accounts, currentUser, naming, mainQueue, screen, signIns>>
      /\ disturbed' = disturbed \cup (IF InProgress = {} THEN {} ELSE InProgress \cup {n})
  BY <1>0, <1>1 DEF Send
<1>4. InProgress' = InProgress \cup {n}
  BY <1>2 DEF InProgress, Ended
<1>5. QuietInv'
  <2>1. CASE InProgress = {}
    <3>1. KeepsScreen(n)' /\ KeepsUser(n)' /\ KeepsAccount(n)'
      BY <1>1, <1>2, <1>3 DEF KeepsScreen, KeepsUser, KeepsAccount, Created, Bears
    <3> QED
      BY <1>4, <2>1, <3>1 DEF QuietInv, Quiet
  <2>2. CASE InProgress # {}
    BY <1>3, <1>4, <2>2 DEF QuietInv, Quiet
  <2> QED
    BY <2>1, <2>2
<1>6. NeverSilent'
  BY <1>2, <1>3 DEF AloneInv, NeverSilent
<1>7. AccountsInv'
  <2>1. /\ currentUser \in DOMAIN requests \cup {NoUser}
        /\ \A j \in DOMAIN requests : requests[j].target \in DOMAIN requests \cup {NoUser}
    BY DEF AuthInv, AuthTypeOK, AuthTypes
  <2>2. \A u \in DOMAIN requests : Registered(u)' <=> Registered(u)
    BY <1>2, <1>3 DEF Registered, AccountOf
  <2> QED
    BY <1>2, <1>3, <2>1, <2>2 DEF AloneInv, AccountsInv
<1> QED
  BY <1>5, <1>6, <1>7 DEF AloneInv

\* LoginViewModel publishes only while no RegisterView has a request: its
\* links are taken, and its alert is dismissed, from its own screen.
LEMMA ScreenAlone ==
  ASSUME AuthInv, AloneInv,
         \/ OpenRegister \/ LeaveRegister \/ LeaveHome
         \/ DismissLoginAlert \/ DismissRegisterAlert \/ OpenURL \/ LeaveLink
  PROVE  AloneInv'
<1>1. /\ UNCHANGED <<accounts, currentUser>>
      /\ disturbed' \in {disturbed, disturbed \cup InProgress}
  BY DEF OpenRegister, LeaveRegister, LeaveHome, DismissLoginAlert, DismissRegisterAlert,
     OpenURL, LeaveLink, Link
<1>2. PICK kinds : Touched(NoUser, kinds) /\
        (\/ kinds = {}
         \/ kinds = {"register"} /\ ~(screen.front = "register" /\ ~screen.loginAlert)
         \/ disturbed' = disturbed \cup InProgress)
  <2>1. requests \in Seq(Requests)
    BY InvFacts
  <2>2. CASE OpenRegister \/ LeaveHome \/ DismissLoginAlert
    <3>1. requests' = Replaced(requests, {"register"})
      BY <2>2 DEF OpenRegister, LeaveHome, DismissLoginAlert, Republished
    <3>2. ~(screen.front = "register" /\ ~screen.loginAlert)
      BY <2>2 DEF OpenRegister, LeaveHome, DismissLoginAlert, InFront
    <3>3. Touched(NoUser, {"register"})
      BY <2>1, <3>1, ReplacedTouches
    <3> QED
      BY <3>2, <3>3
  <2>3. CASE DismissRegisterAlert
    <3>1. requests' = requests
      BY <2>3 DEF DismissRegisterAlert
    <3>2. Touched(NoUser, {})
      BY <2>1, <3>1, ReplacedTouches
    <3> QED
      BY <3>2
  <2>4. CASE LeaveRegister \/ OpenURL \/ LeaveLink
    <3>1. disturbed' = disturbed \cup InProgress
      BY <2>4 DEF LeaveRegister, OpenURL, LeaveLink, Link
    <3>2. PICK kinds : requests' = Replaced(requests, kinds) \/ (requests' = requests /\ kinds = {})
      BY <2>4 DEF LeaveRegister, OpenURL, LeaveLink, Link, Republished
    <3>3. Touched(NoUser, kinds)
      BY <2>1, <3>2, ReplacedTouches
    <3> QED
      BY <3>1, <3>3
  <2> QED
    BY <2>2, <2>3, <2>4
<1>3. NoUser \notin DOMAIN requests /\ AuthTypes
  BY InvFacts DEF AuthInv, AuthTypeOK
<1>4. InProgress' = InProgress
  BY <1>2, <1>3, TouchedProgress DEF InProgress, Touched
<1>5. QuietInv'
  <2> SUFFICES ASSUME NEW q \in Quiet'
               PROVE  KeepsScreen(q)' /\ KeepsUser(q)' /\ KeepsAccount(q)' /\ InProgress' = {q}
    BY DEF QuietInv
  <2>1. disturbed' = disturbed /\ q \in Quiet /\ q \in DOMAIN requests /\ q # NoUser
    BY <1>1, <1>3, <1>4 DEF Quiet, InProgress
  <2>2. InProgress = {q} /\ KeepsScreen(q) /\ KeepsUser(q) /\ KeepsAccount(q)
    BY <2>1 DEF AloneInv, QuietInv
  <2>3. disturbed' # disturbed \cup InProgress
    BY <2>1, <2>2 DEF Quiet
  <2>4. KeepsScreen(q)'
    <3>1. CASE requests[q].kind = "register"
      <4>1. kinds = {}
        BY <1>2, <2>2, <2>3, <3>1 DEF KeepsScreen
      <4>2. screen'.front = "register" /\ ~screen'.loginAlert
        <5>1. screen \in Screens /\ screen.front = "register" /\ ~screen.loginAlert
          BY <1>3, <2>2, <3>1 DEF AuthTypes, KeepsScreen
        <5>2. DismissRegisterAlert
          BY <2>3, <5>1 DEF OpenRegister, LeaveRegister, LeaveHome, DismissLoginAlert,
             OpenURL, LeaveLink, Link, InFront
        <5> QED
          BY <5>1, <5>2 DEF DismissRegisterAlert, Screens
      <4> QED
        BY <1>2, <2>1, <2>2, <4>1, <4>2 DEF KeepsScreen, Touched
    <3>2. CASE requests[q].kind # "register"
      <4>1. requests[q].kind \notin kinds
        BY <1>2, <2>3, <3>2
      <4> QED
        BY <1>2, <2>1, <2>2, <3>2, <4>1 DEF KeepsScreen, Touched
    <3> QED
      BY <3>1, <3>2
  <2>5. KeepsUser(q)'
    BY <1>1, <1>2, <2>1, <2>2 DEF KeepsUser, Touched
  <2>6. KeepsAccount(q)'
    <3>1. \A j \in DOMAIN requests : requests[j].target \in DOMAIN requests \cup {NoUser} /\ j # NoUser
      BY <1>3 DEF AuthTypes
    <3> QED
      BY <1>1, <1>2, <2>1, <2>2, <3>1 DEF KeepsAccount, Created, Bears, AccountOf, Touched
  <2> QED
    BY <1>4, <2>2, <2>4, <2>5, <2>6
<1>6. NeverSilent'
  BY <1>1, <1>2, <1>3, TouchedSilent DEF AloneInv
<1>7. AccountsInv'
  BY <1>1, <1>2, <1>3, TouchedAccounts DEF AloneInv
<1> QED
  BY <1>5, <1>6, <1>7 DEF AloneInv

\* The server creates accounts that are free only, and writes the names of
\* other requests to other accounts only.
LEMMA ServeAlone ==
  ASSUME AuthInv, AloneInv, NEW i \in DOMAIN requests, ServeStep(i)
  PROVE  AloneInv'
<1>1. AuthTypes /\ requests \in Seq(Requests)
  BY DEF AuthInv, AuthTypeOK, AuthTypes
<1>2. PICK answer \in {"good", "bad"} :
        /\ requests[i].call = "out"
        /\ requests' = [requests EXCEPT ![i].call = answer]
        /\ UNCHANGED <<currentUser, screen, disturbed>>
        /\ \/ answer = "bad" /\ accounts' = accounts
           \/ requests[i].kind = "login" /\ accounts' = accounts
              /\ accounts[requests[i].account] # Free
           \/ /\ requests[i].kind = "register" /\ requests[i].target = NoUser
              /\ accounts[requests[i].account] = Free
              /\ accounts' = [accounts EXCEPT ![requests[i].account] = NoName]
           \/ /\ requests[i].target # NoUser
              /\ accounts' = [accounts EXCEPT ![AccountOf(requests[i].target)] = i]
  BY DEF ServeStep, ServeSignIn, ServeCreate, ServeName, ServeRefuses, Serve
<1>3. /\ Touched(i, {})
      /\ requests'[i].at = requests[i].at
      /\ requests'[i].call = answer
      /\ requests'[i].target = requests[i].target
  BY <1>1, <1>2, CallTouches
<1>4. InProgress' = InProgress
  BY <1>3 DEF InProgress, Touched
<1>5. /\ accounts \in [Accounts -> Taps \cup {NoName, Free}]
      /\ \A j \in DOMAIN requests :
           /\ requests[j].account \in Accounts
           /\ requests[j].target \in DOMAIN requests \cup {NoUser}
           /\ j # NoUser /\ j # Free
      /\ NoName # Free
  <2>1. /\ accounts \in [Accounts -> Taps \cup {NoName, Free}]
        /\ \A j \in DOMAIN requests : requests[j].target \in DOMAIN requests \cup {NoUser}
        /\ Len(requests) <= MaxTaps
    BY <1>1 DEF AuthTypes
  <2>2. \A j \in DOMAIN requests : requests[j].account \in Accounts
    BY InvFacts DEF Requests
  <2>3. \A j \in DOMAIN requests : j # NoUser /\ j # Free
    <3>1. DOMAIN requests = 1..Len(requests) /\ Len(requests) \in Nat
      BY InvFacts
    <3> QED
      BY <2>1, <3>1, AuthAssumption DEF NoUser, Free
  <2>4. NoName # Free
    BY AuthAssumption DEF NoName, Free
  <2> QED
    BY <2>1, <2>2, <2>3, <2>4
<1>6. \A a \in Accounts : accounts[a] # Free => accounts'[a] # Free
  BY <1>2, <1>5
<1>7. ASSUME NEW q \in Quiet'
      PROVE  InProgress' = {q} /\ KeepsScreen(q)' /\ KeepsUser(q)' /\ KeepsAccount(q)'
  <2>1. q \in Quiet /\ q \in DOMAIN requests
    BY <1>2, <1>4 DEF Quiet, InProgress
  <2>2. InProgress = {q} /\ KeepsScreen(q) /\ KeepsUser(q) /\ KeepsAccount(q)
    BY <2>1 DEF AloneInv, QuietInv
  <2>3. KeepsScreen(q)' /\ KeepsUser(q)'
    BY <1>2, <1>3, <2>1, <2>2 DEF KeepsScreen, KeepsUser, Touched
  <2>4. ASSUME Created(q)', NEW j \in DOMAIN requests \ {q}, requests[j].target # NoUser
        PROVE  AccountOf(requests[j].target) # requests[q].account
    <3>1. CASE Created(q)
      BY <2>2, <2>4, <3>1 DEF KeepsAccount
    <3>2. CASE ~Created(q)
      <4>1. q = i /\ requests[q].at = "sent" /\ answer = "good" /\ requests[q].kind = "register"
        BY <1>3, <2>1, <2>4, <3>2 DEF Created, Touched
      <4>2. requests[q].target = NoUser
        BY <2>1, <4>1 DEF AloneInv, AccountsInv
      <4>3. accounts[requests[q].account] = Free
        BY <1>2, <4>1, <4>2
      <4>4. accounts[AccountOf(requests[j].target)] # Free
        BY <2>4 DEF AloneInv, AccountsInv, Registered
      <4> QED
        BY <4>3, <4>4
    <3> QED
      BY <3>1, <3>2
  <2>5. ASSUME Bears(q)'
        PROVE  accounts'[requests[q].account] = q
    <3>1. CASE Bears(q)
      <4>1. accounts[requests[q].account] = q /\ Created(q)
        BY <2>2, <3>1 DEF KeepsAccount, Bears, Created
      <4>2. requests[i].target # NoUser /\ i # q =>
              AccountOf(requests[i].target) # requests[q].account
        BY <2>2, <4>1 DEF KeepsAccount
      <4>3. i = q => requests[i].kind = "register" /\ requests[i].target = q /\ q # NoUser
        BY <1>5, <2>1, <2>2, <3>1 DEF KeepsUser, Bears
      <4>4. requests[q].account \in Accounts /\ q # Free
        BY <1>5, <2>1
      <4>5. requests[i].account = requests[q].account => accounts[requests[i].account] # Free
        BY <4>1, <4>4
      <4>6. requests[i].target # NoUser /\ i = q => AccountOf(requests[i].target) = requests[q].account
        BY <4>3 DEF AccountOf
      <4> QED
        BY <1>2, <1>5, <4>1, <4>2, <4>3, <4>4, <4>5, <4>6
    <3>2. CASE ~Bears(q)
      <4>1. q = i /\ requests[q].at = "naming" /\ answer = "good" /\ requests[q].kind = "register"
        BY <1>3, <2>1, <2>5, <3>2 DEF Bears, Touched
      <4>2. requests[q].target = q /\ q # NoUser
        BY <1>5, <2>1, <2>2, <4>1 DEF KeepsUser
      <4>3. accounts' = [accounts EXCEPT ![requests[q].account] = q]
        BY <1>2, <4>1, <4>2 DEF AccountOf
      <4> QED
        BY <1>5, <2>1, <4>3
    <3> QED
      BY <3>1, <3>2
  <2>6. KeepsAccount(q)'
    <3>1. /\ DOMAIN requests' = DOMAIN requests
          /\ \A j \in DOMAIN requests : /\ requests'[j].target = requests[j].target
                                        /\ requests'[j].account = requests[j].account
      BY <1>3 DEF Touched
    <3> QED
      BY <1>5, <2>1, <2>4, <2>5, <3>1 DEF KeepsAccount, AccountOf
  <2> QED
    BY <1>4, <2>2, <2>3, <2>6
<1>8. NeverSilent'
  <2>1. requests'[i].at = "silent" => i \in disturbed'
    BY <1>2, <1>3 DEF AloneInv, NeverSilent
  <2> QED
    BY <1>2, <1>3, <2>1, TouchedSilent DEF AloneInv
<1>9. AccountsInv'
  <2>1. /\ requests'[i].at = "sent" => requests'[i].target = NoUser
        /\ requests'[i].at = "signedIn" => requests'[i].call = "none"
    BY <1>2, <1>3 DEF AloneInv, AccountsInv
  <2>2. requests'[i].at = "sent" /\ requests'[i].call = "good" => Registered(i)'
    <3>1. requests'[i].account = requests[i].account
      BY <1>3 DEF Touched
    <3> QED
      BY <1>2, <1>3, <1>5, <2>1, <3>1 DEF Registered, AccountOf
  <2>3. currentUser' = currentUser
    BY <1>2
  <2> QED
    BY <1>1, <1>3, <1>6, <2>1, <2>2, <2>3, TouchedAccounts DEF AloneInv
<1> QED
  BY <1>7, <1>8, <1>9 DEF AloneInv, QuietInv

\* What the work queue does to the request it runs.
LEMMA WorkTouches ==
  ASSUME AuthInv, NEW i \in DOMAIN requests, SignInEnds(i) \/ NamingStep(i)
  PROVE  \E stage \in {"signedIn", "naming", "named", "failing"} :
        /\ Touched(i, {}) /\ i \in InProgress
        /\ requests'[i].at = stage
        /\ requests'[i].target = requests[i].target
        /\ \/ /\ requests[i].at = "sent" /\ requests[i].call = "good"
              /\ stage = "signedIn" /\ requests'[i].call = "none" /\ currentUser' = i
           \/ /\ stage = "failing" /\ currentUser' \in {currentUser, NoUser}
           \/ /\ requests[i].at = "naming" /\ stage = "naming"
              /\ requests'[i].call = "out" /\ currentUser' = currentUser
           \/ /\ requests[i].at = "naming" /\ requests[i].call = "good"
              /\ stage = "named" /\ currentUser' = currentUser
<1>0. requests \in Seq(Requests)
  BY InvFacts
<1>1. CASE SignedIn(i)
  <2>1. requests' = Called(i, "signedIn", "none")
    BY <1>1 DEF SignedIn, Called
  <2>2. /\ Touched(i, {}) /\ requests'[i].at = "signedIn" /\ requests'[i].call = "none"
        /\ requests'[i].target = requests[i].target
    BY <1>0, <2>1, MovedAndCalledTouches
  <2> QED
    BY <1>1, <2>2 DEF SignedIn, InProgress, Ended
<1>2. CASE SignInFails(i) \/ NamingFails(i)
  <2>1. /\ Touched(i, {}) /\ requests'[i].at = "failing"
        /\ requests'[i].target = requests[i].target
    BY <1>0, <1>2, MovedTouches DEF SignInFails, NamingFails
  <2> QED
    BY <1>2, <2>1 DEF SignInFails, NamingFails, Running, InProgress, Ended
<1>3. CASE SendName(i)
  <2>1. /\ Touched(i, {}) /\ requests'[i].at = requests[i].at /\ requests'[i].call = "out"
        /\ requests'[i].target = requests[i].target
    BY <1>0, <1>3, CallTouches DEF SendName
  <2> QED
    BY <1>3, <2>1 DEF SendName, Running, InProgress, Ended
<1>4. CASE Named(i)
  <2>1. requests' = Called(i, "named", "none")
    BY <1>4 DEF Named, Called
  <2>2. /\ Touched(i, {}) /\ requests'[i].at = "named"
        /\ requests'[i].target = requests[i].target
    BY <1>0, <2>1, MovedAndCalledTouches
  <2> QED
    BY <1>4, <2>2 DEF Named, Running, InProgress, Ended
<1> QED
  BY <1>1, <1>2, <1>3, <1>4 DEF SignInEnds, NamingStep

\* The work queue: a sign-in makes its user the current one, and a profile
\* change is made once the server has made it.
LEMMA WorkAlone ==
  ASSUME AuthInv, AloneInv, NEW i \in DOMAIN requests, SignInEnds(i) \/ NamingStep(i)
  PROVE  AloneInv'
<1>1. AuthTypes /\ requests \in Seq(Requests) /\ i # NoUser
  BY InvFacts DEF AuthInv, AuthTypeOK, AuthTypes
<1>2. UNCHANGED <<accounts, screen, disturbed>>
  BY DEF SignInEnds, NamingStep, SignedIn, SignInFails, SendName, Named, NamingFails
<1>3. \A a \in Accounts : accounts[a] # Free => accounts'[a] # Free
  BY <1>2
<1>4. PICK stage \in {"signedIn", "naming", "named", "failing"} :
        /\ Touched(i, {}) /\ i \in InProgress
        /\ requests'[i].at = stage
        /\ requests'[i].target = requests[i].target
        /\ \/ /\ requests[i].at = "sent" /\ requests[i].call = "good"
              /\ stage = "signedIn" /\ requests'[i].call = "none" /\ currentUser' = i
           \/ /\ stage = "failing" /\ currentUser' \in {currentUser, NoUser}
           \/ /\ requests[i].at = "naming" /\ stage = "naming"
              /\ requests'[i].call = "out" /\ currentUser' = currentUser
           \/ /\ requests[i].at = "naming" /\ requests[i].call = "good"
              /\ stage = "named" /\ currentUser' = currentUser
  BY WorkTouches
<1>5. requests'[i].kind = requests[i].kind
  BY <1>4 DEF Touched
<1>6. QuietInv'
  <2>1. i \in Quiet => KeepsUser(i)'
    <3>1. i \in Quiet => KeepsUser(i)
      BY DEF AloneInv, QuietInv
    <3> QED
      BY <1>4, <1>5, <3>1 DEF KeepsUser
  <2>2. i \in Quiet /\ Created(i)' => Created(i)
    BY <1>4, <1>5 DEF Created
  <2>3. i \in Quiet /\ Bears(i)' => Bears(i)
    BY <1>4, <1>5 DEF Bears
  <2>4. requests'[i].at \notin Ended
    BY <1>4 DEF Ended
  <2> QED
    BY <1>1, <1>2, <1>4, <2>1, <2>2, <2>3, <2>4, GoesOnQuiet DEF AloneInv
<1>7. NeverSilent'
  BY <1>2, <1>4, TouchedSilent DEF AloneInv
<1>8. AccountsInv'
  <2>1. /\ requests'[i].at = "sent" => requests'[i].target = NoUser
        /\ requests'[i].at = "sent" /\ requests'[i].call = "good" => Registered(i)'
        /\ requests'[i].at = "signedIn" => requests'[i].call = "none"
    BY <1>4
  <2>2. CASE currentUser' \in {currentUser, NoUser}
    BY <1>1, <1>3, <1>4, <2>1, <2>2, TouchedAccounts DEF AloneInv
  <2>3. CASE currentUser' = i /\ requests[i].at = "sent" /\ requests[i].call = "good"
    <3>1. \A u \in DOMAIN requests : Registered(u)' <=> Registered(u)
      BY <1>2, <1>4 DEF Registered, AccountOf, Touched
    <3>2. \A j \in DOMAIN requests : requests[j].target \in DOMAIN requests \cup {NoUser}
      BY <1>1 DEF AuthTypes
    <3>3. Registered(i)
      BY <2>3 DEF AloneInv, AccountsInv
    <3>4. \A j \in DOMAIN requests :
            /\ requests'[j].target # NoUser => Registered(requests[j].target)'
            /\ requests'[j].at = "sent" => requests'[j].target = NoUser
            /\ requests'[j].at = "sent" /\ requests'[j].call = "good" => Registered(j)'
            /\ requests'[j].at = "signedIn" => requests'[j].call = "none"
      BY <1>4, <2>1, <3>1, <3>2 DEF AloneInv, AccountsInv, Touched
    <3> QED
      BY <1>4, <2>3, <3>1, <3>3, <3>4 DEF AccountsInv, Touched
  <2> QED
    BY <1>4, <2>2, <2>3
<1> QED
  BY <1>6, <1>7, <1>8 DEF AloneInv

\* A request whose block is in the main queue is in progress.
LEMMA BlockInProgress ==
  ASSUME AuthInv, mainQueue # <<>>
  PROVE  /\ Head(mainQueue).of \in InProgress
         /\ Head(mainQueue).run \in {"signedIn", "named"} =>
              requests[Head(mainQueue).of].at = Head(mainQueue).run
<1>1. InPlace(requests, naming, mainQueue) /\ Head(mainQueue) \in Elements(mainQueue)
      /\ Head(mainQueue).of \in DOMAIN requests
  BY InvFacts, PlaceForm DEF AuthInv, AuthTypeOK
<1>2. Head(mainQueue).of \in Of(mainQueue)
  BY <1>1 DEF Elements, Of
<1> QED
  BY <1>1, <1>2 DEF InPlace, InProgress, Ended

\* The callback of createUser: a registration that nothing disturbed finds the
\* user it has just made.
LEMMA StartNamingAlone ==
  ASSUME AuthInv, AloneInv, StartNaming
  PROVE  AloneInv'
<1>1. PICK i \in InProgress :
        /\ requests[i].at = "signedIn" /\ requests[i].kind = "register"
        /\ \/ currentUser = NoUser /\ requests' = Moved(i, "silent")
           \/ /\ currentUser # NoUser
              /\ requests' = [Moved(i, "naming") EXCEPT ![i].target = currentUser]
  BY BlockInProgress DEF StartNaming, Block
<1>2. UNCHANGED <<accounts, currentUser, screen, disturbed>>
  BY DEF StartNaming
<1>3. AuthTypes /\ requests \in Seq(Requests) /\ i \in DOMAIN requests /\ i # NoUser
  BY InvFacts DEF AuthInv, AuthTypeOK, AuthTypes, InProgress
<1>4. i \in Quiet => currentUser = i
  BY <1>1 DEF AloneInv, QuietInv, KeepsUser
<1>5. \A a \in Accounts : accounts[a] # Free => accounts'[a] # Free
  BY <1>2
<1>6. requests[i].call = "none"
  BY <1>1, <1>3 DEF AloneInv, AccountsInv
<1>7. CASE currentUser = NoUser
  <2>1. Touched(i, {}) /\ requests'[i].at = "silent" /\ requests'[i].target = requests[i].target
    BY <1>1, <1>3, <1>7, MovedTouches
  <2>2. QuietInv'
    BY <1>2, <2>1, EndsQuiet DEF AloneInv, Ended
  <2>3. i \in disturbed'
    BY <1>1, <1>2, <1>3, <1>4, <1>7 DEF Quiet
  <2>4. NeverSilent'
    BY <1>2, <2>1, <2>3, TouchedSilent DEF AloneInv
  <2>5. AccountsInv'
    BY <1>2, <1>3, <1>5, <2>1, TouchedAccounts DEF AloneInv
  <2> QED
    BY <2>2, <2>4, <2>5 DEF AloneInv
<1>8. CASE currentUser # NoUser
  <2>1. requests' = Targeted(i, "naming", currentUser)
    BY <1>1, <1>8 DEF Targeted
  <2>2. /\ Touched(i, {}) /\ requests'[i].at = "naming" /\ requests'[i].call = requests[i].call
        /\ requests'[i].target = currentUser
    <3>1. requests \in Seq(Requests) /\ i \in DOMAIN requests
      BY <1>3
    <3> QED
      BY <2>1, <3>1, MovedAndTargetedTouches
  <2>3. QuietInv'
    <3>1. i \in Quiet => KeepsUser(i)'
      BY <1>4, <2>2 DEF KeepsUser
    <3>2. Created(i)' => Created(i)
      BY <1>1, <1>3, <2>2 DEF Created, Touched
    <3>3. ~Bears(i)'
      BY <1>6, <2>2 DEF Bears
    <3>4. requests'[i].at \notin Ended
      BY <2>2 DEF Ended
    <3> QED
      BY <1>2, <1>3, <2>2, <3>1, <3>2, <3>3, <3>4, GoesOnQuiet DEF AloneInv
  <2>4. NeverSilent'
    BY <1>2, <2>2, TouchedSilent DEF AloneInv
  <2>5. AccountsInv'
    BY <1>2, <1>3, <1>5, <2>2, TouchedAccounts DEF AloneInv
  <2> QED
    BY <2>3, <2>4, <2>5 DEF AloneInv
<1> QED
  BY <1>7, <1>8

\* The blocks with which a request ends on its screen.
LEMMA EndsAlone ==
  ASSUME AuthInv, AloneInv,
         LoginSucceeds \/ RegisterSucceeds \/ LoginAlert \/ RegisterAlert
  PROVE  /\ AloneInv'
         /\ \E kinds : Touched(Head(mainQueue).of, kinds)
<1>1. PICK i \in InProgress, stage \in {"ok", "failed"}, kinds \in {{}, {"register"}} :
        /\ i = Head(mainQueue).of
        /\ (requests' = Moved(i, stage) /\ kinds = {}) \/ requests' = Replaced(Moved(i, stage), kinds)
  BY BlockInProgress DEF LoginSucceeds, RegisterSucceeds, LoginAlert, RegisterAlert, Block,
     Republished
<1>2. UNCHANGED <<accounts, currentUser, disturbed>>
  BY DEF LoginSucceeds, RegisterSucceeds, LoginAlert, RegisterAlert
<1>3. AuthTypes /\ requests \in Seq(Requests) /\ i \in DOMAIN requests
  BY DEF AuthInv, AuthTypeOK, AuthTypes, InProgress
<1>4. Touched(i, kinds) /\ requests'[i].at = stage /\ requests'[i].target = requests[i].target
  <2>1. CASE requests' = Moved(i, stage) /\ kinds = {}
    BY <1>3, <2>1, MovedTouches
  <2>2. CASE requests' = Replaced(Moved(i, stage), kinds)
    BY <1>3, <2>2, MovedTouches
  <2> QED
    BY <1>1, <2>1, <2>2
<1>5. stage \in Ended /\ stage \notin {"silent", "sent", "signedIn"}
  BY DEF Ended
<1>6. QuietInv'
  BY <1>2, <1>4, <1>5, EndsQuiet DEF AloneInv
<1>7. NeverSilent'
  BY <1>2, <1>4, <1>5, TouchedSilent DEF AloneInv
<1>8. AccountsInv'
  <2>1. \A a \in Accounts : accounts[a] # Free => accounts'[a] # Free
    BY <1>2
  <2> QED
    BY <1>2, <1>3, <1>4, <1>5, <2>1, TouchedAccounts DEF AloneInv
<1> QED
  BY <1>1, <1>4, <1>6, <1>7, <1>8 DEF AloneInv

LEMMA RestartAlone ==
  ASSUME AuthInv, AloneInv, Restart
  PROVE  AloneInv'
<1>1. /\ AuthTypes /\ requests \in [DOMAIN requests -> Requests]
      /\ UNCHANGED <<accounts, currentUser, disturbed>>
  BY RequestsType DEF AuthInv, AuthTypeOK, AuthTypes, Restart
<1>2. /\ DOMAIN requests' = DOMAIN requests
      /\ \A j \in DOMAIN requests :
           /\ requests'[j].at = IF j \in InProgress THEN "lost" ELSE requests[j].at
           /\ requests'[j].account = requests[j].account
           /\ requests'[j].target = requests[j].target
  BY <1>1 DEF Restart, Requests
<1>3. QuietInv'
  BY <1>2 DEF QuietInv, Quiet, InProgress, Ended
<1>4. NeverSilent'
  BY <1>1, <1>2 DEF AloneInv, NeverSilent
<1>5. AccountsInv'
  <2>1. \A u \in DOMAIN requests : Registered(u)' <=> Registered(u)
    BY <1>1, <1>2 DEF Registered, AccountOf
  <2>2. /\ currentUser \in DOMAIN requests \cup {NoUser}
        /\ \A j \in DOMAIN requests : requests[j].target \in DOMAIN requests \cup {NoUser}
    BY <1>1 DEF AuthTypes
  <2>3. \A j \in DOMAIN requests : requests'[j].at \notin {"sent", "signedIn"}
    BY <1>2 DEF InProgress, Ended
  <2> QED
    BY <1>1, <1>2, <2>1, <2>2, <2>3 DEF AloneInv, AccountsInv
<1> QED
  BY <1>3, <1>4, <1>5 DEF AloneInv

LEMMA RunMainAlone ==
  ASSUME AuthInv, AloneInv, RunMain
  PROVE  AloneInv'
<1>1. CASE StartNaming
  BY <1>1, StartNamingAlone
<1>2. CASE LoginSucceeds \/ RegisterSucceeds \/ LoginAlert \/ RegisterAlert
  BY <1>2, EndsAlone
<1>3. CASE Fails
  BY <1>3 DEF Fails, AloneInv, QuietInv, Quiet, InProgress, KeepsScreen, KeepsUser,
     KeepsAccount, Created, Bears, NeverSilent, AccountsInv, Registered, AccountOf
<1> QED
  BY <1>1, <1>2, <1>3 DEF RunMain

LEMMA AloneInvInit == Init => AloneInv
<1> SUFFICES ASSUME Init
             PROVE  AloneInv
  OBVIOUS
<1>1. DOMAIN requests = {}
  BY DEF Init
<1> QED
  BY <1>1 DEF Init, AloneInv, QuietInv, Quiet, InProgress, NeverSilent, AccountsInv

LEMMA AloneInvStep == AuthInv /\ AloneInv /\ [Next]_vars => AloneInv'
<1> SUFFICES ASSUME AuthInv, AloneInv, [Next]_vars
             PROVE  AloneInv'
  OBVIOUS
<1>1. ASSUME NEW a \in Accounts, TapLogin(a) \/ TapRegister(a)
      PROVE  AloneInv'
  BY <1>1, SendAlone
<1>2. CASE \/ OpenRegister \/ LeaveRegister \/ LeaveHome
           \/ DismissLoginAlert \/ DismissRegisterAlert \/ OpenURL \/ LeaveLink
  BY <1>2, ScreenAlone
<1>3. ASSUME NEW i \in DOMAIN requests, ServeStep(i) \/ SignInEnds(i) \/ NamingStep(i)
      PROVE  AloneInv'
  BY <1>3, ServeAlone, WorkAlone
<1>4. CASE RunMain
  BY <1>4, RunMainAlone
<1>5. CASE Restart
  BY <1>5, RestartAlone
<1>6. CASE UNCHANGED vars
  BY <1>6 DEF vars, AloneInv, QuietInv, Quiet, InProgress, KeepsScreen, KeepsUser,
     KeepsAccount, Created, Bears, NeverSilent, AccountsInv, Registered, AccountOf
<1> QED
  BY <1>1, <1>2, <1>3, <1>4, <1>5, <1>6 DEF Next

\* Only the four blocks with the outcome for the screen end a request well, or
\* with an alert.
LEMMA EndedByItsBlock ==
  ASSUME AuthInv, [Next]_vars, NEW i, NEW stage \in {"ok", "failed"}, Becomes(i, stage)
  PROVE  /\ LoginSucceeds \/ RegisterSucceeds \/ LoginAlert \/ RegisterAlert
         /\ i = Head(mainQueue).of
<1>1. requests \in Seq(Requests) /\ i \in DOMAIN requests /\ NoUser \notin DOMAIN requests
      /\ requests'[i].at = stage /\ requests[i].at # stage
  BY InvFacts DEF Becomes
<1>2. stage \notin {"signedIn", "naming", "named", "failing", "silent", "lost"}
  OBVIOUS
<1>3. ASSUME NEW a \in Accounts, TapLogin(a) \/ TapRegister(a)
      PROVE  FALSE
  <2>1. PICK r : requests' = Append(requests, r)
    BY <1>3 DEF TapLogin, TapRegister, Send
  <2>2. requests'[i] = requests[i]
    BY <1>1, <2>1
  <2> QED
    BY <1>1, <2>2
<1>4. CASE \/ OpenRegister \/ LeaveRegister \/ LeaveHome
           \/ DismissLoginAlert \/ DismissRegisterAlert \/ OpenURL \/ LeaveLink
           \/ Fails \/ UNCHANGED vars
  <2>1. PICK kinds : requests' = Replaced(requests, kinds) \/ (requests' = requests /\ kinds = {})
    BY <1>4 DEF OpenRegister, LeaveRegister, LeaveHome, DismissLoginAlert,
       DismissRegisterAlert, OpenURL, LeaveLink, Link, Republished, Fails, vars
  <2>2. Touched(NoUser, kinds)
    BY <1>1, <2>1, ReplacedTouches
  <2> QED
    BY <1>1, <2>2 DEF Touched
<1>5. ASSUME NEW j \in DOMAIN requests, ServeStep(j)
      PROVE  FALSE
  <2>1. PICK answer : requests' = [requests EXCEPT ![j].call = answer]
    BY <1>5 DEF ServeStep, ServeSignIn, ServeCreate, ServeName, ServeRefuses, Serve
  <2>2. Touched(j, {}) /\ requests'[j].at = requests[j].at
    BY <1>1, <2>1, CallTouches
  <2> QED
    BY <1>1, <2>2 DEF Touched
<1>6. ASSUME NEW j \in DOMAIN requests, SignInEnds(j) \/ NamingStep(j)
      PROVE  FALSE
  BY <1>1, <1>2, <1>6, WorkTouches DEF Touched
<1>7. CASE StartNaming
  <2> DEFINE j == Head(mainQueue).of
  <2>1. j \in DOMAIN requests
    BY <1>7, BlockInProgress DEF StartNaming, Block, InProgress
  <2>2. CASE requests' = Moved(j, "silent")
    <3>1. Touched(j, {}) /\ requests'[j].at = "silent"
      BY <1>1, <2>1, <2>2, MovedTouches
    <3> QED
      BY <1>1, <1>2, <3>1 DEF Touched
  <2>3. CASE requests' = [Moved(j, "naming") EXCEPT ![j].target = currentUser]
    <3> HIDE DEF j
    <3>1. requests' = Targeted(j, "naming", currentUser)
      BY <2>3 DEF Targeted
    <3>2. Touched(j, {}) /\ requests'[j].at = "naming"
      BY <1>1, <2>1, <3>1, MovedAndTargetedTouches
    <3> QED
      BY <1>1, <1>2, <3>2 DEF Touched
  <2> QED
    BY <1>7, <2>2, <2>3 DEF StartNaming
<1>8. CASE Restart
  <2>1. requests \in [DOMAIN requests -> Requests]
    BY <1>1, RequestsType
  <2>2. requests'[i].at \in {requests[i].at, "lost"}
    BY <1>1, <1>8, <2>1 DEF Restart, Requests
  <2> QED
    BY <1>1, <1>2, <2>2
<1>9. LoginSucceeds \/ RegisterSucceeds \/ LoginAlert \/ RegisterAlert
  BY <1>3, <1>4, <1>5, <1>6, <1>7, <1>8 DEF Next, RunMain
<1>10. i = Head(mainQueue).of
  <2>1. PICK end \in {"ok", "failed"}, kinds \in {{}, {"register"}} :
          \/ requests' = Moved(Head(mainQueue).of, end) /\ kinds = {}
          \/ requests' = Replaced(Moved(Head(mainQueue).of, end), kinds)
    BY <1>9 DEF LoginSucceeds, RegisterSucceeds, LoginAlert, RegisterAlert, Republished
  <2> DEFINE j == Head(mainQueue).of
  <2>2. j \in DOMAIN requests
    BY <1>9, BlockInProgress DEF LoginSucceeds, RegisterSucceeds, LoginAlert, RegisterAlert,
       Block, InProgress
  <2> HIDE DEF j
  <2>3. Touched(j, kinds)
    <3>1. CASE requests' = Moved(j, end) /\ kinds = {}
      BY <1>1, <2>2, <3>1, MovedTouches
    <3>2. CASE requests' = Replaced(Moved(j, end), kinds)
      BY <1>1, <2>2, <3>2, MovedTouches
    <3> QED
      BY <2>1, <3>1, <3>2 DEF j
  <2> QED
    BY <1>1, <2>3 DEF Touched, j
<1> QED
  BY <1>9, <1>10

\* register returns without a word to the screen only when another request,
\* the deep link or the user leaving the screen interfered.
THEOREM NeverSilentAlways == Spec => []NeverSilent
<1>1. AloneInv => NeverSilent
  BY DEF AloneInv
<1> QED
  BY AuthInvInit, AuthInvStep, AloneInvInit, AloneInvStep, <1>1, PTL DEF Spec

\* A registration that nothing disturbed has named the account that was typed
\* when it closes its screen.
LEMMA ClosesNamed ==
  ASSUME AuthInv, AloneInv, [Next]_vars, NEW i, Becomes(i, "ok"), i \notin disturbed,
         requests[i].kind = "register"
  PROVE  accounts'[requests[i].account] = i
<1>1. /\ LoginSucceeds \/ RegisterSucceeds \/ LoginAlert \/ RegisterAlert
      /\ i = Head(mainQueue).of
  BY EndedByItsBlock
<1>2. i \in Quiet /\ i \in DOMAIN requests
  BY <1>1, BlockInProgress DEF LoginSucceeds, RegisterSucceeds, LoginAlert, RegisterAlert,
     Block, Quiet, InProgress
<1>3. RegisterSucceeds
  <2>1. requests \in Seq(Requests)
    BY InvFacts
  <2>2. CASE RegisterAlert
    <3>1. requests'[i].at = "failed"
      BY <1>1, <1>2, <2>1, <2>2, MovedTouches DEF RegisterAlert
    <3> QED
      BY <3>1 DEF Becomes
  <2> QED
    BY <1>1, <2>2 DEF LoginSucceeds, LoginAlert, Block
<1>4. requests[i].at = "named"
  BY <1>1, <1>3, BlockInProgress DEF RegisterSucceeds, Block
<1>5. accounts[requests[i].account] = i
  BY <1>2, <1>4 DEF AloneInv, QuietInv, KeepsAccount, Bears
<1> QED
  BY <1>3, <1>5 DEF RegisterSucceeds

\* A request that nothing disturbed finds the screen that shows its alert.
LEMMA AlertShown ==
  ASSUME AuthInv, AloneInv, [Next]_vars, NEW i, Becomes(i, "failed"), i \notin disturbed
  PROVE  screen'.loginAlert \/ screen'.registerAlert
<1>1. /\ LoginSucceeds \/ RegisterSucceeds \/ LoginAlert \/ RegisterAlert
      /\ i = Head(mainQueue).of
  BY EndedByItsBlock
<1>2. i \in Quiet /\ i \in DOMAIN requests
  BY <1>1, BlockInProgress DEF LoginSucceeds, RegisterSucceeds, LoginAlert, RegisterAlert,
     Block, Quiet, InProgress
<1>3. KeepsScreen(i) /\ screen \in Screens
  BY <1>2 DEF AloneInv, QuietInv, AuthInv, AuthTypeOK, AuthTypes
<1>4. CASE LoginAlert
  BY <1>1, <1>3, <1>4 DEF LoginAlert, KeepsScreen, Screens
<1>5. CASE RegisterAlert
  BY <1>1, <1>3, <1>5 DEF RegisterAlert, Block, KeepsScreen, Screens
<1>6. CASE LoginSucceeds \/ RegisterSucceeds
  <2>1. requests \in Seq(Requests)
    BY InvFacts
  <2>2. PICK kinds \in {{}, {"register"}} :
          \/ requests' = Moved(i, "ok") /\ kinds = {}
          \/ requests' = Replaced(Moved(i, "ok"), kinds)
    BY <1>1, <1>6 DEF LoginSucceeds, RegisterSucceeds, Republished
  <2>3. requests'[i].at = "ok"
    <3>1. CASE requests' = Moved(i, "ok") /\ kinds = {}
      BY <1>2, <2>1, <3>1, MovedTouches
    <3>2. CASE requests' = Replaced(Moved(i, "ok"), kinds)
      BY <1>2, <2>1, <3>2, MovedTouches
    <3> QED
      BY <2>2, <3>1, <3>2
  <2> QED
    BY <2>3 DEF Becomes
<1> QED
  BY <1>1, <1>4, <1>5, <1>6

\* When a registration that nothing disturbed closes its screen, the account
\* that was typed bears the name that was typed, for any number of taps and
\* whatever calls of earlier requests reach the server late.
THEOREM NamedAsTypedEver == Spec => NamedAsTyped
<1>1. AuthInv /\ AloneInv /\ [Next]_vars =>
        [\A i \in Taps : (/\ Becomes(i, "ok") /\ i \notin disturbed
                          /\ requests[i].kind = "register")
           => accounts'[requests[i].account] = i]_vars
  BY ClosesNamed
<1> QED
  BY AuthInvInit, AuthInvStep, AloneInvInit, AloneInvStep, <1>1, PTL DEF Spec, NamedAsTyped

\* A request that fails puts up an alert unless another request, the deep link
\* or the user leaving the screen interfered.
THEOREM FailureIsShownEver == Spec => FailureIsShown
<1>1. AuthInv /\ AloneInv /\ [Next]_vars =>
        [\A i \in Taps : Becomes(i, "failed") /\ i \notin disturbed
           => screen'.loginAlert \/ screen'.registerAlert]_vars
  BY AlertShown
<1> QED
  BY AuthInvInit, AuthInvStep, AloneInvInit, AloneInvStep, <1>1, PTL DEF Spec, FailureIsShown
=============================================================================
