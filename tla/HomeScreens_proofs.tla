-------------------------- MODULE HomeScreens_proofs --------------------------
(***************************************************************************)
(* What HomeScreens guarantees for any number of users, view models,       *)
(* sign-ins and incidents.                                                 *)
(***************************************************************************)
EXTENDS HomeScreens, SequenceTheorems, FiniteSetTheorems, TLAPS

-----------------------------------------------------------------------------
(* The two queues, by what waits in them. *)

\* Models whose listener is on its way to the worker.
Coming(w) == {w[i].model : i \in {i \in DOMAIN w : w[i].do = "listen"}}

ComeOnce(w) ==
  \A i, j \in DOMAIN w :
    w[i].do = "listen" /\ w[j].do = "listen" /\ w[i].model = w[j].model => i = j

\* Users as whom the stream is about to open.
Opens(w) == {w[i].as : i \in {i \in DOMAIN w : w[i].do = "open"}}

\* A queue, of either thread, that carries news of the user.
News(q) == \E i \in DOMAIN q : q[i].do = "credentials"

\* The listeners of the models K come behind news of the user.
Behindhand(w, K) ==
  \A i \in DOMAIN w :
    w[i].do = "listen" /\ w[i].model \in K => \E j \in 1..(i-1) : w[j].do = "credentials"

NewUsers(q) == {q[i].as : i \in {i \in DOMAIN q : q[i].do = "credentials"}}

\* Models that an event, or a refusal, is on its way to.
Addressed(q) == {m \in Nat : \E i \in DOMAIN q : q[i].do = "event" /\ m \in q[i].to}
Rejected(q)  == {m \in Nat : \E i \in DOMAIN q : /\ q[i].do = "event" /\ m \in q[i].to
                                                 /\ q[i].what = "refused"}

\* Nothing comes to a model behind its refusal.
RefusedLast(q) ==
  \A i, j \in DOMAIN q :
    i < j /\ q[i].do = "event" /\ q[i].what = "refused" /\ q[j].do = "event"
      => q[i].to \cap q[j].to = {}


LEMMA QueueFacts ==
  ASSUME NEW S, NEW q \in Seq(S)
  PROVE  /\ Len(q) \in Nat /\ DOMAIN q = 1..Len(q)
         /\ \A i \in DOMAIN q : q[i] \in S
         /\ q # <<>> => /\ Len(q) > 0 /\ 1 \in DOMAIN q /\ Head(q) = q[1] /\ q[1] \in S
                        /\ Tail(q) \in Seq(S) /\ Len(Tail(q)) = Len(q) - 1
                        /\ DOMAIN Tail(q) = 1..(Len(q) - 1)
                        /\ \A i \in 1..(Len(q) - 1) : Tail(q)[i] = q[i+1]
<1>1. Len(q) \in Nat /\ DOMAIN q = 1..Len(q)
  BY LenProperties
<1>2. \A i \in DOMAIN q : q[i] \in S
  BY <1>1, ElementOfSeq
<1>3. ASSUME q # <<>>
      PROVE  /\ Len(q) > 0 /\ 1 \in DOMAIN q /\ Head(q) = q[1]
             /\ Tail(q) \in Seq(S) /\ Len(Tail(q)) = Len(q) - 1
             /\ DOMAIN Tail(q) = 1..(Len(q) - 1)
             /\ \A i \in 1..(Len(q) - 1) : Tail(q)[i] = q[i+1]
  <2>1. Len(q) > 0 /\ 1 \in DOMAIN q
    BY <1>1, <1>3, EmptySeq
  <2>2. /\ Head(q) = q[1] /\ Tail(q) \in Seq(S) /\ Len(Tail(q)) = Len(q) - 1
        /\ \A i \in 1..Len(Tail(q)) : Tail(q)[i] = q[i+1]
    BY <1>3, HeadTailProperties
  <2>3. DOMAIN Tail(q) = 1..Len(Tail(q))
    BY <2>2, LenProperties
  <2> QED
    BY <2>1, <2>2, <2>3
<1> QED
  BY <1>1, <1>2, <1>3

LEMMA AppendFacts ==
  ASSUME NEW S, NEW q \in Seq(S), NEW e \in S
  PROVE  /\ Append(q, e) \in Seq(S)
         /\ DOMAIN Append(q, e) = 1..(Len(q) + 1)
         /\ Len(Append(q, e)) = Len(q) + 1
         /\ Append(q, e)[Len(q) + 1] = e
         /\ \A i \in 1..Len(q) : Append(q, e)[i] = q[i]
OBVIOUS

\* A task that joins the worker.
LEMMA TaskAppended ==
  ASSUME NEW S, NEW w \in Seq(S), NEW e \in S, e.do # "listen"
  PROVE  /\ Coming(Append(w, e)) = Coming(w)
         /\ ComeOnce(w) => ComeOnce(Append(w, e))
         /\ Opens(Append(w, e)) = Opens(w) \cup (IF e.do = "open" THEN {e.as} ELSE {})
         /\ News(Append(w, e)) <=> News(w) \/ e.do = "credentials"
         /\ \A K : Behindhand(w, K) => Behindhand(Append(w, e), K)
<1> DEFINE a == Append(w, e)
           n == Len(w) + 1
<1>1. /\ Len(w) \in Nat /\ DOMAIN w = 1..Len(w)
      /\ DOMAIN a = 1..n /\ a[n] = e /\ \A i \in 1..Len(w) : a[i] = w[i]
  BY QueueFacts, AppendFacts
<1>2. n \in Nat /\ DOMAIN a = DOMAIN w \cup {n} /\ n \notin DOMAIN w /\ \A i \in DOMAIN w : i < n
  BY <1>1
<1> HIDE DEF a, n
<1>3. Coming(a) = Coming(w)
  BY <1>1, <1>2 DEF Coming
<1>4. ComeOnce(w) => ComeOnce(a)
  BY <1>1, <1>2 DEF ComeOnce
<1>5. Opens(a) = Opens(w) \cup (IF e.do = "open" THEN {e.as} ELSE {})
  BY <1>1, <1>2 DEF Opens
<1>6. News(a) <=> News(w) \/ e.do = "credentials"
  BY <1>1, <1>2 DEF News
<1>7. ASSUME NEW K, Behindhand(w, K)
      PROVE  Behindhand(a, K)
  <2> SUFFICES ASSUME NEW i \in DOMAIN a, a[i].do = "listen", a[i].model \in K
               PROVE  \E j \in 1..(i-1) : a[j].do = "credentials"
    BY DEF Behindhand
  <2>1. i \in DOMAIN w /\ w[i] = a[i]
    BY <1>1, <1>2
  <2>2. PICK j \in 1..(i-1) : w[j].do = "credentials"
    BY <1>7, <2>1 DEF Behindhand
  <2>3. j \in 1..Len(w)
    BY <1>1, <2>1
  <2> QED
    BY <1>1, <2>2, <2>3
<1> QED
  BY <1>3, <1>4, <1>5, <1>6, <1>7 DEF a

\* Tasks that are the listeners of the n models behind k.
ListenAfter(v, k, n) ==
  \A i \in 1..n : v[i].do = "listen" /\ v[i].model = k + i

\* Listeners of new models that join the worker.
LEMMA ListensAppended ==
  ASSUME NEW S, NEW w \in Seq(S), NEW n \in Nat, NEW k \in Nat, NEW v \in [1..n -> S],
         ListenAfter(v, k, n)
  PROVE  /\ w \o v \in Seq(S)
         /\ Coming(w \o v) = Coming(w) \cup ((k+1)..(k+n))
         /\ ComeOnce(w) /\ Coming(w) \subseteq 1..k => ComeOnce(w \o v)
         /\ Opens(w \o v) = Opens(w)
         /\ News(w \o v) <=> News(w)
         /\ \A K : Behindhand(w, K) /\ (News(w) \/ K \cap ((k+1)..(k+n)) = {})
                     => Behindhand(w \o v, K)
<1>1. PICK l \in Nat : l = Len(w) /\ DOMAIN w = 1..l
  BY QueueFacts
<1>2. v \in Seq(S) /\ Len(v) = n
  <2>1. v \in Seq(S)
    BY SeqDef
  <2> QED
    BY <2>1, LenProperties
<1>3. PICK a : a = w \o v
  OBVIOUS
<1>4. /\ a \in Seq(S) /\ DOMAIN a = 1..(l + n)
      /\ \A i \in 1..(l + n) : a[i] = IF i <= l THEN w[i] ELSE v[i - l]
  <2>1. /\ w \o v \in Seq(S) /\ Len(w \o v) = Len(w) + Len(v)
        /\ \A i \in 1..(Len(w) + Len(v)) : (w \o v)[i] = IF i <= Len(w) THEN w[i] ELSE v[i - Len(w)]
    BY <1>2, ConcatProperties
  <2>2. DOMAIN (w \o v) = 1..Len(w \o v)
    BY <2>1, LenProperties
  <2> QED
    BY <1>1, <1>2, <1>3, <2>1, <2>2
<1>5. /\ \A i \in 1..l : i \in DOMAIN a /\ a[i] = w[i]
      /\ \A i \in DOMAIN a : i \notin 1..l =>
           /\ i > l /\ i - l \in 1..n
           /\ a[i].do = "listen" /\ a[i].model = k + (i - l)
           /\ a[i].model \in (k+1)..(k+n)
      /\ \A m \in (k+1)..(k+n) : \E i \in DOMAIN a : a[i].do = "listen" /\ a[i].model = m
  <2>1. ASSUME NEW i \in DOMAIN a, i \notin 1..l
        PROVE  /\ i > l /\ i - l \in 1..n
               /\ a[i].do = "listen" /\ a[i].model = k + (i - l)
               /\ a[i].model \in (k+1)..(k+n)
    <3>1. i > l /\ i - l \in 1..n /\ a[i] = v[i - l]
      BY <1>4, <2>1
    <3>2. a[i].do = "listen" /\ a[i].model = k + (i - l)
      BY <3>1 DEF ListenAfter
    <3>3. k + (i - l) \in (k+1)..(k+n)
      BY <3>1
    <3> QED
      BY <3>1, <3>2, <3>3
  <2>2. ASSUME NEW m \in (k+1)..(k+n)
        PROVE  \E i \in DOMAIN a : a[i].do = "listen" /\ a[i].model = m
    <3>1. PICK i \in 1..(l + n) : i = l + (m - k)
      OBVIOUS
    <3>2. i \in DOMAIN a /\ i \notin 1..l /\ i - l = m - k
      BY <1>4, <3>1
    <3>3. a[i].do = "listen" /\ a[i].model = k + (m - k)
      BY <2>1, <3>2
    <3>4. k + (m - k) = m
      OBVIOUS
    <3> QED
      BY <3>2, <3>3, <3>4
  <2>3. \A i \in 1..l : i \in DOMAIN a /\ a[i] = w[i]
    BY <1>4
  <2> QED
    BY <2>1, <2>2, <2>3
<1>6. Coming(a) = Coming(w) \cup ((k+1)..(k+n))
  <2>1. \A i \in DOMAIN a : a[i].do = "listen" => a[i].model \in Coming(w) \cup ((k+1)..(k+n))
    BY <1>1, <1>5 DEF Coming
  <2>2. Coming(w) \subseteq Coming(a)
    BY <1>1, <1>5 DEF Coming
  <2>3. (k+1)..(k+n) \subseteq Coming(a)
    BY <1>5 DEF Coming
  <2>4. Coming(a) \subseteq Coming(w) \cup ((k+1)..(k+n))
    BY <2>1 DEF Coming
  <2> QED
    BY <2>2, <2>3, <2>4
<1>7. ASSUME ComeOnce(w), Coming(w) \subseteq 1..k
      PROVE  ComeOnce(a)
  <2>1. \A i \in 1..l : w[i].do = "listen" => w[i].model \in 1..k
    BY <1>1, <1>7 DEF Coming
  <2>2. \A m \in 1..k : m \notin (k+1)..(k+n)
    OBVIOUS
  <2> SUFFICES ASSUME NEW i \in DOMAIN a, NEW j \in DOMAIN a, a[i].do = "listen",
                      a[j].do = "listen", a[i].model = a[j].model
               PROVE  i = j
    BY DEF ComeOnce
  <2>3. CASE i \in 1..l /\ j \in 1..l
    BY <1>1, <1>5, <1>7, <2>3 DEF ComeOnce
  <2>4. CASE i \notin 1..l /\ j \notin 1..l
    <3>1. k + (i - l) = k + (j - l) /\ i - l \in Int /\ j - l \in Int /\ i \in Int /\ j \in Int
      BY <1>4, <1>5, <2>4
    <3> QED
      BY <3>1
  <2>5. CASE i \in 1..l /\ j \notin 1..l
    <3>1. a[i].model \in 1..k /\ a[j].model \in (k+1)..(k+n)
      BY <1>5, <2>1, <2>5
    <3> QED
      BY <2>2, <3>1
  <2>6. CASE i \notin 1..l /\ j \in 1..l
    <3>1. a[j].model \in 1..k /\ a[i].model \in (k+1)..(k+n)
      BY <1>5, <2>1, <2>6
    <3> QED
      BY <2>2, <3>1
  <2> QED
    BY <2>3, <2>4, <2>5, <2>6
<1>8. Opens(a) = Opens(w)
  <2>1. \A i \in DOMAIN a : a[i].do = "open" => i \in 1..l
    BY <1>5
  <2> QED
    BY <1>1, <1>5, <2>1 DEF Opens
<1>9. News(a) <=> News(w)
  <2>1. \A i \in DOMAIN a : a[i].do = "credentials" => i \in 1..l
    BY <1>5
  <2> QED
    BY <1>1, <1>5, <2>1 DEF News
<1>10. ASSUME NEW K, Behindhand(w, K), News(w) \/ K \cap ((k+1)..(k+n)) = {}
       PROVE  Behindhand(a, K)
  <2> SUFFICES ASSUME NEW i \in DOMAIN a, a[i].do = "listen", a[i].model \in K
               PROVE  \E j \in 1..(i-1) : a[j].do = "credentials"
    BY DEF Behindhand
  <2>1. CASE i \in 1..l
    <3>1. PICK j \in 1..(i-1) : w[j].do = "credentials"
      BY <1>1, <1>5, <1>10, <2>1 DEF Behindhand
    <3>2. j \in 1..l
      BY <1>1, <2>1
    <3> QED
      BY <1>5, <3>1, <3>2
  <2>2. CASE i \notin 1..l
    <3>1. a[i].model \in (k+1)..(k+n) /\ i > l /\ i \in Nat
      BY <1>4, <1>5, <2>2
    <3>2. News(w)
      BY <1>10, <3>1
    <3>3. PICK j \in 1..l : w[j].do = "credentials"
      BY <1>1, <3>2 DEF News
    <3>4. j \in 1..(i-1)
      BY <1>1, <3>1
    <3> QED
      BY <1>5, <3>3, <3>4
  <2> QED
    BY <2>1, <2>2
<1> QED
  BY <1>3, <1>4, <1>6, <1>7, <1>8, <1>9, <1>10

\* A task that the worker takes.
LEMMA TaskTaken ==
  ASSUME NEW S, NEW w \in Seq(S), w # <<>>, ComeOnce(w)
  PROVE  /\ Tail(w) \in Seq(S)
         /\ ComeOnce(Tail(w))
         /\ Coming(Tail(w)) = IF Head(w).do = "listen" THEN Coming(w) \ {Head(w).model}
                              ELSE Coming(w)
         /\ Head(w).do = "listen" => Head(w).model \in Coming(w)
         /\ Opens(Tail(w)) \subseteq Opens(w)
         /\ Head(w).do = "open" => Head(w).as \in Opens(w)
         /\ News(w) <=> News(Tail(w)) \/ Head(w).do = "credentials"
         /\ \A K : Behindhand(w, K) /\ Head(w).do # "credentials" =>
              /\ Behindhand(Tail(w), K)
              /\ Head(w).do = "listen" => Head(w).model \notin K
<1> DEFINE t == Tail(w)
           l == Len(w)
           h == Head(w)
<1>1. /\ l \in Nat /\ DOMAIN w = 1..l /\ l > 0 /\ h = w[1]
      /\ t \in Seq(S) /\ DOMAIN t = 1..(l - 1) /\ \A i \in 1..(l - 1) : t[i] = w[i+1]
  BY QueueFacts
<1> HIDE DEF t, l, h
<1>2. /\ \A i \in DOMAIN t : i + 1 \in DOMAIN w /\ i + 1 # 1 /\ t[i] = w[i+1] /\ i \in Nat
      /\ \A i \in DOMAIN w : i # 1 => i - 1 \in DOMAIN t /\ t[i-1] = w[i]
      /\ 1 \in DOMAIN w
  BY <1>1
<1>3. ComeOnce(t)
  <2> SUFFICES ASSUME NEW i \in DOMAIN t, NEW j \in DOMAIN t, t[i].do = "listen",
                      t[j].do = "listen", t[i].model = t[j].model
               PROVE  i = j
    BY DEF ComeOnce
  <2>1. /\ i + 1 \in DOMAIN w /\ j + 1 \in DOMAIN w /\ i \in Nat /\ j \in Nat
        /\ t[i] = w[i+1] /\ t[j] = w[j+1]
    BY <1>2
  <2>2. i + 1 = j + 1
    BY <2>1 DEF ComeOnce
  <2> QED
    BY <2>1, <2>2
<1>4. Coming(t) = IF h.do = "listen" THEN Coming(w) \ {h.model} ELSE Coming(w)
  <2>1. ASSUME NEW i \in DOMAIN t, t[i].do = "listen"
        PROVE  t[i].model \in Coming(w) /\ (h.do = "listen" => t[i].model # h.model)
    <3>1. i + 1 \in DOMAIN w /\ i + 1 # 1 /\ t[i] = w[i+1] /\ 1 \in DOMAIN w /\ h = w[1]
      BY <1>1, <1>2
    <3>2. t[i].model \in Coming(w)
      BY <2>1, <3>1 DEF Coming
    <3>3. h.do = "listen" => t[i].model # h.model
      BY <2>1, <3>1 DEF ComeOnce
    <3> QED
      BY <3>2, <3>3
  <2>2. \A i \in DOMAIN w : w[i].do = "listen" /\ i # 1 => w[i].model \in Coming(t)
    BY <1>2 DEF Coming
  <2>3. \A x \in Coming(t) : x \in Coming(w) /\ (h.do = "listen" => x # h.model)
    BY <2>1 DEF Coming
  <2>4. \A x \in Coming(w) : x \in Coming(t) \/ (h.do = "listen" /\ x = h.model)
    BY <1>1, <2>2 DEF Coming
  <2> QED
    BY <2>3, <2>4
<1>5. h.do = "listen" => h.model \in Coming(w)
  BY <1>1, <1>2 DEF Coming
<1>6. Opens(t) \subseteq Opens(w) /\ (h.do = "open" => h.as \in Opens(w))
  <2>1. Opens(t) \subseteq Opens(w)
    BY <1>2 DEF Opens
  <2>2. h.do = "open" => h.as \in Opens(w)
    BY <1>1, <1>2 DEF Opens
  <2> QED
    BY <2>1, <2>2
<1>7. News(w) <=> News(t) \/ h.do = "credentials"
  BY <1>1, <1>2 DEF News
<1>8. ASSUME NEW K, Behindhand(w, K), h.do # "credentials"
      PROVE  Behindhand(t, K) /\ (h.do = "listen" => h.model \notin K)
  <2>1. h.do = "listen" => h.model \notin K
    <3>1. 1..(1-1) = {}
      OBVIOUS
    <3> QED
      BY <1>1, <1>2, <1>8, <3>1 DEF Behindhand
  <2>2. ASSUME NEW i \in DOMAIN t, t[i].do = "listen", t[i].model \in K
        PROVE  \E j \in 1..(i-1) : t[j].do = "credentials"
    <3>1. PICK j \in 1..((i+1)-1) : w[j].do = "credentials"
      BY <1>2, <1>8, <2>2 DEF Behindhand
    <3>2. j # 1
      BY <1>1, <1>8, <3>1
    <3>3. j - 1 \in 1..(i-1) /\ j \in DOMAIN w
      BY <1>1, <3>2
    <3> QED
      BY <1>2, <3>1, <3>2, <3>3
  <2> QED
    BY <2>1, <2>2 DEF Behindhand
<1> QED
  BY <1>1, <1>3, <1>4, <1>5, <1>6, <1>7, <1>8 DEF t, h

\* Answers to starts of the stream that are given up.
LEMMA TasksOutdated ==
  ASSUME NEW S, NEW w \in Seq(S), [do |-> "outdated"] \in S
  PROVE  /\ Outdated(w) \in Seq(S)
         /\ Coming(Outdated(w)) = Coming(w)
         /\ ComeOnce(w) => ComeOnce(Outdated(w))
         /\ Opens(Outdated(w)) = {}
         /\ News(Outdated(w)) <=> News(w)
<1> DEFINE o == Outdated(w)
<1>1. /\ DOMAIN w = 1..Len(w) /\ Len(w) \in Nat /\ \A i \in DOMAIN w : w[i] \in S
      /\ DOMAIN o = DOMAIN w
      /\ \A i \in DOMAIN w : o[i] = IF w[i].do = "open" THEN [do |-> "outdated"] ELSE w[i]
  BY QueueFacts DEF Outdated
<1>2. o \in Seq(S)
  <2>1. o \in [1..Len(w) -> S]
    BY <1>1 DEF Outdated
  <2> QED
    BY <1>1, <2>1, SeqDef
<1> HIDE DEF o
<1>3. /\ Coming(o) = Coming(w) /\ (ComeOnce(w) => ComeOnce(o))
      /\ Opens(o) = {} /\ (News(o) <=> News(w))
  BY <1>1 DEF Coming, ComeOnce, Opens, News
<1> QED
  BY <1>2, <1>3 DEF o

\* An event or a notification that joins the main queue.
LEMMA BlockAppended ==
  ASSUME NEW S, NEW q \in Seq(S), NEW e \in S,
         e.do = "event" => e.to \subseteq Nat /\ e.to \cap Rejected(q) = {}
  PROVE  /\ Append(q, e) \in Seq(S)
         /\ News(Append(q, e)) <=> News(q) \/ e.do = "credentials"
         /\ NewUsers(Append(q, e)) = NewUsers(q) \cup (IF e.do = "credentials" THEN {e.as} ELSE {})
         /\ Addressed(Append(q, e)) = Addressed(q) \cup (IF e.do = "event" THEN e.to ELSE {})
         /\ Rejected(Append(q, e)) = Rejected(q) \cup
              (IF e.do = "event" /\ e.what = "refused" THEN e.to ELSE {})
         /\ RefusedLast(q) => RefusedLast(Append(q, e))
<1> DEFINE a == Append(q, e)
           n == Len(q) + 1
<1>1. /\ Len(q) \in Nat /\ DOMAIN q = 1..Len(q) /\ a \in Seq(S)
      /\ DOMAIN a = 1..n /\ a[n] = e /\ \A i \in 1..Len(q) : a[i] = q[i]
  BY QueueFacts, AppendFacts
<1>2. n \in Nat /\ DOMAIN a = DOMAIN q \cup {n} /\ n \notin DOMAIN q /\ \A i \in DOMAIN a : ~(n < i)
  BY <1>1
<1> HIDE DEF a, n
<1>3. News(a) <=> News(q) \/ e.do = "credentials"
  <2>1. News(q) => News(a)
    BY <1>1, <1>2 DEF News
  <2>2. e.do = "credentials" => News(a)
    BY <1>1, <1>2 DEF News
  <2>3. News(a) => News(q) \/ e.do = "credentials"
    BY <1>1, <1>2 DEF News
  <2> QED
    BY <2>1, <2>2, <2>3
<1>4. NewUsers(a) = NewUsers(q) \cup (IF e.do = "credentials" THEN {e.as} ELSE {})
  BY <1>1, <1>2 DEF NewUsers
<1>5. Addressed(a) = Addressed(q) \cup (IF e.do = "event" THEN e.to ELSE {})
  BY <1>1, <1>2 DEF Addressed
<1>6. Rejected(a) = Rejected(q) \cup (IF e.do = "event" /\ e.what = "refused" THEN e.to ELSE {})
  BY <1>1, <1>2 DEF Rejected
<1>7. ASSUME RefusedLast(q)
      PROVE  RefusedLast(a)
  <2> SUFFICES ASSUME NEW i \in DOMAIN a, NEW j \in DOMAIN a, i < j, a[i].do = "event",
                      a[i].what = "refused", a[j].do = "event", NEW m \in a[i].to, m \in a[j].to
               PROVE  FALSE
    BY DEF RefusedLast
  <2>1. i # n
    BY <1>2
  <2>2. i \in DOMAIN q /\ a[i] = q[i]
    BY <1>1, <1>2, <2>1
  <2>3. CASE j = n
    <3>1. e.do = "event" /\ m \in e.to /\ m \in Nat
      BY <1>1, <2>3
    <3>2. m \in Rejected(q)
      BY <2>2, <3>1 DEF Rejected
    <3> QED
      BY <3>1, <3>2
  <2>4. CASE j # n
    BY <1>1, <1>2, <1>7, <2>2, <2>4 DEF RefusedLast
  <2> QED
    BY <2>3, <2>4
<1> QED
  BY <1>1, <1>3, <1>4, <1>5, <1>6, <1>7 DEF a

\* A block that the main thread runs.
LEMMA BlockTaken ==
  ASSUME NEW S, NEW q \in Seq(S), q # <<>>, RefusedLast(q)
  PROVE  /\ Head(q) \in S /\ Tail(q) \in Seq(S)
         /\ RefusedLast(Tail(q))
         /\ News(q) <=> News(Tail(q)) \/ Head(q).do = "credentials"
         /\ Head(q).do = "credentials" => Head(q).as \in NewUsers(q)
         /\ NewUsers(Tail(q)) \subseteq NewUsers(q)
         /\ Addressed(Tail(q)) \subseteq Addressed(q)
         /\ Head(q).do # "event" => Rejected(Tail(q)) = Rejected(q)
         /\ Head(q).do = "event" =>
              /\ Head(q).to \cap Nat \subseteq Addressed(q)
              /\ Head(q).what # "refused" => Rejected(Tail(q)) = Rejected(q)
              /\ Head(q).what = "refused" =>
                   /\ Addressed(Tail(q)) \cap Head(q).to = {}
                   /\ Rejected(q) = Rejected(Tail(q)) \cup (Head(q).to \cap Nat)
<1> DEFINE t == Tail(q)
           l == Len(q)
           h == Head(q)
<1>1. /\ l \in Nat /\ DOMAIN q = 1..l /\ l > 0 /\ h = q[1] /\ h \in S
      /\ t \in Seq(S) /\ DOMAIN t = 1..(l - 1) /\ \A i \in 1..(l - 1) : t[i] = q[i+1]
  BY QueueFacts
<1> HIDE DEF t, l, h
<1>2. /\ \A i \in DOMAIN t : i + 1 \in DOMAIN q /\ i + 1 # 1 /\ 1 < i + 1 /\ t[i] = q[i+1] /\ i \in Nat
      /\ \A i \in DOMAIN q : i # 1 => i - 1 \in DOMAIN t /\ t[i-1] = q[i]
      /\ 1 \in DOMAIN q
  BY <1>1
<1>3. RefusedLast(t)
  <2> SUFFICES ASSUME NEW i \in DOMAIN t, NEW j \in DOMAIN t, i < j, t[i].do = "event",
                      t[i].what = "refused", t[j].do = "event"
               PROVE  t[i].to \cap t[j].to = {}
    BY DEF RefusedLast
  <2>1. i + 1 < j + 1
    BY <1>2
  <2> QED
    BY <1>2, <2>1 DEF RefusedLast
<1>4. News(q) <=> News(t) \/ h.do = "credentials"
  <2>1. ASSUME NEW i \in DOMAIN q, q[i].do = "credentials"
        PROVE  News(t) \/ h.do = "credentials"
    <3>1. CASE i = 1
      BY <1>1, <2>1, <3>1
    <3>2. CASE i # 1
      <4>1. i - 1 \in DOMAIN t /\ t[i-1] = q[i]
        BY <1>2, <3>2
      <4> QED
        BY <2>1, <4>1 DEF News
    <3> QED
      BY <3>1, <3>2
  <2>2. News(t) => News(q)
    BY <1>2 DEF News
  <2>3. h.do = "credentials" => News(q)
    BY <1>1, <1>2 DEF News
  <2> QED
    BY <2>1, <2>2, <2>3 DEF News
<1>5. NewUsers(t) \subseteq NewUsers(q)
  BY <1>2 DEF NewUsers
<1>6. h.do = "credentials" => h.as \in NewUsers(q)
  BY <1>1, <1>2 DEF NewUsers
<1>7. Addressed(t) \subseteq Addressed(q) /\ Rejected(t) \subseteq Rejected(q)
  BY <1>2 DEF Addressed, Rejected
<1>8. \A m \in Rejected(q) : m \in Rejected(t) \/ (h.do = "event" /\ m \in h.to /\ h.what = "refused")
  BY <1>1, <1>2 DEF Rejected
<1>9. h.do = "event" => h.to \cap Nat \subseteq Addressed(q)
  BY <1>1, <1>2 DEF Addressed
<1>10. h.do = "event" /\ h.what = "refused" => h.to \cap Nat \subseteq Rejected(q)
  BY <1>1, <1>2 DEF Rejected
<1>11. ASSUME h.do = "event", h.what = "refused", NEW m \in Addressed(t)
       PROVE  m \notin h.to
  <2>1. PICK i \in DOMAIN t : t[i].do = "event" /\ m \in t[i].to
    BY DEF Addressed
  <2>2. 1 \in DOMAIN q /\ i + 1 \in DOMAIN q /\ 1 < i + 1
    BY <1>2
  <2>3. /\ q[1].do = "event" /\ q[1].what = "refused"
        /\ q[i+1].do = "event" /\ m \in q[i+1].to
    BY <1>1, <1>2, <1>11, <2>1
  <2>4. q[1].to \cap q[i+1].to = {}
    BY <2>2, <2>3 DEF RefusedLast
  <2> QED
    BY <1>1, <2>3, <2>4
<1>12. h.do # "event" \/ h.what # "refused" => Rejected(t) = Rejected(q)
  BY <1>7, <1>8
<1>13. h.do = "event" /\ h.what = "refused" => Rejected(q) = Rejected(t) \cup (h.to \cap Nat)
  <2>1. Rejected(q) \subseteq Nat
    BY DEF Rejected
  <2> QED
    BY <1>7, <1>8, <1>10, <2>1
<1>14. h.do = "event" /\ h.what = "refused" => Addressed(t) \cap h.to = {}
  BY <1>11
<1>15. h \in S /\ t \in Seq(S)
  BY <1>1
<1> QED
  BY <1>3, <1>4, <1>5, <1>6, <1>7, <1>9, <1>12, <1>13, <1>14, <1>15 DEF t, h

-----------------------------------------------------------------------------
(* The inductive invariant. *)

Gone == {m \in DOMAIN models : Refused(m)}

\* The listener of every model is in one place.
PlaceInv ==
  /\ ComeOnce(worker) /\ RefusedLast(mainQueue)
  /\ DOMAIN models = Coming(worker) \cup Listeners(query) \cup Gone
  /\ Coming(worker) \cap Listeners(query) = {}
  /\ Coming(worker) \cap Gone = {}
  /\ Listeners(query) \cap Gone = {}
  /\ query.waiting \cap query.live = {}
  /\ Addressed(mainQueue) \subseteq DOMAIN models
  /\ \A m \in Addressed(mainQueue) : models[m].heard # "refused"

\* The target is watched for the listeners, and none waits for want of an event.
TargetInv ==
  /\ ShouldRaiseInitialEvent(query, online) => query.waiting = {}
  /\ target = (Listeners(query) # {})
  /\ target => stream.state # "closed"

\* Whoever the stream is open as, is about to be, or has a token for, is the
\* current user, or there is news.
UserInv ==
  News(mainQueue) \/ News(worker) \/
    /\ stream.state = "open" => stream.as = currentUser
    /\ Opens(worker) \subseteq {currentUser}
    /\ token.at = "given" => token.as = currentUser

\* Before the keychain is read nobody has been heard of, and no token is given.
LoadInv ==
  /\ loaded => currentUser = stored
  /\ ~loaded =>
       /\ currentUser = Nobody /\ told = Nobody
       /\ ~News(mainQueue) /\ ~News(worker) /\ Opens(worker) = {}
       /\ stream.state # "open" /\ token.at # "given"

Known == {m \in DOMAIN models : models[m].as # Nobody}

\* The stream is open as nobody, or will be unless there is news.
AsNobody ==
  \/ stream.state = "open" /\ stream.as = Nobody
  \/ Nobody \in Opens(worker)
  \/ token.at = "given" /\ token.as = Nobody /\ ~token.changed

\* The stream of nobody has no listener of a model that knows of a user, and
\* such listeners come behind news that restart the stream.
AliveInv ==
  signedOut \/
    /\ Nobody \notin NewUsers(mainQueue)
    /\ stored = Nobody => told = Nobody /\ Known = {} /\ ~News(mainQueue)
    /\ Known \cap Gone = {}
    /\ AsNobody => /\ Known \cap Listeners(query) = {}
                   /\ Behindhand(worker, Known)
                   /\ told # Nobody => News(worker)

ScreensInv == ScreensTypeOK /\ PlaceInv /\ TargetInv /\ UserInv /\ LoadInv /\ AliveInv

Tasks == [do : {"listen"}, model : DOMAIN models]
         \cup [do : {"credentials", "outdated"}] \cup [do : {"open"}, as : Somebody]

Blocks == [do : {"credentials"}, as : Somebody]
          \cup [do : {"signedIn"}, home : BOOLEAN, view : Nat]
          \cup [do : {"event"}, to : SUBSET Nat, what : {"list", "refused"}]

Queries == [waiting : SUBSET DOMAIN models, live : SUBSET DOMAIN models,
            current : BOOLEAN, cached : BOOLEAN]

ViewModels == [as : Somebody, heard : {"nothing", "list", "refused"}]

LEMMA TypeFacts ==
  ASSUME ScreensTypeOK
  PROVE  /\ worker \in Seq(Tasks) /\ mainQueue \in Seq(Blocks)
         /\ query \in Queries /\ models \in Seq(ViewModels)
         /\ Len(models) \in Nat /\ DOMAIN models = 1..Len(models) /\ DOMAIN models \subseteq Nat
         /\ \A m \in DOMAIN models : models[m] \in ViewModels
         /\ \A i \in DOMAIN worker : worker[i] \in Tasks
         /\ \A i \in DOMAIN mainQueue : mainQueue[i] \in Blocks
<1>1. worker \in Seq(Tasks) /\ mainQueue \in Seq(Blocks)
      /\ query \in Queries /\ models \in Seq(ViewModels)
  BY DEF ScreensTypeOK, Tasks, Blocks, Queries, ViewModels
<1>2. /\ Len(models) \in Nat /\ DOMAIN models = 1..Len(models)
      /\ \A m \in DOMAIN models : models[m] \in ViewModels
  BY <1>1, QueueFacts
<1>3. \A i \in DOMAIN worker : worker[i] \in Tasks
  <2> HIDE DEF Tasks
  <2> QED
    BY <1>1, QueueFacts
<1>4. \A i \in DOMAIN mainQueue : mainQueue[i] \in Blocks
  BY <1>1, QueueFacts
<1> QED
  BY <1>1, <1>2, <1>3, <1>4

LEMMA GoneForm ==
  /\ Gone = {m \in DOMAIN models \cap Nat : models[m].heard = "refused" \/ m \in Rejected(mainQueue)}
            \cup {m \in DOMAIN models \ Nat : Refused(m)}
  /\ Gone' = {m \in DOMAIN models' \cap Nat :
                models'[m].heard = "refused" \/ m \in Rejected(mainQueue')}
             \cup {m \in DOMAIN models' \ Nat : Refused(m)'}
BY DEF Gone, Refused, Events, Rejected

\* What an event to listeners that wait changes.
LEMMA RaisesFacts ==
  ASSUME ScreensTypeOK, PlaceInv, NEW q \in Queries, NEW state, Raises(q, state),
         q.waiting \cap q.live = {}, Listeners(q) \cap Rejected(mainQueue) = {}
  PROVE  /\ online' = state
         /\ query' \in Queries /\ Listeners(query') = Listeners(q)
         /\ query'.waiting \cap query'.live = {}
         /\ ShouldRaiseInitialEvent(query', state) => query'.waiting = {}
         /\ mainQueue' \in Seq(Blocks)
         /\ RefusedLast(mainQueue') /\ (News(mainQueue') <=> News(mainQueue))
         /\ NewUsers(mainQueue') = NewUsers(mainQueue)
         /\ Addressed(mainQueue') \subseteq Addressed(mainQueue) \cup Listeners(q)
         /\ Rejected(mainQueue') = Rejected(mainQueue)
<1> DEFINE e == [do |-> "event", to |-> q.waiting, what |-> "list"]
<1>1. CASE ShouldRaiseInitialEvent(q, state) /\ q.waiting # {}
  <2>1. /\ query' = [q EXCEPT !.live = q.live \cup q.waiting, !.waiting = {}]
        /\ online' = state /\ mainQueue' = Append(mainQueue, e)
    BY <1>1 DEF Raises
  <2>2. /\ query' \in Queries /\ query'.waiting = {} /\ query'.live = q.live \cup q.waiting
        /\ query'.current = q.current /\ query'.cached = q.cached
    BY <2>1 DEF Queries
  <2>3. /\ e \in Blocks /\ mainQueue \in Seq(Blocks) /\ e.do = "event" /\ e.what = "list"
        /\ e.to = q.waiting /\ e.to \subseteq Nat /\ e.to \cap Rejected(mainQueue) = {}
    BY TypeFacts DEF Queries, Blocks, Listeners
  <2> HIDE DEF e
  <2>4. /\ mainQueue' \in Seq(Blocks)
        /\ RefusedLast(mainQueue') /\ (News(mainQueue') <=> News(mainQueue))
        /\ NewUsers(mainQueue') = NewUsers(mainQueue)
        /\ Addressed(mainQueue') = Addressed(mainQueue) \cup q.waiting
        /\ Rejected(mainQueue') = Rejected(mainQueue)
    <3>1. RefusedLast(mainQueue)
      BY DEF PlaceInv
    <3>2. /\ Append(mainQueue, e) \in Seq(Blocks)
          /\ News(Append(mainQueue, e)) <=> News(mainQueue) \/ e.do = "credentials"
          /\ NewUsers(Append(mainQueue, e)) = NewUsers(mainQueue) \cup
               (IF e.do = "credentials" THEN {e.as} ELSE {})
          /\ Addressed(Append(mainQueue, e)) = Addressed(mainQueue) \cup
               (IF e.do = "event" THEN e.to ELSE {})
          /\ Rejected(Append(mainQueue, e)) = Rejected(mainQueue) \cup
               (IF e.do = "event" /\ e.what = "refused" THEN e.to ELSE {})
          /\ RefusedLast(mainQueue) => RefusedLast(Append(mainQueue, e))
      <4> HIDE DEF Blocks
      <4> QED
        BY <2>3, BlockAppended
    <3> QED
      BY <2>1, <2>3, <3>1, <3>2
  <2> QED
    BY <2>1, <2>2, <2>4 DEF Listeners
<1>2. CASE ~(ShouldRaiseInitialEvent(q, state) /\ q.waiting # {})
  <2>1. query' = q /\ online' = state /\ mainQueue' = mainQueue
    BY <1>2 DEF Raises
  <2> QED
    BY <1>2, <2>1, TypeFacts DEF PlaceInv
<1> QED
  BY <1>1, <1>2

\* The listeners of the models X move from the worker to the query.
LEMMA PlaceKept ==
  ASSUME ScreensTypeOK, PlaceInv, NEW X \in SUBSET Coming(worker),
         models' = models,
         ComeOnce(worker'), Coming(worker') = Coming(worker) \ X,
         Listeners(query') = Listeners(query) \cup X, query'.waiting \cap query'.live = {},
         RefusedLast(mainQueue'), Rejected(mainQueue') = Rejected(mainQueue),
         Addressed(mainQueue') \subseteq Addressed(mainQueue) \cup Listeners(query')
  PROVE  PlaceInv' /\ Gone' = Gone
<1>1. DOMAIN models \subseteq Nat
  BY TypeFacts
<1>2. Gone' = Gone
  BY <1>1, GoneForm
<1>3. \A m \in Gone : m \notin Listeners(query')
  BY DEF PlaceInv
<1>4. \A m \in DOMAIN models : models[m].heard = "refused" => m \in Gone
  BY <1>1, GoneForm
<1> QED
  BY <1>2, <1>3, <1>4 DEF PlaceInv

-----------------------------------------------------------------------------
(* One lemma per kind of action.                                           *)

LEMMA ModelsMade ==
  ASSUME ScreensInv, NEW n \in {1, 2}, MakesModels(n), NEW new, new = (Len(models)+1)..(Len(models)+n)
  PROVE  /\ models' \in Seq(ViewModels)
         /\ DOMAIN models' = DOMAIN models \cup new /\ new \cap DOMAIN models = {}
         /\ \A m \in DOMAIN models : models'[m] = models[m]
         /\ \A m \in new : models'[m].as = told /\ models'[m].heard = "nothing"
         /\ worker' \in Seq(Tasks')
         /\ ComeOnce(worker') /\ Coming(worker') = Coming(worker) \cup new
         /\ Opens(worker') = Opens(worker) /\ (News(worker') <=> News(worker))
         /\ \A K : Behindhand(worker, K) /\ (News(worker) \/ K \cap new = {})
                     => Behindhand(worker', K)
<1>1. /\ ScreensTypeOK /\ PlaceInv /\ models \in Seq(ViewModels) /\ Len(models) \in Nat
      /\ DOMAIN models = 1..Len(models) /\ n \in Nat /\ told \in Somebody
  BY TypeFacts DEF ScreensInv, ScreensTypeOK
<1> DEFINE mv == [i \in 1..n |-> Model(told)]
           wv == [i \in 1..n |-> [do |-> "listen", model |-> Len(models) + i]]
<1>2. models' = models \o mv /\ worker' = worker \o wv
  BY DEF MakesModels
<1>3. /\ models' \in Seq(ViewModels) /\ DOMAIN models' = 1..(Len(models) + n)
      /\ \A m \in 1..(Len(models) + n) :
           models'[m] = IF m <= Len(models) THEN models[m] ELSE mv[m - Len(models)]
  <2>1. mv \in [1..n -> ViewModels]
    BY <1>1 DEF Model, ViewModels
  <2> HIDE DEF mv
  <2>2. mv \in Seq(ViewModels)
    BY <1>1, <2>1, SeqDef
  <2>3. Len(mv) = n
    BY <1>1, <2>1, <2>2, LenProperties
  <2>4. /\ models \o mv \in Seq(ViewModels) /\ Len(models \o mv) = Len(models) + Len(mv)
        /\ \A i \in 1..(Len(models) + Len(mv)) :
             (models \o mv)[i] = IF i <= Len(models) THEN models[i] ELSE mv[i - Len(models)]
    BY <1>1, <2>2, ConcatProperties
  <2>5. DOMAIN (models \o mv) = 1..Len(models \o mv)
    BY <2>4, LenProperties
  <2> QED
    BY <1>2, <2>3, <2>4, <2>5
<1>4. DOMAIN models' = DOMAIN models \cup new /\ new \cap DOMAIN models = {}
  BY <1>1, <1>3
<1>5. \A m \in DOMAIN models : models'[m] = models[m]
  BY <1>1, <1>3
<1>6. \A m \in new : models'[m].as = told /\ models'[m].heard = "nothing"
  <2> SUFFICES ASSUME NEW m \in (Len(models)+1)..(Len(models)+n)
               PROVE  models'[m].as = told /\ models'[m].heard = "nothing"
    OBVIOUS
  <2>1. m \in 1..(Len(models) + n) /\ ~(m <= Len(models)) /\ m - Len(models) \in 1..n
    BY <1>1
  <2> QED
    BY <1>3, <2>1 DEF Model
<1>7. worker \in Seq(Tasks')
  <2> DEFINE S == Tasks
             T == Tasks'
  <2>1. S \subseteq T
    BY <1>4 DEF Tasks
  <2>2. worker \in Seq(S)
    BY <1>1, TypeFacts
  <2> HIDE DEF S, T
  <2>3. worker \in Seq(T)
    BY <2>1, <2>2, SeqMonotonic
  <2> QED
    BY <2>3 DEF T
<1>8. wv \in [1..n -> Tasks'] /\ \A i \in 1..n : wv[i].do = "listen" /\ wv[i].model = Len(models) + i
  <2>1. \A i \in 1..n : Len(models) + i \in DOMAIN models'
    BY <1>1, <1>3
  <2> QED
    BY <2>1 DEF Tasks
<1>9. Coming(worker) \subseteq 1..Len(models) /\ ComeOnce(worker)
  BY <1>1 DEF PlaceInv
<1>10. /\ worker' \in Seq(Tasks')
       /\ ComeOnce(worker') /\ Coming(worker') = Coming(worker) \cup new
       /\ Opens(worker') = Opens(worker) /\ (News(worker') <=> News(worker))
       /\ \A K : Behindhand(worker, K) /\ (News(worker) \/ K \cap new = {})
                     => Behindhand(worker', K)
  <2> DEFINE T == Tasks'
  <2>1. worker \in Seq(T)
    BY <1>7
  <2>2. PICK v \in [1..n -> T] : v = wv
    BY <1>8
  <2>3. worker' = worker \o v
    BY <1>2, <2>2
  <2>4. PICK k \in Nat : k = Len(models)
    BY <1>1
  <2>5. n \in Nat /\ new = (k+1)..(k+n) /\ Coming(worker) \subseteq 1..k
    BY <1>1, <1>9, <2>4
  <2>6. ListenAfter(v, k, n)
    BY <1>8, <2>2, <2>4 DEF ListenAfter
  <2> HIDE DEF T, wv, mv
  <2>7. /\ worker \o v \in Seq(T)
        /\ Coming(worker \o v) = Coming(worker) \cup ((k+1)..(k+n))
        /\ ComeOnce(worker) /\ Coming(worker) \subseteq 1..k => ComeOnce(worker \o v)
        /\ Opens(worker \o v) = Opens(worker)
        /\ News(worker \o v) <=> News(worker)
        /\ \A K : Behindhand(worker, K) /\ (News(worker) \/ K \cap ((k+1)..(k+n)) = {})
                     => Behindhand(worker \o v, K)
    BY <2>1, <2>5, <2>6, ListensAppended
  <2> QED
    BY <1>9, <2>3, <2>5, <2>7 DEF T
<1> QED
  BY <1>3, <1>4, <1>5, <1>6, <1>10

\* A body that is evaluated: more view models, each with a listener.
LEMMA MakesKeeps ==
  ASSUME ScreensInv, NEW n \in {1, 2}, MakesModels(n),
         UNCHANGED <<everyone, authVars, told, clientVars, countVars>>,
         screen' \in [deep : BOOLEAN, home : BOOLEAN, link : DOMAIN models',
                      login : DOMAIN models', view : Nat],
         mainQueue' \in Seq(Blocks), RefusedLast(mainQueue'),
         News(mainQueue') <=> News(mainQueue), NewUsers(mainQueue') \subseteq NewUsers(mainQueue),
         Rejected(mainQueue') = Rejected(mainQueue),
         Addressed(mainQueue') \subseteq Addressed(mainQueue)
  PROVE  ScreensInv'
<1>0. PICK new : new = (Len(models)+1)..(Len(models)+n)
  OBVIOUS
<1>1. /\ models' \in Seq(ViewModels)
      /\ DOMAIN models' = DOMAIN models \cup new /\ new \cap DOMAIN models = {}
      /\ \A m \in DOMAIN models : models'[m] = models[m]
      /\ \A m \in new : models'[m].as = told /\ models'[m].heard = "nothing"
  BY <1>0, ModelsMade, ZenonT(60)
<1>2. /\ worker' \in Seq(Tasks')
      /\ ComeOnce(worker') /\ Coming(worker') = Coming(worker) \cup new
      /\ Opens(worker') = Opens(worker) /\ (News(worker') <=> News(worker))
      /\ \A K : Behindhand(worker, K) /\ (News(worker) \/ K \cap new = {})
                     => Behindhand(worker', K)
  BY <1>0, ModelsMade, ZenonT(60)
<1>3. /\ ScreensTypeOK /\ PlaceInv /\ DOMAIN models \subseteq Nat /\ query \in Queries
      /\ new \subseteq Nat
  BY <1>0, TypeFacts DEF ScreensInv
<1>4. ScreensTypeOK'
  <2>1. query' \in Queries'
    BY <1>1, <1>3 DEF Queries, clientVars
  <2> QED
    BY <1>1, <1>2, <1>3, <2>1 DEF ScreensTypeOK, Tasks, Blocks, Queries, ViewModels,
       authVars, clientVars, countVars
<1>5. Gone' = Gone
  <2>1. DOMAIN models' \subseteq Nat
    BY <1>1, <1>3
  <2>2. \A m \in new : m \notin Rejected(mainQueue)
    <3>1. Rejected(mainQueue) \subseteq Addressed(mainQueue)
      BY DEF Rejected, Addressed
    <3> QED
      BY <1>1, <1>3, <3>1 DEF PlaceInv
  <2> QED
    BY <1>1, <1>3, <2>1, <2>2, GoneForm
<1>6. PlaceInv'
  <2>1. query' = query
    BY DEF clientVars
  <2> QED
    BY <1>1, <1>2, <1>3, <1>5, <2>1 DEF PlaceInv, Listeners, Queries
<1>7. TargetInv' /\ UserInv' /\ LoadInv'
  <2>1. TargetInv'
    BY DEF ScreensInv, TargetInv, clientVars
  <2>2. UserInv'
    BY <1>2 DEF ScreensInv, UserInv, clientVars, authVars
  <2>3. LoadInv'
    BY <1>2 DEF ScreensInv, LoadInv, clientVars, authVars
  <2> QED
    BY <2>1, <2>2, <2>3
<1>8. AliveInv'
  <2>1. CASE signedOut
    BY <2>1 DEF AliveInv, countVars
  <2>2. CASE ~signedOut
    <3>1. AliveInv
      BY DEF ScreensInv
    <3>2. Known' = Known \cup (IF told = Nobody THEN {} ELSE new)
      BY <1>1 DEF Known
    <3>3. UNCHANGED <<stored, told, query, stream, token>>
      BY DEF authVars, clientVars
    <3>4. /\ Nobody \notin NewUsers(mainQueue')
          /\ stored = Nobody => told = Nobody /\ Known' = {} /\ ~News(mainQueue')
          /\ Known' \cap Gone' = {}
      <4>1. new \cap Gone = {}
        BY <1>1 DEF Gone
      <4> QED
        BY <1>5, <2>2, <3>1, <3>2, <4>1 DEF AliveInv
    <3>5. AsNobody' => AsNobody
      BY <1>2, <3>3 DEF AsNobody
    <3>6. ASSUME AsNobody
          PROVE  /\ Known' \cap Listeners(query') = {}
                 /\ Behindhand(worker', Known')
                 /\ told # Nobody => News(worker')
      <4>1. /\ Known \cap Listeners(query) = {} /\ Behindhand(worker, Known)
            /\ told # Nobody => News(worker)
        BY <2>2, <3>1, <3>6 DEF AliveInv
      <4>2. Listeners(query) \cap new = {}
        BY <1>1, <1>3 DEF Queries, Listeners
      <4>3. Behindhand(worker, Known')
        <5>1. \A i \in DOMAIN worker : worker[i].do = "listen" => worker[i].model \in DOMAIN models
          BY <1>3, TypeFacts DEF Tasks
        <5> QED
          BY <1>1, <3>2, <4>1, <5>1 DEF Behindhand
      <4>4. Known \cap new = {}
        BY <1>1 DEF Known
      <4> QED
        BY <1>2, <3>2, <3>3, <4>1, <4>2, <4>3, <4>4
    <3> QED
      BY <3>3, <3>4, <3>5, <3>6 DEF AliveInv
  <2> QED
    BY <2>1, <2>2
<1> QED
  BY <1>4, <1>6, <1>7, <1>8 DEF ScreensInv

\* A block runs that changes neither the models nor the worker nor the client.
LEMMA BlockKeeps ==
  ASSUME ScreensInv, UNCHANGED <<everyone, authVars, told, worker, clientVars, models, countVars>>,
         screen' = screen,
         mainQueue' \in Seq(Blocks), RefusedLast(mainQueue'),
         News(mainQueue') <=> News(mainQueue), NewUsers(mainQueue') \subseteq NewUsers(mainQueue),
         Rejected(mainQueue') = Rejected(mainQueue),
         Addressed(mainQueue') \subseteq Addressed(mainQueue)
  PROVE  ScreensInv'
<1>1. ScreensTypeOK'
  BY DEF ScreensInv, ScreensTypeOK, Blocks, authVars, clientVars, countVars
<1>2. PlaceInv' /\ Gone' = Gone
  BY PlaceKept, Coming(worker) \ {} = Coming(worker) DEF ScreensInv, PlaceInv, clientVars, Listeners
<1>3. TargetInv' /\ UserInv' /\ LoadInv'
  BY DEF ScreensInv, TargetInv, UserInv, LoadInv, clientVars, authVars
<1>4. AliveInv'
  <2>1. Known' = Known /\ (AsNobody' <=> AsNobody) /\ Listeners(query') = Listeners(query)
    BY DEF Known, AsNobody, clientVars
  <2> QED
    BY <1>2, <2>1 DEF ScreensInv, AliveInv, authVars, countVars
<1> QED
  BY <1>1, <1>2, <1>3, <1>4 DEF ScreensInv

LEMMA LoginBodyMakes ==
  ASSUME ScreensInv, NEW home \in BOOLEAN, LoginBody(home)
  PROVE  /\ MakesModels(1)
         /\ screen' \in [deep : BOOLEAN, home : BOOLEAN, link : DOMAIN models',
                         login : DOMAIN models', view : Nat]
<1>1. MakesModels(1) /\ screen' = [screen EXCEPT !.home = home, !.login = Len(models) + 1]
  BY DEF LoginBody
<1>2. Len(models) \in Nat /\ screen \in [deep : BOOLEAN, home : BOOLEAN, link : DOMAIN models,
                                         login : DOMAIN models, view : Nat]
  BY TypeFacts DEF ScreensInv, ScreensTypeOK
<1>3. DOMAIN models' = DOMAIN models \cup ((Len(models)+1)..(Len(models)+1))
  BY <1>1, ModelsMade
<1>4. Len(models) + 1 \in DOMAIN models' /\ DOMAIN models \subseteq DOMAIN models'
  BY <1>2, <1>3
<1> QED
  BY <1>1, <1>2, <1>4

\* Type, LeaveHome, OpenURL and LeaveLink.
LEMMA BodyKeeps ==
  ASSUME ScreensInv, Type \/ LeaveHome \/ OpenURL \/ LeaveLink
  PROVE  ScreensInv'
<1>1. /\ mainQueue' = mainQueue /\ mainQueue \in Seq(Blocks) /\ RefusedLast(mainQueue)
      /\ UNCHANGED <<everyone, authVars, told, clientVars, countVars>>
  BY TypeFacts DEF ScreensInv, PlaceInv, Type, LeaveHome, OpenURL, LeaveLink, OnlyScreens
<1>2. CASE Type \/ LeaveHome
  <2>1. LoginBody(FALSE)
    BY <1>2 DEF Type, LeaveHome
  <2> QED
    BY <1>1, <2>1, LoginBodyMakes, MakesKeeps
<1>3. CASE OpenURL \/ LeaveLink
  <2>1. PICK deep \in BOOLEAN : AppBody(deep)
    BY <1>3 DEF OpenURL, LeaveLink
  <2>2. /\ MakesModels(2)
        /\ screen' = [deep |-> deep, home |-> FALSE, link |-> Len(models) + 1,
                      login |-> Len(models) + 2, view |-> screen.view + 1]
    BY <2>1 DEF AppBody
  <2>3. Len(models) \in Nat /\ screen.view \in Nat
    BY TypeFacts DEF ScreensInv, ScreensTypeOK
  <2>4. DOMAIN models' = DOMAIN models \cup ((Len(models)+1)..(Len(models)+2))
    BY <2>2, ModelsMade
  <2>5. Len(models) + 1 \in DOMAIN models' /\ Len(models) + 2 \in DOMAIN models'
    BY <2>3, <2>4
  <2>6. screen' \in [deep : BOOLEAN, home : BOOLEAN, link : DOMAIN models',
                     login : DOMAIN models', view : Nat]
    BY <2>2, <2>3, <2>5
  <2> QED
    BY <1>1, <2>2, <2>6, MakesKeeps
<1> QED
  BY <1>2, <1>3

LEMMA SignedInBlockKeeps ==
  ASSUME ScreensInv, RunSignedInBlock
  PROVE  ScreensInv'
<1>1. /\ mainQueue # <<>> /\ Head(mainQueue).do = "signedIn" /\ mainQueue' = Tail(mainQueue)
      /\ UNCHANGED <<everyone, authVars, told, clientVars, countVars>>
  BY DEF RunSignedInBlock, Block
<1>2. mainQueue \in Seq(Blocks) /\ RefusedLast(mainQueue)
  BY TypeFacts DEF ScreensInv, PlaceInv
<1>3. /\ Head(mainQueue) \in Blocks /\ Tail(mainQueue) \in Seq(Blocks)
      /\ RefusedLast(Tail(mainQueue))
      /\ News(mainQueue) <=> News(Tail(mainQueue))
      /\ NewUsers(Tail(mainQueue)) \subseteq NewUsers(mainQueue)
      /\ Addressed(Tail(mainQueue)) \subseteq Addressed(mainQueue)
      /\ Rejected(Tail(mainQueue)) = Rejected(mainQueue)
  <2> HIDE DEF Blocks
  <2> QED
    BY <1>1, <1>2, BlockTaken
<1>4. CASE Head(mainQueue).view # screen.view
  <2>1. UNCHANGED <<models, worker, screen>>
    BY <1>4 DEF RunSignedInBlock
  <2> QED
    BY <1>1, <1>3, <2>1, BlockKeeps
<1>5. CASE Head(mainQueue).view = screen.view
  <2>1. PICK home : home = (screen.home \/ Head(mainQueue).home)
    OBVIOUS
  <2>2. LoginBody(home)
    BY <1>5, <2>1 DEF RunSignedInBlock
  <2>3. home \in BOOLEAN
    BY <2>1
  <2>4. /\ MakesModels(1)
        /\ screen' \in [deep : BOOLEAN, home : BOOLEAN, link : DOMAIN models',
                        login : DOMAIN models', view : Nat]
    BY <2>2, <2>3, LoginBodyMakes
  <2> QED
    BY <1>1, <1>3, <2>4, MakesKeeps
<1> QED
  BY <1>4, <1>5

\* The main thread hears of a user: the token asked for is another user's.
LEMMA CredentialsBlockKeeps ==
  ASSUME ScreensInv, RunCredentialsBlock
  PROVE  ScreensInv'
<1> DEFINE e == [do |-> "credentials"]
<1>1. /\ mainQueue # <<>> /\ Head(mainQueue).do = "credentials" /\ mainQueue' = Tail(mainQueue)
      /\ told' = Head(mainQueue).as
      /\ token' = [token EXCEPT !.changed = token.at # "none"]
      /\ worker' = Append(worker, e)
      /\ UNCHANGED <<everyone, stored, currentUser, loaded, query, target, stream, online,
                     models, screen, signIns, incidents, signedOut>>
  BY DEF RunCredentialsBlock, Block, authVars, countVars
<1>2. /\ mainQueue \in Seq(Blocks) /\ RefusedLast(mainQueue) /\ worker \in Seq(Tasks)
      /\ ScreensTypeOK /\ PlaceInv /\ TargetInv /\ LoadInv /\ AliveInv
      /\ ComeOnce(worker)
  BY TypeFacts DEF ScreensInv, PlaceInv
<1>3. /\ Head(mainQueue) \in Blocks /\ Tail(mainQueue) \in Seq(Blocks)
      /\ RefusedLast(Tail(mainQueue)) /\ News(mainQueue)
      /\ Head(mainQueue).as \in NewUsers(mainQueue)
      /\ NewUsers(Tail(mainQueue)) \subseteq NewUsers(mainQueue)
      /\ Addressed(Tail(mainQueue)) \subseteq Addressed(mainQueue)
      /\ Rejected(Tail(mainQueue)) = Rejected(mainQueue)
  <2> HIDE DEF Blocks
  <2> QED
    BY <1>1, <1>2, BlockTaken
<1>4. e \in Tasks /\ e.do = "credentials"
  BY DEF Tasks
<1>5. /\ worker' \in Seq(Tasks) /\ Coming(worker') = Coming(worker) /\ ComeOnce(worker')
      /\ Opens(worker') = Opens(worker) /\ News(worker')
      /\ \A K : Behindhand(worker, K) => Behindhand(worker', K)
  <2>1. e.do # "listen" /\ e.do # "open"
    OBVIOUS
  <2> HIDE DEF e, Tasks
  <2>2. Append(worker, e) \in Seq(Tasks)
    BY <1>2, <1>4, AppendFacts
  <2>3. /\ Coming(Append(worker, e)) = Coming(worker)
        /\ ComeOnce(worker) => ComeOnce(Append(worker, e))
        /\ Opens(Append(worker, e)) = Opens(worker) \cup (IF e.do = "open" THEN {e.as} ELSE {})
        /\ News(Append(worker, e)) <=> News(worker) \/ e.do = "credentials"
        /\ \A K : Behindhand(worker, K) => Behindhand(Append(worker, e), K)
    BY <1>2, <1>4, <2>1, TaskAppended
  <2> QED
    BY <1>1, <1>2, <1>4, <2>1, <2>2, <2>3
<1>6. told' \in Somebody
  BY <1>1, <1>3 DEF Blocks
<1>7. token' \in [at : {"none", "asked", "given"}, as : Somebody, changed : BOOLEAN]
      /\ token'.at = token.at /\ token'.as = token.as /\ (token.at = "given" => token'.changed)
  BY <1>1, <1>2 DEF ScreensTypeOK
<1>8. ScreensTypeOK'
  BY <1>1, <1>2, <1>3, <1>5, <1>6, <1>7 DEF ScreensTypeOK, Tasks, Blocks
<1>9. PlaceInv' /\ Gone' = Gone
  BY <1>1, <1>2, <1>3, <1>5, PlaceKept, Coming(worker) \ {} = Coming(worker) DEF PlaceInv, Listeners
<1>10. TargetInv' /\ UserInv'
  BY <1>1, <1>2, <1>5 DEF TargetInv, UserInv, ShouldRaiseInitialEvent, Listeners
<1>11. LoadInv'
  BY <1>1, <1>2, <1>3 DEF LoadInv
<1>12. AliveInv'
  <2>1. CASE signedOut
    BY <1>1, <2>1 DEF AliveInv
  <2>2. CASE ~signedOut
    <3>1. /\ Nobody \notin NewUsers(mainQueue) /\ stored # Nobody /\ Known \cap Gone = {}
          /\ AsNobody => Known \cap Listeners(query) = {} /\ Behindhand(worker, Known)
      BY <1>2, <1>3, <2>2 DEF AliveInv
    <3>2. Known' = Known /\ Listeners(query') = Listeners(query)
      BY <1>1 DEF Known
    <3>3. AsNobody' => AsNobody
      BY <1>1, <1>5, <1>7 DEF AsNobody
    <3> QED
      BY <1>1, <1>3, <1>5, <1>9, <3>1, <3>2, <3>3 DEF AliveInv
  <2> QED
    BY <2>1, <2>2
<1> QED
  BY <1>8, <1>9, <1>10, <1>11, <1>12 DEF ScreensInv

\* The main queue with news of a user.
LEMMA NewsAppended ==
  ASSUME NEW q \in Seq(Blocks), RefusedLast(q), NEW u \in Somebody,
         NEW a, a = Append(q, [do |-> "credentials", as |-> u])
  PROVE  /\ a \in Seq(Blocks) /\ RefusedLast(a) /\ News(a)
         /\ NewUsers(a) = NewUsers(q) \cup {u}
         /\ Addressed(a) = Addressed(q) /\ Rejected(a) = Rejected(q)
<1> DEFINE e == [do |-> "credentials", as |-> u]
<1>1. e \in Blocks /\ e.do = "credentials" /\ e.as = u
  BY DEF Blocks
<1>2. a = Append(q, e)
  OBVIOUS
<1> HIDE DEF e, Blocks
<1>3. e.do = "event" => e.to \subseteq Nat /\ e.to \cap Rejected(q) = {}
  BY <1>1
<1>4. /\ Append(q, e) \in Seq(Blocks)
      /\ News(Append(q, e)) <=> News(q) \/ e.do = "credentials"
      /\ NewUsers(Append(q, e)) = NewUsers(q) \cup (IF e.do = "credentials" THEN {e.as} ELSE {})
      /\ Addressed(Append(q, e)) = Addressed(q) \cup (IF e.do = "event" THEN e.to ELSE {})
      /\ Rejected(Append(q, e)) = Rejected(q) \cup
           (IF e.do = "event" /\ e.what = "refused" THEN e.to ELSE {})
      /\ RefusedLast(q) => RefusedLast(Append(q, e))
  BY <1>1, <1>3, BlockAppended
<1> QED
  BY <1>1, <1>2, <1>4

\* Another user, or the same one again, with the news on the main queue.
LEMMA UserKeeps ==
  ASSUME ScreensInv,
         UNCHANGED <<everyone, told, worker, clientVars, models, screen>>,
         stored' \in Somebody, currentUser' = stored', loaded' = TRUE,
         mainQueue' \in Seq(Blocks), RefusedLast(mainQueue'), News(mainQueue'),
         NewUsers(mainQueue') = NewUsers(mainQueue) \cup {stored'},
         Addressed(mainQueue') = Addressed(mainQueue), Rejected(mainQueue') = Rejected(mainQueue),
         signIns' \in 0..MaxSignIns, incidents' \in 0..MaxIncidents, signedOut' \in BOOLEAN,
         signedOut' \/ (~signedOut /\ stored' # Nobody)
  PROVE  ScreensInv'
<1>1. ScreensTypeOK'
  BY DEF ScreensInv, ScreensTypeOK, Blocks, clientVars
<1>2. PlaceInv' /\ Gone' = Gone
  BY PlaceKept, Coming(worker) \ {} = Coming(worker) DEF ScreensInv, PlaceInv, clientVars, Listeners
<1>3. TargetInv' /\ UserInv' /\ LoadInv'
  BY DEF ScreensInv, TargetInv, UserInv, LoadInv, clientVars
<1>4. AliveInv'
  <2>1. Known' = Known /\ (AsNobody' <=> AsNobody) /\ Listeners(query') = Listeners(query)
    BY DEF Known, AsNobody, clientVars
  <2> QED
    BY <1>2, <2>1 DEF ScreensInv, AliveInv
<1> QED
  BY <1>1, <1>2, <1>3, <1>4 DEF ScreensInv

LEMMA LoadUserKeeps ==
  ASSUME ScreensInv, LoadUser
  PROVE  ScreensInv'
<1>1. /\ ~loaded /\ loaded' = TRUE /\ currentUser' = stored /\ stored' = stored
      /\ UNCHANGED <<everyone, told, worker, clientVars, models, screen, countVars>>
      /\ stored \in Somebody /\ mainQueue \in Seq(Blocks) /\ RefusedLast(mainQueue)
      /\ signIns \in 0..MaxSignIns /\ incidents \in 0..MaxIncidents /\ signedOut \in BOOLEAN
  BY TypeFacts DEF LoadUser, ScreensInv, ScreensTypeOK, PlaceInv
<1>2. CASE stored # Nobody
  <2>1. mainQueue' = Append(mainQueue, [do |-> "credentials", as |-> stored])
    BY <1>2 DEF LoadUser
  <2>2. /\ mainQueue' \in Seq(Blocks) /\ RefusedLast(mainQueue') /\ News(mainQueue')
        /\ NewUsers(mainQueue') = NewUsers(mainQueue) \cup {stored}
        /\ Addressed(mainQueue') = Addressed(mainQueue)
        /\ Rejected(mainQueue') = Rejected(mainQueue)
    BY <1>1, <2>1, NewsAppended
  <2>3. CASE ~signedOut
    BY <1>1, <1>2, <2>2, <2>3, UserKeeps DEF countVars
  <2>4. CASE signedOut
    BY <1>1, <1>2, <2>2, <2>4, UserKeeps DEF countVars
  <2> QED
    BY <2>3, <2>4
<1>3. CASE stored = Nobody
  <2>1. mainQueue' = mainQueue
    BY <1>3 DEF LoadUser
  <2>2. ScreensTypeOK'
    BY <1>1, <2>1 DEF ScreensInv, ScreensTypeOK, clientVars, countVars
  <2>3. PlaceInv' /\ Gone' = Gone
    BY <1>1, <2>1, PlaceKept, Coming(worker) \ {} = Coming(worker)
       DEF ScreensInv, PlaceInv, clientVars, Listeners
  <2>4. TargetInv' /\ UserInv' /\ LoadInv'
    BY <1>1, <1>3, <2>1 DEF ScreensInv, TargetInv, UserInv, LoadInv, clientVars
  <2>5. AliveInv'
    <3>1. Known' = Known /\ (AsNobody' <=> AsNobody) /\ Listeners(query') = Listeners(query)
      BY <1>1 DEF Known, AsNobody, clientVars
    <3> QED
      BY <1>1, <2>1, <2>3, <3>1 DEF ScreensInv, AliveInv, countVars
  <2> QED
    BY <2>2, <2>3, <2>4, <2>5 DEF ScreensInv
<1> QED
  BY <1>2, <1>3

LEMMA SignInKeeps ==
  ASSUME ScreensInv, NEW u \in Users, SignIn(u)
  PROVE  ScreensInv'
<1>1. /\ loaded' = TRUE /\ currentUser' = u /\ stored' = u
      /\ UNCHANGED <<everyone, told, worker, clientVars, models, screen, incidents, signedOut>>
      /\ signIns' = signIns + 1 /\ signIns < MaxSignIns
      /\ u \in Somebody /\ u # Nobody /\ mainQueue \in Seq(Blocks) /\ RefusedLast(mainQueue)
      /\ signIns \in 0..MaxSignIns /\ incidents \in 0..MaxIncidents /\ signedOut \in BOOLEAN
      /\ screen.view \in Nat /\ MaxSignIns \in Nat
  BY TypeFacts, ScreensAssumption
     DEF SignIn, Becomes, Somebody, ScreensInv, ScreensTypeOK, PlaceInv
<1>2. PICK home \in BOOLEAN :
        mainQueue' = mainQueue \o << [do |-> "credentials", as |-> u],
                                     [do |-> "signedIn", home |-> home, view |-> screen.view] >>
  BY DEF SignIn
<1> DEFINE b == [do |-> "signedIn", home |-> home, view |-> screen.view]
<1>3. PICK q : q = Append(mainQueue, [do |-> "credentials", as |-> u])
  OBVIOUS
<1>4. /\ q \in Seq(Blocks) /\ RefusedLast(q) /\ News(q)
      /\ NewUsers(q) = NewUsers(mainQueue) \cup {u}
      /\ Addressed(q) = Addressed(mainQueue) /\ Rejected(q) = Rejected(mainQueue)
  BY <1>1, <1>3, NewsAppended
<1>5. b \in Blocks /\ b.do = "signedIn"
  BY <1>1 DEF Blocks
<1>6. mainQueue' = Append(q, b)
  BY <1>1, <1>2, <1>3
<1>7. /\ mainQueue' \in Seq(Blocks) /\ RefusedLast(mainQueue') /\ News(mainQueue')
      /\ NewUsers(mainQueue') = NewUsers(mainQueue) \cup {u}
      /\ Addressed(mainQueue') = Addressed(mainQueue)
      /\ Rejected(mainQueue') = Rejected(mainQueue)
  <2> HIDE DEF b, Blocks
  <2>1. b.do = "event" => b.to \subseteq Nat /\ b.to \cap Rejected(q) = {}
    BY <1>5
  <2>2. /\ Append(q, b) \in Seq(Blocks)
        /\ News(Append(q, b)) <=> News(q) \/ b.do = "credentials"
        /\ NewUsers(Append(q, b)) = NewUsers(q) \cup (IF b.do = "credentials" THEN {b.as} ELSE {})
        /\ Addressed(Append(q, b)) = Addressed(q) \cup (IF b.do = "event" THEN b.to ELSE {})
        /\ Rejected(Append(q, b)) = Rejected(q) \cup
             (IF b.do = "event" /\ b.what = "refused" THEN b.to ELSE {})
        /\ RefusedLast(q) => RefusedLast(Append(q, b))
    BY <1>4, <1>5, <2>1, BlockAppended
  <2> QED
    BY <1>4, <1>5, <1>6, <2>2
<1>8. signIns' \in 0..MaxSignIns
  BY <1>1
<1>9. signedOut' \/ (~signedOut /\ stored' # Nobody)
  BY <1>1
<1> QED
  BY <1>1, <1>7, <1>8, <1>9, UserKeeps

\* SignOut and TokenIsRefreshed.
LEMMA IncidentKeeps ==
  ASSUME ScreensInv, SignOut \/ TokenIsRefreshed
  PROVE  ScreensInv'
<1>1. /\ loaded = TRUE /\ loaded' = loaded /\ currentUser # Nobody /\ currentUser = stored
      /\ UNCHANGED <<everyone, told, worker, clientVars, models, screen, signIns>>
      /\ incidents' = incidents + 1 /\ incidents < MaxIncidents
      /\ stored \in Somebody /\ mainQueue \in Seq(Blocks) /\ RefusedLast(mainQueue)
      /\ signIns \in 0..MaxSignIns /\ incidents \in 0..MaxIncidents /\ signedOut \in BOOLEAN
      /\ MaxIncidents \in Nat
  BY TypeFacts, ScreensAssumption
     DEF SignOut, TokenIsRefreshed, Incident, authVars, ScreensInv, ScreensTypeOK, PlaceInv, LoadInv
<1>2. incidents' \in 0..MaxIncidents
  BY <1>1
<1>3. CASE SignOut
  <2>1. /\ currentUser' = Nobody /\ stored' = Nobody /\ signedOut' = TRUE
        /\ mainQueue' = Append(mainQueue, [do |-> "credentials", as |-> Nobody])
        /\ Nobody \in Somebody
    BY <1>3 DEF SignOut, Becomes, Somebody
  <2>2. /\ mainQueue' \in Seq(Blocks) /\ RefusedLast(mainQueue') /\ News(mainQueue')
        /\ NewUsers(mainQueue') = NewUsers(mainQueue) \cup {Nobody}
        /\ Addressed(mainQueue') = Addressed(mainQueue)
        /\ Rejected(mainQueue') = Rejected(mainQueue)
    BY <1>1, <2>1, NewsAppended
  <2> QED
    BY <1>1, <1>2, <2>1, <2>2, UserKeeps
<1>4. CASE TokenIsRefreshed
  <2>1. /\ currentUser' = currentUser /\ stored' = stored /\ signedOut' = signedOut
        /\ mainQueue' = Append(mainQueue, [do |-> "credentials", as |-> stored])
    BY <1>1, <1>4 DEF TokenIsRefreshed, authVars
  <2>2. /\ mainQueue' \in Seq(Blocks) /\ RefusedLast(mainQueue') /\ News(mainQueue')
        /\ NewUsers(mainQueue') = NewUsers(mainQueue) \cup {stored}
        /\ Addressed(mainQueue') = Addressed(mainQueue)
        /\ Rejected(mainQueue') = Rejected(mainQueue)
    BY <1>1, <2>1, NewsAppended
  <2>3. signedOut' \/ (~signedOut /\ stored' # Nobody)
    BY <1>1, <2>1
  <2> QED
    BY <1>1, <1>2, <2>1, <2>2, <2>3, UserKeeps
<1> QED
  BY <1>3, <1>4

\* The token of the stream is the current user's, nobody's if there is none.
LEMMA GivesTokenKeeps ==
  ASSUME ScreensInv, AuthGivesToken
  PROVE  ScreensInv'
<1>1. /\ loaded /\ token.at = "asked"
      /\ token' = [token EXCEPT !.at = "given", !.as = currentUser]
      /\ UNCHANGED <<everyone, stored, currentUser, loaded, told, mainQueue, worker, query, target,
                     stream, online, models, screen, signIns, incidents, signedOut>>
      /\ ScreensTypeOK
  BY DEF AuthGivesToken, authVars, countVars, ScreensInv
<1>2. token' \in [at : {"none", "asked", "given"}, as : Somebody, changed : BOOLEAN]
      /\ token'.at = "given" /\ token'.as = currentUser
  BY <1>1 DEF ScreensTypeOK
<1>3. ScreensTypeOK'
  BY <1>1, <1>2 DEF ScreensTypeOK
<1>4. PlaceInv' /\ Gone' = Gone
  <2>1. Gone' = Gone
    BY <1>1 DEF Gone, Refused, Events
  <2> QED
    BY <1>1, <2>1 DEF ScreensInv, PlaceInv
<1>5. TargetInv' /\ UserInv' /\ LoadInv'
  BY <1>1, <1>2 DEF ScreensInv, TargetInv, UserInv, LoadInv
<1>6. AliveInv'
  <2>1. Known' = Known
    BY <1>1 DEF Known
  <2>2. CASE signedOut
    BY <1>1, <2>2 DEF AliveInv
  <2>3. CASE ~signedOut /\ currentUser # Nobody
    <3>1. AsNobody' => AsNobody
      BY <1>1, <1>2, <2>3 DEF AsNobody
    <3> QED
      BY <1>1, <1>4, <2>1, <2>3, <3>1 DEF ScreensInv, AliveInv
  <2>4. CASE ~signedOut /\ currentUser = Nobody
    <3>1. stored = Nobody
      BY <1>1, <2>4 DEF ScreensInv, LoadInv
    <3>2. told = Nobody /\ Known = {} /\ ~News(mainQueue)
      BY <2>4, <3>1 DEF ScreensInv, AliveInv
    <3>3. Behindhand(worker, Known)
      BY <3>2 DEF Behindhand
    <3> QED
      BY <1>1, <1>4, <2>1, <2>4, <3>2, <3>3 DEF ScreensInv, AliveInv
  <2> QED
    BY <2>2, <2>3, <2>4
<1> QED
  BY <1>3, <1>4, <1>5, <1>6 DEF ScreensInv

\* The stream opens with the token, or asks again if the user changed.
LEMMA TokenCallsBackKeeps ==
  ASSUME ScreensInv, TokenCallsBack
  PROVE  ScreensInv'
<1>1. /\ token.at = "given"
      /\ UNCHANGED <<everyone, stored, currentUser, loaded, told, mainQueue, query, target,
                     stream, online, models, screen, signIns, incidents, signedOut>>
      /\ ScreensTypeOK /\ PlaceInv /\ TargetInv /\ UserInv /\ LoadInv /\ AliveInv
      /\ worker \in Seq(Tasks) /\ ComeOnce(worker) /\ token.as \in Somebody
  BY TypeFacts DEF TokenCallsBack, authVars, countVars, ScreensInv, PlaceInv, ScreensTypeOK
<1>2. Gone' = Gone /\ Known' = Known
  BY <1>1 DEF Gone, Refused, Events, Known
<1>3. CASE token.changed
  <2>1. token' = [at |-> "asked", as |-> Nobody, changed |-> FALSE] /\ worker' = worker
    BY <1>3 DEF TokenCallsBack, NoToken
  <2>2. ScreensTypeOK'
    BY <1>1, <2>1 DEF ScreensTypeOK, Somebody
  <2>3. PlaceInv' /\ TargetInv' /\ UserInv' /\ LoadInv'
    BY <1>1, <1>2, <2>1 DEF PlaceInv, TargetInv, UserInv, LoadInv
  <2>4. AsNobody' => AsNobody
    BY <1>1, <2>1 DEF AsNobody
  <2> QED
    BY <1>1, <1>2, <2>1, <2>2, <2>3, <2>4 DEF ScreensInv, AliveInv
<1>4. CASE ~token.changed
  <2> DEFINE e == [do |-> "open", as |-> token.as]
  <2>1. token' = [at |-> "none", as |-> Nobody, changed |-> FALSE] /\ worker' = Append(worker, e)
    BY <1>4 DEF TokenCallsBack, NoToken
  <2>2. e \in Tasks /\ e.do = "open" /\ e.do # "listen" /\ e.as = token.as
    BY <1>1 DEF Tasks
  <2>3. /\ worker' \in Seq(Tasks) /\ Coming(worker') = Coming(worker) /\ ComeOnce(worker')
        /\ Opens(worker') = Opens(worker) \cup {token.as} /\ (News(worker') <=> News(worker))
        /\ \A K : Behindhand(worker, K) => Behindhand(worker', K)
    <3> HIDE DEF e, Tasks
    <3>1. Append(worker, e) \in Seq(Tasks)
      BY <1>1, <2>2, AppendFacts
    <3>2. /\ Coming(Append(worker, e)) = Coming(worker)
          /\ ComeOnce(worker) => ComeOnce(Append(worker, e))
          /\ Opens(Append(worker, e)) = Opens(worker) \cup (IF e.do = "open" THEN {e.as} ELSE {})
          /\ News(Append(worker, e)) <=> News(worker) \/ e.do = "credentials"
          /\ \A K : Behindhand(worker, K) => Behindhand(Append(worker, e), K)
      BY <1>1, <2>2, TaskAppended
    <3> QED
      BY <1>1, <2>1, <2>2, <3>1, <3>2
  <2>4. ScreensTypeOK'
    BY <1>1, <2>1, <2>3 DEF ScreensTypeOK, Tasks, Somebody
  <2>5. PlaceInv'
    BY <1>1, <1>2, <2>3 DEF PlaceInv
  <2>6. TargetInv' /\ UserInv' /\ LoadInv'
    BY <1>1, <2>1, <2>3 DEF TargetInv, UserInv, LoadInv
  <2>7. AsNobody' => AsNobody
    BY <1>1, <1>4, <2>1, <2>3 DEF AsNobody
  <2>8. AliveInv'
    BY <1>1, <1>2, <2>3, <2>7 DEF AliveInv
  <2> QED
    BY <2>4, <2>5, <2>6, <2>8 DEF ScreensInv
<1> QED
  BY <1>3, <1>4

\* The models that an event is for have heard it.
LEMMA EventBlockKeeps ==
  ASSUME ScreensInv, RunEventBlock
  PROVE  ScreensInv'
<1>1. /\ mainQueue # <<>> /\ Head(mainQueue).do = "event" /\ mainQueue' = Tail(mainQueue)
      /\ models' = [m \in DOMAIN models |->
                     IF m \in Head(mainQueue).to
                     THEN [models[m] EXCEPT !.heard = Head(mainQueue).what] ELSE models[m]]
      /\ UNCHANGED <<everyone, authVars, told, worker, clientVars, screen, countVars>>
      /\ ScreensTypeOK /\ PlaceInv /\ TargetInv /\ UserInv /\ LoadInv /\ AliveInv
  BY DEF RunEventBlock, Block, ScreensInv
<1>2. /\ mainQueue \in Seq(Blocks) /\ RefusedLast(mainQueue) /\ models \in Seq(ViewModels)
      /\ DOMAIN models \subseteq Nat /\ DOMAIN models = 1..Len(models) /\ Len(models) \in Nat
      /\ \A m \in DOMAIN models : models[m] \in ViewModels
  BY <1>1, TypeFacts DEF PlaceInv
<1>3. PICK h : h = Head(mainQueue)
  OBVIOUS
<1>4. /\ h \in Blocks /\ Tail(mainQueue) \in Seq(Blocks)
      /\ RefusedLast(Tail(mainQueue))
      /\ News(mainQueue) <=> News(Tail(mainQueue))
      /\ NewUsers(Tail(mainQueue)) \subseteq NewUsers(mainQueue)
      /\ Addressed(Tail(mainQueue)) \subseteq Addressed(mainQueue)
      /\ h.to \cap Nat \subseteq Addressed(mainQueue)
      /\ h.what # "refused" => Rejected(Tail(mainQueue)) = Rejected(mainQueue)
      /\ h.what = "refused" =>
           /\ Addressed(Tail(mainQueue)) \cap h.to = {}
           /\ Rejected(mainQueue) = Rejected(Tail(mainQueue)) \cup (h.to \cap Nat)
  <2> HIDE DEF Blocks
  <2> QED
    BY <1>1, <1>2, <1>3, BlockTaken
<1>5. h.to \subseteq Nat /\ h.what \in {"list", "refused"} /\ h.do = "event"
  BY <1>1, <1>3, <1>4 DEF Blocks
<1>6. /\ DOMAIN models' = DOMAIN models
      /\ \A m \in DOMAIN models :
           /\ models'[m] \in ViewModels /\ models'[m].as = models[m].as
           /\ models'[m].heard = IF m \in h.to THEN h.what ELSE models[m].heard
  BY <1>1, <1>2, <1>3, <1>5 DEF ViewModels
<1>7. models' \in Seq(ViewModels)
  <2>1. models' \in [1..Len(models) -> ViewModels]
    <3> HIDE DEF ViewModels
    <3> QED
      BY <1>1, <1>2, <1>6
  <2> QED
    BY <1>2, <2>1, SeqDef
<1>8. ScreensTypeOK'
  BY <1>1, <1>4, <1>6, <1>7 DEF ScreensTypeOK, Blocks, ViewModels, authVars, clientVars, countVars
<1>9. Gone' = Gone
  <2>1. \A m \in h.to \cap DOMAIN models : models[m].heard # "refused"
    BY <1>1, <1>2, <1>4 DEF PlaceInv
  <2>2. ASSUME NEW m \in DOMAIN models
        PROVE  models'[m].heard = "refused" \/ m \in Rejected(Tail(mainQueue))
               <=> models[m].heard = "refused" \/ m \in Rejected(mainQueue)
    <3>1. CASE h.what = "refused"
      BY <1>2, <1>4, <1>6, <3>1
    <3>2. CASE h.what # "refused"
      BY <1>2, <1>4, <1>6, <2>1, <3>2
    <3> QED
      BY <3>1, <3>2
  <2> QED
    BY <1>1, <1>2, <1>6, <2>2, GoneForm
<1>10. PlaceInv'
  <2>1. \A m \in Addressed(Tail(mainQueue)) : m \in DOMAIN models /\ models'[m].heard # "refused"
    BY <1>1, <1>4, <1>5, <1>6 DEF PlaceInv
  <2> QED
    BY <1>1, <1>4, <1>6, <1>9, <2>1 DEF PlaceInv, Listeners, clientVars
<1>11. TargetInv' /\ UserInv' /\ LoadInv'
  BY <1>1, <1>4 DEF TargetInv, UserInv, LoadInv, clientVars, authVars
<1>12. AliveInv'
  <2>1. Known' = Known
    BY <1>6 DEF Known
  <2>2. (AsNobody' <=> AsNobody) /\ Listeners(query') = Listeners(query)
    BY <1>1 DEF AsNobody, clientVars
  <2> QED
    BY <1>1, <1>4, <1>9, <2>1, <2>2 DEF AliveInv, authVars, countVars
<1> QED
  BY <1>8, <1>10, <1>11, <1>12 DEF ScreensInv

-----------------------------------------------------------------------------
(* The worker and the watch stream. *)

\* The streams restart, with the tasks w left: RunCredentials and WatchFails.
LEMMA RestartKeeps ==
  ASSUME ScreensInv, NEW w \in Seq(Tasks), ComeOnce(w), Coming(w) = Coming(worker),
         News(w) => News(worker),
         NEW q \in Queries, q.waiting = query.waiting, q.live = query.live,
         NEW state \in {"unknown", "online", "offline"}, Raises(q, state),
         IF target THEN StartsAgain(w) ELSE Stops(w),
         UNCHANGED <<everyone, authVars, told, target, models, screen, signIns, signedOut>>,
         incidents' \in 0..MaxIncidents
  PROVE  ScreensInv'
<1>1. /\ ScreensTypeOK /\ PlaceInv /\ TargetInv /\ UserInv /\ LoadInv /\ AliveInv
      /\ Listeners(q) = Listeners(query) /\ q.waiting \cap q.live = {}
  BY DEF ScreensInv, PlaceInv, Listeners
<1>2. Listeners(q) \cap Rejected(mainQueue) = {}
  <2>1. Listeners(query) \subseteq DOMAIN models /\ DOMAIN models \subseteq Nat
    BY <1>1, TypeFacts DEF PlaceInv
  <2> QED
    BY <1>1, <2>1, GoneForm DEF PlaceInv
<1>3. /\ online' = state
      /\ query' \in Queries /\ Listeners(query') = Listeners(query)
      /\ query'.waiting \cap query'.live = {}
      /\ ShouldRaiseInitialEvent(query', state) => query'.waiting = {}
      /\ mainQueue' \in Seq(Blocks)
      /\ RefusedLast(mainQueue') /\ (News(mainQueue') <=> News(mainQueue))
      /\ NewUsers(mainQueue') = NewUsers(mainQueue)
      /\ Addressed(mainQueue') \subseteq Addressed(mainQueue) \cup Listeners(query)
      /\ Rejected(mainQueue') = Rejected(mainQueue)
  BY <1>1, <1>2, RaisesFacts
<1>4. /\ worker' = Outdated(w)
      /\ stream' \in [state : {"closed", "asking"}, as : Somebody]
      /\ target => stream'.state # "closed"
      /\ token' \in [at : {"none", "asked"}, as : Somebody, changed : BOOLEAN]
  <2>1. CASE target
    <3>1. /\ stream' = [state |-> "asking", as |-> Nobody] /\ worker' = Outdated(w)
          /\ token' = [at |-> "asked", as |-> Nobody, changed |-> FALSE]
      BY <2>1 DEF StartsAgain, Asking, NoToken
    <3> QED
      BY <3>1 DEF Somebody
  <2>2. CASE ~target
    <3>1. /\ stream' = [state |-> "closed", as |-> Nobody] /\ worker' = Outdated(w)
          /\ token' = [at |-> "none", as |-> Nobody, changed |-> FALSE]
      BY <2>2 DEF Stops, Closed, NoToken
    <3> QED
      BY <2>2, <3>1 DEF Somebody
  <2> QED
    BY <2>1, <2>2
<1>5. /\ worker' \in Seq(Tasks) /\ Coming(worker') = Coming(worker) /\ ComeOnce(worker')
      /\ Opens(worker') = {} /\ (News(worker') => News(worker))
  <2>1. [do |-> "outdated"] \in Tasks
    BY DEF Tasks
  <2> HIDE DEF Tasks
  <2>2. /\ Outdated(w) \in Seq(Tasks)
        /\ Coming(Outdated(w)) = Coming(w)
        /\ ComeOnce(w) => ComeOnce(Outdated(w))
        /\ Opens(Outdated(w)) = {}
        /\ News(Outdated(w)) <=> News(w)
    BY <2>1, TasksOutdated
  <2> QED
    BY <1>4, <2>2
<1>6. ScreensTypeOK'
  <2>1. stream' \in [state : {"closed", "asking", "open"}, as : Somebody]
        /\ token' \in [at : {"none", "asked", "given"}, as : Somebody, changed : BOOLEAN]
    BY <1>4
  <2>2. worker' \in Seq(Tasks') /\ query' \in Queries'
    BY <1>3, <1>5 DEF Tasks, Queries
  <2> QED
    BY <1>1, <1>3, <2>1, <2>2 DEF ScreensTypeOK, Tasks, Blocks, Queries, authVars
<1>7. PlaceInv' /\ Gone' = Gone
  BY <1>1, <1>3, <1>5, PlaceKept, Coming(worker) \ {} = Coming(worker)
<1>8. TargetInv'
  BY <1>1, <1>3, <1>4 DEF TargetInv
<1>9. UserInv'
  BY <1>4, <1>5 DEF UserInv
<1>10. LoadInv'
  BY <1>1, <1>3, <1>4, <1>5 DEF LoadInv, authVars
<1>11. AliveInv'
  <2>1. Known' = Known
    BY DEF Known
  <2>2. ~AsNobody'
    BY <1>4, <1>5 DEF AsNobody
  <2> QED
    BY <1>1, <1>3, <1>7, <2>1, <2>2 DEF AliveInv, authVars
<1> QED
  BY <1>6, <1>7, <1>8, <1>9, <1>10, <1>11 DEF ScreensInv

LEMMA RunCredentialsKeeps ==
  ASSUME ScreensInv, RunCredentials
  PROVE  ScreensInv'
<1>1. /\ worker # <<>> /\ Head(worker).do = "credentials"
      /\ IF target THEN StartsAgain(Tail(worker)) ELSE Stops(Tail(worker))
      /\ UNCHANGED <<everyone, authVars, told, target, models, screen, countVars>>
  BY DEF RunCredentials, Task
<1>2. PICK cached \in BOOLEAN : Raises([query EXCEPT !.cached = cached], "unknown")
  BY DEF RunCredentials
<1>3. PICK q : q = [query EXCEPT !.cached = cached]
  OBVIOUS
<1>4. worker \in Seq(Tasks) /\ ComeOnce(worker) /\ query \in Queries /\ incidents \in 0..MaxIncidents
  BY TypeFacts DEF ScreensInv, PlaceInv, ScreensTypeOK
<1>5. q \in Queries /\ q.waiting = query.waiting /\ q.live = query.live
  BY <1>3, <1>4 DEF Queries
<1>6. /\ Tail(worker) \in Seq(Tasks) /\ ComeOnce(Tail(worker))
      /\ Coming(Tail(worker)) = Coming(worker) /\ (News(Tail(worker)) => News(worker))
  <2> HIDE DEF Tasks
  <2> QED
    BY <1>1, <1>4, TaskTaken
<1>7. signIns' = signIns /\ signedOut' = signedOut /\ incidents' \in 0..MaxIncidents
  BY <1>1, <1>4 DEF countVars
<1> QED
  BY <1>1, <1>2, <1>3, <1>5, <1>6, <1>7, RestartKeeps

LEMMA WatchFailsKeeps ==
  ASSUME ScreensInv, WatchFails
  PROVE  ScreensInv'
<1>1. /\ IF target THEN StartsAgain(worker) ELSE Stops(worker)
      /\ UNCHANGED <<everyone, authVars, told, target, models, screen, signIns, signedOut>>
      /\ incidents' = incidents + 1 /\ incidents < MaxIncidents
  BY DEF WatchFails, Incident
<1>2. PICK state : /\ state = (IF ~target \/ online = "online" THEN "unknown" ELSE "offline")
                   /\ Raises([query EXCEPT !.current = query.current /\ state # "offline"], state)
  BY DEF WatchFails
<1>3. PICK c \in BOOLEAN : c = (query.current /\ state # "offline")
  OBVIOUS
<1>4. PICK q : q = [query EXCEPT !.current = c]
  OBVIOUS
<1>5. /\ worker \in Seq(Tasks) /\ ComeOnce(worker) /\ query \in Queries
      /\ incidents \in 0..MaxIncidents /\ MaxIncidents \in Nat
  BY TypeFacts, ScreensAssumption DEF ScreensInv, PlaceInv, ScreensTypeOK
<1>6. q \in Queries /\ q.waiting = query.waiting /\ q.live = query.live
  BY <1>4, <1>5 DEF Queries
<1>7. Raises(q, state) /\ state \in {"unknown", "online", "offline"}
  BY <1>2, <1>3, <1>4
<1>8. incidents' \in 0..MaxIncidents
  BY <1>1, <1>5
<1> QED
  BY <1>1, <1>5, <1>6, <1>7, <1>8, RestartKeeps

\* A listener reaches the client: the first one starts the stream.
LEMMA RunListenKeeps ==
  ASSUME ScreensInv, RunListen
  PROVE  ScreensInv'
<1> DEFINE t == Tail(worker)
<1>1. /\ worker # <<>> /\ Head(worker).do = "listen"
      /\ target' = TRUE
      /\ IF Listeners(query) = {} /\ stream.state = "closed"
         THEN StartsAgain(t) ELSE worker' = t /\ UNCHANGED <<stream, token>>
      /\ UNCHANGED <<everyone, authVars, told, models, screen, countVars>>
      /\ ScreensTypeOK /\ PlaceInv /\ TargetInv /\ UserInv /\ LoadInv /\ AliveInv
  BY DEF RunListen, Task, ScreensInv
<1>2. PICK m : m = Head(worker).model
  OBVIOUS
<1>3. PICK q : q = [query EXCEPT !.waiting = query.waiting \cup {m}]
  OBVIOUS
<1>4. Raises(q, online)
  BY <1>2, <1>3 DEF RunListen
<1>5. /\ worker \in Seq(Tasks) /\ ComeOnce(worker) /\ query \in Queries
      /\ DOMAIN models \subseteq Nat
  BY <1>1, TypeFacts DEF PlaceInv
<1>6. /\ t \in Seq(Tasks) /\ ComeOnce(t) /\ Coming(t) = Coming(worker) \ {m} /\ m \in Coming(worker)
      /\ Opens(t) \subseteq Opens(worker) /\ (News(worker) <=> News(t))
      /\ \A K : Behindhand(worker, K) => Behindhand(t, K) /\ m \notin K
  <2> HIDE DEF Tasks
  <2>1. /\ Tail(worker) \in Seq(Tasks)
        /\ ComeOnce(Tail(worker))
        /\ Coming(Tail(worker)) = IF Head(worker).do = "listen" THEN Coming(worker) \ {Head(worker).model}
                                  ELSE Coming(worker)
        /\ Head(worker).do = "listen" => Head(worker).model \in Coming(worker)
        /\ Opens(Tail(worker)) \subseteq Opens(worker)
        /\ News(worker) <=> News(Tail(worker)) \/ Head(worker).do = "credentials"
        /\ \A K : Behindhand(worker, K) /\ Head(worker).do # "credentials" =>
             /\ Behindhand(Tail(worker), K)
             /\ Head(worker).do = "listen" => Head(worker).model \notin K
    BY <1>1, <1>5, TaskTaken
  <2> QED
    BY <1>1, <1>2, <2>1
<1>7. m \in DOMAIN models /\ m \notin Listeners(query) /\ m \notin Gone
  BY <1>1, <1>6 DEF PlaceInv
<1>8. /\ q \in Queries /\ q.waiting = query.waiting \cup {m} /\ q.live = query.live
      /\ Listeners(q) = Listeners(query) \cup {m} /\ q.waiting \cap q.live = {}
  <2>1. q \in Queries /\ q.waiting = query.waiting \cup {m} /\ q.live = query.live
    BY <1>3, <1>5, <1>7 DEF Queries
  <2> QED
    BY <1>1, <1>7, <2>1 DEF Listeners, PlaceInv
<1>9. Listeners(q) \cap Rejected(mainQueue) = {}
  <2>1. Listeners(q) \subseteq DOMAIN models /\ Listeners(q) \cap Gone = {}
    BY <1>1, <1>7, <1>8 DEF PlaceInv
  <2> QED
    BY <1>5, <2>1, GoneForm
<1>10. /\ online' = online
       /\ query' \in Queries /\ Listeners(query') = Listeners(query) \cup {m}
       /\ query'.waiting \cap query'.live = {}
       /\ ShouldRaiseInitialEvent(query', online) => query'.waiting = {}
       /\ mainQueue' \in Seq(Blocks)
       /\ RefusedLast(mainQueue') /\ (News(mainQueue') <=> News(mainQueue))
       /\ NewUsers(mainQueue') = NewUsers(mainQueue)
       /\ Addressed(mainQueue') \subseteq Addressed(mainQueue) \cup Listeners(query')
       /\ Rejected(mainQueue') = Rejected(mainQueue)
  BY <1>1, <1>4, <1>8, <1>9, RaisesFacts
<1>11. \/ worker' = t /\ UNCHANGED <<stream, token>> /\ stream.state # "closed"
       \/ /\ worker' = Outdated(t) /\ stream' = [state |-> "asking", as |-> Nobody]
          /\ token' = [at |-> "asked", as |-> Nobody, changed |-> FALSE]
  <2>1. CASE Listeners(query) = {} /\ stream.state = "closed"
    BY <1>1, <2>1 DEF StartsAgain, Asking, NoToken
  <2>2. CASE ~(Listeners(query) = {} /\ stream.state = "closed")
    BY <1>1, <2>2 DEF TargetInv
  <2> QED
    BY <2>1, <2>2
<1>12. /\ worker' \in Seq(Tasks) /\ ComeOnce(worker') /\ Coming(worker') = Coming(worker) \ {m}
       /\ Opens(worker') \subseteq Opens(worker) /\ (News(worker') <=> News(worker))
  <2>1. CASE worker' = t
    BY <1>6, <2>1
  <2>2. CASE worker' = Outdated(t)
    <3>1. [do |-> "outdated"] \in Tasks
      BY DEF Tasks
    <3> HIDE DEF t, Tasks
    <3>2. /\ Outdated(t) \in Seq(Tasks)
          /\ Coming(Outdated(t)) = Coming(t)
          /\ ComeOnce(t) => ComeOnce(Outdated(t))
          /\ Opens(Outdated(t)) = {}
          /\ News(Outdated(t)) <=> News(t)
      BY <1>6, <3>1, TasksOutdated
    <3> QED
      BY <1>6, <2>2, <3>2
  <2> QED
    BY <1>11, <2>1, <2>2
<1> HIDE DEF t
<1>13. ScreensTypeOK'
  <2>1. /\ stream' \in [state : {"closed", "asking", "open"}, as : Somebody]
        /\ token' \in [at : {"none", "asked", "given"}, as : Somebody, changed : BOOLEAN]
    <3>1. CASE UNCHANGED <<stream, token>>
      BY <1>1, <3>1 DEF ScreensTypeOK
    <3>2. CASE /\ stream' = [state |-> "asking", as |-> Nobody]
               /\ token' = [at |-> "asked", as |-> Nobody, changed |-> FALSE]
      BY <3>2 DEF Somebody
    <3> QED
      BY <1>11, <3>1, <3>2
  <2>2. worker' \in Seq(Tasks') /\ query' \in Queries'
    BY <1>1, <1>10, <1>12 DEF Tasks, Queries
  <2> QED
    BY <1>1, <1>10, <2>1, <2>2 DEF ScreensTypeOK, Tasks, Blocks, Queries, authVars, countVars
<1>14. PlaceInv' /\ Gone' = Gone
  <2>1. PICK X \in SUBSET Coming(worker) : X = {m}
    BY <1>6
  <2>2. Coming(worker') = Coming(worker) \ X /\ Listeners(query') = Listeners(query) \cup X
    BY <1>10, <1>12, <2>1
  <2> QED
    BY <1>1, <1>10, <1>12, <2>2, PlaceKept
<1>15. TargetInv'
  <2>1. stream'.state # "closed"
    BY <1>11
  <2>2. Listeners(query') # {}
    BY <1>10
  <2> QED
    BY <1>1, <1>10, <2>1, <2>2 DEF TargetInv
<1>16. UserInv'
  BY <1>1, <1>10, <1>11, <1>12 DEF UserInv, authVars
<1>17. LoadInv'
  BY <1>1, <1>10, <1>11, <1>12 DEF LoadInv, authVars
<1>18. AliveInv'
  <2>1. Known' = Known
    BY <1>1 DEF Known
  <2>2. AsNobody' => AsNobody /\ worker' = t
    <3>1. CASE worker' = t /\ UNCHANGED <<stream, token>>
      BY <1>12, <3>1 DEF AsNobody
    <3>2. CASE /\ worker' = Outdated(t) /\ stream' = [state |-> "asking", as |-> Nobody]
               /\ token' = [at |-> "asked", as |-> Nobody, changed |-> FALSE]
      <4>1. Opens(worker') = {}
        BY <3>2, <1>11 DEF Opens, Outdated
      <4> QED
        BY <3>2, <4>1 DEF AsNobody
    <3> QED
      BY <1>11, <3>1, <3>2
  <2>3. CASE signedOut
    BY <1>1, <2>3 DEF AliveInv, countVars
  <2>4. CASE ~signedOut
    <3>1. AsNobody' => /\ Known' \cap Listeners(query') = {}
                       /\ Behindhand(worker', Known')
                       /\ told' # Nobody => News(worker')
      BY <1>1, <1>6, <1>10, <1>12, <2>1, <2>2, <2>4 DEF AliveInv
    <3> QED
      BY <1>1, <1>10, <1>14, <2>1, <2>4, <3>1 DEF AliveInv, authVars
  <2> QED
    BY <2>3, <2>4
<1> QED
  BY <1>13, <1>14, <1>15, <1>16, <1>17, <1>18 DEF ScreensInv

\* The stream opens, or an answer to a start that was given up comes.
LEMMA RunOpenKeeps ==
  ASSUME ScreensInv, RunOpen \/ RunOutdated
  PROVE  ScreensInv'
<1>1. /\ worker # <<>> /\ Head(worker).do \in {"open", "outdated"} /\ worker' = Tail(worker)
      /\ Head(worker).do = "outdated" => stream' = stream
      /\ Head(worker).do = "open" => stream' = [state |-> "open", as |-> Head(worker).as]
      /\ UNCHANGED <<everyone, stored, currentUser, loaded, told, mainQueue, query, target, token,
                     online, models, screen, signIns, incidents, signedOut>>
      /\ ScreensTypeOK /\ PlaceInv /\ TargetInv /\ UserInv /\ LoadInv /\ AliveInv
  BY DEF RunOpen, RunOutdated, Task, ScreensInv, authVars, clientVars, countVars
<1>2. worker \in Seq(Tasks) /\ ComeOnce(worker)
  BY <1>1, TypeFacts DEF PlaceInv
<1>3. PICK h : h = Head(worker)
  OBVIOUS
<1>4. /\ worker' \in Seq(Tasks) /\ ComeOnce(worker') /\ Coming(worker') = Coming(worker)
      /\ Opens(worker') \subseteq Opens(worker) /\ (h.do = "open" => h.as \in Opens(worker))
      /\ News(worker) <=> News(worker')
      /\ \A K : Behindhand(worker, K) => Behindhand(worker', K)
  <2>0. Head(worker).do # "listen" /\ Head(worker).do # "credentials"
    BY <1>1
  <2> HIDE DEF Tasks
  <2>1. /\ Tail(worker) \in Seq(Tasks)
        /\ ComeOnce(Tail(worker))
        /\ Coming(Tail(worker)) = IF Head(worker).do = "listen" THEN Coming(worker) \ {Head(worker).model}
                                  ELSE Coming(worker)
        /\ Opens(Tail(worker)) \subseteq Opens(worker)
        /\ Head(worker).do = "open" => Head(worker).as \in Opens(worker)
        /\ News(worker) <=> News(Tail(worker)) \/ Head(worker).do = "credentials"
        /\ \A K : Behindhand(worker, K) /\ Head(worker).do # "credentials" =>
             /\ Behindhand(Tail(worker), K)
             /\ Head(worker).do = "listen" => Head(worker).model \notin K
    BY <1>2, <1>1, TaskTaken
  <2> QED
    BY <1>1, <1>3, <2>0, <2>1
<1>5. h.do = "open" => h.as \in Somebody
  <2>1. worker[1] \in Tasks /\ h = worker[1]
    <3> HIDE DEF Tasks
    <3>1. Head(worker) = worker[1] /\ worker[1] \in Tasks
      BY <1>1, <1>2, QueueFacts
    <3> QED
      BY <1>3, <3>1
  <2> QED
    BY <2>1 DEF Tasks
<1>6. Gone' = Gone /\ Known' = Known
  BY <1>1 DEF Gone, Refused, Events, Known
<1>7. \/ stream' = stream
      \/ h.do = "open" /\ stream' = [state |-> "open", as |-> h.as]
  BY <1>1, <1>3
<1>8. ScreensTypeOK'
  <2>1. stream' \in [state : {"closed", "asking", "open"}, as : Somebody]
    BY <1>1, <1>5, <1>7 DEF ScreensTypeOK
  <2> QED
    BY <1>1, <1>4, <2>1 DEF ScreensTypeOK, Tasks
<1>9. PlaceInv'
  BY <1>1, <1>4, <1>6 DEF PlaceInv
<1>10. TargetInv' /\ UserInv' /\ LoadInv'
  <2>1. CASE stream' = stream
    BY <1>1, <1>4, <2>1 DEF TargetInv, UserInv, LoadInv
  <2>2. CASE h.do = "open" /\ stream' = [state |-> "open", as |-> h.as]
    BY <1>1, <1>4, <2>2 DEF TargetInv, UserInv, LoadInv
  <2> QED
    BY <1>7, <2>1, <2>2
<1>11. AsNobody' => AsNobody
  BY <1>1, <1>4, <1>7 DEF AsNobody
<1>12. AliveInv'
  BY <1>1, <1>4, <1>6, <1>11 DEF AliveInv
<1> QED
  BY <1>8, <1>9, <1>10, <1>12 DEF ScreensInv

\* The view or the online state changes: ServerAnswers and GivesUp.
LEMMA RaisedKeeps ==
  ASSUME ScreensInv,
         NEW q \in Queries, q.waiting = query.waiting, q.live = query.live,
         NEW state \in {"unknown", "online", "offline"}, Raises(q, state),
         UNCHANGED <<everyone, authVars, told, worker, target, stream, token, models, screen,
                     countVars>>
  PROVE  ScreensInv'
<1>1. /\ ScreensTypeOK /\ PlaceInv /\ TargetInv /\ UserInv /\ LoadInv /\ AliveInv
      /\ Listeners(q) = Listeners(query) /\ q.waiting \cap q.live = {} /\ ComeOnce(worker)
  BY DEF ScreensInv, PlaceInv, Listeners
<1>2. Listeners(q) \cap Rejected(mainQueue) = {}
  <2>1. Listeners(query) \subseteq DOMAIN models /\ DOMAIN models \subseteq Nat
    BY <1>1, TypeFacts DEF PlaceInv
  <2> QED
    BY <1>1, <2>1, GoneForm DEF PlaceInv
<1>3. /\ online' = state
      /\ query' \in Queries /\ Listeners(query') = Listeners(query)
      /\ query'.waiting \cap query'.live = {}
      /\ ShouldRaiseInitialEvent(query', state) => query'.waiting = {}
      /\ mainQueue' \in Seq(Blocks)
      /\ RefusedLast(mainQueue') /\ (News(mainQueue') <=> News(mainQueue))
      /\ NewUsers(mainQueue') = NewUsers(mainQueue)
      /\ Addressed(mainQueue') \subseteq Addressed(mainQueue) \cup Listeners(query)
      /\ Rejected(mainQueue') = Rejected(mainQueue)
  BY <1>1, <1>2, RaisesFacts
<1>4. ScreensTypeOK'
  BY <1>1, <1>3 DEF ScreensTypeOK, Tasks, Blocks, Queries, authVars, countVars
<1>5. PlaceInv' /\ Gone' = Gone
  BY <1>1, <1>3, PlaceKept, Coming(worker) \ {} = Coming(worker)
<1>6. TargetInv' /\ UserInv' /\ LoadInv'
  BY <1>1, <1>3 DEF TargetInv, UserInv, LoadInv, authVars
<1>7. AliveInv'
  <2>1. Known' = Known /\ (AsNobody' <=> AsNobody)
    BY DEF Known, AsNobody
  <2> QED
    BY <1>1, <1>3, <1>5, <2>1 DEF AliveInv, authVars, countVars
<1> QED
  BY <1>4, <1>5, <1>6, <1>7 DEF ScreensInv

LEMMA ServerAnswersKeeps ==
  ASSUME ScreensInv, ServerAnswers \/ GivesUp
  PROVE  ScreensInv'
<1>1. /\ query \in Queries
      /\ UNCHANGED <<everyone, authVars, told, worker, target, stream, token, models, screen,
                     countVars>>
  BY TypeFacts DEF ScreensInv, ServerAnswers, GivesUp
<1>2. CASE ServerAnswers
  <2>1. PICK cached \in BOOLEAN : Raises([query EXCEPT !.current = TRUE, !.cached = cached], "online")
    BY <1>2 DEF ServerAnswers
  <2>2. PICK q : q = [query EXCEPT !.current = TRUE, !.cached = cached]
    OBVIOUS
  <2>3. q \in Queries /\ q.waiting = query.waiting /\ q.live = query.live
    BY <1>1, <2>2 DEF Queries
  <2> QED
    BY <1>1, <2>1, <2>2, <2>3, RaisedKeeps
<1>3. CASE GivesUp
  <2>1. PICK q : q = [query EXCEPT !.current = FALSE] /\ Raises(q, "offline")
    BY <1>3 DEF GivesUp
  <2>2. q \in Queries /\ q.waiting = query.waiting /\ q.live = query.live
    BY <1>1, <2>1 DEF Queries
  <2> QED
    BY <1>1, <2>1, <2>2, RaisedKeeps
<1> QED
  BY <1>2, <1>3

\* The cloud refuses the target of nobody: the listeners are told and gone.
LEMMA ServerRefusesKeeps ==
  ASSUME ScreensInv, ServerRefuses
  PROVE  ScreensInv'
<1> DEFINE e == [do |-> "event", to |-> Listeners(query), what |-> "refused"]
<1>1. /\ stream.state = "open" /\ target /\ stream.as = Nobody
      /\ target' = FALSE /\ query' = NoQuery(query.cached)
      /\ mainQueue' = Append(mainQueue, e) /\ online' = "online"
      /\ UNCHANGED <<everyone, authVars, told, worker, stream, token, models, screen, countVars>>
      /\ ScreensTypeOK /\ PlaceInv /\ TargetInv /\ UserInv /\ LoadInv /\ AliveInv
  BY DEF ServerRefuses, MayRead, ScreensInv
<1>2. /\ query \in Queries /\ mainQueue \in Seq(Blocks) /\ DOMAIN models \subseteq Nat
      /\ RefusedLast(mainQueue)
  BY <1>1, TypeFacts DEF PlaceInv
<1>3. /\ Listeners(query) \subseteq DOMAIN models
      /\ Listeners(query) \cap Rejected(mainQueue) = {}
  BY <1>1, <1>2, GoneForm DEF PlaceInv
<1>4. /\ query' \in Queries /\ query'.waiting = {} /\ query'.live = {} /\ Listeners(query') = {}
  BY <1>1, <1>2 DEF NoQuery, Queries, Listeners
<1>5. /\ e \in Blocks /\ e.do = "event" /\ e.what = "refused" /\ e.to = Listeners(query)
  BY <1>2, <1>3 DEF Blocks
<1>6. /\ mainQueue' \in Seq(Blocks) /\ RefusedLast(mainQueue')
      /\ News(mainQueue') <=> News(mainQueue)
      /\ NewUsers(mainQueue') = NewUsers(mainQueue)
      /\ Addressed(mainQueue') = Addressed(mainQueue) \cup Listeners(query)
      /\ Rejected(mainQueue') = Rejected(mainQueue) \cup Listeners(query)
  <2>1. e.do = "event" => e.to \subseteq Nat /\ e.to \cap Rejected(mainQueue) = {}
    BY <1>2, <1>3, <1>5
  <2> HIDE DEF e, Blocks
  <2>2. /\ Append(mainQueue, e) \in Seq(Blocks)
        /\ News(Append(mainQueue, e)) <=> News(mainQueue) \/ e.do = "credentials"
        /\ NewUsers(Append(mainQueue, e)) = NewUsers(mainQueue) \cup
             (IF e.do = "credentials" THEN {e.as} ELSE {})
        /\ Addressed(Append(mainQueue, e)) = Addressed(mainQueue) \cup
             (IF e.do = "event" THEN e.to ELSE {})
        /\ Rejected(Append(mainQueue, e)) = Rejected(mainQueue) \cup
             (IF e.do = "event" /\ e.what = "refused" THEN e.to ELSE {})
        /\ RefusedLast(mainQueue) => RefusedLast(Append(mainQueue, e))
    BY <1>2, <1>5, <2>1, BlockAppended
  <2> QED
    BY <1>1, <1>2, <1>5, <2>2
<1> HIDE DEF e
<1>7. ScreensTypeOK'
  <2>1. query' \in Queries'
    BY <1>1, <1>4 DEF Queries
  <2> QED
    BY <1>1, <1>6, <2>1 DEF ScreensTypeOK, Tasks, Blocks, Queries, authVars, countVars
<1>8. Gone' = Gone \cup Listeners(query)
  BY <1>1, <1>2, <1>3, <1>6, GoneForm
<1>9. PlaceInv'
  <2>1. \A m \in Listeners(query) : models[m].heard # "refused"
    BY <1>1, <1>2, <1>3, GoneForm DEF PlaceInv
  <2> QED
    BY <1>1, <1>3, <1>4, <1>6, <1>8, <2>1 DEF PlaceInv
<1>10. TargetInv' /\ UserInv' /\ LoadInv'
  BY <1>1, <1>4, <1>6 DEF TargetInv, UserInv, LoadInv, authVars
<1>11. AliveInv'
  <2>1. Known' = Known /\ (AsNobody' <=> AsNobody) /\ AsNobody
    BY <1>1 DEF Known, AsNobody
  <2>2. CASE signedOut
    BY <1>1, <2>2 DEF AliveInv, countVars
  <2>3. CASE ~signedOut
    <3>1. Known' \cap Gone' = {}
      BY <1>1, <1>8, <2>1, <2>3 DEF AliveInv
    <3> QED
      BY <1>1, <1>4, <1>6, <2>1, <2>3, <3>1 DEF AliveInv, authVars
  <2> QED
    BY <2>2, <2>3
<1> QED
  BY <1>7, <1>9, <1>10, <1>11 DEF ScreensInv

-----------------------------------------------------------------------------
(* A launch. *)

Launched ==
  /\ everyone \in BOOLEAN /\ stored \in Somebody /\ loaded \in BOOLEAN
  /\ currentUser = IF loaded THEN stored ELSE Nobody
  /\ told = currentUser
  /\ mainQueue = FirstBlocks(currentUser)
  /\ worker = FirstTasks
  /\ \E cached \in BOOLEAN : query = NoQuery(cached)
  /\ target = FALSE /\ stream = Closed /\ token = NoToken /\ online = "unknown"
  /\ models = FirstModels /\ screen = FirstScreen
  /\ signIns \in 0..MaxSignIns /\ incidents \in 0..MaxIncidents /\ signedOut = FALSE

LEMMA FirstTasksFacts ==
  /\ \A T : [do |-> "listen", model |-> 1] \in T /\ [do |-> "listen", model |-> 2] \in T
              => FirstTasks \in Seq(T)
  /\ Coming(FirstTasks) = {1, 2} /\ ComeOnce(FirstTasks)
  /\ Opens(FirstTasks) = {} /\ ~News(FirstTasks)
<1>1. /\ DOMAIN FirstTasks = {1, 2}
      /\ FirstTasks[1].do = "listen" /\ FirstTasks[1].model = 1
      /\ FirstTasks[2].do = "listen" /\ FirstTasks[2].model = 2
  BY DEF FirstTasks
<1>2. \A T : [do |-> "listen", model |-> 1] \in T /\ [do |-> "listen", model |-> 2] \in T
               => FirstTasks \in Seq(T)
  BY DEF FirstTasks
<1> HIDE DEF FirstTasks
<1>3. Coming(FirstTasks) = {1, 2}
  BY <1>1 DEF Coming
<1>4. ComeOnce(FirstTasks) /\ Opens(FirstTasks) = {} /\ ~News(FirstTasks)
  BY <1>1 DEF ComeOnce, Opens, News
<1> QED
  BY <1>2, <1>3, <1>4

LEMMA FirstBlocksFacts ==
  ASSUME NEW u \in Somebody
  PROVE  /\ FirstBlocks(u) \in Seq(Blocks) /\ RefusedLast(FirstBlocks(u))
         /\ Addressed(FirstBlocks(u)) = {} /\ Rejected(FirstBlocks(u)) = {}
         /\ NewUsers(FirstBlocks(u)) \subseteq {u} \ {Nobody}
         /\ News(FirstBlocks(u)) <=> u # Nobody
<1>1. CASE u = Nobody
  <2>1. FirstBlocks(u) = <<>> /\ DOMAIN <<>> = {} /\ <<>> \in Seq(Blocks)
    BY <1>1 DEF FirstBlocks
  <2> QED
    BY <1>1, <2>1 DEF RefusedLast, Addressed, Rejected, NewUsers, News
<1>2. CASE u # Nobody
  <2> DEFINE b == [do |-> "credentials", as |-> u]
  <2>1. b \in Blocks /\ b.do = "credentials" /\ b.as = u
    BY DEF Blocks
  <2>2. FirstBlocks(u) = <<b>>
    BY <1>2 DEF FirstBlocks
  <2> HIDE DEF b, Blocks
  <2>3. <<b>> \in Seq(Blocks) /\ DOMAIN <<b>> = {1} /\ <<b>>[1] = b
    BY <2>1
  <2>4. PICK s : s = <<b>> /\ DOMAIN s = {1} /\ s[1] = b
    BY <2>3
  <2>5. /\ RefusedLast(s) /\ Addressed(s) = {} /\ Rejected(s) = {}
        /\ NewUsers(s) = {u} /\ News(s)
    BY <2>1, <2>4 DEF RefusedLast, Addressed, Rejected, NewUsers, News
  <2> QED
    BY <1>2, <2>2, <2>3, <2>4, <2>5
<1> QED
  BY <1>1, <1>2

LEMMA LaunchedHolds == Launched => ScreensInv
<1> SUFFICES ASSUME Launched
             PROVE  ScreensInv
  OBVIOUS
<1>1. /\ models = <<Model(stored), Model(stored)>> /\ DOMAIN models = {1, 2}
      /\ models[1] = [as |-> stored, heard |-> "nothing"]
      /\ models[2] = [as |-> stored, heard |-> "nothing"]
      /\ models \in Seq(ViewModels)
  <2>1. models = <<Model(stored), Model(stored)>> /\ stored \in Somebody
    BY DEF Launched, FirstModels
  <2>2. Model(stored) \in ViewModels
    BY <2>1 DEF Model, ViewModels
  <2>3. models \in Seq(ViewModels) /\ DOMAIN models = {1, 2}
    BY <2>1, <2>2
  <2>4. models[1] = Model(stored) /\ models[2] = Model(stored)
    BY <2>1
  <2> QED
    BY <2>1, <2>3, <2>4 DEF Model
<1>2. currentUser \in Somebody /\ mainQueue = FirstBlocks(currentUser)
  BY DEF Launched, Somebody
<1>3. /\ mainQueue \in Seq(Blocks) /\ RefusedLast(mainQueue)
      /\ Addressed(mainQueue) = {} /\ Rejected(mainQueue) = {}
      /\ NewUsers(mainQueue) \subseteq {currentUser} \ {Nobody}
      /\ News(mainQueue) <=> currentUser # Nobody
  BY <1>2, FirstBlocksFacts
<1>4. worker \in Seq(Tasks)
  <2>1. [do |-> "listen", model |-> 1] \in Tasks /\ [do |-> "listen", model |-> 2] \in Tasks
    BY <1>1 DEF Tasks
  <2>2. worker = FirstTasks
    BY DEF Launched
  <2> HIDE DEF Tasks
  <2> QED
    BY <2>1, <2>2, FirstTasksFacts
<1>5. /\ Coming(worker) = {1, 2} /\ ComeOnce(worker) /\ Opens(worker) = {} /\ ~News(worker)
  BY FirstTasksFacts DEF Launched
<1>6. /\ query \in Queries /\ query.waiting = {} /\ query.live = {} /\ Listeners(query) = {}
      /\ stream = [state |-> "closed", as |-> Nobody]
      /\ token = [at |-> "none", as |-> Nobody, changed |-> FALSE]
      /\ screen = [deep |-> FALSE, home |-> FALSE, link |-> 1, login |-> 2, view |-> 1]
  BY DEF Launched, NoQuery, Queries, Listeners, Closed, NoToken, FirstScreen
<1>7. ScreensTypeOK
  <2>1. /\ everyone \in BOOLEAN /\ loaded \in BOOLEAN /\ target \in BOOLEAN /\ signedOut \in BOOLEAN
        /\ stored \in Somebody /\ told \in Somebody /\ online \in {"unknown", "online", "offline"}
        /\ signIns \in 0..MaxSignIns /\ incidents \in 0..MaxIncidents
    BY <1>2 DEF Launched
  <2>2. /\ stream \in [state : {"closed", "asking", "open"}, as : Somebody]
        /\ token \in [at : {"none", "asked", "given"}, as : Somebody, changed : BOOLEAN]
    BY <1>6 DEF Somebody
  <2>3. screen \in [deep : BOOLEAN, home : BOOLEAN, link : DOMAIN models,
                    login : DOMAIN models, view : Nat]
    BY <1>1, <1>6
  <2> QED
    BY <1>1, <1>2, <1>3, <1>4, <1>6, <2>1, <2>2, <2>3
       DEF ScreensTypeOK, Tasks, Blocks, Queries, ViewModels
<1>8. Gone = {}
  <2>1. \A m \in DOMAIN models : m \in Nat /\ models[m].heard # "refused"
    BY <1>1
  <2> QED
    BY <1>3, <2>1, GoneForm
<1>9. PlaceInv
  BY <1>1, <1>3, <1>5, <1>6, <1>8 DEF PlaceInv
<1>10. TargetInv
  BY <1>6 DEF Launched, TargetInv
<1>11. UserInv
  BY <1>5, <1>6 DEF UserInv
<1>12. LoadInv
  BY <1>3, <1>5, <1>6 DEF Launched, LoadInv
<1>13. AliveInv
  <2>1. ~AsNobody
    BY <1>5, <1>6 DEF AsNobody
  <2>2. stored = Nobody => told = Nobody /\ Known = {} /\ ~News(mainQueue)
    BY <1>1, <1>3 DEF Launched, Known
  <2>3. Nobody \notin NewUsers(mainQueue)
    BY <1>3
  <2> QED
    BY <1>8, <2>1, <2>2, <2>3 DEF AliveInv
<1> QED
  BY <1>7, <1>9, <1>10, <1>11, <1>12, <1>13 DEF ScreensInv

LEMMA InitHolds == Init => ScreensInv
<1>1. Init => Launched
  BY ScreensAssumption DEF Init, Launched
<1> QED
  BY <1>1, LaunchedHolds

LEMMA LaunchedNext == (Launched => ScreensInv)'
BY LaunchedHolds, PTL

\* A launch may come at any time, for the user in the keychain.
LEMMA RestartHolds ==
  ASSUME ScreensInv, Restart
  PROVE  ScreensInv'
<1>1. /\ everyone \in BOOLEAN /\ stored \in Somebody /\ signIns \in 0..MaxSignIns
      /\ incidents \in 0..MaxIncidents /\ MaxIncidents \in Nat
  BY ScreensAssumption DEF ScreensInv, ScreensTypeOK
<1>2. incidents' \in 0..MaxIncidents
  BY <1>1 DEF Restart, Incident
<1>3. /\ everyone' \in BOOLEAN /\ stored' \in Somebody /\ loaded' \in BOOLEAN
      /\ currentUser' = IF loaded' THEN stored' ELSE Nobody
      /\ told' = currentUser' /\ mainQueue' = FirstBlocks(currentUser') /\ worker' = FirstTasks
      /\ target' = FALSE /\ stream' = Closed /\ token' = NoToken /\ online' = "unknown"
      /\ screen' = FirstScreen /\ signIns' \in 0..MaxSignIns /\ signedOut' = FALSE
  BY <1>1 DEF Restart
<1>4. models' = FirstModels'
  BY DEF Restart, FirstModels
<1>5. \E cached \in BOOLEAN : query' = NoQuery(cached)
  BY DEF Restart
<1>6. Launched'
  BY <1>2, <1>3, <1>4, <1>5 DEF Launched
<1> QED
  BY <1>6, LaunchedNext

LEMMA StepHolds ==
  ASSUME ScreensInv, [Next]_vars
  PROVE  ScreensInv'
<1>1. CASE Type \/ LeaveHome \/ OpenURL \/ LeaveLink
  BY <1>1, BodyKeeps
<1>2. CASE RunMain
  BY <1>2, CredentialsBlockKeeps, SignedInBlockKeeps, EventBlockKeeps DEF RunMain
<1>3. CASE LoadUser \/ (\E u \in Users : SignIn(u)) \/ SignOut \/ TokenIsRefreshed
  BY <1>3, LoadUserKeeps, SignInKeeps, IncidentKeeps
<1>4. CASE AuthGivesToken \/ TokenCallsBack
  BY <1>4, GivesTokenKeeps, TokenCallsBackKeeps
<1>5. CASE RunWorker
  BY <1>5, RunListenKeeps, RunCredentialsKeeps, RunOpenKeeps DEF RunWorker
<1>6. CASE ServerReplies \/ GivesUp \/ WatchFails
  BY <1>6, ServerAnswersKeeps, ServerRefusesKeeps, WatchFailsKeeps DEF ServerReplies
<1>7. CASE Restart
  BY <1>7, RestartHolds
<1>8. CASE UNCHANGED vars
  <2>1. UNCHANGED <<everyone, stored, currentUser, loaded, told, mainQueue, worker, query, target,
                    stream, token, online, models, screen, signIns, incidents, signedOut>>
    BY <1>8 DEF vars, authVars, clientVars, countVars
  <2>2. Gone' = Gone /\ Known' = Known /\ (AsNobody' <=> AsNobody)
    BY <2>1 DEF Gone, Refused, Events, Known, AsNobody
  <2>3. ScreensTypeOK' /\ PlaceInv' /\ TargetInv'
    BY <2>1, <2>2 DEF ScreensInv, ScreensTypeOK, PlaceInv, TargetInv
  <2>4. UserInv' /\ LoadInv' /\ AliveInv'
    BY <2>1, <2>2 DEF ScreensInv, UserInv, LoadInv, AliveInv
  <2> QED
    BY <2>3, <2>4 DEF ScreensInv
<1> QED
  BY <1>1, <1>2, <1>3, <1>4, <1>5, <1>6, <1>7, <1>8 DEF Next

-----------------------------------------------------------------------------
(* What follows from the invariant. *)

\* The places of a model, counted.
LEMMA PlacesAreCounted ==
  ASSUME ScreensInv, NEW m \in DOMAIN models
  PROVE  Cardinality({i \in DOMAIN worker : worker[i].do = "listen" /\ worker[i].model = m})
         + (IF m \in query.waiting THEN 1 ELSE 0) + (IF m \in query.live THEN 1 ELSE 0)
         + (IF Refused(m) THEN 1 ELSE 0) = 1
<1> DEFINE I == {i \in DOMAIN worker : worker[i].do = "listen" /\ worker[i].model = m}
<1>1. /\ PlaceInv /\ (Refused(m) <=> m \in Gone)
      /\ m \in Listeners(query) <=> m \in query.waiting \/ m \in query.live
      /\ ~(m \in query.waiting /\ m \in query.live)
  BY DEF ScreensInv, PlaceInv, Listeners, Gone
<1>2. CASE m \in Coming(worker)
  <2>1. PICK i \in DOMAIN worker : worker[i].do = "listen" /\ worker[i].model = m
    BY <1>2 DEF Coming
  <2>2. I = {i}
    BY <1>1, <2>1 DEF PlaceInv, ComeOnce
  <2>3. Cardinality(I) = 1
    BY <2>2, FS_Singleton
  <2>4. m \notin query.waiting /\ m \notin query.live /\ ~Refused(m)
    BY <1>1, <1>2 DEF PlaceInv
  <2> HIDE DEF I
  <2>5. Cardinality(I) + (IF m \in query.waiting THEN 1 ELSE 0)
        + (IF m \in query.live THEN 1 ELSE 0) + (IF Refused(m) THEN 1 ELSE 0) = 1
    BY <2>3, <2>4
  <2> QED
    BY <2>5 DEF I
<1>3. CASE m \notin Coming(worker)
  <2>1. I = {}
    BY <1>3 DEF Coming
  <2>2. Cardinality(I) = 0
    BY <2>1, FS_EmptySet
  <2>3. \/ m \in query.waiting /\ m \notin query.live /\ ~Refused(m)
        \/ m \notin query.waiting /\ m \in query.live /\ ~Refused(m)
        \/ m \notin query.waiting /\ m \notin query.live /\ Refused(m)
    BY <1>1, <1>3 DEF PlaceInv
  <2> HIDE DEF I
  <2>4. Cardinality(I) + (IF m \in query.waiting THEN 1 ELSE 0)
        + (IF m \in query.live THEN 1 ELSE 0) + (IF Refused(m) THEN 1 ELSE 0) = 1
    BY <2>2, <2>3
  <2> QED
    BY <2>4 DEF I
<1> QED
  BY <1>2, <1>3

LEMMA ServedFollows == ScreensInv => ListenersAreServed
<1> SUFFICES ASSUME ScreensInv
             PROVE  ListenersAreServed
  OBVIOUS
<1>1. NoListenerIsLost
  BY PlacesAreCounted DEF ScreensInv, TargetInv, NoListenerIsLost
<1>2. StreamIsOfTheUser
  BY DEF ScreensInv, UserInv, News, StreamIsOfTheUser
<1> QED
  BY <1>1, <1>2 DEF ListenersAreServed

LEMMA AliveFollows == ScreensInv => HomeIsAlive
BY DEF ScreensInv, AliveInv, Known, Gone, HomeIsAlive

LEMMA ScreensInvAlways == Spec => []ScreensInv
<1>1. ScreensInv /\ [Next]_vars => ScreensInv'
  BY StepHolds
<1> QED
  BY InitHolds, <1>1, PTL DEF Spec

\* ScreensTypeOK holds of every behaviour: the tables of SwiftUI's screens and
\* of Firestore's EventManager hold what their types say, and the links lead to
\* view models that were made.
THEOREM ScreensTypeCorrect == Spec => []ScreensTypeOK
<1>1. ScreensInv => ScreensTypeOK
  BY DEF ScreensInv
<1> QED
  BY <1>1, ScreensInvAlways, PTL

\* HomeIsAlive holds of every behaviour: unless somebody was signed out, no
\* view model that was made for a user is refused by the cloud for being
\* nobody's, however the load of the keychain, the sign-ins, the notifications
\* and the restarts of the stream interleave (FIRAuth, FirebaseCredentialsProvider,
\* RemoteStore::HandleCredentialChange).
THEOREM HomeIsAliveAlways == Spec => []HomeIsAlive
BY AliveFollows, ScreensInvAlways, PTL

\* ListenersAreServed holds of every behaviour: every view model's listener is in
\* one place, those that could have their first event have it, the target is
\* watched while there is a listener, and the stream is the current user's
\* unless news of another is on its way (EventManager, RemoteStore).
THEOREM ListenersAreServedAlways == Spec => []ListenersAreServed
BY ServedFollows, ScreensInvAlways, PTL
===============================================================================
