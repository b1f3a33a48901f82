------------------------- MODULE CachedBridgeProofs -------------------------
(***************************************************************************)
(* The cache cannot go stale, and the machine behind it sees one serial     *)
(* memory: for any number of lines, sets, bytes and tags, any depths of the *)
(* two queues and any relation of the two clocks.                           *)
(***************************************************************************)
EXTENDS CachedBridge, FiniteSetTheorems, NaturalsInduction, TLAPS

\* The order of the naturals.
Below == {p \in Nat \X Nat : p[1] < p[2]}

\* It is well founded: among some of them one is least.
LEMMA LeastOf ==
  ASSUME NEW S \in SUBSET Nat, S # {}
  PROVE  \E m \in S : \A k \in S : m <= k
<1>1. IsWellFoundedOn(Below, Nat)
  BY NatLessThanWellFounded DEF OpToRel, Below
<1>2. PICK m \in S : \A k \in S : <<k, m>> \notin Below
  BY <1>1, WFMin
<1>3. ASSUME NEW k \in S PROVE m <= k
  <2>1. k \in Nat /\ m \in Nat /\ <<k, m>> \notin Below
    BY <1>2
  <2>2. ~(k < m)
    BY <2>1 DEF Below
  <2>3. QED
    BY <2>1, <2>2
<1>4. QED
  BY <1>3

\* Max is what its name says.
LEMMA MaxIs ==
  ASSUME NEW S \in SUBSET Int, NEW m \in S, \A k \in S : k <= m
  PROVE  Max(S) = m
<1>1. \A k \in S : m >= k
  <2> TAKE k \in S
  <2>1. k \in Int /\ m \in Int /\ k <= m
    OBVIOUS
  <2>2. QED
    BY <2>1
<1>2. Max(S) \in S /\ \A k \in S : Max(S) >= k
  BY <1>1 DEF Max
<1>3. Max(S) \in Int /\ m \in Int /\ m >= Max(S) /\ Max(S) >= m
  BY <1>1, <1>2
<1>4. QED
  BY <1>3

\* Some positions of a sequence have a last one among them.
LEMMA MaxOf ==
  ASSUME NEW n \in Nat, NEW S \in SUBSET (1 .. n), S # {}
  PROVE  Max(S) \in S /\ \A k \in S : k <= Max(S)
<1> DEFINE D == {n - k : k \in S}
<1>1. D \in SUBSET Nat /\ D # {}
  <2>1. \A k \in S : n - k \in Nat
    OBVIOUS
  <2>2. QED
    BY <2>1
<1>2. PICK d \in D : \A k \in D : d <= k
  BY <1>1, LeastOf
<1>3. PICK m \in S : d = n - m
  BY <1>2
<1>4. \A k \in S : k <= m
  <2> TAKE k \in S
  <2>1. n - m <= n - k /\ k \in 1 .. n /\ m \in 1 .. n
    BY <1>2, <1>3
  <2>2. QED
    BY <2>1
<1>5. S \in SUBSET Int /\ m \in S
  OBVIOUS
<1>6. QED
  BY <1>4, <1>5, MaxIs
-----------------------------------------------------------------------------
\* A request that joins the queue is performed last.
LEMMA AfterAppend ==
  ASSUME NEW mm \in [Locations -> M!Line], NEW s \in Seq(Requests), NEW r \in Requests
  PROVE  After(mm, Append(s, r)) = Performed(After(mm, s), r)
<1> DEFINE t == Append(s, r)
           n == Len(s)
<1>1. n \in Nat /\ Len(t) = n + 1 /\ t[n + 1] = r /\ (\A k \in 1 .. n : t[k] = s[k])
      /\ DOMAIN s = 1 .. n /\ DOMAIN t = 1 .. n + 1
  OBVIOUS
<1> HIDE DEF t, n
<1>2. ASSUME NEW l \in Locations, NEW i \in Bytes
      PROVE  After(mm, t)[l][i] =
               IF r.we /\ r.a = l /\ i \in r.b THEN r.d ELSE After(mm, s)[l][i]
  <2>1. CASE r.we /\ r.a = l /\ i \in r.b
    <3>1. n + 1 \in WritesTo(t, l, i) /\ \A k \in WritesTo(t, l, i) : k \in 1 .. n + 1
      BY <1>1, <2>1 DEF WritesTo
    <3>2. Max(WritesTo(t, l, i)) = n + 1
      BY <1>1, <3>1, MaxIs
    <3>3. QED
      BY <1>1, <2>1, <3>1, <3>2 DEF After
  <2>2. CASE ~(r.we /\ r.a = l /\ i \in r.b)
    <3>1. WritesTo(t, l, i) = WritesTo(s, l, i)
      BY <1>1, <2>2 DEF WritesTo
    <3>2. CASE WritesTo(s, l, i) = {}
      BY <2>2, <3>1, <3>2 DEF After
    <3>3. CASE WritesTo(s, l, i) # {}
      <4>1. WritesTo(s, l, i) \in SUBSET (1 .. n)
        BY <1>1 DEF WritesTo
      <4>2. Max(WritesTo(s, l, i)) \in 1 .. n
        BY <1>1, <3>3, <4>1, MaxOf
      <4>3. QED
        BY <1>1, <2>2, <3>1, <3>3, <4>2 DEF After
    <3>4. QED
      BY <3>2, <3>3
  <2>3. QED
    BY <2>1, <2>2
<1>3. CASE r.we
  <2>1. r.a \in Locations
    BY DEF Requests
  <2>2. Performed(After(mm, s), r) =
          [After(mm, s) EXCEPT ![r.a] = M!Merge(After(mm, s)[r.a], r.b, r.d)]
    BY <1>3 DEF Performed
  <2>3. ASSUME NEW l \in Locations PROVE After(mm, t)[l] = Performed(After(mm, s), r)[l]
    <3>1. /\ After(mm, t)[l] = [i \in Bytes |-> After(mm, t)[l][i]]
          /\ After(mm, s)[l] = [i \in Bytes |-> After(mm, s)[l][i]]
      BY DEF After
    <3>2. Performed(After(mm, s), r)[l] =
            [i \in Bytes |-> IF l = r.a /\ i \in r.b THEN r.d ELSE After(mm, s)[l][i]]
      <4>1. Performed(After(mm, s), r)[l] =
              IF l = r.a THEN M!Merge(After(mm, s)[l], r.b, r.d) ELSE After(mm, s)[l]
        BY <2>1, <2>2 DEF After
      <4>2. CASE l = r.a
        BY <4>1, <4>2 DEF M!Merge
      <4>3. CASE l # r.a
        BY <3>1, <4>1, <4>3
      <4>4. QED
        BY <4>2, <4>3
    <3>3. QED
      BY <1>2, <1>3, <3>1, <3>2
  <2>4. QED
    BY <2>1, <2>2, <2>3 DEF After, t
<1>4. CASE ~r.we
  <2>1. \A l \in Locations : After(mm, t)[l] = After(mm, s)[l]
    BY <1>2, <1>4 DEF After
  <2>2. QED
    BY <1>4, <2>1 DEF After, Performed, t
<1>5. QED
  BY <1>3, <1>4

\* The head of the queue is performed first.
LEMMA AfterHead ==
  ASSUME NEW mm \in [Locations -> M!Line], NEW s \in Seq(Requests), s # <<>>
  PROVE  After(mm, s) = After(Performed(mm, s[1]), Tail(s))
<1> DEFINE t == Tail(s)
           n == Len(s)
           r == s[1]
<1>1. /\ n \in Nat /\ n > 0 /\ Len(t) = n - 1 /\ (\A k \in 1 .. n - 1 : t[k] = s[k + 1])
      /\ DOMAIN s = 1 .. n /\ DOMAIN t = 1 .. n - 1
      /\ r \in Requests
  OBVIOUS
<1> HIDE DEF t, n
<1>2. r.a \in Locations /\ r.we \in BOOLEAN
  BY <1>1 DEF Requests
<1>3. ASSUME NEW l \in Locations, NEW i \in Bytes
      PROVE  Performed(mm, r)[l][i] = IF r.we /\ r.a = l /\ i \in r.b THEN r.d ELSE mm[l][i]
  BY <1>2 DEF Performed, M!Merge, M!Line
<1>4. ASSUME NEW l \in Locations, NEW i \in Bytes
      PROVE  After(mm, s)[l][i] = After(Performed(mm, r), t)[l][i]
  <2> DEFINE W == WritesTo(s, l, i)
             V == WritesTo(t, l, i)
  <2>1. W \in SUBSET (1 .. n) /\ V \in SUBSET (1 .. n - 1)
    BY <1>1 DEF WritesTo
  <2>2. \A k \in 1 .. n - 1 : k \in V <=> k + 1 \in W
    BY <1>1 DEF WritesTo
  <2>3. 1 \in W <=> r.we /\ r.a = l /\ i \in r.b
    BY <1>1 DEF WritesTo
  <2>4. /\ After(mm, s)[l][i] = IF W = {} THEN mm[l][i] ELSE s[Max(W)].d
        /\ After(Performed(mm, r), t)[l][i] = IF V = {} THEN Performed(mm, r)[l][i] ELSE t[Max(V)].d
    BY DEF After
  <2> HIDE DEF W, V
  <2>5. CASE V # {}
    <3>1. Max(V) \in V /\ \A k \in V : k <= Max(V)
      <4>1. n - 1 \in Nat
        BY <1>1
      <4>2. QED
        BY <4>1, <2>1, <2>5, MaxOf
    <3>a. Max(V) \in 1 .. n - 1
      BY <2>1, <3>1
    <3>2. Max(V) + 1 \in W /\ \A k \in W : k <= Max(V) + 1
      <4>1. Max(V) + 1 \in W
        BY <2>1, <2>2, <3>1
      <4>2. ASSUME NEW k \in W PROVE k <= Max(V) + 1
        <5>1. CASE k = 1
          BY <1>1, <3>a, <5>1
        <5>2. CASE k # 1
          <6>1. k - 1 \in 1 .. n - 1 /\ (k - 1) + 1 = k
            BY <1>1, <2>1, <5>2
          <6>2. k - 1 \in V
            BY <2>2, <6>1
          <6>3. k - 1 <= Max(V) /\ k \in Int /\ Max(V) \in Int
            BY <1>1, <2>1, <3>1, <3>a, <6>2
          <6>4. QED
            BY <6>3
        <5>3. QED
          BY <5>1, <5>2
      <4>3. QED
        BY <4>1, <4>2
    <3>3. Max(W) = Max(V) + 1
      <4>1. W \in SUBSET Int
        BY <2>1
      <4>2. QED
        BY <4>1, <3>2, MaxIs
    <3>4. t[Max(V)] = s[Max(W)]
      BY <1>1, <2>1, <3>1, <3>3
    <3>5. QED
      BY <2>4, <2>5, <3>2, <3>4
  <2>6. CASE V = {}
    <3>1. \A k \in W : k = 1
      <4> TAKE k \in W
      <4>1. SUFFICES ASSUME k # 1 PROVE FALSE
        OBVIOUS
      <4>2. k - 1 \in 1 .. n - 1 /\ (k - 1) + 1 = k
        BY <1>1, <2>1, <4>1
      <4>3. QED
        BY <2>2, <2>6, <4>2
    <3>2. CASE 1 \in W
      <4>1. Max(W) = 1
        BY <3>1, <3>2, <2>1, MaxIs
      <4>2. QED
        BY <1>3, <2>3, <2>4, <2>6, <3>2, <4>1
    <3>3. CASE 1 \notin W
      BY <1>3, <2>3, <2>4, <2>6, <3>1, <3>3
    <3>4. QED
      BY <3>2, <3>3
  <2>7. QED
    BY <2>5, <2>6
<1>5. QED
  BY <1>4 DEF After, t
-----------------------------------------------------------------------------

Reads(k) == Cardinality(ReadsAfter(k))

\* The positions counted are some of the queue's.
LEMMA ReadsFinite ==
  ASSUME NEW k \in Nat, rq \in Seq(Requests)
  PROVE  IsFiniteSet(ReadsAfter(k)) /\ Reads(k) \in Nat
<1>1. Len(rq) \in Int /\ k + 1 \in Int
  OBVIOUS
<1>2. IsFiniteSet(k + 1 .. Len(rq))
  BY <1>1, FS_Interval
<1>3. ReadsAfter(k) \in SUBSET (k + 1 .. Len(rq))
  BY DEF ReadsAfter
<1>4. IsFiniteSet(ReadsAfter(k))
  BY <1>2, <1>3, FS_Subset
<1>5. QED
  BY <1>4, FS_CardinalityType DEF Reads

\* A read that joins the queue is behind all the others.
LEMMA ReadsAppend ==
  ASSUME rq \in Seq(Requests), NEW r \in Requests, rq' = Append(rq, r)
  PROVE  /\ \A k \in 0 .. Len(rq) : Reads(k)' = Reads(k) + (IF r.we THEN 0 ELSE 1)
         /\ \A k \in Nat : k = Len(rq) + 1 => Reads(k)' = 0
<1>1. /\ Len(rq) \in Nat /\ Len(rq') = Len(rq) + 1 /\ rq'[Len(rq) + 1] = r
      /\ \A j \in 1 .. Len(rq) : rq'[j] = rq[j]
  OBVIOUS
<1>2. ASSUME NEW k \in 0 .. Len(rq)
      PROVE  Reads(k)' = Reads(k) + (IF r.we THEN 0 ELSE 1)
  <2>1. k \in Nat
    BY <1>1
  <2>2. IsFiniteSet(ReadsAfter(k)) /\ Reads(k) \in Nat
    BY <2>1, ReadsFinite
  <2>3. CASE r.we
    <3>1. ReadsAfter(k)' = ReadsAfter(k)
      BY <1>1, <2>1, <2>3 DEF ReadsAfter
    <3>2. QED
      BY <2>2, <2>3, <3>1 DEF Reads
  <2>4. CASE ~r.we
    <3>1. ReadsAfter(k)' = ReadsAfter(k) \cup {Len(rq) + 1}
      BY <1>1, <2>1, <2>4 DEF ReadsAfter
    <3>2. Len(rq) + 1 \notin ReadsAfter(k)
      BY <1>1, <2>1 DEF ReadsAfter
    <3>3. QED
      BY <2>2, <2>4, <3>1, <3>2, FS_AddElement DEF Reads
  <2>5. QED
    BY <2>3, <2>4
<1>3. ASSUME NEW k \in Nat, k = Len(rq) + 1 PROVE Reads(k)' = 0
  <2>1. ReadsAfter(k)' = {}
    BY <1>1, <1>3 DEF ReadsAfter
  <2>2. QED
    BY <2>1, FS_EmptySet DEF Reads
<1>4. QED
  BY <1>2, <1>3

\* When the head of the queue leaves it the others move up by one.
LEMMA ReadsTail ==
  ASSUME rq \in Seq(Requests), rq # <<>>, rq' = Tail(rq), NEW k \in Nat
  PROVE  Reads(k)' = Reads(k + 1)
<1> DEFINE S == ReadsAfter(k + 1)
           T == ReadsAfter(k)'
           f == [j \in S |-> j - 1]
<1>1. /\ Len(rq) \in Nat /\ Len(rq) > 0 /\ Len(rq') = Len(rq) - 1
      /\ \A j \in 1 .. Len(rq) - 1 : rq'[j] = rq[j + 1]
  OBVIOUS
<1>2. \A j \in S : j \in Int /\ j - 1 \in T
  BY <1>1 DEF ReadsAfter
<1>3. \A j \in T : j \in Int /\ j + 1 \in S
  BY <1>1 DEF ReadsAfter
<1>4. IsFiniteSet(S)
  BY ReadsFinite
<1> HIDE DEF S, T
<1>5. f \in Bijection(S, T)
  <2>1. f \in [S -> T]
    BY <1>2
  <2>2. \A a, b \in S : f[a] = f[b] => a = b
    BY <1>2
  <2>3. \A t \in T : \E s \in S : f[s] = t
    <3> TAKE t \in T
    <3>1. t + 1 \in S /\ f[t + 1] = t
      BY <1>3
    <3>2. QED
      BY <3>1
  <2> HIDE DEF f
  <2>4. QED
    BY <2>1, <2>2, <2>3 DEF Bijection, Injection, Surjection, IsInjective
<1>6. Cardinality(T) = Cardinality(S)
  BY <1>4, <1>5, FS_Bijection DEF ExistsBijection
<1>7. QED
  BY <1>6 DEF Reads, S, T

\* What is in the queue, the head of it and the rest.
LEMMA ReadsHead ==
  ASSUME rq \in Seq(Requests), rq # <<>>
  PROVE  Reads(0) = Reads(1) + (IF rq[1].we THEN 0 ELSE 1)
<1>1. Len(rq) \in Nat /\ Len(rq) > 0
  OBVIOUS
<1>2. IsFiniteSet(ReadsAfter(1)) /\ Reads(1) \in Nat
  BY ReadsFinite
<1>3. CASE rq[1].we
  <2>1. ReadsAfter(0) = ReadsAfter(1)
    <3>1. \A j \in 0 + 1 .. Len(rq) : j = 1 \/ j \in 1 + 1 .. Len(rq)
      BY <1>1
    <3>2. \A j \in 1 + 1 .. Len(rq) : j \in 0 + 1 .. Len(rq)
      BY <1>1
    <3>3. QED
      BY <1>3, <3>1, <3>2 DEF ReadsAfter
  <2>2. QED
    BY <1>2, <1>3, <2>1 DEF Reads
<1>4. CASE ~rq[1].we
  <2>1. ReadsAfter(0) = ReadsAfter(1) \cup {1}
    <3>1. \A j \in 0 + 1 .. Len(rq) : j = 1 \/ j \in 1 + 1 .. Len(rq)
      BY <1>1
    <3>2. \A j \in 1 + 1 .. Len(rq) : j \in 0 + 1 .. Len(rq)
      BY <1>1
    <3>3. 1 \in 0 + 1 .. Len(rq)
      BY <1>1
    <3>4. QED
      BY <1>4, <3>1, <3>2, <3>3 DEF ReadsAfter
  <2>2. 1 \notin ReadsAfter(1)
    BY DEF ReadsAfter
  <2>3. QED
    BY <1>2, <1>4, <2>1, <2>2, FS_AddElement DEF Reads
<1>5. QED
  BY <1>3, <1>4

\* A queue that holds a read counts one at least.
LEMMA ReadsSome ==
  ASSUME rq \in Seq(Requests), NEW k \in DOMAIN rq, ~rq[k].we
  PROVE  Reads(0) > 0
<1>1. k \in ReadsAfter(0)
  BY DEF ReadsAfter
<1>2. IsFiniteSet(ReadsAfter(0)) /\ Reads(0) \in Nat
  BY ReadsFinite
<1>3. Reads(0) # 0
  BY <1>1, <1>2, FS_EmptySet DEF Reads
<1>4. QED
  BY <1>2, <1>3
-----------------------------------------------------------------------------
\* How many tags have been given out since t, when g is the last one.
Age(g, t) == IF t <= g THEN g - t ELSE g - t + Tags

\* The next tag is one on, and comes round at the end.
LEMMA TagNext ==
  ASSUME tag \in 0 .. Tags - 1
  PROVE  tag_next = IF tag + 1 = Tags THEN 0 ELSE tag + 1
<1>1. Tags \in Nat /\ Tags > 0 /\ tag \in Nat /\ tag + 1 <= Tags
  BY CachedAssumption
<1>2. CASE tag + 1 = Tags
  BY <1>1, <1>2 DEF tag_next
<1>3. CASE tag + 1 < Tags
  BY <1>1, <1>3 DEF tag_next
<1>4. QED
  BY <1>1, <1>2, <1>3

\* Only the last tag has no age; giving out another makes each one older,
\* the oldest apart, which it gives out again.
LEMMA Ages ==
  ASSUME tag \in 0 .. Tags - 1, NEW t \in 0 .. Tags - 1
  PROVE  /\ Age(tag, t) \in 0 .. Tags - 1
         /\ Age(tag, t) = 0 <=> t = tag
         /\ tag_next \in 0 .. Tags - 1
         /\ Age(tag, t) < Tags - 1 => Age(tag_next, t) = Age(tag, t) + 1
         /\ Age(tag_next, tag_next) = 0
BY CachedAssumption, TagNext DEF Age
-----------------------------------------------------------------------------
(* The queues: a push or a pop keeps one well formed.                       *)

\* What a queue of entries from S holds: never more than its depth, counting
\* the takings that the writing side does not know of.
QueueOK(S, D, q, v, g) ==
  /\ q \in Seq(S) /\ Len(q) <= D
  /\ v \in 0 .. Len(q)
  /\ g \in 0 .. D - Len(q)

\* The head of a queue leaves it one shorter, and not yet free to refill.
LEMMA PopKeeps ==
  ASSUME NEW S, NEW D \in Nat, NEW q, NEW v, NEW g, QueueOK(S, D, q, v, g), v # 0
  PROVE  /\ q # <<>> /\ q[1] \in S
         /\ \A v2 \in v - 1 .. Len(q) - 1 : QueueOK(S, D, Tail(q), v2, g + 1)
         /\ Len(Tail(q)) + (g + 1) = Len(q) + g
<1>1. q \in Seq(S) /\ Len(q) \in Nat /\ v \in 0 .. Len(q) /\ g \in 0 .. D - Len(q)
  BY DEF QueueOK
<1>2. Len(q) > 0
  BY <1>1
<1>3. q[1] \in S /\ Tail(q) \in Seq(S) /\ Len(Tail(q)) = Len(q) - 1 /\ q # <<>>
  BY <1>1, <1>2
<1>4. QED
  BY <1>1, <1>2, <1>3 DEF QueueOK

\* A push at a queue that does not look full fits.
LEMMA PushKeeps ==
  ASSUME NEW S, NEW D \in Nat, NEW q, NEW v, NEW g, QueueOK(S, D, q, v, g), Len(q) + g # D,
         NEW x \in S, NEW g2 \in 0 .. g
  PROVE  QueueOK(S, D, Append(q, x), v, g2)
<1>1. q \in Seq(S) /\ Len(q) \in Nat /\ v \in 0 .. Len(q) /\ g \in 0 .. D - Len(q)
  BY DEF QueueOK
<1>2. Append(q, x) \in Seq(S) /\ Len(Append(q, x)) = Len(q) + 1
  BY <1>1
<1>3. QED
  BY <1>1, <1>2 DEF QueueOK

\* News that arrives on either side.
LEMMA NewsKeeps ==
  ASSUME NEW S, NEW D \in Nat, NEW q, NEW v, NEW g, QueueOK(S, D, q, v, g)
  PROVE  /\ \A v2 \in v .. Len(q) : QueueOK(S, D, q, v2, g)
         /\ \A g2 \in 0 .. g : QueueOK(S, D, q, v, g2)
BY DEF QueueOK
-----------------------------------------------------------------------------
(* What every register, queue and memory holds.                             *)

RegistersOK ==
  /\ ENABLE \in BOOLEAN /\ issued \in BOOLEAN /\ done \in BOOLEAN
  /\ tag \in 0 .. Tags - 1
  /\ bus \in M!Phases \cup {NoPhase} /\ adr \in Locations
  /\ busy \in BOOLEAN /\ c \in Requests \cup {NoRequest}
  /\ mem \in [Locations -> M!Line]

CacheOK ==
  /\ swp \in 0 .. NSets /\ lk_cwr \in BOOLEAN /\ lk_line \in MemLines
  /\ tmem \in [0 .. NSets - 1 -> CacheTags]
  /\ dmem \in [0 .. NSets - 1 -> M!Line]
  /\ tq \in CacheTags /\ dq \in M!Line

RequestsOK == QueueOK(Requests, ReqDepth, rq, rq_vis, rq_lag)
AnswersOK  == QueueOK(Answers, RspDepth, rs, rs_vis, rs_lag)

\* A transaction has a request, and a read among them has room for its answer.
Room == busy => c \in Requests /\ (~c.we => Len(rs) + rs_lag < RspDepth)

TInv == RegistersOK /\ CacheOK /\ RequestsOK /\ AnswersOK /\ Room

\* The type invariant is what they say of the types.
LEMMA TypeParts == TInv => TypeOK
BY DEF TInv, TypeOK, RegistersOK, CacheOK, RequestsOK, AnswersOK, QueueOK

\* What a phase is made of.
LEMMA PhaseType ==
  ASSUME NEW ph \in M!Phases
  PROVE  /\ ph.rd \in BOOLEAN /\ ph.a \in Locations /\ ph.b \in SUBSET Bytes
         /\ ~ph.rd => ph.d \in Byte
BY DEF M!Phases, M!Reads, M!Writes

\* A request holds what it is for.
LEMMA RequestType ==
  ASSUME NEW x \in Requests
  PROVE  /\ x.we \in BOOLEAN /\ x.a \in Locations /\ x.tag \in 0 .. Tags - 1
         /\ x.we => x.d \in Byte /\ x.b \in SUBSET Bytes
BY DEF Requests

\* The line of an address, and where the cache keeps it.
LEMMA LineOfAddress ==
  ASSUME adr \in Locations
  PROVE  /\ cur_line \in MemLines /\ cur_idx \in 0 .. NSets - 1
         /\ cur_tag \in CacheTags /\ cur_tag # Invalid
         /\ CACHEABLE => adr \in MemLines /\ cur_line = adr
BY CachedAssumption DEF cur_line, cur_idx, cur_tag, CacheTags, CACHEABLE, Locations

\* Two lines the cache keeps in one entry have different tags.
LEMMA OwnEntry ==
  ASSUME adr \in Locations, NEW l \in MemLines, SetOf[l] = cur_idx, TagOf[l] = cur_tag
  PROVE  l = cur_line
BY LineOfAddress, CachedAssumption DEF cur_idx, cur_tag

\* A line some bytes of which are written is a line.
LEMMA MergeType ==
  ASSUME NEW line \in M!Line, NEW b \in SUBSET Bytes, NEW d \in Byte
  PROVE  M!Merge(line, b, d) \in M!Line
BY DEF M!Merge, M!Line

\* A memory stays one when a request is performed.
LEMMA PerformedType ==
  ASSUME NEW mm \in [Locations -> M!Line], NEW r \in Requests
  PROVE  Performed(mm, r) \in [Locations -> M!Line]
BY RequestType, MergeType DEF Performed

\* What the machine's side puts in the queue is a request.
LEMMA EnqType == ASSUME RegistersOK, enq PROVE Request \in Requests
<1>1. bus \in M!Phases
  BY DEF RegistersOK, enq, PHASE
<1>2. tag \in 0 .. Tags - 1 /\ tag_next \in 0 .. Tags - 1 /\ adr \in Locations
  BY Ages DEF RegistersOK
<1>3. CASE q_we
  BY <1>1, <1>2, <1>3, PhaseType DEF Request, Requests, q_we
<1>4. CASE ~q_we
  BY <1>1, <1>2, <1>4, PhaseType DEF Request, Requests, q_we
<1>5. QED
  BY <1>3, <1>4

\* The answer at hand is one.
LEMMA OursType ==
  ASSUME AnswersOK, rs_ours
  PROVE  rs[1] \in Answers /\ rs[1].line \in M!Line /\ Len(rs) > 0 /\ rs_vis # 0
<1>1. rs_vis # 0 /\ rs \in Seq(Answers) /\ Len(rs) > 0
  BY DEF AnswersOK, QueueOK, rs_ours, RS!Empty
<1>2. rs[1] \in Answers
  BY <1>1
<1>3. QED
  BY <1>1, <1>2 DEF Answers

\* The cache's RAMs keep holding tags and lines.
LEMMA CacheStep ==
  ASSUME RegistersOK, CacheOK, AnswersOK, CacheClk
  PROVE  CacheOK'
<1>1. /\ cur_line \in MemLines /\ cur_idx \in 0 .. NSets - 1 /\ cur_tag \in CacheTags
      /\ Invalid \in CacheTags
  BY LineOfAddress DEF RegistersOK, CacheTags
<1>2. tmem_next \in [0 .. NSets - 1 -> CacheTags]
  BY <1>1 DEF CacheOK, tmem_next
<1>3. dmem_next \in [0 .. NSets - 1 -> M!Line]
  <2>1. CASE ~swp_done
    BY <2>1 DEF CacheOK, dmem_next
  <2>2. CASE swp_done /\ fill
    BY <1>1, <2>2, OursType DEF CacheOK, dmem_next, fill
  <2>3. CASE swp_done /\ ~fill /\ update
    <3>1. bus \in M!Phases /\ ~bus.rd
      BY <2>3 DEF RegistersOK, update, wr_now, enq, PHASE, q_we
    <3>2. M!Merge(dmem[cur_idx], bus.b, bus.d) \in M!Line
      BY <1>1, <3>1, PhaseType, MergeType DEF CacheOK
    <3>3. QED
      BY <1>1, <2>3, <3>2 DEF CacheOK, dmem_next
  <2>4. CASE swp_done /\ ~fill /\ ~update
    BY <2>4 DEF CacheOK, dmem_next
  <2>5. QED
    BY <2>1, <2>2, <2>3, <2>4
<1>4. /\ tmem' = tmem_next /\ dmem' = dmem_next
      /\ tq' \in CacheTags /\ dq' \in M!Line
  BY <1>1, <1>2, <1>3 DEF CacheClk, CacheOK
<1>5. swp' \in 0 .. NSets
  BY CachedAssumption DEF CacheClk, CacheOK, swp_done
<1>6. lk_cwr' \in BOOLEAN /\ lk_line' \in MemLines
  BY <1>1 DEF CacheClk, cache_we, swp_done, fill, update, invalidate, rs_ours, wr_now, enq,
              lk_hit, lk_ok, rd_wait, PHASE, q_we
<1>7. QED
  BY <1>2, <1>3, <1>4, <1>5, <1>6 DEF CacheOK

\* An edge of CLK: at most a request more, at most an answer less.
LEMMA CpuClkStep ==
  ASSUME TInv, CpuClk
  PROVE  /\ TInv'
         /\ IF enq THEN Request \in Requests /\ rq' = Append(rq, Request) ELSE rq' = rq
         /\ IF rs_pop THEN rs # <<>> /\ rs' = Tail(rs) ELSE rs' = rs
<1>0. RegistersOK /\ CacheOK /\ RequestsOK /\ AnswersOK /\ Room
  BY DEF TInv
<1>1. RegistersOK'
  <2>1. ENABLE' \in BOOLEAN /\ issued' \in BOOLEAN /\ done' \in BOOLEAN
    BY <1>0 DEF RegistersOK, CpuClk, rs_ours, rd_wait, rd_hit, enq, PHASE
  <2>2. tag' \in 0 .. Tags - 1
    BY <1>0, Ages DEF RegistersOK, CpuClk
  <2>3. QED
    BY <1>0, <2>1, <2>2 DEF RegistersOK, CpuClk, wbregs
<1>2. CacheOK'
  BY <1>0, CacheStep DEF CpuClk
<1>3. RequestsOK' /\ IF enq THEN Request \in Requests /\ rq' = Append(rq, Request) ELSE rq' = rq
  <2>1. CASE enq
    <3>1. /\ Len(rq) + rq_lag # ReqDepth /\ Request \in Requests
          /\ rq' = Append(rq, Request) /\ rq_lag' \in 0 .. rq_lag /\ rq_vis' = rq_vis
      BY <1>0, <2>1, EnqType DEF CpuClk, RQ!Push, RQ!Full
    <3>2. RequestsOK'
      BY <1>0, <3>1, PushKeeps, CachedAssumption DEF RequestsOK
    <3>3. QED
      BY <2>1, <3>1, <3>2
  <2>2. CASE ~enq
    <3>1. UNCHANGED <<rq, rq_vis>> /\ rq_lag' \in 0 .. rq_lag
      BY <2>2 DEF CpuClk, RQ!NoPush
    <3>2. RequestsOK'
      BY <1>0, <3>1, NewsKeeps, CachedAssumption DEF RequestsOK
    <3>3. QED
      BY <2>2, <3>1, <3>2
  <2>3. QED
    BY <2>1, <2>2
<1>4. /\ AnswersOK' /\ Len(rs') + rs_lag' = Len(rs) + rs_lag
      /\ IF rs_pop THEN rs # <<>> /\ rs' = Tail(rs) ELSE rs' = rs
  <2>1. CASE rs_pop
    <3>1. /\ rs_vis # 0 /\ rs_vis' \in rs_vis - 1 .. Len(rs) - 1
          /\ rs' = Tail(rs) /\ rs_lag' = rs_lag + 1
      BY <2>1 DEF CpuClk, RS!Pop, RS!Empty
    <3>2. AnswersOK' /\ Len(rs') + rs_lag' = Len(rs) + rs_lag /\ rs # <<>>
      <4>1. QueueOK(Answers, RspDepth, rs, rs_vis, rs_lag) /\ RspDepth \in Nat
        BY <1>0, CachedAssumption DEF AnswersOK
      <4>2. /\ QueueOK(Answers, RspDepth, Tail(rs), rs_vis', rs_lag + 1) /\ rs # <<>>
            /\ Len(Tail(rs)) + (rs_lag + 1) = Len(rs) + rs_lag
        BY <3>1, <4>1, PopKeeps
      <4>3. QED
        BY <3>1, <4>2 DEF AnswersOK
    <3>3. QED
      BY <2>1, <3>1, <3>2
  <2>2. CASE ~rs_pop
    <3>1. UNCHANGED <<rs, rs_lag>> /\ rs_vis' \in rs_vis .. Len(rs)
      BY <2>2 DEF CpuClk, RS!NoPop
    <3>2. AnswersOK'
      BY <1>0, <3>1, NewsKeeps, CachedAssumption DEF AnswersOK
    <3>3. QED
      BY <2>2, <3>1, <3>2
  <2>3. QED
    BY <2>1, <2>2
<1>5. Room'
  BY <1>0, <1>4 DEF Room, CpuClk, wbregs
<1>6. QED
  BY <1>1, <1>2, <1>3, <1>4, <1>5 DEF TInv

\* An edge of WB_CLK with no answer: a transaction may begin.
LEMMA WbClkStep ==
  ASSUME TInv, WbClk
  PROVE  /\ TInv' /\ rs' = rs
         /\ IF start THEN /\ rq # <<>> /\ rq' = Tail(rq) /\ rq[1] \in Requests
                          /\ ~busy /\ busy' /\ c' = rq[1]
                     ELSE rq' = rq /\ busy' = busy /\ c' = c
<1>0. RegistersOK /\ CacheOK /\ RequestsOK /\ AnswersOK /\ Room
  BY DEF TInv
<1>1. rs' = rs /\ rs_vis' = rs_vis /\ rs_lag' \in 0 .. rs_lag
  BY DEF WbClk, RS!NoPush
<1>2. AnswersOK' /\ CacheOK'
  BY <1>0, <1>1, NewsKeeps, CachedAssumption DEF AnswersOK, CacheOK, WbClk, cache
<1>3. ~RS!Full => Len(rs') + rs_lag' < RspDepth
  <2>1. rs_lag \in Nat /\ Len(rs) \in Nat /\ Len(rs) + rs_lag <= RspDepth
    BY <1>0, CachedAssumption DEF AnswersOK, QueueOK
  <2>2. QED
    BY <1>1, <2>1, CachedAssumption DEF RS!Full
<1>4. CASE start
  <2>1. /\ rq_vis # 0 /\ rq_vis' \in rq_vis - 1 .. Len(rq) - 1
        /\ rq' = Tail(rq) /\ rq_lag' = rq_lag + 1 /\ busy' = TRUE /\ c' = rq[1]
    BY <1>4 DEF WbClk, RQ!Pop, RQ!Empty
  <2>2. RequestsOK' /\ rq[1] \in Requests /\ rq # <<>>
    BY <1>0, <2>1, PopKeeps, CachedAssumption DEF RequestsOK
  <2>3. RegistersOK'
    BY <1>0, <2>1, <2>2 DEF RegistersOK, WbClk, cpuregs
  <2>4. Room'
    BY <1>3, <1>4, <2>1, <2>2 DEF Room, start
  <2>5. ~busy
    BY <1>4 DEF start
  <2>6. QED
    BY <1>1, <1>2, <1>4, <2>1, <2>2, <2>3, <2>4, <2>5 DEF TInv
<1>5. CASE ~start
  <2>1. UNCHANGED <<rq, rq_lag, busy, c>> /\ rq_vis' \in rq_vis .. Len(rq)
    BY <1>5 DEF WbClk, RQ!NoPop
  <2>2. RequestsOK'
    BY <1>0, <2>1, NewsKeeps, CachedAssumption DEF RequestsOK
  <2>3. RegistersOK'
    BY <1>0, <2>1 DEF RegistersOK, WbClk, cpuregs
  <2>4. Room'
    <3>1. rs_lag \in Nat /\ rs_lag' \in 0 .. rs_lag /\ Len(rs) \in Nat /\ rs' = rs
      BY <1>0, <1>1, CachedAssumption DEF AnswersOK, QueueOK
    <3>2. QED
      BY <1>0, <2>1, <3>1, CachedAssumption DEF Room
  <2>5. QED
    BY <1>1, <1>2, <1>5, <2>1, <2>2, <2>3, <2>4 DEF TInv
<1>6. QED
  BY <1>4, <1>5

\* What WbAck pushes.
Answer == [tag |-> c.tag, line |-> mem[c.a]]

\* The memory's acknowledgement ends the transaction; a read's answer fits.
LEMMA WbAckStep ==
  ASSUME TInv, WbAck
  PROVE  /\ TInv' /\ c \in Requests /\ busy /\ ~busy' /\ rq' = rq
         /\ mem' = Performed(mem, c)
         /\ IF c.we THEN rs' = rs ELSE Answer \in Answers /\ rs' = Append(rs, Answer)
<1>0. RegistersOK /\ CacheOK /\ RequestsOK /\ AnswersOK /\ Room
  BY DEF TInv
<1>1. c \in Requests /\ busy /\ busy' = FALSE /\ mem' = Performed(mem, c)
  BY <1>0 DEF WbAck, Room
<1>2. RegistersOK' /\ CacheOK'
  BY <1>0, <1>1, PerformedType DEF WbAck, RegistersOK, CacheOK, cpuregs, cache
<1>3. RequestsOK' /\ rq' = rq
  <2>1. UNCHANGED <<rq, rq_lag>> /\ rq_vis' \in rq_vis .. Len(rq)
    BY DEF WbAck, RQ!NoPop
  <2>2. QED
    BY <1>0, <2>1, NewsKeeps, CachedAssumption DEF RequestsOK
<1>4. AnswersOK' /\ IF c.we THEN rs' = rs ELSE Answer \in Answers /\ rs' = Append(rs, Answer)
  <2>1. CASE ~c.we
    <3>1. Answer \in Answers
      BY <1>0, <1>1, RequestType DEF Answer, Answers, RegistersOK
    <3>2. ~RS!Full
      BY <1>0, <1>1, <2>1, CachedAssumption DEF Room, RS!Full, AnswersOK, QueueOK
    <3>3. /\ Len(rs) + rs_lag # RspDepth
          /\ rs' = Append(rs, Answer) /\ rs_lag' \in 0 .. rs_lag /\ rs_vis' = rs_vis
      BY <2>1, <3>2 DEF WbAck, RS!Push, RS!Full, Answer
    <3>4. AnswersOK'
      BY <1>0, <3>1, <3>3, PushKeeps, CachedAssumption DEF AnswersOK
    <3>5. QED
      BY <2>1, <3>1, <3>3, <3>4
  <2>2. CASE c.we
    <3>1. UNCHANGED <<rs, rs_vis>> /\ rs_lag' \in 0 .. rs_lag
      BY <2>2 DEF WbAck, RS!NoPush
    <3>2. AnswersOK'
      BY <1>0, <3>1, NewsKeeps, CachedAssumption DEF AnswersOK
    <3>3. QED
      BY <2>2, <3>1, <3>2
  <2>3. QED
    BY <1>1, <2>1, <2>2, RequestType
<1>5. QED
  BY <1>1, <1>2, <1>3, <1>4 DEF TInv, Room

\* The masters touch the strobes and the address lines alone.
MastersMove == EndPhase \/ MoveAddress \/ \E ph \in M!Phases : BeginPhase(ph)

\* Whatever they do, every queue and register stays what it is.
LEMMA MasterStep ==
  ASSUME TInv, MastersMove \/ UNCHANGED vars
  PROVE  TInv' /\ UNCHANGED <<cpuregs, cache, queues, wbregs>>
<1>1. /\ UNCHANGED <<cpuregs, cache, queues, wbregs>>
      /\ bus' \in M!Phases \cup {NoPhase} /\ adr' \in Locations
  <2>1. CASE EndPhase
    BY <2>1 DEF EndPhase, TInv, RegistersOK
  <2>2. CASE MoveAddress
    BY <2>2 DEF MoveAddress, PHASE
  <2>3. ASSUME NEW ph \in M!Phases, BeginPhase(ph)
        PROVE  /\ UNCHANGED <<cpuregs, cache, queues, wbregs>>
               /\ bus' \in M!Phases \cup {NoPhase} /\ adr' \in Locations
    BY <2>3, PhaseType DEF BeginPhase
  <2>4. CASE UNCHANGED vars
    BY <2>4 DEF vars, TInv, RegistersOK
  <2>5. QED
    BY <2>1, <2>2, <2>3, <2>4 DEF MastersMove
<1>2. QED
  BY <1>1 DEF TInv, RegistersOK, CacheOK, RequestsOK, AnswersOK, Room,
              cpuregs, cache, queues, wbregs
-----------------------------------------------------------------------------
(* What the machine counts on: the memory with everything queued performed. *)

\* A request that joins the queue is performed last.
LEMMA ViewOnPush ==
  ASSUME TInv, CpuClk
  PROVE  View' = IF enq THEN Performed(View, Request) ELSE View
<1>0. /\ RegistersOK /\ rq \in Seq(Requests) /\ (busy => c \in Requests)
      /\ busy' = busy /\ c' = c /\ mem' = mem
  BY DEF TInv, RequestsOK, QueueOK, Room, CpuClk, wbregs
<1>1. (IF busy THEN Performed(mem, c) ELSE mem) \in [Locations -> M!Line]
  BY <1>0, PerformedType DEF RegistersOK
<1>2. CASE enq
  <2>1. rq' = Append(rq, Request) /\ Request \in Requests
    BY <1>2, CpuClkStep
  <2>2. QED
    BY <1>0, <1>1, <1>2, <2>1, AfterAppend DEF View
<1>3. CASE ~enq
  <2>1. rq' = rq
    BY <1>3, CpuClkStep
  <2>2. QED
    BY <1>0, <1>3, <2>1 DEF View
<1>4. QED
  BY <1>2, <1>3

\* Where a write is performed, and where it is not.
LEMMA PerformedAt ==
  ASSUME NEW mm \in [Locations -> M!Line], NEW r \in Requests, NEW l \in Locations
  PROVE  Performed(mm, r)[l] = IF r.we /\ r.a = l THEN M!Merge(mm[l], r.b, r.d) ELSE mm[l]
BY RequestType DEF Performed

\* The view is a memory.
LEMMA ViewType == ASSUME TInv PROVE View \in [Locations -> M!Line]
<1>1. /\ RegistersOK /\ rq \in Seq(Requests) /\ (busy => c \in Requests)
  BY DEF TInv, RequestsOK, QueueOK, Room
<1> DEFINE mm == IF busy THEN Performed(mem, c) ELSE mem
<1>2. mm \in [Locations -> M!Line]
  BY <1>1, PerformedType DEF RegistersOK
<1>3. View = After(mm, rq)
  BY DEF View
<1> HIDE DEF mm
<1>4. ASSUME NEW l \in Locations, NEW i \in Bytes PROVE After(mm, rq)[l][i] \in Byte
  <2>1. mm[l][i] \in Byte
    BY <1>2 DEF M!Line
  <2>2. CASE WritesTo(rq, l, i) # {}
    <3>1. WritesTo(rq, l, i) \in SUBSET (1 .. Len(rq)) /\ Len(rq) \in Nat
      BY <1>1 DEF WritesTo
    <3>2. Max(WritesTo(rq, l, i)) \in WritesTo(rq, l, i)
      BY <2>2, <3>1, MaxOf
    <3>3. rq[Max(WritesTo(rq, l, i))] \in Requests /\ rq[Max(WritesTo(rq, l, i))].we
      BY <1>1, <3>2 DEF WritesTo
    <3>4. QED
      BY <2>2, <3>3, RequestType DEF After
  <2>3. QED
    BY <2>1, <2>2 DEF After
<1>5. After(mm, rq) \in [Locations -> [Bytes -> Byte]]
  <2>1. \A l \in Locations : After(mm, rq)[l] = [i \in Bytes |-> After(mm, rq)[l][i]]
    BY DEF After
  <2>2. \A l \in Locations : After(mm, rq)[l] \in [Bytes -> Byte]
    BY <1>4, <2>1
  <2>3. After(mm, rq) = [l \in Locations |-> After(mm, rq)[l]]
    BY DEF After
  <2>4. QED
    BY <2>2, <2>3
<1>6. QED
  BY <1>3, <1>5 DEF M!Line

\* Nothing the memory's side does changes it.
LEMMA ViewOnWb ==
  ASSUME TInv, WbClk \/ WbAck
  PROVE  View' = View
<1>0. RegistersOK /\ rq \in Seq(Requests)
  BY DEF TInv, RequestsOK, QueueOK
<1>1. CASE WbClk /\ start
  <2>1. rq # <<>> /\ rq' = Tail(rq) /\ ~busy /\ busy' /\ c' = rq[1] /\ mem' = mem
    BY <1>1, WbClkStep DEF WbClk
  <2>2. QED
    BY <1>0, <2>1, AfterHead DEF View, RegistersOK
<1>2. CASE WbClk /\ ~start
  <2>1. rq' = rq /\ busy' = busy /\ c' = c /\ mem' = mem
    BY <1>2, WbClkStep DEF WbClk
  <2>2. QED
    BY <2>1 DEF View
<1>3. CASE WbAck
  <2>1. busy /\ ~busy' /\ rq' = rq /\ mem' = Performed(mem, c)
    BY <1>3, WbAckStep
  <2>2. QED
    BY <2>1 DEF View
<1>4. QED
  BY <1>1, <1>2, <1>3

\* With nothing queued the memory holds what it will hold.
LEMMA ViewAtRest == ASSUME RegistersOK, rq = <<>>, ~busy PROVE View = mem
<1>1. \A l \in Locations, i \in Bytes : WritesTo(rq, l, i) = {}
  BY DEF WritesTo
<1>2. View = [l \in Locations |-> [i \in Bytes |-> mem[l][i]]]
  BY <1>1 DEF View, After
<1>3. \A l \in Locations : mem[l] = [i \in Bytes |-> mem[l][i]]
  BY DEF RegistersOK, M!Line
<1>4. QED
  BY <1>2, <1>3 DEF RegistersOK
-----------------------------------------------------------------------------
(* The strobes, and the tags of the reads under way.                        *)

Strobes ==
  /\ issued \/ done => ENABLE
  /\ ~ENABLE => P_DATA_OUT = <<>>
  /\ PHASE => adr = bus.a

\* A phase leaves its address on the lines.
LEMMA StepStrobes == TInv /\ Strobes /\ [Next]_vars => Strobes'
<1> SUFFICES ASSUME TInv, Strobes, [Next]_vars PROVE Strobes'
  OBVIOUS
<1> USE DEF Strobes, PHASE
<1>1. CASE CpuClk
  <2>1. /\ bus' = bus /\ adr' = adr
        /\ issued' = (ENABLE /\ PHASE /\ (issued \/ enq))
        /\ done' = (ENABLE /\ PHASE /\ (done \/ (issued /\ q_we) \/ rs_ours \/ rd_hit))
        /\ ENABLE => ENABLE'
        /\ ~ENABLE => P_DATA_OUT' = <<>>
    BY <1>1 DEF CpuClk, rd_hit, rs_ours, rd_wait
  <2>2. QED
    BY <2>1
<1>2. CASE WbClk
  BY <1>2 DEF WbClk, cpuregs
<1>3. CASE WbAck
  BY <1>3 DEF WbAck, cpuregs
<1>4. CASE EndPhase
  BY <1>4 DEF EndPhase, cpuregs
<1>5. CASE MoveAddress
  BY <1>5 DEF MoveAddress, cpuregs
<1>6. ASSUME NEW ph \in M!Phases, BeginPhase(ph) PROVE Strobes'
  BY <1>6 DEF BeginPhase, cpuregs
<1>7. CASE UNCHANGED vars
  BY <1>7 DEF vars, cpuregs
<1>8. QED
  BY <1>1, <1>2, <1>3, <1>4, <1>5, <1>6, <1>7 DEF Next

Running == IF busy /\ ~c.we THEN 1 ELSE 0

\* A read's tag tells how many reads came after it, and there are never more
\* reads on their way than tags.
TagsApart ==
  /\ Reads(0) + Running + Len(rs) <= Tags
  /\ PHASE /\ bus.rd /\ ~issued /\ ~done => Reads(0) + Running + Len(rs) < Tags
  /\ \A k \in 1 .. Len(rq) : ~rq[k].we => Age(tag, rq[k].tag) = Reads(k)
  /\ busy /\ ~c.we => Age(tag, c.tag) = Reads(0)
  /\ \A k \in 1 .. Len(rs) : Age(tag, rs[k].tag) = Reads(0) + Running + Len(rs) - k

\* What the ages and counts are made of.
LEMMA CountTypes ==
  ASSUME TInv
  PROVE  /\ Reads(0) \in Nat /\ Running \in {0, 1} /\ Len(rs) \in Nat /\ Len(rq) \in Nat
         /\ Tags \in Nat /\ Tags > 0 /\ tag \in 0 .. Tags - 1
         /\ rq \in Seq(Requests) /\ rs \in Seq(Answers)
         /\ \A k \in 1 .. Len(rq) : rq[k] \in Requests /\ rq[k].tag \in 0 .. Tags - 1 /\ Reads(k) \in Nat
         /\ \A k \in 1 .. Len(rs) : rs[k].tag \in 0 .. Tags - 1
         /\ busy => c \in Requests /\ c.tag \in 0 .. Tags - 1
<1>1. rq \in Seq(Requests) /\ rs \in Seq(Answers) /\ tag \in 0 .. Tags - 1
      /\ (busy => c \in Requests)
  BY DEF TInv, RegistersOK, RequestsOK, AnswersOK, QueueOK, Room
<1>2. \A k \in Nat : Reads(k) \in Nat
  BY <1>1, ReadsFinite
<1>3. \A k \in 1 .. Len(rq) : rq[k] \in Requests /\ Reads(k) \in Nat
  BY <1>1, <1>2
<1>4. \A k \in 1 .. Len(rs) : rs[k] \in Answers
  BY <1>1
<1>5. \A k \in 1 .. Len(rs) : rs[k].tag \in 0 .. Tags - 1
  BY <1>4 DEF Answers
<1>6. \A k \in 1 .. Len(rq) : rq[k].tag \in 0 .. Tags - 1
  BY <1>3, RequestType
<1>7. Len(rs) \in Nat /\ Len(rq) \in Nat /\ Reads(0) \in Nat
  <2>1. Reads(0) \in Nat
    BY <1>1, ReadsFinite
  <2>2. QED
    BY <1>1, <2>1
<1>8. busy => c.tag \in 0 .. Tags - 1
  BY <1>1, RequestType
<1>9. QED
  BY <1>1, <1>3, <1>5, <1>6, <1>7, <1>8, CachedAssumption DEF Running

\* The reads behind one of the queue are fewer than all.
LEMMA ReadsBehind ==
  ASSUME TInv, NEW k \in 1 .. Len(rq), ~rq[k].we
  PROVE  Reads(k) < Reads(0)
<1>1. rq \in Seq(Requests) /\ k \in Nat /\ k > 0
  BY DEF TInv, RequestsOK, QueueOK
<1>2. IsFiniteSet(ReadsAfter(0)) /\ Reads(0) \in Nat /\ Reads(k) \in Nat
  BY <1>1, ReadsFinite
<1>3. ReadsAfter(k) \in SUBSET ReadsAfter(0)
  BY <1>1 DEF ReadsAfter
<1>4. k \in ReadsAfter(0) /\ k \notin ReadsAfter(k)
  BY <1>1 DEF ReadsAfter
<1>5. Reads(k) <= Reads(0) /\ Reads(k) # Reads(0)
  BY <1>2, <1>3, <1>4, FS_Subset DEF Reads
<1>6. QED
  BY <1>2, <1>5

\* An edge of CLK keeps the tags apart: a read takes the next one, when there
\* was one to spare.
LEMMA TagsOnCpuClk ==
  ASSUME TInv, TInv', Strobes, TagsApart, CpuClk
  PROVE  TagsApart'
<1>1. /\ IF enq THEN Request \in Requests /\ rq' = Append(rq, Request) ELSE rq' = rq
      /\ IF rs_pop THEN rs # <<>> /\ rs' = Tail(rs) ELSE rs' = rs
      /\ busy' = busy /\ c' = c /\ bus' = bus
      /\ tag' = IF enq /\ ~q_we THEN tag_next ELSE tag
  BY CpuClkStep DEF CpuClk, wbregs
<1>2. Running' = Running
  BY <1>1 DEF Running
<1> DEFINE new == IF enq /\ ~q_we THEN 1 ELSE 0
<1>t. new \in {0, 1}
  OBVIOUS
<1>w. (Request.we <=> q_we) /\ Request.tag = (IF q_we THEN tag ELSE tag_next)
  <2>1. CASE q_we
    BY <2>1 DEF Request
  <2>2. CASE ~q_we
    BY <2>2 DEF Request
  <2>3. QED
    BY <2>1, <2>2
<1>3. /\ \A k \in 0 .. Len(rq) : Reads(k)' = Reads(k) + new
      /\ Len(rq') = Len(rq) + (IF enq THEN 1 ELSE 0)
      /\ \A k \in 1 .. Len(rq) : rq'[k] = rq[k]
      /\ \A k \in Nat : enq /\ k = Len(rq) + 1 => rq'[k] = Request /\ Reads(k)' = 0
  <2>1. CASE enq
    <3>1. rq \in Seq(Requests) /\ Request \in Requests /\ rq' = Append(rq, Request)
      BY <1>1, <2>1, CountTypes
    <3>2. /\ \A k \in 0 .. Len(rq) : Reads(k)' = Reads(k) + (IF Request.we THEN 0 ELSE 1)
          /\ \A k \in Nat : k = Len(rq) + 1 => Reads(k)' = 0
      BY <3>1, ReadsAppend
    <3>3. /\ Len(rq') = Len(rq) + 1 /\ rq'[Len(rq) + 1] = Request
          /\ \A k \in 1 .. Len(rq) : rq'[k] = rq[k]
      BY <3>1
    <3>4. (IF Request.we THEN 0 ELSE 1) = new
      BY <1>w, <2>1
    <3> HIDE DEF new
    <3>5. QED
      BY <2>1, <3>2, <3>3, <3>4
  <2>2. CASE ~enq
    <3>1. rq' = rq /\ new = 0
      BY <1>1, <2>2
    <3>2. \A k \in 0 .. Len(rq) : Reads(k)' = Reads(k) /\ Reads(k) \in Nat
      <4> TAKE k \in 0 .. Len(rq)
      <4>1. k \in Nat
        BY CountTypes
      <4>2. QED
        BY <3>1, <4>1, CountTypes, ReadsFinite DEF Reads, ReadsAfter
    <3> HIDE DEF new
    <3>3. QED
      BY <2>2, <3>1, <3>2, CountTypes
  <2>3. QED
    BY <2>1, <2>2
<1>4. /\ Len(rs') = Len(rs) - (IF rs_pop THEN 1 ELSE 0) /\ Len(rs') \in Nat
      /\ \A k \in 1 .. Len(rs') : /\ k + (IF rs_pop THEN 1 ELSE 0) \in 1 .. Len(rs)
                                  /\ rs'[k] = rs[k + (IF rs_pop THEN 1 ELSE 0)]
  <2>1. CASE rs_pop
    <3>1. rs \in Seq(Answers) /\ rs # <<>> /\ rs' = Tail(rs)
      BY <1>1, <2>1, CountTypes
    <3>2. /\ Len(rs) \in Nat /\ Len(rs) > 0 /\ Len(rs') = Len(rs) - 1
          /\ \A k \in 1 .. Len(rs) - 1 : rs'[k] = rs[k + 1]
      BY <3>1
    <3>3. QED
      BY <2>1, <3>2
  <2>2. CASE ~rs_pop
    <3>1. rs' = rs /\ Len(rs) \in Nat
      BY <1>1, <2>2, CountTypes
    <3>2. QED
      BY <2>2, <3>1
  <2>3. QED
    BY <2>1, <2>2
<1>5. new = 1 => Reads(0) + Running + Len(rs) < Tags
  BY DEF TagsApart, enq, q_we
<1>6. ASSUME NEW t \in 0 .. Tags - 1, Age(tag, t) < Reads(0) + Running + Len(rs)
      PROVE  Age(tag', t) = Age(tag, t) + new
  <2>1. CASE new = 1
    <3>1. tag' = tag_next /\ Age(tag, t) \in 0 .. Tags - 1
      BY <1>1, <2>1, CountTypes, Ages
    <3>2. Age(tag, t) < Tags - 1
      BY <1>5, <1>6, <2>1, <3>1, CountTypes
    <3> HIDE DEF new
    <3>3. QED
      BY <2>1, <3>1, <3>2, CountTypes, Ages
  <2>2. CASE new = 0
    <3>1. tag' = tag /\ Age(tag, t) \in 0 .. Tags - 1
      BY <1>1, <2>2, CountTypes, Ages
    <3> HIDE DEF new
    <3>2. QED
      BY <2>2, <3>1
  <2>3. QED
    BY <1>t, <2>1, <2>2
<1>c. Reads(0)' = Reads(0) + new
  <2> HIDE DEF new
  <2>1. 0 \in 0 .. Len(rq)
    BY CountTypes
  <2>2. QED
    BY <1>3, <2>1
<1>n. new = 1 => enq /\ PHASE /\ ~issued /\ bus.rd /\ Age(tag', tag_next) = 0
  BY <1>1, CountTypes, Ages DEF enq, q_we
<1>7. Reads(0)' + Running' + Len(rs') <= Tags
  <2> HIDE DEF new
  <2>1. Reads(0) + Running + Len(rs) <= Tags
    BY DEF TagsApart
  <2>2. /\ Reads(0) \in Nat /\ Running \in Nat /\ Len(rs) \in Nat /\ Len(rs') \in Nat /\ Tags \in Nat
        /\ Len(rs') <= Len(rs)
    BY <1>4, CountTypes
  <2>3. CASE new = 0
    BY <1>2, <1>c, <2>1, <2>2, <2>3
  <2>4. CASE new = 1
    BY <1>2, <1>c, <1>5, <2>2, <2>4
  <2>5. QED
    BY <1>t, <2>3, <2>4
<1>8. (PHASE /\ bus.rd /\ ~issued /\ ~done)' => Reads(0)' + Running' + Len(rs') < Tags
  <2> SUFFICES ASSUME (PHASE /\ bus.rd /\ ~issued /\ ~done)'
               PROVE  Reads(0)' + Running' + Len(rs') < Tags
    OBVIOUS
  <2>1. PHASE /\ bus.rd /\ ~issued' /\ ~done'
    BY <1>1 DEF PHASE
  <2>2. ~issued /\ ~done /\ ~enq
    BY <2>1 DEF CpuClk, Strobes, enq
  <2>3. Reads(0) + Running + Len(rs) < Tags /\ new = 0
    BY <2>1, <2>2 DEF TagsApart
  <2> HIDE DEF new
  <2>4. QED
    BY <1>2, <1>c, <1>4, <2>3, CountTypes
<1>9. ASSUME NEW k \in 1 .. Len(rq'), ~rq'[k].we
      PROVE  Age(tag', rq'[k].tag) = Reads(k)'
  <2>1. CASE k \in 1 .. Len(rq)
    <3>1. rq'[k] = rq[k] /\ ~rq[k].we /\ rq[k].tag \in 0 .. Tags - 1 /\ Reads(k) \in Nat
      BY <1>3, <1>9, <2>1, CountTypes
    <3>2. Age(tag, rq[k].tag) = Reads(k) /\ Reads(k) < Reads(0)
      BY <2>1, <3>1, ReadsBehind DEF TagsApart
    <3>3. Age(tag, rq[k].tag) < Reads(0) + Running + Len(rs)
      BY <3>1, <3>2, CountTypes
    <3>4. Reads(k)' = Reads(k) + new
      <4> HIDE DEF new
      <4>1. k \in 0 .. Len(rq)
        BY <2>1, CountTypes
      <4>2. QED
        BY <1>3, <4>1
    <3> HIDE DEF new
    <3>5. QED
      BY <1>6, <3>1, <3>2, <3>3, <3>4
  <2>2. CASE k \notin 1 .. Len(rq)
    <3>1. enq /\ k = Len(rq) + 1
      <4> HIDE DEF new
      <4>1. QED
        BY <1>3, <2>2, CountTypes
    <3>2. rq'[k] = Request /\ Reads(k)' = 0
      <4> HIDE DEF new
      <4>1. k \in Nat
        BY <3>1, CountTypes
      <4>2. QED
        BY <1>3, <3>1, <4>1
    <3>3. ~q_we /\ Request.tag = tag_next
      BY <1>9, <1>w, <3>1, <3>2
    <3>4. new = 1
      BY <3>1, <3>3
    <3> HIDE DEF new
    <3>5. QED
      BY <1>n, <3>2, <3>3, <3>4
  <2>3. QED
    BY <2>1, <2>2
<1>10. (busy /\ ~c.we)' => Age(tag', c'.tag) = Reads(0)'
  <2> SUFFICES ASSUME busy, ~c.we PROVE Age(tag', c.tag) = Reads(0)'
    BY <1>1
  <2>1. Running = 1 /\ Age(tag, c.tag) = Reads(0) /\ c.tag \in 0 .. Tags - 1
    BY CountTypes DEF Running, TagsApart
  <2>2. Age(tag, c.tag) < Reads(0) + Running + Len(rs)
    BY <2>1, CountTypes
  <2> HIDE DEF new
  <2>3. QED
    BY <1>6, <1>c, <2>1, <2>2
<1>11. ASSUME NEW k \in 1 .. Len(rs')
       PROVE  Age(tag', rs'[k].tag) = Reads(0)' + Running' + Len(rs') - k
  <2> DEFINE j == k + (IF rs_pop THEN 1 ELSE 0)
  <2>0. j \in 1 .. Len(rs) /\ rs'[k] = rs[j] /\ Len(rs') = Len(rs) - (IF rs_pop THEN 1 ELSE 0)
    BY <1>4
  <2>1. /\ j \in 1 .. Len(rs) /\ rs'[k] = rs[j] /\ Len(rs') - k = Len(rs) - j
        /\ rs[j].tag \in 0 .. Tags - 1
    BY <1>4, <2>0, CountTypes
  <2> HIDE DEF j, new
  <2>2. Age(tag, rs[j].tag) = Reads(0) + Running + Len(rs) - j
    BY <2>1 DEF TagsApart
  <2>3. Age(tag, rs[j].tag) < Reads(0) + Running + Len(rs)
    <3>1. Reads(0) \in Nat /\ Running \in Nat /\ Len(rs) \in Nat /\ j \in Nat /\ j >= 1
      BY <2>1, CountTypes
    <3>2. QED
      BY <2>2, <3>1
  <2>4. Age(tag', rs[j].tag) = Age(tag, rs[j].tag) + new
    BY <1>6, <2>1, <2>3
  <2>5. Len(rs') \in Nat /\ Len(rs) \in Nat /\ k \in Nat /\ j \in Nat /\ new \in {0, 1}
    BY <1>4, <1>t, <2>1, CountTypes
  <2>6. Reads(0) \in Nat /\ Running \in Nat
    BY CountTypes
  <2>7. Age(tag', rs'[k].tag) = Age(tag, rs[j].tag) + new
    BY <2>1, <2>4
  <2>8. Age(tag', rs'[k].tag) = Reads(0) + Running + Len(rs) - j + new
    BY <2>2, <2>7
  <2>9. Reads(0)' + Running' + Len(rs') - k = Reads(0) + new + Running + (Len(rs) - j)
    BY <1>2, <1>c, <2>1, <2>5, <2>6
  <2>10. QED
    BY <2>5, <2>6, <2>8, <2>9
<1>12. QED
  BY <1>7, <1>8, <1>9, <1>10, <1>11 DEF TagsApart

\* What the queue starts next was its head; the reads behind it are the rest.
LEMMA TagsOnWbClk ==
  ASSUME TInv, TagsApart, WbClk
  PROVE  TagsApart'
<1>1. rs' = rs /\ UNCHANGED <<cpuregs, bus>>
  BY WbClkStep DEF WbClk
<1>2. tag' = tag /\ (PHASE' <=> PHASE) /\ bus' = bus /\ issued' = issued /\ done' = done
  BY <1>1 DEF cpuregs, PHASE
<1>3. CASE start
  <2>1. rq # <<>> /\ rq' = Tail(rq) /\ ~busy /\ busy' /\ c' = rq[1]
    BY <1>3, WbClkStep
  <2>2. /\ Len(rq) > 0 /\ Len(rq') = Len(rq) - 1
        /\ \A k \in 1 .. Len(rq') : rq'[k] = rq[k + 1] /\ k + 1 \in 1 .. Len(rq)
    BY <2>1, CountTypes
  <2>3. \A k \in Nat : Reads(k)' = Reads(k + 1)
    BY <2>1, CountTypes, ReadsTail
  <2>4. Reads(0)' = Reads(1)
    <3>1. Reads(0)' = Reads(0 + 1)
      BY <2>3
    <3>2. 0 + 1 = 1
      OBVIOUS
    <3>3. QED
      BY <3>1, <3>2
  <2>5. Reads(0) = Reads(1) + (IF rq[1].we THEN 0 ELSE 1)
    BY <2>1, CountTypes, ReadsHead
  <2>6. Running = 0 /\ Running' = (IF rq[1].we THEN 0 ELSE 1)
    BY <2>1 DEF Running
  <2>7. Reads(1) \in Nat /\ rq[1] \in Requests
    BY <2>2, CountTypes
  <2>8. Reads(0)' + Running' = Reads(0) + Running
    BY <2>4, <2>5, <2>6, <2>7
  <2>9. ASSUME NEW k \in 1 .. Len(rq'), ~rq'[k].we PROVE Age(tag', rq'[k].tag) = Reads(k)'
    <3>1. rq'[k] = rq[k + 1] /\ k + 1 \in 1 .. Len(rq) /\ k \in Nat
      BY <2>2
    <3>2. Reads(k)' = Reads(k + 1)
      BY <2>3, <3>1
    <3>3. QED
      BY <1>2, <2>9, <3>1, <3>2 DEF TagsApart
  <2>10. ~c'.we => Age(tag', c'.tag) = Reads(0)'
    <3>1. 1 \in 1 .. Len(rq)
      BY <2>2, CountTypes
    <3>2. QED
      BY <1>2, <2>1, <2>4, <3>1 DEF TagsApart
  <2>11. QED
    BY <1>1, <1>2, <2>8, <2>9, <2>10 DEF TagsApart
<1>4. CASE ~start
  <2>1. rq' = rq /\ busy' = busy /\ c' = c
    BY <1>4, WbClkStep
  <2>2. \A k : Reads(k)' = Reads(k)
    BY <2>1 DEF Reads, ReadsAfter
  <2>3. QED
    BY <1>1, <1>2, <2>1, <2>2 DEF TagsApart, Running
<1>5. QED
  BY <1>3, <1>4

\* A read that is answered takes its place at the end of the answers.
LEMMA TagsOnWbAck ==
  ASSUME TInv, TagsApart, WbAck
  PROVE  TagsApart'
<1>1. /\ busy /\ ~busy' /\ rq' = rq /\ c \in Requests
      /\ IF c.we THEN rs' = rs ELSE Answer \in Answers /\ rs' = Append(rs, Answer)
      /\ UNCHANGED <<cpuregs, bus>>
  BY WbAckStep DEF WbAck
<1>2. tag' = tag /\ (PHASE' <=> PHASE) /\ bus' = bus /\ issued' = issued /\ done' = done
  BY <1>1 DEF cpuregs, PHASE
<1>3. \A k : Reads(k)' = Reads(k)
  BY <1>1 DEF Reads, ReadsAfter
<1>4. Running' = 0 /\ Running = IF c.we THEN 0 ELSE 1
  BY <1>1 DEF Running
<1>5. \A k \in 1 .. Len(rq') : ~rq'[k].we => Age(tag', rq'[k].tag) = Reads(k)'
  BY <1>1, <1>2, <1>3 DEF TagsApart
<1>6. CASE c.we
  <2>1. rs' = rs /\ Running' = Running
    BY <1>1, <1>4, <1>6
  <2>2. QED
    BY <1>1, <1>2, <1>3, <1>5, <2>1 DEF TagsApart
<1>7. CASE ~c.we
  <2>1. /\ Len(rs') = Len(rs) + 1 /\ rs'[Len(rs) + 1].tag = c.tag
        /\ \A k \in 1 .. Len(rs) : rs'[k] = rs[k]
    BY <1>1, <1>7, CountTypes DEF Answer
  <2>2. Running = 1 /\ Running' = 0 /\ Reads(0)' = Reads(0)
    BY <1>3, <1>4, <1>7
  <2>3. Reads(0)' + Running' + Len(rs') = Reads(0) + Running + Len(rs)
    BY <2>1, <2>2, CountTypes
  <2>4. ASSUME NEW k \in 1 .. Len(rs')
        PROVE  Age(tag', rs'[k].tag) = Reads(0)' + Running' + Len(rs') - k
    <3>1. CASE k \in 1 .. Len(rs)
      <4>1. Age(tag, rs[k].tag) = Reads(0) + Running + Len(rs) - k
        BY <3>1 DEF TagsApart
      <4>2. Age(tag', rs'[k].tag) = Age(tag, rs[k].tag)
        BY <1>2, <2>1, <3>1
      <4>3. Reads(0) + Running + Len(rs) - k = Reads(0)' + Running' + Len(rs') - k
        BY <2>1, <2>2, CountTypes
      <4>4. QED
        BY <4>1, <4>2, <4>3
    <3>2. CASE k = Len(rs) + 1
      <4>1. Age(tag, c.tag) = Reads(0) /\ rs'[k].tag = c.tag
        BY <1>1, <1>7, <2>1, <3>2 DEF TagsApart
      <4>2. QED
        BY <1>2, <2>1, <2>2, <3>2, <4>1, CountTypes
    <3>3. QED
      BY <2>1, <3>1, <3>2, CountTypes
  <2>5. QED
    BY <1>1, <1>2, <1>5, <2>3, <2>4 DEF TagsApart
<1>8. QED
  BY <1>6, <1>7

\* A read is begun only with a tag to spare.
LEMMA TagsOnMasters ==
  ASSUME TInv, TagsApart, MastersMove \/ UNCHANGED vars
  PROVE  TagsApart'
<1>1. UNCHANGED <<cpuregs, queues, wbregs>>
  BY MasterStep
<1>2. /\ tag' = tag /\ rq' = rq /\ rs' = rs /\ busy' = busy /\ c' = c
      /\ issued' = issued /\ done' = done
  BY <1>1 DEF cpuregs, queues, wbregs
<1>3. (\A k : Reads(k)' = Reads(k)) /\ Running' = Running
  BY <1>2 DEF Reads, ReadsAfter, Running
<1>4. (PHASE /\ bus.rd /\ ~issued /\ ~done)' => Reads(0) + Running + Len(rs) < Tags
  <2>1. CASE EndPhase
    BY <2>1 DEF EndPhase, PHASE
  <2>2. CASE MoveAddress
    BY <2>2 DEF MoveAddress, PHASE
  <2>3. ASSUME NEW ph \in M!Phases, BeginPhase(ph), (PHASE /\ bus.rd)'
        PROVE  Reads(0) + Running + Len(rs) < Tags
    <3>1. Outstanding < Tags
      BY <2>3 DEF BeginPhase
    <3>2. Outstanding = Reads(0) + Len(rs) + Running
      BY DEF Outstanding, Reads, Running
    <3>3. QED
      BY <3>1, <3>2, CountTypes
  <2>4. CASE UNCHANGED vars
    BY <2>4 DEF vars, PHASE, TagsApart, cpuregs
  <2>5. QED
    BY <2>1, <2>2, <2>3, <2>4 DEF MastersMove
<1>5. QED
  BY <1>2, <1>3, <1>4 DEF TagsApart
-----------------------------------------------------------------------------
(* The answer the machine waits for.                                        *)

AwaitedOne(r) == ~r.we /\ r.tag = tag /\ r.a = adr

\* The read that is waited for is the last thing queued, or it is with the
\* memory and nothing is queued, or it was the last to be answered and nothing
\* has been performed since.
Awaited ==
  PHASE /\ issued /\ ~done /\ bus.rd =>
    /\ rq # <<>> => AwaitedOne(rq[Len(rq)])
    /\ rq = <<>> /\ busy => AwaitedOne(c)
    /\ rq = <<>> /\ ~busy => rs # <<>> /\ rs[Len(rs)].tag = tag /\ rs[Len(rs)].line = mem[adr]

\* An answer with the awaited tag is the awaited answer, and it is fresh.
LEMMA OursIsAwaited ==
  ASSUME TInv, Strobes, TagsApart, Awaited, rs_ours
  PROVE  rq = <<>> /\ ~busy /\ rs[1].line = View[adr]
<1>1. PHASE /\ issued /\ ~done /\ bus.rd /\ rs[1].tag = tag /\ Len(rs) > 0
  BY OursType DEF rs_ours, rd_wait, TInv
<1>2. Reads(0) + Running + Len(rs) - 1 = 0
  <2>1. 1 \in 1 .. Len(rs)
    BY <1>1, CountTypes
  <2>2. Age(tag, rs[1].tag) = Reads(0) + Running + Len(rs) - 1
    BY <2>1 DEF TagsApart
  <2>3. Age(tag, tag) = 0
    BY CountTypes, Ages
  <2>4. QED
    BY <1>1, <2>2, <2>3
<1>3. Reads(0) = 0 /\ Running = 0 /\ Len(rs) = 1
  <2>1. Reads(0) \in Nat /\ (Running = 0 \/ Running = 1) /\ Len(rs) \in Nat
    BY CountTypes
  <2> DEFINE x == Reads(0)
             y == Running
             z == Len(rs)
  <2>2. x \in Nat /\ y \in Nat /\ z \in Nat
    BY <2>1
  <2>3. x + y + z - 1 = 0 /\ z > 0
    BY <1>1, <1>2
  <2> HIDE DEF x, y, z
  <2>4. x = 0 /\ y = 0 /\ z = 1
    BY <2>2, <2>3
  <2>5. QED
    BY <2>4 DEF x, y, z
<1>4. rq = <<>>
  <2>1. SUFFICES ASSUME rq # <<>> PROVE FALSE
    OBVIOUS
  <2>2. Len(rq) \in 1 .. Len(rq)
    BY <2>1, CountTypes
  <2>3. ~rq[Len(rq)].we
    BY <1>1, <2>1 DEF Awaited, AwaitedOne
  <2>4. Reads(Len(rq)) < Reads(0) /\ Reads(Len(rq)) \in Nat
    BY <2>2, <2>3, ReadsBehind, CountTypes
  <2>5. QED
    BY <1>3, <2>4
<1>5. ~busy
  BY <1>1, <1>3, <1>4 DEF Awaited, AwaitedOne, Running
<1>6. View = mem
  BY <1>4, <1>5, ViewAtRest DEF TInv
<1>7. QED
  BY <1>1, <1>3, <1>4, <1>5, <1>6 DEF Awaited

\* An edge of CLK queues the read, or leaves it where it is until its answer
\* is taken.
LEMMA AwaitedOnCpuClk ==
  ASSUME TInv, Strobes, Awaited, CpuClk
  PROVE  Awaited'
<1> SUFFICES ASSUME (PHASE /\ issued /\ ~done /\ bus.rd)'
             PROVE  (/\ rq # <<>> => AwaitedOne(rq[Len(rq)])
                     /\ rq = <<>> /\ busy => AwaitedOne(c)
                     /\ rq = <<>> /\ ~busy => rs # <<>> /\ rs[Len(rs)].tag = tag
                                              /\ rs[Len(rs)].line = mem[adr])'
  BY DEF Awaited
<1>1. /\ IF enq THEN Request \in Requests /\ rq' = Append(rq, Request) ELSE rq' = rq
      /\ IF rs_pop THEN rs # <<>> /\ rs' = Tail(rs) ELSE rs' = rs
      /\ busy' = busy /\ c' = c /\ mem' = mem /\ bus' = bus /\ adr' = adr
      /\ tag' = IF enq /\ ~q_we THEN tag_next ELSE tag
  BY CpuClkStep DEF CpuClk, wbregs
<1>2. PHASE /\ bus.rd /\ ENABLE /\ (issued \/ enq) /\ ~done /\ ~rs_ours
  BY <1>1 DEF CpuClk, PHASE
<1>3. CASE enq
  <2>1. Request = [tag |-> tag_next, we |-> FALSE, a |-> adr] /\ tag' = tag_next
    BY <1>1, <1>2, <1>3 DEF Request, q_we
  <2>2. rq \in Seq(Requests) /\ rq' = Append(rq, Request) /\ Request \in Requests
    BY <1>1, <1>3, CountTypes
  <2>3. rq' # <<>> /\ rq'[Len(rq')] = Request
    BY <2>2
  <2>4. QED
    BY <1>1, <2>1, <2>3 DEF AwaitedOne
<1>4. CASE ~enq
  <2>1. issued /\ rq' = rq /\ tag' = tag
    BY <1>1, <1>2, <1>4
  <2>2. /\ rq # <<>> => AwaitedOne(rq[Len(rq)])
        /\ rq = <<>> /\ busy => AwaitedOne(c)
        /\ rq = <<>> /\ ~busy => rs # <<>> /\ rs[Len(rs)].tag = tag /\ rs[Len(rs)].line = mem[adr]
    BY <1>2, <2>1 DEF Awaited
  <2>3. ASSUME rq = <<>>, ~busy
        PROVE  rs' # <<>> /\ rs'[Len(rs')] = rs[Len(rs)]
    <3>1. rs # <<>> /\ rs[Len(rs)].tag = tag /\ rs \in Seq(Answers)
      BY <2>2, <2>3, CountTypes
    <3>2. CASE rs_pop
      <4>1. rs' = Tail(rs)
        BY <1>1, <3>2
      <4>2. rs_vis # 0
        BY <3>2 DEF rs_pop, rs_ours, RS!Empty
      <4>3. Len(rs) # 1
        BY <1>2, <2>1, <3>1, <4>2 DEF rs_ours, rd_wait, RS!Empty
      <4>4. Len(rs) \in Nat /\ Len(rs) > 0
        BY <3>1
      <4>5. Len(rs) \in Nat /\ Len(rs) > 1
        <5>1. \A n \in Nat : n > 0 /\ n # 1 => n > 1
          OBVIOUS
        <5>2. QED
          BY <4>3, <4>4, <5>1
      <4>6. Len(rs') = Len(rs) - 1 /\ rs'[Len(rs) - 1] = rs[Len(rs)] /\ Len(rs') # 0
        BY <3>1, <4>1, <4>5
      <4>7. QED
        BY <4>6
    <3>3. CASE ~rs_pop
      BY <1>1, <3>1, <3>3
    <3>4. QED
      BY <3>2, <3>3
  <2>4. QED
    BY <1>1, <2>1, <2>2, <2>3 DEF AwaitedOne
<1>5. QED
  BY <1>3, <1>4

\* The memory's side carries it on from the queue to the answers.
LEMMA AwaitedOnWb ==
  ASSUME TInv, Awaited, WbClk \/ WbAck
  PROVE  Awaited'
<1>0. /\ UNCHANGED <<tag, bus, adr, issued, done>> /\ (PHASE' <=> PHASE)
      /\ rq \in Seq(Requests) /\ rs \in Seq(Answers)
  BY CountTypes DEF WbClk, WbAck, cpuregs, PHASE
<1> SUFFICES ASSUME PHASE, issued, ~done, bus.rd
             PROVE  (/\ rq # <<>> => AwaitedOne(rq[Len(rq)])
                     /\ rq = <<>> /\ busy => AwaitedOne(c)
                     /\ rq = <<>> /\ ~busy => rs # <<>> /\ rs[Len(rs)].tag = tag
                                              /\ rs[Len(rs)].line = mem[adr])'
  BY <1>0 DEF Awaited
<1>1. /\ rq # <<>> => AwaitedOne(rq[Len(rq)])
      /\ rq = <<>> /\ busy => AwaitedOne(c)
      /\ rq = <<>> /\ ~busy => rs # <<>> /\ rs[Len(rs)].tag = tag /\ rs[Len(rs)].line = mem[adr]
  BY DEF Awaited
<1>2. CASE WbClk /\ start
  <2>1. rq # <<>> /\ rq' = Tail(rq) /\ busy' /\ c' = rq[1]
    BY <1>2, WbClkStep
  <2>2. rq' # <<>> => rq'[Len(rq')] = rq[Len(rq)]
    BY <1>0, <2>1
  <2>3. rq' = <<>> => Len(rq) = 1
    <3>1. Len(rq) \in Nat /\ Len(rq) > 0 /\ Len(rq') = Len(rq) - 1
      BY <1>0, <2>1
    <3>2. rq' = <<>> => Len(rq') = 0
      OBVIOUS
    <3>3. QED
      BY <3>1, <3>2
  <2>4. QED
    BY <1>0, <1>1, <2>1, <2>2, <2>3 DEF AwaitedOne
<1>3. CASE WbClk /\ ~start
  <2>1. rq' = rq /\ busy' = busy /\ c' = c /\ rs' = rs /\ mem' = mem
    BY <1>3, WbClkStep DEF WbClk
  <2>2. QED
    BY <1>0, <1>1, <2>1 DEF AwaitedOne
<1>4. CASE WbAck
  <2>1. /\ busy /\ ~busy' /\ rq' = rq /\ mem' = Performed(mem, c)
        /\ IF c.we THEN rs' = rs ELSE Answer \in Answers /\ rs' = Append(rs, Answer)
    BY <1>4, WbAckStep
  <2>2. CASE rq # <<>>
    BY <1>0, <1>1, <2>1, <2>2 DEF AwaitedOne
  <2>3. CASE rq = <<>>
    <3>1. ~c.we /\ c.tag = tag /\ c.a = adr
      BY <1>1, <2>1, <2>3 DEF AwaitedOne
    <3>2. rs' = Append(rs, Answer) /\ mem' = mem
      BY <2>1, <3>1 DEF Performed
    <3>3. rs' # <<>> /\ rs'[Len(rs')] = Answer
      BY <1>0, <3>2
    <3>4. QED
      BY <1>0, <2>1, <2>3, <3>1, <3>2, <3>3 DEF Answer
  <2>4. QED
    BY <2>2, <2>3
<1>5. QED
  BY <1>2, <1>3, <1>4

\* A phase that begins waits for nothing yet, one that ends for nothing more.
LEMMA AwaitedOnMasters ==
  ASSUME TInv, Awaited, MastersMove \/ UNCHANGED vars
  PROVE  Awaited'
<1>1. UNCHANGED <<cpuregs, queues, wbregs>>
  BY MasterStep
<1>2. CASE EndPhase
  BY <1>2 DEF EndPhase, Awaited, PHASE
<1>3. CASE MoveAddress
  BY <1>3 DEF MoveAddress, Awaited, PHASE
<1>4. ASSUME NEW ph \in M!Phases, BeginPhase(ph) PROVE Awaited'
  BY <1>4 DEF BeginPhase, Awaited, cpuregs
<1>5. CASE UNCHANGED vars
  BY <1>5 DEF vars, Awaited, AwaitedOne, PHASE, cpuregs, queues, wbregs
<1>6. QED
  BY <1>2, <1>3, <1>4, <1>5 DEF MastersMove
-----------------------------------------------------------------------------
(* The cache.                                                               *)

\* The sweep leaves nothing valid behind it.
Swept == ~swp_done => \A k \in 0 .. swp - 1 : tmem[k] = Invalid

\* A lookup is of the entry as it is, unless it was being written.
LookedUp ==
  swp_done /\ ~lk_cwr => tq = tmem[SetOf[lk_line]] /\ dq = dmem[SetOf[lk_line]]

CInv == Swept /\ LookedUp /\ CacheCoherent

\* A hit is what memory will hold.
LEMMA HitIsFresh ==
  ASSUME TInv, CInv, CACHEABLE, lk_hit
  PROVE  /\ adr \in MemLines /\ cur_line = adr
         /\ tmem[cur_idx] = cur_tag /\ dq = dmem[cur_idx] /\ dq = View[adr]
<1>1. adr \in MemLines /\ cur_line = adr
  BY LineOfAddress DEF TInv, RegistersOK
<1>2. tq = tmem[cur_idx] /\ dq = dmem[cur_idx] /\ tq = cur_tag /\ swp_done
  BY DEF CInv, LookedUp, lk_hit, lk_ok, cur_idx
<1>3. dmem[SetOf[adr]] = View[adr]
  BY <1>1, <1>2 DEF CInv, CacheCoherent, cur_idx, cur_tag
<1>4. QED
  BY <1>1, <1>2, <1>3 DEF cur_idx

\* A write in the queue changes no line but its own.
LEMMA ViewElsewhere ==
  ASSUME TInv, CpuClk, NEW l \in Locations, ~(enq /\ q_we /\ l = adr)
  PROVE  View'[l] = View[l]
<1>1. CASE enq
  <2>1. View' = Performed(View, Request) /\ Request \in Requests
    BY <1>1, ViewOnPush, CpuClkStep
  <2>2. Request.a = adr /\ (Request.we <=> q_we)
    <3>1. CASE q_we
      BY <3>1 DEF Request
    <3>2. CASE ~q_we
      BY <3>2 DEF Request
    <3>3. QED
      BY <3>1, <3>2
  <2>3. QED
    BY <1>1, <2>1, <2>2, ViewType, PerformedAt
<1>2. CASE ~enq
  BY <1>2, ViewOnPush
<1>3. QED
  BY <1>1, <1>2

\* A write in the queue changes its own line.
LEMMA ViewWritten ==
  ASSUME TInv, CpuClk, enq, q_we
  PROVE  /\ View' = [View EXCEPT ![adr] = M!Merge(@, bus.b, bus.d)]
         /\ View'[adr] = M!Merge(View[adr], bus.b, bus.d)
<1>1. View' = Performed(View, Request)
  BY ViewOnPush
<1>2. Request.a = adr /\ Request.we /\ Request.b = bus.b /\ Request.d = bus.d
  BY DEF Request
<1>3. adr \in Locations
  BY DEF TInv, RegistersOK
<1>4. QED
  BY <1>1, <1>2, <1>3, ViewType DEF Performed

\* The cache's one write port keeps every valid line up with the queue.
LEMMA CoherentOnCpuClk ==
  ASSUME TInv, TInv', Strobes, TagsApart, Awaited, CInv, CpuClk
  PROVE  CInv'
<1>0. /\ CacheOK /\ adr \in Locations /\ MemLines \subseteq Locations
      /\ NSets \in Nat /\ NSets > 0 /\ swp \in 0 .. NSets
      /\ tmem' = tmem_next /\ dmem' = dmem_next /\ CacheClk
      /\ swp' = (IF swp_done THEN swp ELSE swp + 1)
  BY CachedAssumption DEF TInv, RegistersOK, CacheOK, CpuClk, CacheClk, Locations
<1>i. /\ cur_line \in MemLines /\ cur_idx \in 0 .. NSets - 1
      /\ cur_tag \in CacheTags /\ cur_tag # Invalid
  BY <1>0, LineOfAddress
<1>1. CASE ~swp_done
  <2>1. swp \in 0 .. NSets - 1 /\ swp' = swp + 1
    BY <1>0, <1>1 DEF swp_done
  <2>2. \A k \in 0 .. swp : tmem'[k] = Invalid
    <3> TAKE k \in 0 .. swp
    <3>1. tmem' = [tmem EXCEPT ![swp] = Invalid] /\ k \in 0 .. NSets - 1
      BY <1>0, <1>1, <2>1 DEF tmem_next
    <3>2. k = swp \/ k \in 0 .. swp - 1
      BY <2>1
    <3>3. QED
      BY <1>0, <1>1, <3>1, <3>2 DEF CacheOK, CInv, Swept
  <2>3. Swept'
    BY <2>1, <2>2 DEF Swept
  <2>4. LookedUp'
    BY <1>0, <1>1 DEF LookedUp, CacheClk, cache_we
  <2>5. CacheCoherent'
    <3> SUFFICES ASSUME swp_done', NEW l \in MemLines, tmem'[SetOf[l]] = TagOf[l]
                 PROVE  FALSE
      BY DEF CacheCoherent
    <3>1. swp + 1 = NSets
      BY <2>1 DEF swp_done
    <3>2. SetOf[l] \in 0 .. swp /\ TagOf[l] # Invalid
      BY <2>1, <3>1, CachedAssumption
    <3>3. QED
      BY <2>2, <3>2
  <2>6. QED
    BY <2>3, <2>4, <2>5 DEF CInv
<1>2. CASE swp_done
  <2>1. swp_done' /\ Swept'
    BY <1>0, <1>2 DEF swp_done, Swept
  <2>2. LookedUp'
    <3> SUFFICES ASSUME ~lk_cwr'
                 PROVE  tq' = tmem'[SetOf[lk_line']] /\ dq' = dmem'[SetOf[lk_line']]
      BY DEF LookedUp
    <3>1. ~fill /\ ~update /\ ~invalidate
      BY <1>0 DEF CacheClk, cache_we
    <3>2. tmem_next = tmem /\ dmem_next = dmem
      BY <1>2, <3>1 DEF tmem_next, dmem_next
    <3>3. QED
      BY <1>0, <3>2 DEF CacheClk, cur_idx
  <2>3. CacheCoherent'
    <3> SUFFICES ASSUME NEW l \in MemLines, tmem'[SetOf[l]] = TagOf[l]
                 PROVE  dmem'[SetOf[l]] = View'[l]
      BY DEF CacheCoherent
    <3>1. /\ SetOf[l] \in 0 .. NSets - 1 /\ TagOf[l] # Invalid /\ l \in Locations
          /\ tmem[SetOf[l]] = TagOf[l] => dmem[SetOf[l]] = View[l]
      BY <1>0, <1>2, CachedAssumption DEF CInv, CacheCoherent
    <3>2. CASE fill
      \* The answer is the line as it will be, and nothing is queued on that edge.
      <4>1. rs_ours /\ CACHEABLE /\ ~enq
        BY <3>2 DEF fill, rs_ours, rd_wait, enq
      <4>2. rs[1].line = View[adr] /\ cur_line = adr
        BY <1>0, <4>1, OursIsAwaited, LineOfAddress
      <4>3. View'[l] = View[l]
        BY <3>1, <4>1, ViewElsewhere
      <4>4. /\ tmem' = [tmem EXCEPT ![cur_idx] = cur_tag]
            /\ dmem' = [dmem EXCEPT ![cur_idx] = rs[1].line]
        BY <1>0, <1>2, <3>2 DEF tmem_next, dmem_next
      <4>5. CASE SetOf[l] = cur_idx
        <5>1. TagOf[l] = cur_tag
          BY <1>0, <1>i, <4>4, <4>5 DEF CacheOK
        <5>2. l = adr
          BY <1>0, <4>2, <4>5, <5>1, OwnEntry
        <5>3. dmem'[SetOf[l]] = rs[1].line
          BY <1>0, <1>i, <4>4, <4>5 DEF CacheOK
        <5>4. QED
          BY <4>2, <4>3, <5>2, <5>3
      <4>6. CASE SetOf[l] # cur_idx
        <5>1. tmem'[SetOf[l]] = tmem[SetOf[l]] /\ dmem'[SetOf[l]] = dmem[SetOf[l]]
          BY <1>0, <3>1, <4>4, <4>6 DEF CacheOK
        <5>2. QED
          BY <3>1, <4>3, <5>1
      <4>7. QED
        BY <4>5, <4>6
    <3>3. CASE ~fill /\ update
      \* A write that hits brings the line up to itself.
      <4>1. enq /\ q_we /\ CACHEABLE /\ lk_hit /\ lk_ok
        BY <3>3 DEF update, wr_now, lk_hit
      <4>2. /\ adr \in MemLines /\ cur_line = adr /\ tmem[cur_idx] = cur_tag
            /\ dmem[cur_idx] = View[adr]
        BY <4>1, HitIsFresh
      <4>3. /\ tmem' = tmem
            /\ dmem' = [dmem EXCEPT ![cur_idx] = M!Merge(@, bus.b, bus.d)]
        BY <1>0, <1>2, <3>3, <4>1 DEF tmem_next, dmem_next, invalidate
      <4>4. CASE l = adr
        <5>1. SetOf[l] = cur_idx
          BY <4>2, <4>4 DEF cur_idx
        <5>2. dmem'[SetOf[l]] = M!Merge(View[adr], bus.b, bus.d)
          BY <1>0, <1>i, <4>2, <4>3, <5>1 DEF CacheOK
        <5>3. QED
          BY <4>1, <4>4, <5>2, ViewWritten
      <4>5. CASE l # adr
        <5>1. SetOf[l] # cur_idx
          BY <1>0, <4>2, <4>3, <4>5, OwnEntry
        <5>2. dmem'[SetOf[l]] = dmem[SetOf[l]]
          BY <1>0, <3>1, <4>3, <5>1 DEF CacheOK
        <5>3. QED
          BY <3>1, <4>3, <4>5, <5>2, ViewElsewhere
      <4>6. QED
        BY <4>4, <4>5
    <3>4. CASE ~fill /\ ~update /\ invalidate
      \* A write that cannot tell whether it hits throws the entry out.
      <4>1. CACHEABLE
        BY <3>4 DEF invalidate, wr_now
      <4>2. tmem' = [tmem EXCEPT ![cur_idx] = Invalid] /\ dmem' = dmem
        BY <1>0, <1>2, <3>4 DEF tmem_next, dmem_next
      <4>3. SetOf[l] # cur_idx
        BY <1>0, <1>i, <3>1, <4>2 DEF CacheOK
      <4>4. l # adr
        BY <1>0, <4>1, <4>3, LineOfAddress DEF cur_idx
      <4>5. tmem'[SetOf[l]] = tmem[SetOf[l]]
        BY <1>0, <3>1, <4>2, <4>3 DEF CacheOK
      <4>6. QED
        BY <3>1, <4>2, <4>4, <4>5, ViewElsewhere
    <3>5. CASE ~fill /\ ~update /\ ~invalidate
      \* A write that misses, one to the frame buffer, or no write.
      <4>1. tmem' = tmem /\ dmem' = dmem
        BY <1>0, <1>2, <3>5 DEF tmem_next, dmem_next
      <4>2. ~(enq /\ q_we /\ l = adr)
        <5> SUFFICES ASSUME enq, q_we, l = adr PROVE FALSE
          OBVIOUS
        <5>1. CACHEABLE /\ wr_now
          BY CachedAssumption DEF CACHEABLE, wr_now
        <5>2. lk_ok /\ ~lk_hit /\ cur_line = adr
          BY <1>0, <3>5, <5>1, LineOfAddress DEF invalidate, update
        <5>3. tq = tmem[cur_idx] /\ tq # cur_tag
          BY <5>2 DEF lk_hit, lk_ok, CInv, LookedUp, cur_idx
        <5>4. QED
          BY <4>1, <5>2, <5>3 DEF cur_idx, cur_tag
      <4>3. QED
        BY <3>1, <4>1, <4>2, ViewElsewhere
    <3>6. QED
      BY <3>2, <3>3, <3>4, <3>5
  <2>4. QED
    BY <2>1, <2>2, <2>3 DEF CInv
<1>3. QED
  BY <1>1, <1>2

\* Nobody else touches the cache.
LEMMA CoherentElsewhere ==
  ASSUME CInv, UNCHANGED cache, View' = View
  PROVE  CInv'
BY DEF CInv, Swept, LookedUp, CacheCoherent, swp_done, cache
-----------------------------------------------------------------------------
IInv == TInv /\ Strobes /\ TagsApart /\ Awaited /\ CInv

\* Out of reset nothing is queued, and nothing in the cache counts.
LEMMA InitIInv == Init => IInv
<1> SUFFICES ASSUME Init PROVE IInv
  OBVIOUS
<1>1. TInv
  <2>1. RegistersOK
    <3>1. 0 \in 0 .. Tags - 1
      BY CachedAssumption
    <3>2. QED
      BY <3>1 DEF Init, RegistersOK
  <2>2. CacheOK
    BY CachedAssumption DEF Init, CacheOK
  <2>3. QueueOK(Requests, ReqDepth, <<>>, 0, 0) /\ QueueOK(Answers, RspDepth, <<>>, 0, 0)
    BY CachedAssumption DEF QueueOK
  <2>4. QED
    BY <2>1, <2>2, <2>3 DEF Init, TInv, RequestsOK, AnswersOK, Room, RQ!Start, RS!Start
<1>2. Strobes
  BY DEF Init, Strobes, PHASE
<1>3. rq = <<>> /\ rs = <<>> /\ ~busy /\ ~PHASE
  BY DEF Init, RQ!Start, RS!Start, PHASE
<1>4. TagsApart
  <2>1. Len(rq) = 0 /\ Len(rs) = 0 /\ Running = 0
    BY <1>3 DEF Running
  <2>2. ReadsAfter(0) = {}
    BY <2>1 DEF ReadsAfter
  <2>3. Reads(0) = 0
    BY <2>2, FS_EmptySet DEF Reads
  <2>4. QED
    BY <1>3, <2>1, <2>3, CachedAssumption DEF TagsApart
<1>5. Awaited
  BY <1>3 DEF Awaited
<1>6. CInv
  <2>1. swp = 0 /\ NSets # 0
    BY CachedAssumption DEF Init
  <2>2. QED
    BY <2>1 DEF CInv, Swept, LookedUp, CacheCoherent, swp_done
<1>7. QED
  BY <1>1, <1>2, <1>4, <1>5, <1>6 DEF IInv

\* Every step keeps all of it.
LEMMA StepIInv == IInv /\ [Next]_vars => IInv'
<1> SUFFICES ASSUME IInv, [Next]_vars PROVE IInv'
  OBVIOUS
<1>0. TInv /\ Strobes /\ TagsApart /\ Awaited /\ CInv
  BY DEF IInv
<1>s. Strobes'
  BY <1>0, StepStrobes
<1>1. CASE CpuClk
  <2>1. TInv'
    BY <1>0, <1>1, CpuClkStep
  <2>2. TagsApart'
    BY <1>0, <1>1, <2>1, TagsOnCpuClk
  <2>3. Awaited'
    BY <1>0, <1>1, AwaitedOnCpuClk
  <2>4. CInv'
    BY <1>0, <1>1, <2>1, CoherentOnCpuClk
  <2>5. QED
    BY <1>s, <2>1, <2>2, <2>3, <2>4 DEF IInv
<1>2. CASE WbClk \/ WbAck
  <2>1. TInv'
    BY <1>0, <1>2, WbClkStep, WbAckStep
  <2>2. TagsApart'
    BY <1>0, <1>2, TagsOnWbClk, TagsOnWbAck
  <2>3. Awaited'
    BY <1>0, <1>2, AwaitedOnWb
  <2>4. UNCHANGED cache /\ View' = View
    BY <1>0, <1>2, ViewOnWb DEF WbClk, WbAck
  <2>5. CInv'
    BY <1>0, <2>4, CoherentElsewhere
  <2>6. QED
    BY <1>s, <2>1, <2>2, <2>3, <2>5 DEF IInv
<1>3. CASE MastersMove \/ UNCHANGED vars
  <2>1. TInv' /\ UNCHANGED <<cpuregs, cache, queues, wbregs>>
    BY <1>0, <1>3, MasterStep
  <2>2. TagsApart' /\ Awaited'
    BY <1>0, <1>3, TagsOnMasters, AwaitedOnMasters
  <2>3. View' = View
    BY <2>1 DEF View, queues, wbregs
  <2>4. CInv'
    BY <1>0, <2>1, <2>3, CoherentElsewhere
  <2>5. QED
    BY <1>s, <2>1, <2>2, <2>4 DEF IInv
<1>4. QED
  BY <1>1, <1>2, <1>3 DEF Next, MastersMove

\* Every register, RAM and queue holds what it should.
THEOREM TypeCorrect == Spec => []TypeOK
<1>1. IInv => TypeOK
  BY TypeParts DEF IInv
<1>2. QED
  BY InitIInv, StepIInv, <1>1, PTL DEF Spec

\* "Why it cannot go stale" (sun2_cached_fifo_bridge.v 14-29): a valid line
\* holds what memory will hold once the writes queued for it are performed.
THEOREM NeverStale == Spec => []CacheCoherent
<1>1. IInv => CacheCoherent
  BY DEF IInv, CInv
<1>2. QED
  BY InitIInv, StepIInv, <1>1, PTL DEF Spec
-----------------------------------------------------------------------------
(* The machine sees one serial memory.                                      *)

Effect == PHASE /\ (IF bus.rd THEN done ELSE issued)

\* Out of reset no phase has had any.
LEMMA InitSerial == Init => Serial!Init
<1> SUFFICES ASSUME Init PROVE Serial!Init
  OBVIOUS
<1>1. TInv /\ bus = NoPhase /\ P_DATA_OUT = <<>>
  BY InitIInv DEF IInv, Init
<1>2. View \in [Locations -> M!Line]
  BY <1>1, ViewType
<1>3. QED
  BY <1>1, <1>2 DEF Serial!Init, Serial!Line, M!Line, Serial!NoPhase, M!NoPhase, NoPhase, PHASE

\* An edge of CLK takes the phase, or nothing that the machine can see.
LEMMA SerialOnCpuClk ==
  ASSUME IInv, CpuClk
  PROVE  Serial!TakeWrite \/ Serial!TakeRead \/ UNCHANGED <<View, bus, Effect, P_DATA_OUT>>
<1>0. TInv /\ Strobes /\ TagsApart /\ Awaited /\ CInv /\ RegistersOK
  BY DEF IInv, TInv
<1>1. /\ bus' = bus /\ (PHASE' <=> PHASE)
      /\ issued' = (ENABLE /\ PHASE /\ (issued \/ enq))
      /\ done' = (ENABLE /\ PHASE /\ (done \/ (issued /\ q_we) \/ rs_ours \/ rd_hit))
  BY DEF CpuClk, PHASE
<1>2. CASE enq /\ q_we
  <2>1. PHASE /\ ~bus.rd /\ ~issued /\ ENABLE /\ adr = bus.a /\ ~rd_hit /\ ~rs_ours
    BY <1>0, <1>2 DEF enq, q_we, Strobes, rs_ours, rd_wait
  <2>2. View' = [View EXCEPT ![bus.a] = M!Merge(@, bus.b, bus.d)]
    BY <1>0, <1>2, <2>1, ViewWritten
  <2>3. P_DATA_OUT' = P_DATA_OUT
    BY <2>1 DEF CpuClk
  <2>4. Effect' /\ ~Effect
    BY <1>1, <1>2, <2>1 DEF Effect
  <2>5. QED
    BY <1>1, <2>1, <2>2, <2>3, <2>4
       DEF Serial!TakeWrite, Serial!Merge, M!Merge, Serial!NoPhase, M!NoPhase, NoPhase, PHASE, Effect
<1>3. CASE rd_hit \/ rs_ours
  <2>1. /\ PHASE /\ bus.rd /\ ENABLE /\ ~done /\ adr = bus.a
        /\ bus.b \in SUBSET Bytes
    BY <1>0, <1>3, PhaseType DEF rd_hit, rs_ours, rd_wait, Strobes, RegistersOK, PHASE
  <2>2. ~enq
    BY <1>3 DEF enq, rd_hit, rs_ours, rd_wait
  <2>3. View' = View
    BY <1>0, <2>2, ViewOnPush
  <2>4. P_DATA_OUT' = [i \in bus.b |-> View[bus.a][i]]
    <3>1. CASE rd_hit
      <4>1. dq = View[adr]
        BY <1>0, <3>1, HitIsFresh DEF rd_hit
      <4>2. ~rs_ours
        BY <3>1 DEF rd_hit, rs_ours, rd_wait
      <4>3. QED
        BY <2>1, <3>1, <4>1, <4>2 DEF CpuClk
    <3>2. CASE rs_ours /\ ~rd_hit
      <4>1. rs[1].line = View[adr]
        BY <1>0, <3>2, OursIsAwaited
      <4>2. QED
        BY <2>1, <3>2, <4>1 DEF CpuClk
    <3>3. QED
      BY <1>3, <3>1, <3>2
  <2>5. Effect' /\ ~Effect
    BY <1>1, <1>3, <2>1 DEF Effect
  <2>6. QED
    BY <1>1, <2>1, <2>3, <2>4, <2>5
       DEF Serial!TakeRead, Serial!NoPhase, M!NoPhase, NoPhase, PHASE, Effect
<1>4. CASE ~(enq /\ q_we) /\ ~rd_hit /\ ~rs_ours
  <2>1. View' = View
    <3>1. CASE enq
      <4>1. ~Request.we /\ View' = Performed(View, Request)
        BY <1>0, <1>4, <3>1, ViewOnPush DEF Request
      <4>2. QED
        BY <4>1 DEF Performed
    <3>2. CASE ~enq
      BY <1>0, <3>2, ViewOnPush
    <3>3. QED
      BY <3>1, <3>2
  <2>2. P_DATA_OUT' = P_DATA_OUT
    BY <1>0, <1>4 DEF CpuClk, Strobes
  <2>3. Effect' = Effect
    BY <1>0, <1>1, <1>4 DEF Effect, Strobes, q_we, RegistersOK
  <2>4. QED
    BY <1>1, <2>1, <2>2, <2>3
<1>5. QED
  BY <1>2, <1>3, <1>4

\* Every step is one of the memory's, or none.
LEMMA StepSerial == IInv /\ [Next]_vars => [Serial!Next]_(Serial!mvars)
<1> SUFFICES ASSUME IInv, [Next]_vars PROVE [Serial!Next]_(Serial!mvars)
  OBVIOUS
<1>0. TInv
  BY DEF IInv
<1>m. Serial!mvars = <<View, bus, Effect, P_DATA_OUT>>
  BY DEF Serial!mvars, Effect
<1>1. CASE CpuClk
  BY <1>1, <1>m, SerialOnCpuClk DEF Serial!Next, Serial!mvars, Effect
<1>2. CASE WbClk \/ WbAck
  <2>1. View' = View /\ UNCHANGED <<cpuregs, bus>>
    BY <1>0, <1>2, ViewOnWb DEF WbClk, WbAck
  <2>2. QED
    BY <2>1 DEF Serial!mvars, cpuregs, PHASE
<1>3. CASE MastersMove \/ UNCHANGED vars
  <2>1. UNCHANGED <<cpuregs, cache, queues, wbregs>>
    BY <1>0, <1>3, MasterStep
  <2>2. View' = View /\ issued' = issued /\ done' = done /\ P_DATA_OUT' = P_DATA_OUT
    BY <2>1 DEF View, queues, wbregs, cpuregs
  <2>3. CASE EndPhase
    BY <2>2, <2>3 DEF EndPhase, PHASE, Serial!Next, Serial!Release, Serial!NoPhase, M!NoPhase, NoPhase
  <2>4. CASE MoveAddress \/ UNCHANGED vars
    BY <2>2, <2>4 DEF MoveAddress, vars, Serial!mvars, PHASE
  <2>5. ASSUME NEW ph \in M!Phases, BeginPhase(ph) PROVE [Serial!Next]_(Serial!mvars)
    <3>1. bus = NoPhase /\ bus' = ph /\ ~issued /\ ~done
      BY <2>5 DEF BeginPhase, PHASE
    <3>2. ph \in Serial!Phases
      BY DEF M!Phases, M!Reads, M!Writes, Serial!Phases, Serial!Reads, Serial!Writes
    <3>3. Serial!Begin(ph)
      BY <2>2, <3>1 DEF Serial!Begin, Serial!NoPhase, M!NoPhase, NoPhase, PHASE
    <3>4. QED
      BY <3>2, <3>3 DEF Serial!Next
  <2>6. QED
    BY <1>3, <2>3, <2>4, <2>5 DEF MastersMove
<1>4. QED
  BY <1>1, <1>2, <1>3 DEF Next, MastersMove

\* With the cache in front, the frame buffer aliased beneath it and masters
\* reset under their phases, the machine still sees one memory: every step of
\* the bridge is a step of the serial memory, or one the machine cannot see.
THEOREM OneMemory == Spec => SerialMemorySpec
<1>1. IInv /\ [Next]_vars => [Serial!Next]_(Serial!mvars)
  BY StepSerial
<1>2. QED
  BY InitIInv, StepIInv, InitSerial, <1>1, PTL DEF Spec, SerialMemorySpec, Serial!Spec
=============================================================================
