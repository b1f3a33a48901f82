------------------------- MODULE MemoryPathsProofs -------------------------
(***************************************************************************)
(* One serial memory behind either bridge, for any memory, any number of    *)
(* tags, any depths of the queued bridge's FIFOs, any relation of the two   *)
(* clocks, and masters that are reset under their phases.  The synchronous  *)
(* bridge, which has no tags, spoils one phase after an abandoned one.      *)
(***************************************************************************)
EXTENDS MemoryPaths, FiniteSetTheorems, NaturalsInduction, TLAPS

\* The order of the naturals.
Below == {p \in Nat \X Nat : p[1] < p[2]}

\* It is well founded: among some of them one is least.
LEMMA LeastOf ==
  ASSUME NEW K \in SUBSET Nat, K # {}
  PROVE  \E m \in K : \A k \in K : m <= k
<1>1. IsWellFoundedOn(Below, Nat)
  BY NatLessThanWellFounded DEF OpToRel, Below
<1>2. PICK m \in K : \A k \in K : <<k, m>> \notin Below
  BY <1>1, WFMin
<1>3. ASSUME NEW k \in K PROVE m <= k
  <2>1. k \in Nat /\ m \in Nat /\ <<k, m>> \notin Below
    BY <1>2
  <2>2. ~(k < m)
    BY <2>1 DEF Below
  <2>3. QED
    BY <2>1, <2>2
<1>4. QED
  BY <1>3

\* Max is what its name says.
LEMMA MaxIs ==
  ASSUME NEW K \in SUBSET Int, NEW m \in K, \A k \in K : k <= m
  PROVE  Max(K) = m
<1>1. \A k \in K : m >= k
  <2> TAKE k \in K
  <2>1. k \in Int /\ m \in Int /\ k <= m
    OBVIOUS
  <2>2. QED
    BY <2>1
<1>2. Max(K) \in K /\ \A k \in K : Max(K) >= k
  BY <1>1 DEF Max
<1>3. Max(K) \in Int /\ m \in Int /\ m >= Max(K) /\ Max(K) >= m
  BY <1>1, <1>2
<1>4. QED
  BY <1>3

\* Some positions of a sequence have a last one among them.
LEMMA MaxOf ==
  ASSUME NEW n \in Nat, NEW K \in SUBSET (1 .. n), K # {}
  PROVE  Max(K) \in K /\ \A k \in K : k <= Max(K)
<1> DEFINE D == {n - k : k \in K}
<1>1. D \in SUBSET Nat /\ D # {}
  <2>1. \A k \in K : n - k \in Nat
    OBVIOUS
  <2>2. QED
    BY <2>1
<1>2. PICK d \in D : \A k \in D : d <= k
  BY <1>1, LeastOf
<1>3. PICK m \in K : d = n - m
  BY <1>2
<1>4. \A k \in K : k <= m
  <2> TAKE k \in K
  <2>1. n - m <= n - k /\ k \in 1 .. n /\ m \in 1 .. n
    BY <1>2, <1>3
  <2>2. QED
    BY <2>1
<1>5. K \in SUBSET Int /\ m \in K
  OBVIOUS
<1>6. QED
  BY <1>4, <1>5, MaxIs
-----------------------------------------------------------------------------

\* A request that joins the queue is performed last.
LEMMA AfterAppend ==
  ASSUME NEW mm \in [Lines -> [Bytes -> Byte]], NEW s \in Seq(Requests), NEW r \in Requests
  PROVE  After(mm, Append(s, r)) = Performed(After(mm, s), r)
<1> DEFINE t == Append(s, r)
           n == Len(s)
<1>1. n \in Nat /\ Len(t) = n + 1 /\ t[n + 1] = r /\ (\A k \in 1 .. n : t[k] = s[k])
      /\ DOMAIN s = 1 .. n /\ DOMAIN t = 1 .. n + 1
  OBVIOUS
<1> HIDE DEF t, n
<1>2. ASSUME NEW l \in Lines
      PROVE  After(mm, t)[l] =
               IF r.we /\ r.a = l THEN [i \in Bytes |-> r.d] ELSE After(mm, s)[l]
  <2>1. CASE r.we /\ r.a = l
    <3>1. n + 1 \in WritesTo(t, l) /\ \A k \in WritesTo(t, l) : k \in 1 .. n + 1
      BY <1>1, <2>1 DEF WritesTo
    <3>2. Max(WritesTo(t, l)) = n + 1
      BY <1>1, <3>1, MaxIs
    <3>3. QED
      BY <1>1, <2>1, <3>1, <3>2 DEF After
  <2>2. CASE ~(r.we /\ r.a = l)
    <3>1. WritesTo(t, l) = WritesTo(s, l)
      BY <1>1, <2>2 DEF WritesTo
    <3>2. CASE WritesTo(s, l) = {}
      BY <2>2, <3>1, <3>2 DEF After
    <3>3. CASE WritesTo(s, l) # {}
      <4>1. WritesTo(s, l) \in SUBSET (1 .. n)
        BY <1>1 DEF WritesTo
      <4>2. Max(WritesTo(s, l)) \in 1 .. n
        BY <1>1, <3>3, <4>1, MaxOf
      <4>3. QED
        BY <1>1, <2>2, <3>1, <3>3, <4>2 DEF After
    <3>4. QED
      BY <3>2, <3>3
  <2>3. QED
    BY <2>1, <2>2
<1>3. CASE r.we
  <2>1. \A l \in Lines : After(mm, t)[l] = Performed(After(mm, s), r)[l]
    BY <1>2, <1>3 DEF After, Performed
  <2>2. QED
    BY <1>3, <2>1 DEF After, Performed, t
<1>4. CASE ~r.we
  <2>1. \A l \in Lines : After(mm, t)[l] = After(mm, s)[l]
    BY <1>2, <1>4 DEF After
  <2>2. QED
    BY <1>4, <2>1 DEF After, Performed, t
<1>5. QED
  BY <1>3, <1>4

\* The head of the queue is performed first.
LEMMA AfterHead ==
  ASSUME NEW mm \in [Lines -> [Bytes -> Byte]], NEW s \in Seq(Requests), s # <<>>
  PROVE  After(mm, s) = After(Performed(mm, s[1]), Tail(s))
<1> DEFINE t == Tail(s)
           n == Len(s)
           r == s[1]
<1>1. /\ n \in Nat /\ n > 0 /\ Len(t) = n - 1 /\ (\A k \in 1 .. n - 1 : t[k] = s[k + 1])
      /\ DOMAIN s = 1 .. n /\ DOMAIN t = 1 .. n - 1
      /\ r \in Requests
  OBVIOUS
<1> HIDE DEF t, n
<1>2. r.a \in Lines /\ r.we \in BOOLEAN
  BY <1>1 DEF Requests
<1>3. ASSUME NEW l \in Lines
      PROVE  Performed(mm, r)[l] = IF r.we /\ r.a = l THEN [i \in Bytes |-> r.d] ELSE mm[l]
  BY <1>2 DEF Performed
<1>4. ASSUME NEW l \in Lines
      PROVE  After(mm, s)[l] = After(Performed(mm, r), t)[l]
  <2> DEFINE W == WritesTo(s, l)
             V == WritesTo(t, l)
  <2>1. W \in SUBSET (1 .. n) /\ V \in SUBSET (1 .. n - 1)
    BY <1>1 DEF WritesTo
  <2>2. \A k \in 1 .. n - 1 : k \in V <=> k + 1 \in W
    BY <1>1 DEF WritesTo
  <2>3. 1 \in W <=> r.we /\ r.a = l
    BY <1>1 DEF WritesTo
  <2>4. /\ After(mm, s)[l] = IF W = {} THEN mm[l] ELSE [i \in Bytes |-> s[Max(W)].d]
        /\ After(Performed(mm, r), t)[l] =
             IF V = {} THEN Performed(mm, r)[l] ELSE [i \in Bytes |-> t[Max(V)].d]
    BY DEF After
  <2> HIDE DEF W, V
  <2>5. CASE V # {}
    <3>1. Max(V) \in V /\ \A k \in V : k <= Max(V)
      <4>1. n - 1 \in Nat
        BY <1>1
      <4>2. QED
        BY <4>1, <2>1, <2>5, MaxOf
    <3>a. Max(V) \in 1 .. n - 1
      BY <2>1, <3>1
    <3>2. Max(V) + 1 \in W /\ \A k \in W : k <= Max(V) + 1
      <4>1. Max(V) + 1 \in W
        BY <2>1, <2>2, <3>1
      <4>2. ASSUME NEW k \in W PROVE k <= Max(V) + 1
        <5>1. CASE k = 1
          BY <1>1, <3>a, <5>1
        <5>2. CASE k # 1
          <6>1. k - 1 \in 1 .. n - 1 /\ (k - 1) + 1 = k
            BY <1>1, <2>1, <5>2
          <6>2. k - 1 \in V
            BY <2>2, <6>1
          <6>3. k - 1 <= Max(V) /\ k \in Int /\ Max(V) \in Int
            BY <1>1, <2>1, <3>1, <3>a, <6>2
          <6>4. QED
            BY <6>3
        <5>3. QED
          BY <5>1, <5>2
      <4>3. QED
        BY <4>1, <4>2
    <3>3. Max(W) = Max(V) + 1
      <4>1. W \in SUBSET Int
        BY <2>1
      <4>2. QED
        BY <4>1, <3>2, MaxIs
    <3>4. t[Max(V)] = s[Max(W)]
      BY <1>1, <2>1, <3>1, <3>3
    <3>5. QED
      BY <2>4, <2>5, <3>2, <3>4
  <2>6. CASE V = {}
    <3>1. \A k \in W : k = 1
      <4> TAKE k \in W
      <4>1. SUFFICES ASSUME k # 1 PROVE FALSE
        OBVIOUS
      <4>2. k - 1 \in 1 .. n - 1 /\ (k - 1) + 1 = k
        BY <1>1, <2>1, <4>1
      <4>3. QED
        BY <2>2, <2>6, <4>2
    <3>2. CASE 1 \in W
      <4>1. Max(W) = 1
        BY <3>1, <3>2, <2>1, MaxIs
      <4>2. QED
        BY <1>3, <2>3, <2>4, <2>6, <3>2, <4>1
    <3>3. CASE 1 \notin W
      BY <1>3, <2>3, <2>4, <2>6, <3>1, <3>3
    <3>4. QED
      BY <3>2, <3>3
  <2>7. QED
    BY <2>5, <2>6
<1>5. QED
  BY <1>4 DEF After, t
-----------------------------------------------------------------------------

Reads(k) == Cardinality(ReadsAfter(k))

\* The positions counted are some of the queue's.
LEMMA ReadsFinite ==
  ASSUME NEW k \in Nat, rq \in Seq(Requests)
  PROVE  IsFiniteSet(ReadsAfter(k)) /\ Reads(k) \in Nat
<1>1. Len(rq) \in Int /\ k + 1 \in Int
  OBVIOUS
<1>2. IsFiniteSet(k + 1 .. Len(rq))
  BY <1>1, FS_Interval
<1>3. ReadsAfter(k) \in SUBSET (k + 1 .. Len(rq))
  BY DEF ReadsAfter
<1>4. IsFiniteSet(ReadsAfter(k))
  BY <1>2, <1>3, FS_Subset
<1>5. QED
  BY <1>4, FS_CardinalityType DEF Reads

\* A read that joins the queue is behind all the others.
LEMMA ReadsAppend ==
  ASSUME rq \in Seq(Requests), NEW r \in Requests, rq' = Append(rq, r)
  PROVE  /\ \A k \in 0 .. Len(rq) : Reads(k)' = Reads(k) + (IF r.we THEN 0 ELSE 1)
         /\ \A k \in Nat : k = Len(rq) + 1 => Reads(k)' = 0
<1>1. /\ Len(rq) \in Nat /\ Len(rq') = Len(rq) + 1 /\ rq'[Len(rq) + 1] = r
      /\ \A j \in 1 .. Len(rq) : rq'[j] = rq[j]
  OBVIOUS
<1>2. ASSUME NEW k \in 0 .. Len(rq)
      PROVE  Reads(k)' = Reads(k) + (IF r.we THEN 0 ELSE 1)
  <2>1. k \in Nat
    BY <1>1
  <2>2. IsFiniteSet(ReadsAfter(k)) /\ Reads(k) \in Nat
    BY <2>1, ReadsFinite
  <2>3. CASE r.we
    <3>1. ReadsAfter(k)' = ReadsAfter(k)
      BY <1>1, <2>1, <2>3 DEF ReadsAfter
    <3>2. QED
      BY <2>2, <2>3, <3>1 DEF Reads
  <2>4. CASE ~r.we
    <3>1. ReadsAfter(k)' = ReadsAfter(k) \cup {Len(rq) + 1}
      BY <1>1, <2>1, <2>4 DEF ReadsAfter
    <3>2. Len(rq) + 1 \notin ReadsAfter(k)
      BY <1>1, <2>1 DEF ReadsAfter
    <3>3. QED
      BY <2>2, <2>4, <3>1, <3>2, FS_AddElement DEF Reads
  <2>5. QED
    BY <2>3, <2>4
<1>3. ASSUME NEW k \in Nat, k = Len(rq) + 1 PROVE Reads(k)' = 0
  <2>1. ReadsAfter(k)' = {}
    BY <1>1, <1>3 DEF ReadsAfter
  <2>2. QED
    BY <2>1, FS_EmptySet DEF Reads
<1>4. QED
  BY <1>2, <1>3

\* When the head of the queue leaves it the others move up by one.
LEMMA ReadsTail ==
  ASSUME rq \in Seq(Requests), rq # <<>>, rq' = Tail(rq), NEW k \in Nat
  PROVE  Reads(k)' = Reads(k + 1)
<1> DEFINE K == ReadsAfter(k + 1)
           T == ReadsAfter(k)'
           f == [j \in K |-> j - 1]
<1>1. /\ Len(rq) \in Nat /\ Len(rq) > 0 /\ Len(rq') = Len(rq) - 1
      /\ \A j \in 1 .. Len(rq) - 1 : rq'[j] = rq[j + 1]
  OBVIOUS
<1>2. \A j \in K : j \in Int /\ j - 1 \in T
  BY <1>1 DEF ReadsAfter
<1>3. \A j \in T : j \in Int /\ j + 1 \in K
  BY <1>1 DEF ReadsAfter
<1>4. IsFiniteSet(K)
  BY ReadsFinite
<1> HIDE DEF K, T
<1>5. f \in Bijection(K, T)
  <2>1. f \in [K -> T]
    BY <1>2
  <2>2. \A a, b \in K : f[a] = f[b] => a = b
    BY <1>2
  <2>3. \A t \in T : \E s \in K : f[s] = t
    <3> TAKE t \in T
    <3>1. t + 1 \in K /\ f[t + 1] = t
      BY <1>3
    <3>2. QED
      BY <3>1
  <2> HIDE DEF f
  <2>4. QED
    BY <2>1, <2>2, <2>3 DEF Bijection, Injection, Surjection, IsInjective
<1>6. Cardinality(T) = Cardinality(K)
  BY <1>4, <1>5, FS_Bijection DEF ExistsBijection
<1>7. QED
  BY <1>6 DEF Reads, K, T

\* What is in the queue, the head of it and the rest.
LEMMA ReadsHead ==
  ASSUME rq \in Seq(Requests), rq # <<>>
  PROVE  Reads(0) = Reads(1) + (IF rq[1].we THEN 0 ELSE 1)
<1>1. Len(rq) \in Nat /\ Len(rq) > 0
  OBVIOUS
<1>2. IsFiniteSet(ReadsAfter(1)) /\ Reads(1) \in Nat
  BY ReadsFinite
<1>3. CASE rq[1].we
  <2>1. ReadsAfter(0) = ReadsAfter(1)
    <3>1. \A j \in 0 + 1 .. Len(rq) : j = 1 \/ j \in 1 + 1 .. Len(rq)
      BY <1>1
    <3>2. \A j \in 1 + 1 .. Len(rq) : j \in 0 + 1 .. Len(rq)
      BY <1>1
    <3>3. QED
      BY <1>3, <3>1, <3>2 DEF ReadsAfter
  <2>2. QED
    BY <1>2, <1>3, <2>1 DEF Reads
<1>4. CASE ~rq[1].we
  <2>1. ReadsAfter(0) = ReadsAfter(1) \cup {1}
    <3>1. \A j \in 0 + 1 .. Len(rq) : j = 1 \/ j \in 1 + 1 .. Len(rq)
      BY <1>1
    <3>2. \A j \in 1 + 1 .. Len(rq) : j \in 0 + 1 .. Len(rq)
      BY <1>1
    <3>3. 1 \in 0 + 1 .. Len(rq)
      BY <1>1
    <3>4. QED
      BY <1>4, <3>1, <3>2, <3>3 DEF ReadsAfter
  <2>2. 1 \notin ReadsAfter(1)
    BY DEF ReadsAfter
  <2>3. QED
    BY <1>2, <1>4, <2>1, <2>2, FS_AddElement DEF Reads
<1>5. QED
  BY <1>3, <1>4

\* A queue that holds a read counts one at least.
LEMMA ReadsSome ==
  ASSUME rq \in Seq(Requests), NEW k \in DOMAIN rq, ~rq[k].we
  PROVE  Reads(0) > 0
<1>1. k \in ReadsAfter(0)
  BY DEF ReadsAfter
<1>2. IsFiniteSet(ReadsAfter(0)) /\ Reads(0) \in Nat
  BY ReadsFinite
<1>3. Reads(0) # 0
  BY <1>1, <1>2, FS_EmptySet DEF Reads
<1>4. QED
  BY <1>2, <1>3
-----------------------------------------------------------------------------
\* How many tags have been given out since t, when g is the last one.
Age(g, t) == IF t <= g THEN g - t ELSE g - t + Tags

\* The next tag is one on, and comes round at the end.
LEMMA TagNext ==
  ASSUME tag \in 0 .. Tags - 1
  PROVE  tag_next = IF tag + 1 = Tags THEN 0 ELSE tag + 1
<1>1. Tags \in Nat /\ Tags > 0 /\ tag \in Nat /\ tag + 1 <= Tags
  BY BridgeAssumption
<1>2. CASE tag + 1 = Tags
  BY <1>1, <1>2 DEF tag_next
<1>3. CASE tag + 1 < Tags
  BY <1>1, <1>3 DEF tag_next
<1>4. QED
  BY <1>1, <1>2, <1>3

\* Only the last tag has no age; giving out another makes each one older,
\* the oldest apart, which it gives out again.
LEMMA Ages ==
  ASSUME tag \in 0 .. Tags - 1, NEW t \in 0 .. Tags - 1
  PROVE  /\ Age(tag, t) \in 0 .. Tags - 1
         /\ Age(tag, t) = 0 <=> t = tag
         /\ tag_next \in 0 .. Tags - 1
         /\ Age(tag, t) < Tags - 1 => Age(tag_next, t) = Age(tag, t) + 1
         /\ Age(tag_next, tag_next) = 0
BY BridgeAssumption, TagNext DEF Age
-----------------------------------------------------------------------------
(* The queues: a push or a pop keeps one well formed.                       *)

\* What a queue of entries from K holds: never more than its depth, counting
\* the takings that the writing side does not know of.
QueueOK(K, D, q, v, g) ==
  /\ q \in Seq(K) /\ Len(q) <= D
  /\ v \in 0 .. Len(q)
  /\ g \in 0 .. D - Len(q)

\* The head of a queue leaves it one shorter, and not yet free to refill.
LEMMA PopKeeps ==
  ASSUME NEW K, NEW D \in Nat, NEW q, NEW v, NEW g, QueueOK(K, D, q, v, g), v # 0
  PROVE  /\ q # <<>> /\ q[1] \in K
         /\ \A v2 \in v - 1 .. Len(q) - 1 : QueueOK(K, D, Tail(q), v2, g + 1)
         /\ Len(Tail(q)) + (g + 1) = Len(q) + g
<1>1. q \in Seq(K) /\ Len(q) \in Nat /\ v \in 0 .. Len(q) /\ g \in 0 .. D - Len(q)
  BY DEF QueueOK
<1>2. Len(q) > 0
  BY <1>1
<1>3. q[1] \in K /\ Tail(q) \in Seq(K) /\ Len(Tail(q)) = Len(q) - 1 /\ q # <<>>
  BY <1>1, <1>2
<1>4. QED
  BY <1>1, <1>2, <1>3 DEF QueueOK

\* A push at a queue that does not look full fits.
LEMMA PushKeeps ==
  ASSUME NEW K, NEW D \in Nat, NEW q, NEW v, NEW g, QueueOK(K, D, q, v, g), Len(q) + g # D,
         NEW x \in K, NEW g2 \in 0 .. g
  PROVE  QueueOK(K, D, Append(q, x), v, g2)
<1>1. q \in Seq(K) /\ Len(q) \in Nat /\ v \in 0 .. Len(q) /\ g \in 0 .. D - Len(q)
  BY DEF QueueOK
<1>2. Append(q, x) \in Seq(K) /\ Len(Append(q, x)) = Len(q) + 1
  BY <1>1
<1>3. QED
  BY <1>1, <1>2 DEF QueueOK

\* News that arrives on either side.
LEMMA NewsKeeps ==
  ASSUME NEW K, NEW D \in Nat, NEW q, NEW v, NEW g, QueueOK(K, D, q, v, g)
  PROVE  /\ \A v2 \in v .. Len(q) : QueueOK(K, D, q, v2, g)
         /\ \A g2 \in 0 .. g : QueueOK(K, D, q, v, g2)
BY DEF QueueOK
-----------------------------------------------------------------------------
(* What every register, queue and memory holds.                             *)

RegistersOK ==
  /\ ENABLE \in BOOLEAN /\ issued \in BOOLEAN /\ done \in BOOLEAN /\ dtack \in BOOLEAN
  /\ tag \in 0 .. Tags - 1
  /\ P_DATA_OUT \in {<<>>} \cup [Bytes -> Byte]
  /\ bus \in M!Phases \cup {NoPhase}
  /\ busy \in BOOLEAN /\ c \in Requests \cup {NoRequest}
  /\ mem \in [Lines -> [Bytes -> Byte]]

RequestsOK == QueueOK(Requests, ReqDepth, rq, rq_vis, rq_lag)
AnswersOK  == QueueOK(Answers, RspDepth, rs, rs_vis, rs_lag)

\* A transaction has a request, and a read among them has room for its answer.
Room == busy => c \in Requests /\ (~c.we => Len(rs) + rs_lag < RspDepth)

TInv == RegistersOK /\ RequestsOK /\ AnswersOK /\ Room

\* The type invariant is what they say of the types.
LEMMA TypeParts == TInv => TypeOK
BY DEF TInv, TypeOK, RegistersOK, RequestsOK, AnswersOK, QueueOK

\* The bytes of a line there are in this model: an answer is a whole line.
LEMMA OneByte == Bytes = {0} /\ (SUBSET Bytes) \ {{}} = {Bytes}
BY DEF Bytes

\* What a phase is made of.
LEMMA PhaseType ==
  ASSUME NEW ph \in M!Phases
  PROVE  /\ ph.rd \in BOOLEAN /\ ph.a \in Lines /\ ph.b = Bytes
         /\ ~ph.rd => ph.d \in Byte
<1>1. CASE ph \in M!Reads
  BY <1>1, OneByte DEF M!Reads
<1>2. CASE ph \in M!Writes
  BY <1>2, OneByte DEF M!Writes
<1>3. QED
  BY <1>1, <1>2 DEF M!Phases

\* A request holds what it is for.
LEMMA RequestType ==
  ASSUME NEW x \in Requests
  PROVE  /\ x.we \in BOOLEAN /\ x.a \in Lines /\ x.tag \in 0 .. Tags - 1
         /\ x.we => x.d \in Byte
BY DEF Requests

\* A memory stays one when a request is performed.
LEMMA PerformedType ==
  ASSUME NEW mm \in [Lines -> [Bytes -> Byte]], NEW r \in Requests
  PROVE  Performed(mm, r) \in [Lines -> [Bytes -> Byte]]
BY RequestType DEF Performed

\* What the machine's side puts in the queue is a request.
LEMMA EnqType == ASSUME RegistersOK, enq PROVE Request \in Requests
<1>1. bus \in M!Phases
  BY DEF RegistersOK, enq, PHASE
<1>2. tag \in 0 .. Tags - 1 /\ tag_next \in 0 .. Tags - 1
  BY Ages DEF RegistersOK
<1>3. CASE q_we
  BY <1>1, <1>2, <1>3, PhaseType DEF Request, Requests, q_we
<1>4. CASE ~q_we
  BY <1>1, <1>2, <1>4, PhaseType DEF Request, Requests, q_we
<1>5. QED
  BY <1>3, <1>4

\* The answer at hand is one.
LEMMA OursType ==
  ASSUME AnswersOK, rs_ours
  PROVE  rs[1] \in Answers /\ rs[1].d \in Byte /\ Len(rs) > 0 /\ rs_vis # 0
<1>1. rs_vis # 0 /\ rs \in Seq(Answers) /\ Len(rs) > 0
  BY DEF AnswersOK, QueueOK, rs_ours, RS!Empty
<1>2. rs[1] \in Answers
  BY <1>1
<1>3. QED
  BY <1>1, <1>2 DEF Answers

\* An edge of CLK: at most a request more, at most an answer less.
LEMMA CpuClkStep ==
  ASSUME TInv, CpuClk
  PROVE  /\ TInv'
         /\ IF enq THEN Request \in Requests /\ rq' = Append(rq, Request) ELSE rq' = rq
         /\ IF rs_pop THEN rs # <<>> /\ rs' = Tail(rs) ELSE rs' = rs
<1>0. RegistersOK /\ RequestsOK /\ AnswersOK /\ Room
  BY DEF TInv
<1>1. RegistersOK'
  <2>1. ENABLE' \in BOOLEAN /\ issued' \in BOOLEAN /\ done' \in BOOLEAN /\ dtack' \in BOOLEAN
    BY <1>0 DEF RegistersOK, CpuClk, W_ACK, rs_ours, rd_wait, enq, PHASE
  <2>2. tag' \in 0 .. Tags - 1
    BY <1>0, Ages DEF RegistersOK, CpuClk
  <2>3. P_DATA_OUT' \in {<<>>} \cup [Bytes -> Byte]
    <3>1. CASE ENABLE /\ rs_ours
      <4>1. bus \in M!Phases
        BY <1>0, <3>1 DEF RegistersOK, rs_ours, rd_wait, PHASE
      <4>2. rs[1].d \in Byte /\ bus.b = Bytes
        BY <1>0, <3>1, <4>1, OursType, PhaseType
      <4>3. QED
        BY <3>1, <4>2 DEF CpuClk
    <3>2. CASE ~(ENABLE /\ rs_ours)
      BY <1>0, <3>2 DEF CpuClk, RegistersOK
    <3>3. QED
      BY <3>1, <3>2
  <2>4. QED
    BY <1>0, <2>1, <2>2, <2>3 DEF RegistersOK, CpuClk, wbregs
<1>3. RequestsOK' /\ IF enq THEN Request \in Requests /\ rq' = Append(rq, Request) ELSE rq' = rq
  <2>1. CASE enq
    <3>1. /\ Len(rq) + rq_lag # ReqDepth /\ Request \in Requests
          /\ rq' = Append(rq, Request) /\ rq_lag' \in 0 .. rq_lag /\ rq_vis' = rq_vis
      BY <1>0, <2>1, EnqType DEF CpuClk, RQ!Push, RQ!Full
    <3>2. RequestsOK'
      BY <1>0, <3>1, PushKeeps, BridgeAssumption DEF RequestsOK
    <3>3. QED
      BY <2>1, <3>1, <3>2
  <2>2. CASE ~enq
    <3>1. UNCHANGED <<rq, rq_vis>> /\ rq_lag' \in 0 .. rq_lag
      BY <2>2 DEF CpuClk, RQ!NoPush
    <3>2. RequestsOK'
      BY <1>0, <3>1, NewsKeeps, BridgeAssumption DEF RequestsOK
    <3>3. QED
      BY <2>2, <3>1, <3>2
  <2>3. QED
    BY <2>1, <2>2
<1>4. /\ AnswersOK' /\ Len(rs') + rs_lag' = Len(rs) + rs_lag
      /\ IF rs_pop THEN rs # <<>> /\ rs' = Tail(rs) ELSE rs' = rs
  <2>1. CASE rs_pop
    <3>1. /\ rs_vis # 0 /\ rs_vis' \in rs_vis - 1 .. Len(rs) - 1
          /\ rs' = Tail(rs) /\ rs_lag' = rs_lag + 1
      BY <2>1 DEF CpuClk, RS!Pop, RS!Empty
    <3>2. AnswersOK' /\ Len(rs') + rs_lag' = Len(rs) + rs_lag /\ rs # <<>>
      <4>1. QueueOK(Answers, RspDepth, rs, rs_vis, rs_lag) /\ RspDepth \in Nat
        BY <1>0, BridgeAssumption DEF AnswersOK
      <4>2. /\ QueueOK(Answers, RspDepth, Tail(rs), rs_vis', rs_lag + 1) /\ rs # <<>>
            /\ Len(Tail(rs)) + (rs_lag + 1) = Len(rs) + rs_lag
        BY <3>1, <4>1, PopKeeps
      <4>3. QED
        BY <3>1, <4>2 DEF AnswersOK
    <3>3. QED
      BY <2>1, <3>1, <3>2
  <2>2. CASE ~rs_pop
    <3>1. UNCHANGED <<rs, rs_lag>> /\ rs_vis' \in rs_vis .. Len(rs)
      BY <2>2 DEF CpuClk, RS!NoPop
    <3>2. AnswersOK'
      BY <1>0, <3>1, NewsKeeps, BridgeAssumption DEF AnswersOK
    <3>3. QED
      BY <2>2, <3>1, <3>2
  <2>3. QED
    BY <2>1, <2>2
<1>5. Room'
  BY <1>0, <1>4 DEF Room, CpuClk, wbregs
<1>6. QED
  BY <1>1, <1>3, <1>4, <1>5 DEF TInv

\* An edge of WB_CLK with no answer: a transaction may begin.
LEMMA WbClkStep ==
  ASSUME TInv, WbClk
  PROVE  /\ TInv' /\ rs' = rs
         /\ IF start THEN /\ rq # <<>> /\ rq' = Tail(rq) /\ rq[1] \in Requests
                          /\ ~busy /\ busy' /\ c' = rq[1]
                     ELSE rq' = rq /\ busy' = busy /\ c' = c
<1>0. RegistersOK /\ RequestsOK /\ AnswersOK /\ Room
  BY DEF TInv
<1>1. rs' = rs /\ rs_vis' = rs_vis /\ rs_lag' \in 0 .. rs_lag
  BY DEF WbClk, RS!NoPush
<1>2. AnswersOK'
  BY <1>0, <1>1, NewsKeeps, BridgeAssumption DEF AnswersOK
<1>3. ~RS!Full => Len(rs') + rs_lag' < RspDepth
  <2>1. rs_lag \in Nat /\ Len(rs) \in Nat /\ Len(rs) + rs_lag <= RspDepth
    BY <1>0, BridgeAssumption DEF AnswersOK, QueueOK
  <2>2. QED
    BY <1>1, <2>1, BridgeAssumption DEF RS!Full
<1>4. CASE start
  <2>1. /\ rq_vis # 0 /\ rq_vis' \in rq_vis - 1 .. Len(rq) - 1
        /\ rq' = Tail(rq) /\ rq_lag' = rq_lag + 1 /\ busy' = TRUE /\ c' = rq[1]
    BY <1>4 DEF WbClk, RQ!Pop, RQ!Empty
  <2>2. RequestsOK' /\ rq[1] \in Requests /\ rq # <<>>
    BY <1>0, <2>1, PopKeeps, BridgeAssumption DEF RequestsOK
  <2>3. RegistersOK'
    BY <1>0, <2>1, <2>2 DEF RegistersOK, WbClk, cpuregs
  <2>4. Room'
    BY <1>3, <1>4, <2>1, <2>2 DEF Room, start
  <2>5. ~busy
    BY <1>4 DEF start
  <2>6. QED
    BY <1>1, <1>2, <1>4, <2>1, <2>2, <2>3, <2>4, <2>5 DEF TInv
<1>5. CASE ~start
  <2>1. UNCHANGED <<rq, rq_lag, busy, c>> /\ rq_vis' \in rq_vis .. Len(rq)
    BY <1>5 DEF WbClk, RQ!NoPop
  <2>2. RequestsOK'
    BY <1>0, <2>1, NewsKeeps, BridgeAssumption DEF RequestsOK
  <2>3. RegistersOK'
    BY <1>0, <2>1 DEF RegistersOK, WbClk, cpuregs
  <2>4. Room'
    <3>1. rs_lag \in Nat /\ rs_lag' \in 0 .. rs_lag /\ Len(rs) \in Nat /\ rs' = rs
      BY <1>0, <1>1, BridgeAssumption DEF AnswersOK, QueueOK
    <3>2. QED
      BY <1>0, <2>1, <3>1, BridgeAssumption DEF Room
  <2>5. QED
    BY <1>1, <1>2, <1>5, <2>1, <2>2, <2>3, <2>4 DEF TInv
<1>6. QED
  BY <1>4, <1>5

\* What WbAck pushes.
Answer == [tag |-> c.tag, d |-> mem[c.a][0]]

\* The memory's acknowledgement ends the transaction; a read's answer fits.
LEMMA WbAckStep ==
  ASSUME TInv, WbAck
  PROVE  /\ TInv' /\ c \in Requests /\ busy /\ ~busy' /\ rq' = rq
         /\ mem' = Performed(mem, c)
         /\ IF c.we THEN rs' = rs ELSE Answer \in Answers /\ rs' = Append(rs, Answer)
<1>0. RegistersOK /\ RequestsOK /\ AnswersOK /\ Room
  BY DEF TInv
<1>1. c \in Requests /\ busy /\ busy' = FALSE /\ mem' = Performed(mem, c)
  BY <1>0 DEF WbAck, Room, Performed
<1>2. RegistersOK'
  <2>1. mem' \in [Lines -> [Bytes -> Byte]]
    BY <1>0, <1>1, PerformedType DEF RegistersOK
  <2>2. UNCHANGED <<cpuregs, bus, c>>
    BY DEF WbAck
  <2>3. QED
    BY <1>0, <1>1, <2>1, <2>2 DEF RegistersOK, cpuregs
<1>3. RequestsOK' /\ rq' = rq
  <2>1. UNCHANGED <<rq, rq_lag>> /\ rq_vis' \in rq_vis .. Len(rq)
    BY DEF WbAck, RQ!NoPop
  <2>2. QED
    BY <1>0, <2>1, NewsKeeps, BridgeAssumption DEF RequestsOK
<1>4. AnswersOK' /\ IF c.we THEN rs' = rs ELSE Answer \in Answers /\ rs' = Append(rs, Answer)
  <2>1. CASE ~c.we
    <3>1. Answer \in Answers
      BY <1>0, <1>1, RequestType, OneByte DEF Answer, Answers, RegistersOK
    <3>2. ~RS!Full
      BY <1>0, <1>1, <2>1, BridgeAssumption DEF Room, RS!Full, AnswersOK, QueueOK
    <3>3. /\ Len(rs) + rs_lag # RspDepth
          /\ rs' = Append(rs, Answer) /\ rs_lag' \in 0 .. rs_lag /\ rs_vis' = rs_vis
      BY <2>1, <3>2 DEF WbAck, RS!Push, RS!Full, Answer
    <3>4. AnswersOK'
      BY <1>0, <3>1, <3>3, PushKeeps, BridgeAssumption DEF AnswersOK
    <3>5. QED
      BY <2>1, <3>1, <3>3, <3>4
  <2>2. CASE c.we
    <3>1. UNCHANGED <<rs, rs_vis>> /\ rs_lag' \in 0 .. rs_lag
      BY <2>2 DEF WbAck, RS!NoPush
    <3>2. AnswersOK'
      BY <1>0, <3>1, NewsKeeps, BridgeAssumption DEF AnswersOK
    <3>3. QED
      BY <2>2, <3>1, <3>2
  <2>3. QED
    BY <1>1, <2>1, <2>2, RequestType
<1>5. QED
  BY <1>1, <1>2, <1>3, <1>4 DEF TInv, Room

\* The masters touch the strobes alone.
MastersMove == EndPhase \/ AbandonPhase \/ \E ph \in M!Phases : BeginPhase(ph)

\* Whatever they do, every queue and register stays what it is.
LEMMA MasterStep ==
  ASSUME TInv, MastersMove \/ UNCHANGED vars
  PROVE  TInv' /\ UNCHANGED <<cpuregs, queues, wbregs>>
<1>1. /\ UNCHANGED <<cpuregs, queues, wbregs>>
      /\ bus' \in M!Phases \cup {NoPhase}
  <2>1. CASE EndPhase
    BY <2>1 DEF EndPhase, TInv, RegistersOK
  <2>2. CASE AbandonPhase
    BY <2>2 DEF AbandonPhase, PHASE, TInv, RegistersOK
  <2>3. ASSUME NEW ph \in M!Phases, BeginPhase(ph)
        PROVE  /\ UNCHANGED <<cpuregs, queues, wbregs>>
               /\ bus' \in M!Phases \cup {NoPhase}
    BY <2>3, PhaseType DEF BeginPhase
  <2>4. CASE UNCHANGED vars
    BY <2>4 DEF vars, TInv, RegistersOK
  <2>5. QED
    BY <2>1, <2>2, <2>3, <2>4 DEF MastersMove
<1>2. QED
  BY <1>1 DEF TInv, RegistersOK, RequestsOK, AnswersOK, Room,
              cpuregs, queues, wbregs
-----------------------------------------------------------------------------
(* What the machine counts on: the memory with everything queued performed. *)

\* A request that joins the queue is performed last.
LEMMA ViewOnPush ==
  ASSUME TInv, CpuClk
  PROVE  View' = IF enq THEN Performed(View, Request) ELSE View
<1>0. /\ RegistersOK /\ rq \in Seq(Requests) /\ (busy => c \in Requests)
      /\ busy' = busy /\ c' = c /\ mem' = mem
  BY DEF TInv, RequestsOK, QueueOK, Room, CpuClk, wbregs
<1>1. (IF busy THEN Performed(mem, c) ELSE mem) \in [Lines -> [Bytes -> Byte]]
  BY <1>0, PerformedType DEF RegistersOK
<1>2. CASE enq
  <2>1. rq' = Append(rq, Request) /\ Request \in Requests
    BY <1>2, CpuClkStep
  <2>2. QED
    BY <1>0, <1>1, <1>2, <2>1, AfterAppend DEF View
<1>3. CASE ~enq
  <2>1. rq' = rq
    BY <1>3, CpuClkStep
  <2>2. QED
    BY <1>0, <1>3, <2>1 DEF View
<1>4. QED
  BY <1>2, <1>3

\* Where a write is performed, and where it is not.
LEMMA PerformedAt ==
  ASSUME NEW mm \in [Lines -> [Bytes -> Byte]], NEW r \in Requests, NEW l \in Lines
  PROVE  Performed(mm, r)[l] = IF r.we /\ r.a = l THEN [i \in Bytes |-> r.d] ELSE mm[l]
BY RequestType DEF Performed

\* The view is a memory.
LEMMA ViewType == ASSUME TInv PROVE View \in [Lines -> [Bytes -> Byte]]
<1>1. /\ RegistersOK /\ rq \in Seq(Requests) /\ (busy => c \in Requests)
  BY DEF TInv, RequestsOK, QueueOK, Room
<1> DEFINE mm == IF busy THEN Performed(mem, c) ELSE mem
<1>2. mm \in [Lines -> [Bytes -> Byte]]
  BY <1>1, PerformedType DEF RegistersOK
<1>3. View = After(mm, rq)
  BY DEF View
<1> HIDE DEF mm
<1>4. ASSUME NEW l \in Lines PROVE After(mm, rq)[l] \in [Bytes -> Byte]
  <2>1. CASE WritesTo(rq, l) # {}
    <3>1. WritesTo(rq, l) \in SUBSET (1 .. Len(rq)) /\ Len(rq) \in Nat
      BY <1>1 DEF WritesTo
    <3>2. Max(WritesTo(rq, l)) \in WritesTo(rq, l)
      BY <2>1, <3>1, MaxOf
    <3>3. rq[Max(WritesTo(rq, l))] \in Requests /\ rq[Max(WritesTo(rq, l))].we
      BY <1>1, <3>2 DEF WritesTo
    <3>4. QED
      BY <2>1, <3>3, RequestType DEF After
  <2>2. CASE WritesTo(rq, l) = {}
    BY <1>2, <2>2 DEF After
  <2>3. QED
    BY <2>1, <2>2
<1>5. QED
  BY <1>3, <1>4 DEF After

\* Nothing the memory's side does changes it.
LEMMA ViewOnWb ==
  ASSUME TInv, WbClk \/ WbAck
  PROVE  View' = View
<1>0. RegistersOK /\ rq \in Seq(Requests)
  BY DEF TInv, RequestsOK, QueueOK
<1>1. CASE WbClk /\ start
  <2>1. rq # <<>> /\ rq' = Tail(rq) /\ ~busy /\ busy' /\ c' = rq[1] /\ mem' = mem
    BY <1>1, WbClkStep DEF WbClk
  <2>2. QED
    BY <1>0, <2>1, AfterHead DEF View, RegistersOK
<1>2. CASE WbClk /\ ~start
  <2>1. rq' = rq /\ busy' = busy /\ c' = c /\ mem' = mem
    BY <1>2, WbClkStep DEF WbClk
  <2>2. QED
    BY <2>1 DEF View
<1>3. CASE WbAck
  <2>1. busy /\ ~busy' /\ rq' = rq /\ mem' = Performed(mem, c)
    BY <1>3, WbAckStep
  <2>2. QED
    BY <2>1 DEF View
<1>4. QED
  BY <1>1, <1>2, <1>3

\* With nothing queued the memory holds what it will hold.
LEMMA ViewAtRest == ASSUME RegistersOK, rq = <<>>, ~busy PROVE View = mem
<1>1. \A l \in Lines : WritesTo(rq, l) = {}
  BY DEF WritesTo
<1>2. View = [l \in Lines |-> mem[l]]
  BY <1>1 DEF View, After
<1>3. QED
  BY <1>2 DEF RegistersOK
-----------------------------------------------------------------------------
(* The strobes, and the tags of the reads under way.                        *)

Strobes ==
  /\ issued => ENABLE
  /\ done => issued
  /\ ~ENABLE => P_DATA_OUT = <<>>

\* No phase has an effect before the bridge is enabled, or is answered before
\* it is put in the queue.
LEMMA StepStrobes == TInv /\ Strobes /\ [Next]_vars => Strobes'
<1> SUFFICES ASSUME TInv, Strobes, [Next]_vars PROVE Strobes'
  OBVIOUS
<1> USE DEF Strobes, PHASE
<1>1. CASE CpuClk
  <2>1. /\ bus' = bus
        /\ issued' = (ENABLE /\ PHASE /\ (issued \/ enq))
        /\ done' = (ENABLE /\ PHASE /\ (done \/ (issued /\ q_we) \/ rs_ours))
        /\ ENABLE => ENABLE'
        /\ ~ENABLE => P_DATA_OUT' = <<>>
    BY <1>1 DEF CpuClk, rs_ours, rd_wait
  <2>2. QED
    BY <2>1 DEF rs_ours, rd_wait
<1>2. CASE WbClk
  BY <1>2 DEF WbClk, cpuregs
<1>3. CASE WbAck
  BY <1>3 DEF WbAck, cpuregs
<1>4. CASE EndPhase
  BY <1>4 DEF EndPhase, cpuregs
<1>5. CASE AbandonPhase
  BY <1>5 DEF AbandonPhase, cpuregs
<1>6. ASSUME NEW ph \in M!Phases, BeginPhase(ph) PROVE Strobes'
  BY <1>6 DEF BeginPhase, cpuregs
<1>7. CASE UNCHANGED vars
  BY <1>7 DEF vars, cpuregs
<1>8. QED
  BY <1>1, <1>2, <1>3, <1>4, <1>5, <1>6, <1>7 DEF Next

Running == IF busy /\ ~c.we THEN 1 ELSE 0

\* A read's tag tells how many reads came after it, and there are never more
\* reads on their way than tags.
TagsApart ==
  /\ Reads(0) + Running + Len(rs) <= Tags
  /\ PHASE /\ bus.rd /\ ~issued /\ ~done => Reads(0) + Running + Len(rs) < Tags
  /\ \A k \in 1 .. Len(rq) : ~rq[k].we => Age(tag, rq[k].tag) = Reads(k)
  /\ busy /\ ~c.we => Age(tag, c.tag) = Reads(0)
  /\ \A k \in 1 .. Len(rs) : Age(tag, rs[k].tag) = Reads(0) + Running + Len(rs) - k

\* What the ages and counts are made of.
LEMMA CountTypes ==
  ASSUME TInv
  PROVE  /\ Reads(0) \in Nat /\ Running \in {0, 1} /\ Len(rs) \in Nat /\ Len(rq) \in Nat
         /\ Tags \in Nat /\ Tags > 0 /\ tag \in 0 .. Tags - 1
         /\ rq \in Seq(Requests) /\ rs \in Seq(Answers)
         /\ \A k \in 1 .. Len(rq) : rq[k] \in Requests /\ rq[k].tag \in 0 .. Tags - 1 /\ Reads(k) \in Nat
         /\ \A k \in 1 .. Len(rs) : rs[k].tag \in 0 .. Tags - 1
         /\ busy => c \in Requests /\ c.tag \in 0 .. Tags - 1
<1>1. rq \in Seq(Requests) /\ rs \in Seq(Answers) /\ tag \in 0 .. Tags - 1
      /\ (busy => c \in Requests)
  BY DEF TInv, RegistersOK, RequestsOK, AnswersOK, QueueOK, Room
<1>2. \A k \in Nat : Reads(k) \in Nat
  BY <1>1, ReadsFinite
<1>3. \A k \in 1 .. Len(rq) : rq[k] \in Requests /\ Reads(k) \in Nat
  BY <1>1, <1>2
<1>4. \A k \in 1 .. Len(rs) : rs[k] \in Answers
  BY <1>1
<1>5. \A k \in 1 .. Len(rs) : rs[k].tag \in 0 .. Tags - 1
  BY <1>4 DEF Answers
<1>6. \A k \in 1 .. Len(rq) : rq[k].tag \in 0 .. Tags - 1
  BY <1>3, RequestType
<1>7. Len(rs) \in Nat /\ Len(rq) \in Nat /\ Reads(0) \in Nat
  <2>1. Reads(0) \in Nat
    BY <1>1, ReadsFinite
  <2>2. QED
    BY <1>1, <2>1
<1>8. busy => c.tag \in 0 .. Tags - 1
  BY <1>1, RequestType
<1>9. QED
  BY <1>1, <1>3, <1>5, <1>6, <1>7, <1>8, BridgeAssumption DEF Running

\* The reads behind one of the queue are fewer than all.
LEMMA ReadsBehind ==
  ASSUME TInv, NEW k \in 1 .. Len(rq), ~rq[k].we
  PROVE  Reads(k) < Reads(0)
<1>1. rq \in Seq(Requests) /\ k \in Nat /\ k > 0
  BY DEF TInv, RequestsOK, QueueOK
<1>2. IsFiniteSet(ReadsAfter(0)) /\ Reads(0) \in Nat /\ Reads(k) \in Nat
  BY <1>1, ReadsFinite
<1>3. ReadsAfter(k) \in SUBSET ReadsAfter(0)
  BY <1>1 DEF ReadsAfter
<1>4. k \in ReadsAfter(0) /\ k \notin ReadsAfter(k)
  BY <1>1 DEF ReadsAfter
<1>5. Reads(k) <= Reads(0) /\ Reads(k) # Reads(0)
  BY <1>2, <1>3, <1>4, FS_Subset DEF Reads
<1>6. QED
  BY <1>2, <1>5

\* An edge of CLK keeps the tags apart: a read takes the next one, when there
\* was one to spare.
LEMMA TagsOnCpuClk ==
  ASSUME TInv, TInv', Strobes, TagsApart, CpuClk
  PROVE  TagsApart'
<1>1. /\ IF enq THEN Request \in Requests /\ rq' = Append(rq, Request) ELSE rq' = rq
      /\ IF rs_pop THEN rs # <<>> /\ rs' = Tail(rs) ELSE rs' = rs
      /\ busy' = busy /\ c' = c /\ bus' = bus
      /\ tag' = IF enq /\ ~q_we THEN tag_next ELSE tag
  BY CpuClkStep DEF CpuClk, wbregs
<1>2. Running' = Running
  BY <1>1 DEF Running
<1> DEFINE new == IF enq /\ ~q_we THEN 1 ELSE 0
<1>t. new \in {0, 1}
  OBVIOUS
<1>w. (Request.we <=> q_we) /\ Request.tag = (IF q_we THEN tag ELSE tag_next)
  <2>1. CASE q_we
    BY <2>1 DEF Request
  <2>2. CASE ~q_we
    BY <2>2 DEF Request
  <2>3. QED
    BY <2>1, <2>2
<1>3. /\ \A k \in 0 .. Len(rq) : Reads(k)' = Reads(k) + new
      /\ Len(rq') = Len(rq) + (IF enq THEN 1 ELSE 0)
      /\ \A k \in 1 .. Len(rq) : rq'[k] = rq[k]
      /\ \A k \in Nat : enq /\ k = Len(rq) + 1 => rq'[k] = Request /\ Reads(k)' = 0
  <2>1. CASE enq
    <3>1. rq \in Seq(Requests) /\ Request \in Requests /\ rq' = Append(rq, Request)
      BY <1>1, <2>1, CountTypes
    <3>2. /\ \A k \in 0 .. Len(rq) : Reads(k)' = Reads(k) + (IF Request.we THEN 0 ELSE 1)
          /\ \A k \in Nat : k = Len(rq) + 1 => Reads(k)' = 0
      BY <3>1, ReadsAppend
    <3>3. /\ Len(rq') = Len(rq) + 1 /\ rq'[Len(rq) + 1] = Request
          /\ \A k \in 1 .. Len(rq) : rq'[k] = rq[k]
      BY <3>1
    <3>4. (IF Request.we THEN 0 ELSE 1) = new
      BY <1>w, <2>1
    <3> HIDE DEF new
    <3>5. QED
      BY <2>1, <3>2, <3>3, <3>4
  <2>2. CASE ~enq
    <3>1. rq' = rq /\ new = 0
      BY <1>1, <2>2
    <3>2. \A k \in 0 .. Len(rq) : Reads(k)' = Reads(k) /\ Reads(k) \in Nat
      <4> TAKE k \in 0 .. Len(rq)
      <4>1. k \in Nat
        BY CountTypes
      <4>2. QED
        BY <3>1, <4>1, CountTypes, ReadsFinite DEF Reads, ReadsAfter
    <3> HIDE DEF new
    <3>3. QED
      BY <2>2, <3>1, <3>2, CountTypes
  <2>3. QED
    BY <2>1, <2>2
<1>4. /\ Len(rs') = Len(rs) - (IF rs_pop THEN 1 ELSE 0) /\ Len(rs') \in Nat
      /\ \A k \in 1 .. Len(rs') : /\ k + (IF rs_pop THEN 1 ELSE 0) \in 1 .. Len(rs)
                                  /\ rs'[k] = rs[k + (IF rs_pop THEN 1 ELSE 0)]
  <2>1. CASE rs_pop
    <3>1. rs \in Seq(Answers) /\ rs # <<>> /\ rs' = Tail(rs)
      BY <1>1, <2>1, CountTypes
    <3>2. /\ Len(rs) \in Nat /\ Len(rs) > 0 /\ Len(rs') = Len(rs) - 1
          /\ \A k \in 1 .. Len(rs) - 1 : rs'[k] = rs[k + 1]
      BY <3>1
    <3>3. QED
      BY <2>1, <3>2
  <2>2. CASE ~rs_pop
    <3>1. rs' = rs /\ Len(rs) \in Nat
      BY <1>1, <2>2, CountTypes
    <3>2. QED
      BY <2>2, <3>1
  <2>3. QED
    BY <2>1, <2>2
<1>5. new = 1 => Reads(0) + Running + Len(rs) < Tags
  BY DEF TagsApart, Strobes, enq, q_we
<1>6. ASSUME NEW t \in 0 .. Tags - 1, Age(tag, t) < Reads(0) + Running + Len(rs)
      PROVE  Age(tag', t) = Age(tag, t) + new
  <2>1. CASE new = 1
    <3>1. tag' = tag_next /\ Age(tag, t) \in 0 .. Tags - 1
      BY <1>1, <2>1, CountTypes, Ages
    <3>2. Age(tag, t) < Tags - 1
      BY <1>5, <1>6, <2>1, <3>1, CountTypes
    <3> HIDE DEF new
    <3>3. QED
      BY <2>1, <3>1, <3>2, CountTypes, Ages
  <2>2. CASE new = 0
    <3>1. tag' = tag /\ Age(tag, t) \in 0 .. Tags - 1
      BY <1>1, <2>2, CountTypes, Ages
    <3> HIDE DEF new
    <3>2. QED
      BY <2>2, <3>1
  <2>3. QED
    BY <1>t, <2>1, <2>2
<1>c. Reads(0)' = Reads(0) + new
  <2> HIDE DEF new
  <2>1. 0 \in 0 .. Len(rq)
    BY CountTypes
  <2>2. QED
    BY <1>3, <2>1
<1>n. new = 1 => enq /\ PHASE /\ ~issued /\ bus.rd /\ Age(tag', tag_next) = 0
  BY <1>1, CountTypes, Ages DEF enq, q_we
<1>7. Reads(0)' + Running' + Len(rs') <= Tags
  <2> HIDE DEF new
  <2>1. Reads(0) + Running + Len(rs) <= Tags
    BY DEF TagsApart
  <2>2. /\ Reads(0) \in Nat /\ Running \in Nat /\ Len(rs) \in Nat /\ Len(rs') \in Nat /\ Tags \in Nat
        /\ Len(rs') <= Len(rs)
    BY <1>4, CountTypes
  <2>3. CASE new = 0
    BY <1>2, <1>c, <2>1, <2>2, <2>3
  <2>4. CASE new = 1
    BY <1>2, <1>c, <1>5, <2>2, <2>4
  <2>5. QED
    BY <1>t, <2>3, <2>4
<1>8. (PHASE /\ bus.rd /\ ~issued /\ ~done)' => Reads(0)' + Running' + Len(rs') < Tags
  <2> SUFFICES ASSUME (PHASE /\ bus.rd /\ ~issued /\ ~done)'
               PROVE  Reads(0)' + Running' + Len(rs') < Tags
    OBVIOUS
  <2>1. PHASE /\ bus.rd /\ ~issued' /\ ~done'
    BY <1>1 DEF PHASE
  <2>2. ~issued /\ ~done /\ ~enq
    BY <2>1 DEF CpuClk, Strobes, enq
  <2>3. Reads(0) + Running + Len(rs) < Tags /\ new = 0
    BY <2>1, <2>2 DEF TagsApart
  <2> HIDE DEF new
  <2>4. QED
    BY <1>2, <1>c, <1>4, <2>3, CountTypes
<1>9. ASSUME NEW k \in 1 .. Len(rq'), ~rq'[k].we
      PROVE  Age(tag', rq'[k].tag) = Reads(k)'
  <2>1. CASE k \in 1 .. Len(rq)
    <3>1. rq'[k] = rq[k] /\ ~rq[k].we /\ rq[k].tag \in 0 .. Tags - 1 /\ Reads(k) \in Nat
      BY <1>3, <1>9, <2>1, CountTypes
    <3>2. Age(tag, rq[k].tag) = Reads(k) /\ Reads(k) < Reads(0)
      BY <2>1, <3>1, ReadsBehind DEF TagsApart
    <3>3. Age(tag, rq[k].tag) < Reads(0) + Running + Len(rs)
      BY <3>1, <3>2, CountTypes
    <3>4. Reads(k)' = Reads(k) + new
      <4> HIDE DEF new
      <4>1. k \in 0 .. Len(rq)
        BY <2>1, CountTypes
      <4>2. QED
        BY <1>3, <4>1
    <3> HIDE DEF new
    <3>5. QED
      BY <1>6, <3>1, <3>2, <3>3, <3>4
  <2>2. CASE k \notin 1 .. Len(rq)
    <3>1. enq /\ k = Len(rq) + 1
      <4> HIDE DEF new
      <4>1. QED
        BY <1>3, <2>2, CountTypes
    <3>2. rq'[k] = Request /\ Reads(k)' = 0
      <4> HIDE DEF new
      <4>1. k \in Nat
        BY <3>1, CountTypes
      <4>2. QED
        BY <1>3, <3>1, <4>1
    <3>3. ~q_we /\ Request.tag = tag_next
      BY <1>9, <1>w, <3>1, <3>2
    <3>4. new = 1
      BY <3>1, <3>3
    <3> HIDE DEF new
    <3>5. QED
      BY <1>n, <3>2, <3>3, <3>4
  <2>3. QED
    BY <2>1, <2>2
<1>10. (busy /\ ~c.we)' => Age(tag', c'.tag) = Reads(0)'
  <2> SUFFICES ASSUME busy, ~c.we PROVE Age(tag', c.tag) = Reads(0)'
    BY <1>1
  <2>1. Running = 1 /\ Age(tag, c.tag) = Reads(0) /\ c.tag \in 0 .. Tags - 1
    BY CountTypes DEF Running, TagsApart
  <2>2. Age(tag, c.tag) < Reads(0) + Running + Len(rs)
    BY <2>1, CountTypes
  <2> HIDE DEF new
  <2>3. QED
    BY <1>6, <1>c, <2>1, <2>2
<1>11. ASSUME NEW k \in 1 .. Len(rs')
       PROVE  Age(tag', rs'[k].tag) = Reads(0)' + Running' + Len(rs') - k
  <2> DEFINE j == k + (IF rs_pop THEN 1 ELSE 0)
  <2>0. j \in 1 .. Len(rs) /\ rs'[k] = rs[j] /\ Len(rs') = Len(rs) - (IF rs_pop THEN 1 ELSE 0)
    BY <1>4
  <2>1. /\ j \in 1 .. Len(rs) /\ rs'[k] = rs[j] /\ Len(rs') - k = Len(rs) - j
        /\ rs[j].tag \in 0 .. Tags - 1
    BY <1>4, <2>0, CountTypes
  <2> HIDE DEF j, new
  <2>2. Age(tag, rs[j].tag) = Reads(0) + Running + Len(rs) - j
    BY <2>1 DEF TagsApart
  <2>3. Age(tag, rs[j].tag) < Reads(0) + Running + Len(rs)
    <3>1. Reads(0) \in Nat /\ Running \in Nat /\ Len(rs) \in Nat /\ j \in Nat /\ j >= 1
      BY <2>1, CountTypes
    <3>2. QED
      BY <2>2, <3>1
  <2>4. Age(tag', rs[j].tag) = Age(tag, rs[j].tag) + new
    BY <1>6, <2>1, <2>3
  <2>5. Len(rs') \in Nat /\ Len(rs) \in Nat /\ k \in Nat /\ j \in Nat /\ new \in {0, 1}
    BY <1>4, <1>t, <2>1, CountTypes
  <2>6. Reads(0) \in Nat /\ Running \in Nat
    BY CountTypes
  <2>7. Age(tag', rs'[k].tag) = Age(tag, rs[j].tag) + new
    BY <2>1, <2>4
  <2>8. Age(tag', rs'[k].tag) = Reads(0) + Running + Len(rs) - j + new
    BY <2>2, <2>7
  <2>9. Reads(0)' + Running' + Len(rs') - k = Reads(0) + new + Running + (Len(rs) - j)
    BY <1>2, <1>c, <2>1, <2>5, <2>6
  <2>10. QED
    BY <2>5, <2>6, <2>8, <2>9
<1>12. QED
  BY <1>7, <1>8, <1>9, <1>10, <1>11 DEF TagsApart

\* What the queue starts next was its head; the reads behind it are the rest.
LEMMA TagsOnWbClk ==
  ASSUME TInv, TagsApart, WbClk
  PROVE  TagsApart'
<1>1. rs' = rs /\ UNCHANGED <<cpuregs, bus>>
  BY WbClkStep DEF WbClk
<1>2. tag' = tag /\ (PHASE' <=> PHASE) /\ bus' = bus /\ issued' = issued /\ done' = done
  BY <1>1 DEF cpuregs, PHASE
<1>3. CASE start
  <2>1. rq # <<>> /\ rq' = Tail(rq) /\ ~busy /\ busy' /\ c' = rq[1]
    BY <1>3, WbClkStep
  <2>2. /\ Len(rq) > 0 /\ Len(rq') = Len(rq) - 1
        /\ \A k \in 1 .. Len(rq') : rq'[k] = rq[k + 1] /\ k + 1 \in 1 .. Len(rq)
    BY <2>1, CountTypes
  <2>3. \A k \in Nat : Reads(k)' = Reads(k + 1)
    BY <2>1, CountTypes, ReadsTail
  <2>4. Reads(0)' = Reads(1)
    <3>1. Reads(0)' = Reads(0 + 1)
      BY <2>3
    <3>2. 0 + 1 = 1
      OBVIOUS
    <3>3. QED
      BY <3>1, <3>2
  <2>5. Reads(0) = Reads(1) + (IF rq[1].we THEN 0 ELSE 1)
    BY <2>1, CountTypes, ReadsHead
  <2>6. Running = 0 /\ Running' = (IF rq[1].we THEN 0 ELSE 1)
    BY <2>1 DEF Running
  <2>7. Reads(1) \in Nat /\ rq[1] \in Requests
    BY <2>2, CountTypes
  <2>8. Reads(0)' + Running' = Reads(0) + Running
    BY <2>4, <2>5, <2>6, <2>7
  <2>9. ASSUME NEW k \in 1 .. Len(rq'), ~rq'[k].we PROVE Age(tag', rq'[k].tag) = Reads(k)'
    <3>1. rq'[k] = rq[k + 1] /\ k + 1 \in 1 .. Len(rq) /\ k \in Nat
      BY <2>2
    <3>2. Reads(k)' = Reads(k + 1)
      BY <2>3, <3>1
    <3>3. QED
      BY <1>2, <2>9, <3>1, <3>2 DEF TagsApart
  <2>10. ~c'.we => Age(tag', c'.tag) = Reads(0)'
    <3>1. 1 \in 1 .. Len(rq)
      BY <2>2, CountTypes
    <3>2. QED
      BY <1>2, <2>1, <2>4, <3>1 DEF TagsApart
  <2>11. QED
    BY <1>1, <1>2, <2>8, <2>9, <2>10 DEF TagsApart
<1>4. CASE ~start
  <2>1. rq' = rq /\ busy' = busy /\ c' = c
    BY <1>4, WbClkStep
  <2>2. \A k : Reads(k)' = Reads(k)
    BY <2>1 DEF Reads, ReadsAfter
  <2>3. QED
    BY <1>1, <1>2, <2>1, <2>2 DEF TagsApart, Running
<1>5. QED
  BY <1>3, <1>4

\* A read that is answered takes its place at the end of the answers.
LEMMA TagsOnWbAck ==
  ASSUME TInv, TagsApart, WbAck
  PROVE  TagsApart'
<1>1. /\ busy /\ ~busy' /\ rq' = rq /\ c \in Requests
      /\ IF c.we THEN rs' = rs ELSE Answer \in Answers /\ rs' = Append(rs, Answer)
      /\ UNCHANGED <<cpuregs, bus>>
  BY WbAckStep DEF WbAck
<1>2. tag' = tag /\ (PHASE' <=> PHASE) /\ bus' = bus /\ issued' = issued /\ done' = done
  BY <1>1 DEF cpuregs, PHASE
<1>3. \A k : Reads(k)' = Reads(k)
  BY <1>1 DEF Reads, ReadsAfter
<1>4. Running' = 0 /\ Running = IF c.we THEN 0 ELSE 1
  BY <1>1 DEF Running
<1>5. \A k \in 1 .. Len(rq') : ~rq'[k].we => Age(tag', rq'[k].tag) = Reads(k)'
  BY <1>1, <1>2, <1>3 DEF TagsApart
<1>6. CASE c.we
  <2>1. rs' = rs /\ Running' = Running
    BY <1>1, <1>4, <1>6
  <2>2. QED
    BY <1>1, <1>2, <1>3, <1>5, <2>1 DEF TagsApart
<1>7. CASE ~c.we
  <2>1. /\ Len(rs') = Len(rs) + 1 /\ rs'[Len(rs) + 1].tag = c.tag
        /\ \A k \in 1 .. Len(rs) : rs'[k] = rs[k]
    BY <1>1, <1>7, CountTypes DEF Answer
  <2>2. Running = 1 /\ Running' = 0 /\ Reads(0)' = Reads(0)
    BY <1>3, <1>4, <1>7
  <2>3. Reads(0)' + Running' + Len(rs') = Reads(0) + Running + Len(rs)
    BY <2>1, <2>2, CountTypes
  <2>4. ASSUME NEW k \in 1 .. Len(rs')
        PROVE  Age(tag', rs'[k].tag) = Reads(0)' + Running' + Len(rs') - k
    <3>1. CASE k \in 1 .. Len(rs)
      <4>1. Age(tag, rs[k].tag) = Reads(0) + Running + Len(rs) - k
        BY <3>1 DEF TagsApart
      <4>2. Age(tag', rs'[k].tag) = Age(tag, rs[k].tag)
        BY <1>2, <2>1, <3>1
      <4>3. Reads(0) + Running + Len(rs) - k = Reads(0)' + Running' + Len(rs') - k
        BY <2>1, <2>2, CountTypes
      <4>4. QED
        BY <4>1, <4>2, <4>3
    <3>2. CASE k = Len(rs) + 1
      <4>1. Age(tag, c.tag) = Reads(0) /\ rs'[k].tag = c.tag
        BY <1>1, <1>7, <2>1, <3>2 DEF TagsApart
      <4>2. QED
        BY <1>2, <2>1, <2>2, <3>2, <4>1, CountTypes
    <3>3. QED
      BY <2>1, <3>1, <3>2, CountTypes
  <2>5. QED
    BY <1>1, <1>2, <1>5, <2>3, <2>4 DEF TagsApart
<1>8. QED
  BY <1>6, <1>7

\* A read is begun only with a tag to spare.
LEMMA TagsOnMasters ==
  ASSUME TInv, TagsApart, MastersMove \/ UNCHANGED vars
  PROVE  TagsApart'
<1>1. UNCHANGED <<cpuregs, queues, wbregs>>
  BY MasterStep
<1>2. /\ tag' = tag /\ rq' = rq /\ rs' = rs /\ busy' = busy /\ c' = c
      /\ issued' = issued /\ done' = done
  BY <1>1 DEF cpuregs, queues, wbregs
<1>3. (\A k : Reads(k)' = Reads(k)) /\ Running' = Running
  BY <1>2 DEF Reads, ReadsAfter, Running
<1>4. (PHASE /\ bus.rd /\ ~issued /\ ~done)' => Reads(0) + Running + Len(rs) < Tags
  <2>1. CASE EndPhase
    BY <2>1 DEF EndPhase, PHASE
  <2>2. CASE AbandonPhase
    BY <2>2 DEF AbandonPhase, PHASE, TInv, RegistersOK
  <2>3. ASSUME NEW ph \in M!Phases, BeginPhase(ph), (PHASE /\ bus.rd)'
        PROVE  Reads(0) + Running + Len(rs) < Tags
    <3>1. Outstanding < Tags
      BY <2>3 DEF BeginPhase
    <3>2. Outstanding = Reads(0) + Len(rs) + Running
      BY DEF Outstanding, Reads, Running
    <3>3. QED
      BY <3>1, <3>2, CountTypes
  <2>4. CASE UNCHANGED vars
    BY <2>4 DEF vars, PHASE, TagsApart, cpuregs
  <2>5. QED
    BY <2>1, <2>2, <2>3, <2>4 DEF MastersMove
<1>5. QED
  BY <1>2, <1>3, <1>4 DEF TagsApart
-----------------------------------------------------------------------------
(* The answer the machine waits for.                                        *)

AwaitedOne(r) == ~r.we /\ r.tag = tag /\ r.a = bus.a

\* The read that is waited for is the last thing queued, or it is with the
\* memory and nothing is queued, or it was the last to be answered and nothing
\* has been performed since.
Awaited ==
  PHASE /\ issued /\ ~done /\ bus.rd =>
    /\ rq # <<>> => AwaitedOne(rq[Len(rq)])
    /\ rq = <<>> /\ busy => AwaitedOne(c)
    /\ rq = <<>> /\ ~busy => rs # <<>> /\ rs[Len(rs)].tag = tag /\ rs[Len(rs)].d = mem[bus.a][0]

\* An answer with the awaited tag is the awaited answer, and it is fresh.
LEMMA OursIsAwaited ==
  ASSUME TInv, Strobes, TagsApart, Awaited, rs_ours
  PROVE  rq = <<>> /\ ~busy /\ rs[1].d = View[bus.a][0]
<1>1. PHASE /\ issued /\ ~done /\ bus.rd /\ rs[1].tag = tag /\ Len(rs) > 0
  BY OursType DEF rs_ours, rd_wait, TInv
<1>2. Reads(0) + Running + Len(rs) - 1 = 0
  <2>1. 1 \in 1 .. Len(rs)
    BY <1>1, CountTypes
  <2>2. Age(tag, rs[1].tag) = Reads(0) + Running + Len(rs) - 1
    BY <2>1 DEF TagsApart
  <2>3. Age(tag, tag) = 0
    BY CountTypes, Ages
  <2>4. QED
    BY <1>1, <2>2, <2>3
<1>3. Reads(0) = 0 /\ Running = 0 /\ Len(rs) = 1
  <2>1. Reads(0) \in Nat /\ (Running = 0 \/ Running = 1) /\ Len(rs) \in Nat
    BY CountTypes
  <2> DEFINE x == Reads(0)
             y == Running
             z == Len(rs)
  <2>2. x \in Nat /\ y \in Nat /\ z \in Nat
    BY <2>1
  <2>3. x + y + z - 1 = 0 /\ z > 0
    BY <1>1, <1>2
  <2> HIDE DEF x, y, z
  <2>4. x = 0 /\ y = 0 /\ z = 1
    BY <2>2, <2>3
  <2>5. QED
    BY <2>4 DEF x, y, z
<1>4. rq = <<>>
  <2>1. SUFFICES ASSUME rq # <<>> PROVE FALSE
    OBVIOUS
  <2>2. Len(rq) \in 1 .. Len(rq)
    BY <2>1, CountTypes
  <2>3. ~rq[Len(rq)].we
    BY <1>1, <2>1 DEF Awaited, AwaitedOne
  <2>4. Reads(Len(rq)) < Reads(0) /\ Reads(Len(rq)) \in Nat
    BY <2>2, <2>3, ReadsBehind, CountTypes
  <2>5. QED
    BY <1>3, <2>4
<1>5. ~busy
  BY <1>1, <1>3, <1>4 DEF Awaited, AwaitedOne, Running
<1>6. View = mem
  BY <1>4, <1>5, ViewAtRest DEF TInv
<1>7. QED
  BY <1>1, <1>3, <1>4, <1>5, <1>6 DEF Awaited

\* An edge of CLK queues the read, or leaves it where it is until its answer
\* is taken.
LEMMA AwaitedOnCpuClk ==
  ASSUME TInv, Strobes, Awaited, CpuClk
  PROVE  Awaited'
<1> SUFFICES ASSUME (PHASE /\ issued /\ ~done /\ bus.rd)'
             PROVE  (/\ rq # <<>> => AwaitedOne(rq[Len(rq)])
                     /\ rq = <<>> /\ busy => AwaitedOne(c)
                     /\ rq = <<>> /\ ~busy => rs # <<>> /\ rs[Len(rs)].tag = tag
                                              /\ rs[Len(rs)].d = mem[bus.a][0])'
  BY DEF Awaited
<1>1. /\ IF enq THEN Request \in Requests /\ rq' = Append(rq, Request) ELSE rq' = rq
      /\ IF rs_pop THEN rs # <<>> /\ rs' = Tail(rs) ELSE rs' = rs
      /\ busy' = busy /\ c' = c /\ mem' = mem /\ bus' = bus
      /\ tag' = IF enq /\ ~q_we THEN tag_next ELSE tag
  BY CpuClkStep DEF CpuClk, wbregs
<1>2. PHASE /\ bus.rd /\ ENABLE /\ (issued \/ enq) /\ ~done /\ ~rs_ours
  BY <1>1 DEF CpuClk, PHASE
<1>3. CASE enq
  <2>1. Request = [tag |-> tag_next, we |-> FALSE, a |-> bus.a] /\ tag' = tag_next
    BY <1>1, <1>2, <1>3 DEF Request, q_we
  <2>2. rq \in Seq(Requests) /\ rq' = Append(rq, Request) /\ Request \in Requests
    BY <1>1, <1>3, CountTypes
  <2>3. rq' # <<>> /\ rq'[Len(rq')] = Request
    BY <2>2
  <2>4. QED
    BY <1>1, <2>1, <2>3 DEF AwaitedOne
<1>4. CASE ~enq
  <2>1. issued /\ rq' = rq /\ tag' = tag
    BY <1>1, <1>2, <1>4
  <2>2. /\ rq # <<>> => AwaitedOne(rq[Len(rq)])
        /\ rq = <<>> /\ busy => AwaitedOne(c)
        /\ rq = <<>> /\ ~busy => rs # <<>> /\ rs[Len(rs)].tag = tag /\ rs[Len(rs)].d = mem[bus.a][0]
    BY <1>2, <2>1 DEF Awaited
  <2>3. ASSUME rq = <<>>, ~busy
        PROVE  rs' # <<>> /\ rs'[Len(rs')] = rs[Len(rs)]
    <3>1. rs # <<>> /\ rs[Len(rs)].tag = tag /\ rs \in Seq(Answers)
      BY <2>2, <2>3, CountTypes
    <3>2. CASE rs_pop
      <4>1. rs' = Tail(rs)
        BY <1>1, <3>2
      <4>2. rs_vis # 0
        BY <3>2 DEF rs_pop, rs_ours, RS!Empty
      <4>3. Len(rs) # 1
        BY <1>2, <2>1, <3>1, <4>2 DEF rs_ours, rd_wait, RS!Empty
      <4>4. Len(rs) \in Nat /\ Len(rs) > 0
        BY <3>1
      <4>5. Len(rs) \in Nat /\ Len(rs) > 1
        <5>1. \A n \in Nat : n > 0 /\ n # 1 => n > 1
          OBVIOUS
        <5>2. QED
          BY <4>3, <4>4, <5>1
      <4>6. Len(rs') = Len(rs) - 1 /\ rs'[Len(rs) - 1] = rs[Len(rs)] /\ Len(rs') # 0
        BY <3>1, <4>1, <4>5
      <4>7. QED
        BY <4>6
    <3>3. CASE ~rs_pop
      BY <1>1, <3>1, <3>3
    <3>4. QED
      BY <3>2, <3>3
  <2>4. QED
    BY <1>1, <2>1, <2>2, <2>3 DEF AwaitedOne
<1>5. QED
  BY <1>3, <1>4

\* The memory's side carries it on from the queue to the answers.
LEMMA AwaitedOnWb ==
  ASSUME TInv, Awaited, WbClk \/ WbAck
  PROVE  Awaited'
<1>0. /\ UNCHANGED <<tag, bus, issued, done>> /\ (PHASE' <=> PHASE)
      /\ rq \in Seq(Requests) /\ rs \in Seq(Answers)
  BY CountTypes DEF WbClk, WbAck, cpuregs, PHASE
<1> SUFFICES ASSUME PHASE, issued, ~done, bus.rd
             PROVE  (/\ rq # <<>> => AwaitedOne(rq[Len(rq)])
                     /\ rq = <<>> /\ busy => AwaitedOne(c)
                     /\ rq = <<>> /\ ~busy => rs # <<>> /\ rs[Len(rs)].tag = tag
                                              /\ rs[Len(rs)].d = mem[bus.a][0])'
  BY <1>0 DEF Awaited
<1>1. /\ rq # <<>> => AwaitedOne(rq[Len(rq)])
      /\ rq = <<>> /\ busy => AwaitedOne(c)
      /\ rq = <<>> /\ ~busy => rs # <<>> /\ rs[Len(rs)].tag = tag /\ rs[Len(rs)].d = mem[bus.a][0]
  BY DEF Awaited
<1>2. CASE WbClk /\ start
  <2>1. rq # <<>> /\ rq' = Tail(rq) /\ busy' /\ c' = rq[1]
    BY <1>2, WbClkStep
  <2>2. rq' # <<>> => rq'[Len(rq')] = rq[Len(rq)]
    BY <1>0, <2>1
  <2>3. rq' = <<>> => Len(rq) = 1
    <3>1. Len(rq) \in Nat /\ Len(rq) > 0 /\ Len(rq') = Len(rq) - 1
      BY <1>0, <2>1
    <3>2. rq' = <<>> => Len(rq') = 0
      OBVIOUS
    <3>3. QED
      BY <3>1, <3>2
  <2>4. QED
    BY <1>0, <1>1, <2>1, <2>2, <2>3 DEF AwaitedOne
<1>3. CASE WbClk /\ ~start
  <2>1. rq' = rq /\ busy' = busy /\ c' = c /\ rs' = rs /\ mem' = mem
    BY <1>3, WbClkStep DEF WbClk
  <2>2. QED
    BY <1>0, <1>1, <2>1 DEF AwaitedOne
<1>4. CASE WbAck
  <2>1. /\ busy /\ ~busy' /\ rq' = rq /\ mem' = Performed(mem, c)
        /\ IF c.we THEN rs' = rs ELSE Answer \in Answers /\ rs' = Append(rs, Answer)
    BY <1>4, WbAckStep
  <2>2. CASE rq # <<>>
    BY <1>0, <1>1, <2>1, <2>2 DEF AwaitedOne
  <2>3. CASE rq = <<>>
    <3>1. ~c.we /\ c.tag = tag /\ c.a = bus.a
      BY <1>1, <2>1, <2>3 DEF AwaitedOne
    <3>2. rs' = Append(rs, Answer) /\ mem' = mem
      BY <2>1, <3>1 DEF Performed
    <3>3. rs' # <<>> /\ rs'[Len(rs')] = Answer
      BY <1>0, <3>2
    <3>4. QED
      BY <1>0, <2>1, <2>3, <3>1, <3>2, <3>3 DEF Answer
  <2>4. QED
    BY <2>2, <2>3
<1>5. QED
  BY <1>2, <1>3, <1>4

\* A phase that begins waits for nothing yet, one that ends for nothing more.
LEMMA AwaitedOnMasters ==
  ASSUME TInv, Awaited, MastersMove \/ UNCHANGED vars
  PROVE  Awaited'
<1>1. UNCHANGED <<cpuregs, queues, wbregs>>
  BY MasterStep
<1>2. CASE EndPhase
  BY <1>2 DEF EndPhase, Awaited, PHASE
<1>3. CASE AbandonPhase
  BY <1>3 DEF AbandonPhase, Awaited, PHASE
<1>4. ASSUME NEW ph \in M!Phases, BeginPhase(ph) PROVE Awaited'
  BY <1>4 DEF BeginPhase, Awaited, cpuregs
<1>5. CASE UNCHANGED vars
  BY <1>5 DEF vars, Awaited, AwaitedOne, PHASE, cpuregs, queues, wbregs
<1>6. QED
  BY <1>2, <1>3, <1>4, <1>5 DEF MastersMove
-----------------------------------------------------------------------------
(* The queued bridge.                                                       *)

QInv == TInv /\ Strobes /\ TagsApart /\ Awaited

\* Out of reset nothing is queued.
LEMMA InitQInv == Init => QInv
<1> SUFFICES ASSUME Init PROVE QInv
  OBVIOUS
<1>1. TInv
  <2>1. tag \in 0 .. Tags - 1
    BY BridgeAssumption DEF Init
  <2>2. RegistersOK
    BY <2>1 DEF Init, RegistersOK
  <2>3. QueueOK(Requests, ReqDepth, <<>>, 0, 0) /\ QueueOK(Answers, RspDepth, <<>>, 0, 0)
    BY BridgeAssumption DEF QueueOK
  <2>4. QED
    BY <2>2, <2>3 DEF Init, TInv, RequestsOK, AnswersOK, Room, RQ!Start, RS!Start
<1>2. Strobes
  BY DEF Init, Strobes
<1>3. rq = <<>> /\ rs = <<>> /\ ~busy /\ ~PHASE
  BY DEF Init, RQ!Start, RS!Start, PHASE
<1>4. TagsApart
  <2>1. Len(rq) = 0 /\ Len(rs) = 0 /\ Running = 0
    BY <1>3 DEF Running
  <2>2. ReadsAfter(0) = {}
    BY <2>1 DEF ReadsAfter
  <2>3. Reads(0) = 0
    BY <2>2, FS_EmptySet DEF Reads
  <2>4. QED
    BY <1>3, <2>1, <2>3, BridgeAssumption DEF TagsApart
<1>5. Awaited
  BY <1>3 DEF Awaited
<1>6. QED
  BY <1>1, <1>2, <1>4, <1>5 DEF QInv

\* Every step of the queued bridge keeps all of it.
LEMMA StepQInv == QInv /\ [Next]_vars => QInv'
<1> SUFFICES ASSUME QInv, [Next]_vars PROVE QInv'
  OBVIOUS
<1>0. TInv /\ Strobes /\ TagsApart /\ Awaited
  BY DEF QInv
<1>s. Strobes'
  BY <1>0, StepStrobes
<1>1. CASE CpuClk
  <2>1. TInv'
    BY <1>0, <1>1, CpuClkStep
  <2>2. TagsApart'
    BY <1>0, <1>1, <2>1, TagsOnCpuClk
  <2>3. Awaited'
    BY <1>0, <1>1, AwaitedOnCpuClk
  <2>4. QED
    BY <1>s, <2>1, <2>2, <2>3 DEF QInv
<1>2. CASE WbClk \/ WbAck
  <2>1. TInv'
    BY <1>0, <1>2, WbClkStep, WbAckStep
  <2>2. TagsApart'
    BY <1>0, <1>2, TagsOnWbClk, TagsOnWbAck
  <2>3. Awaited'
    BY <1>0, <1>2, AwaitedOnWb
  <2>4. QED
    BY <1>s, <2>1, <2>2, <2>3 DEF QInv
<1>3. CASE MastersMove \/ UNCHANGED vars
  <2>1. TInv'
    BY <1>0, <1>3, MasterStep
  <2>2. TagsApart' /\ Awaited'
    BY <1>0, <1>3, TagsOnMasters, AwaitedOnMasters
  <2>3. QED
    BY <1>s, <2>1, <2>2 DEF QInv
<1>4. QED
  BY <1>1, <1>2, <1>3 DEF Next, MastersMove

\* A write that is put in the queue is taken.
LEMMA ViewWritten ==
  ASSUME TInv, CpuClk, enq, q_we
  PROVE  View' = [View EXCEPT ![bus.a] = M!Merge(@, bus.b, bus.d)]
<1>1. View' = Performed(View, Request)
  BY ViewOnPush
<1>2. Request.a = bus.a /\ Request.we /\ Request.d = bus.d
  BY DEF Request
<1>3. bus.b = Bytes
  BY PhaseType DEF TInv, RegistersOK, enq, PHASE
<1>4. View' = [View EXCEPT ![bus.a] = [i \in Bytes |-> bus.d]]
  BY <1>1, <1>2 DEF Performed
<1>5. M!Merge(View[bus.a], bus.b, bus.d) = [i \in Bytes |-> bus.d]
  BY <1>3 DEF M!Merge
<1>6. QED
  BY <1>4, <1>5

\* An edge of CLK takes the phase, or nothing that the machine can see.
LEMMA SerialOnCpuClk ==
  ASSUME QInv, CpuClk, built = "queued", built' = built
  PROVE  Serial!TakeWrite \/ Serial!TakeRead \/ UNCHANGED <<View, bus, Taken, P_DATA_OUT>>
<1>0. TInv /\ Strobes /\ TagsApart /\ Awaited /\ RegistersOK
  BY DEF QInv, TInv
<1>1. /\ bus' = bus /\ (PHASE' <=> PHASE)
      /\ issued' = (ENABLE /\ PHASE /\ (issued \/ enq))
      /\ done' = (ENABLE /\ PHASE /\ (done \/ (issued /\ q_we) \/ rs_ours))
  BY DEF CpuClk, PHASE
<1>2. CASE enq /\ q_we
  <2>1. PHASE /\ ~bus.rd /\ ~issued /\ ENABLE /\ ~rs_ours
    BY <1>0, <1>2 DEF enq, q_we, rs_ours, rd_wait
  <2>2. View' = [View EXCEPT ![bus.a] = M!Merge(@, bus.b, bus.d)]
    BY <1>0, <1>2, ViewWritten
  <2>3. P_DATA_OUT' = P_DATA_OUT
    BY <2>1 DEF CpuClk
  <2>4. Taken' /\ ~Taken
    BY <1>1, <1>2, <2>1 DEF Taken
  <2>5. QED
    BY <1>1, <2>1, <2>2, <2>3, <2>4
       DEF Memory, Serial!TakeWrite, Serial!Merge, M!Merge, Serial!NoPhase, M!NoPhase, NoPhase, PHASE
<1>3. CASE rs_ours
  <2>1. PHASE /\ bus.rd /\ ENABLE /\ ~done /\ bus.b = {0}
    BY <1>0, <1>3, PhaseType, OneByte DEF rs_ours, rd_wait, RegistersOK, PHASE
  <2>2. ~enq
    BY <1>3 DEF enq, rs_ours, rd_wait
  <2>3. View' = View
    BY <1>0, <2>2, ViewOnPush
  <2>4. P_DATA_OUT' = [i \in bus.b |-> View[bus.a][i]]
    <3>1. rs[1].d = View[bus.a][0]
      BY <1>0, <1>3, OursIsAwaited
    <3>2. QED
      BY <1>3, <2>1, <3>1 DEF CpuClk
  <2>5. Taken' /\ ~Taken
    BY <1>1, <1>3, <2>1 DEF Taken
  <2>6. QED
    BY <1>1, <2>1, <2>3, <2>4, <2>5
       DEF Memory, Serial!TakeRead, Serial!NoPhase, M!NoPhase, NoPhase, PHASE
<1>4. CASE ~(enq /\ q_we) /\ ~rs_ours
  <2>1. View' = View
    <3>1. CASE enq
      <4>1. ~Request.we /\ View' = Performed(View, Request)
        BY <1>0, <1>4, <3>1, ViewOnPush DEF Request
      <4>2. QED
        BY <4>1 DEF Performed
    <3>2. CASE ~enq
      BY <1>0, <3>2, ViewOnPush
    <3>3. QED
      BY <3>1, <3>2
  <2>2. P_DATA_OUT' = P_DATA_OUT
    BY <1>0, <1>4 DEF CpuClk, Strobes
  <2>3. Taken' = Taken
    BY <1>0, <1>1, <1>4 DEF Taken, Strobes, q_we, RegistersOK
  <2>4. QED
    BY <1>1, <2>1, <2>2, <2>3
<1>5. QED
  BY <1>2, <1>3, <1>4

\* Every step of the queued bridge is one of the memory's, or none.
LEMMA SerialQueued ==
  ASSUME QInv, [Next]_vars, built = "queued", built' = built
  PROVE  [Serial!Next]_(Serial!mvars)
<1>0. TInv
  BY DEF QInv
<1>m. /\ Serial!mvars = <<View, bus, Taken, P_DATA_OUT>>
      /\ Serial!mvars' = <<View, bus, Taken, P_DATA_OUT>>'
  BY DEF Serial!mvars, Memory
<1>1. CASE CpuClk
  BY <1>1, <1>m, SerialOnCpuClk DEF Serial!Next
<1>2. CASE WbClk \/ WbAck
  <2>1. View' = View /\ UNCHANGED <<cpuregs, bus>>
    BY <1>0, <1>2, ViewOnWb DEF WbClk, WbAck
  <2>2. QED
    BY <1>m, <2>1 DEF Taken, cpuregs, PHASE
<1>3. CASE MastersMove \/ UNCHANGED vars
  <2>1. UNCHANGED <<cpuregs, queues, wbregs>>
    BY <1>0, <1>3, MasterStep
  <2>2. View' = View /\ issued' = issued /\ done' = done /\ P_DATA_OUT' = P_DATA_OUT
    BY <2>1 DEF View, queues, wbregs, cpuregs
  <2>3. CASE EndPhase \/ AbandonPhase
    <3>1. bus # NoPhase /\ bus' = NoPhase /\ ~Taken'
      BY <2>3 DEF EndPhase, AbandonPhase, PHASE, Taken
    <3>2. Serial!Release
      BY <2>2, <3>1 DEF Serial!Release, Serial!NoPhase, M!NoPhase, NoPhase, Taken, PHASE, Memory
    <3>3. QED
      BY <3>2 DEF Serial!Next
  <2>4. CASE UNCHANGED vars
    BY <1>m, <2>2, <2>4 DEF vars, PHASE, Taken
  <2>5. ASSUME NEW ph \in M!Phases, BeginPhase(ph) PROVE [Serial!Next]_(Serial!mvars)
    <3>1. bus = NoPhase /\ bus' = ph /\ ~issued /\ ~done
      BY <2>5 DEF BeginPhase, PHASE
    <3>2. ph \in Serial!Phases
      BY DEF M!Phases, M!Reads, M!Writes, Serial!Phases, Serial!Reads, Serial!Writes
    <3>3. Serial!Begin(ph)
      BY <2>2, <3>1 DEF Serial!Begin, Serial!NoPhase, M!NoPhase, NoPhase, PHASE, Taken, Memory
    <3>4. QED
      BY <3>2, <3>3 DEF Serial!Next
  <2>6. QED
    BY <1>3, <2>3, <2>4, <2>5 DEF MastersMove
<1>4. QED
  BY <1>1, <1>2, <1>3 DEF Next, MastersMove
-----------------------------------------------------------------------------
(* The synchronous bridge: a request on one toggle, its answer on another.  *)

\* Three flip-flops that have seen t come through.
Same(s, t) == s[1] = t /\ s[2] = t /\ s[3] = t

SynchronousTypes ==
  /\ ENABLE \in BOOLEAN /\ issued \in BOOLEAN /\ done \in BOOLEAN /\ dtack \in BOOLEAN
  /\ P_DATA_OUT \in {<<>>} \cup [Bytes -> Byte]
  /\ bus \in M!Phases \cup {NoPhase}
  /\ mem \in [Lines -> [Bytes -> Byte]]
  /\ busy \in BOOLEAN /\ wb_ack_o \in BOOLEAN /\ wb_dat_o \in Byte
  /\ waiting \in BOOLEAN /\ rd_lane \in Byte /\ stray \in BOOLEAN
  /\ req_tgl \in BOOLEAN /\ ack_tgl \in BOOLEAN
  /\ \A i \in 1 .. 3 : req_s[i] \in BOOLEAN /\ ack_s[i] \in BOOLEAN

\* What the queued bridge would have stays as it came out of reset.
QueuesAtRest ==
  /\ tag = 0 /\ c = NoRequest
  /\ rq = <<>> /\ rq_vis = 0 /\ rq_lag = 0
  /\ rs = <<>> /\ rs_vis = 0 /\ rs_lag = 0

\* The memory's side has nothing to do, or it is about to see the toggle of
\* what is asked, or it has seen it and waits for the arbiter.
Asked ==
  /\ req_tgl = ack_tgl => Same(req_s, req_tgl) /\ ~waiting
  /\ req_tgl # ack_tgl =>
       \/ waiting /\ Same(req_s, req_tgl)
       \/ /\ ~waiting /\ req_s[3] = ack_tgl
          /\ req_s[2] = req_tgl => req_s[1] = req_tgl

\* Wishbone's side has nothing to hear, or it is about to see the answer.
Told ==
  /\ ~busy => req_tgl = ack_tgl
  /\ ~busy \/ req_tgl # ack_tgl => Same(ack_s, ack_tgl)
  /\ busy /\ req_tgl = ack_tgl =>
       /\ ack_s[3] # ack_tgl
       /\ ack_s[2] = ack_tgl => ack_s[1] = ack_tgl

\* What the adapter can be given to do.
WbRequests == [we : {FALSE}, a : Lines] \cup [we : {TRUE}, a : Lines, d : Byte]

\* From its capture to its acknowledgement a phase stands on the strobes, unless
\* it is a stray, and then none can have been served since; a read's answer is
\* what the memory holds.
Standing ==
  /\ ~(busy /\ wb_ack_o)
  /\ busy \/ wb_ack_o => ENABLE /\ ~done /\ ~dtack /\ req \in WbRequests
  /\ (busy \/ wb_ack_o) /\ ~stray => PHASE /\ issued /\ req = S!WbRequest
  /\ stray => busy \/ wb_ack_o
  /\ busy /\ req_tgl = ack_tgl /\ ~req.we => rd_lane = mem[req.a][0]
  /\ wb_ack_o /\ ~req.we => wb_dat_o = mem[req.a][0]

SInv == SynchronousTypes /\ QueuesAtRest /\ Strobes /\ Asked /\ Told /\ Standing

\* Both bridges call the absence of a phase the same.
LEMMA SamePhase == S!NoPhase = NoPhase /\ (S!PHASE <=> PHASE)
BY DEF S!NoPhase, S!M!NoPhase, NoPhase, M!NoPhase, S!PHASE, PHASE

\* Out of reset nothing has been asked.
LEMMA InitSInv == Init /\ S!Init => SInv
<1> SUFFICES ASSUME Init, S!Init PROVE SInv
  OBVIOUS
<1>1. SynchronousTypes
  <2>1. \A i \in 1 .. 3 : req_s[i] \in BOOLEAN /\ ack_s[i] \in BOOLEAN
    <3>1. /\ req_s[1] = FALSE /\ req_s[2] = FALSE /\ req_s[3] = FALSE
          /\ ack_s[1] = FALSE /\ ack_s[2] = FALSE /\ ack_s[3] = FALSE
      BY DEF S!Init
    <3>2. \A i \in 1 .. 3 : i = 1 \/ i = 2 \/ i = 3
      OBVIOUS
    <3>3. QED
      BY <3>1, <3>2
  <2>2. /\ P_DATA_OUT \in {<<>>} \cup [Bytes -> Byte] /\ bus = NoPhase
        /\ mem \in [Lines -> [Bytes -> Byte]]
    BY DEF Init
  <2>3. QED
    BY <2>1, <2>2, BridgeAssumption DEF S!Init, SynchronousTypes
<1>2. QueuesAtRest /\ Strobes
  BY DEF Init, QueuesAtRest, Strobes, RQ!Start, RS!Start
<1>3. Asked /\ Told /\ Standing
  BY DEF S!Init, Asked, Told, Standing, Same
<1>4. QED
  BY <1>1, <1>2, <1>3 DEF SInv

\* What is captured is what stands on the strobes.
LEMMA CapturedType ==
  ASSUME SynchronousTypes, PHASE
  PROVE  /\ bus \in M!Phases /\ bus.rd \in BOOLEAN /\ bus.a \in Lines /\ bus.b = Bytes
         /\ S!WbRequest.a = bus.a /\ (S!WbRequest.we <=> ~bus.rd)
         /\ ~bus.rd => S!WbRequest.d = bus.d /\ bus.d \in Byte
<1>1. bus \in M!Phases
  BY DEF SynchronousTypes, PHASE
<1>2. /\ bus.rd \in BOOLEAN /\ bus.a \in Lines /\ bus.b = Bytes
      /\ ~bus.rd => bus.d \in Byte
  BY <1>1, PhaseType
<1>3. CASE bus.rd
  BY <1>1, <1>2, <1>3 DEF S!WbRequest
<1>4. CASE ~bus.rd
  BY <1>1, <1>2, <1>4 DEF S!WbRequest
<1>5. QED
  BY <1>3, <1>4

\* What the adapter captures is something it can be given to do.
LEMMA Captured ==
  ASSUME SynchronousTypes, PHASE
  PROVE  S!WbRequest \in WbRequests
<1>1. bus.rd \in BOOLEAN /\ bus.a \in Lines /\ (~bus.rd => bus.d \in Byte)
  BY CapturedType
<1>2. QED
  BY <1>1 DEF S!WbRequest, WbRequests

\* An answer is told while the request stands, and only once.
LEMMA Pulse ==
  ASSUME SInv, busy, S!ack_pulse
  PROVE  req_tgl = ack_tgl /\ ack_s[2] = ack_tgl /\ ack_s[1] = ack_tgl
BY DEF SInv, Told, Same, SynchronousTypes, S!ack_pulse

\* An edge of the bridge's clock.
LEMMA SInvOnCpuClk ==
  ASSUME SInv, S!CpuClk, UNCHANGED <<tag, queues, c>>
  PROVE  SInv'
<1>0. SynchronousTypes /\ QueuesAtRest /\ Strobes /\ Asked /\ Told /\ Standing
  BY DEF SInv
<1>1. /\ bus' = bus /\ (PHASE' <=> PHASE) /\ mem' = mem
      /\ UNCHANGED <<req_s, waiting, ack_tgl, rd_lane>>
      /\ S!BridgeClk /\ S!AdapterClk
  BY DEF S!CpuClk, S!uiregs, PHASE
<1>2. /\ issued' = (ENABLE /\ PHASE /\ (issued \/ S!wb_cyc_o))
      /\ done' = (ENABLE /\ PHASE /\ (done \/ S!ours))
      /\ ENABLE' \in BOOLEAN /\ (ENABLE => ENABLE')
      /\ dtack' = (PHASE /\ ENABLE /\ (S!ours \/ done))
      /\ wb_ack_o' = (busy /\ S!ack_pulse)
      /\ stray' = (stray /\ (busy' \/ wb_ack_o'))
  BY <1>0, <1>1, SamePhase DEF S!CpuClk, S!BridgeClk, S!AdapterClk, S!W_ACK, SynchronousTypes
<1>3. \E x \in {ack_s[1], ack_tgl} : ack_s' = <<x, ack_s[1], ack_s[2]>>
  BY <1>1 DEF S!AdapterClk
<1>4. SynchronousTypes' /\ QueuesAtRest' /\ Strobes'
  <2>1. P_DATA_OUT' \in {<<>>} \cup [Bytes -> Byte] /\ (~ENABLE' => P_DATA_OUT' = <<>>)
    <3>1. P_DATA_OUT' = P_DATA_OUT \/ P_DATA_OUT' = S!Word \/ P_DATA_OUT' = <<>>
      BY <1>1 DEF S!BridgeClk, S!Loaded
    <3>2. S!Word \in [Bytes -> Byte]
      BY <1>0 DEF S!Word, S!Bytes, Bytes, SynchronousTypes
    <3>3. CASE ENABLE
      BY <1>0, <1>2, <3>1, <3>2, <3>3 DEF SynchronousTypes
    <3>4. CASE ~ENABLE
      BY <1>1, <3>4 DEF S!BridgeClk, S!Loaded
    <3>5. QED
      BY <3>3, <3>4
  <2>2. \A i \in 1 .. 3 : ack_s'[i] \in BOOLEAN /\ req_s'[i] \in BOOLEAN
    BY <1>0, <1>1, <1>3 DEF SynchronousTypes
  <2>3. issued' \in BOOLEAN /\ done' \in BOOLEAN /\ dtack' \in BOOLEAN /\ wb_ack_o' \in BOOLEAN
    BY <1>2
  <2>4. req_tgl' \in BOOLEAN /\ busy' \in BOOLEAN /\ wb_dat_o' \in Byte /\ stray' \in BOOLEAN
    BY <1>0, <1>1, <1>2 DEF S!AdapterClk, SynchronousTypes
  <2>5. SynchronousTypes'
    BY <1>0, <1>1, <1>2, <2>1, <2>2, <2>3, <2>4 DEF SynchronousTypes
  <2>6. QueuesAtRest'
    BY <1>0 DEF QueuesAtRest, queues
  <2>7. Strobes'
    BY <1>0, <1>2, <2>1 DEF Strobes, S!ours
  <2>8. QED
    BY <2>5, <2>6, <2>7
<1>5. CASE S!capture
  \* Nothing was asked and nothing was left to tell.
  <2>1. /\ ~busy /\ ENABLE /\ PHASE /\ ~done /\ ~wb_ack_o
        /\ req' = S!WbRequest /\ req_tgl' = ~req_tgl /\ busy' = TRUE
    BY <1>1, <1>5, SamePhase DEF S!capture, S!wb_cyc_o, S!AdapterClk
  <2>2. /\ req_tgl = ack_tgl /\ Same(ack_s, ack_tgl) /\ Same(req_s, req_tgl) /\ ~waiting
    BY <1>0, <2>1 DEF Told, Asked
  <2>3. req_tgl' # ack_tgl' /\ Same(ack_s', ack_tgl')
    BY <1>0, <1>1, <1>3, <2>1, <2>2 DEF Same, SynchronousTypes
  <2>4. Asked'
    BY <1>0, <1>1, <2>1, <2>2, <2>3 DEF Asked, Same, SynchronousTypes
  <2>5. Told'
    BY <2>1, <2>3 DEF Told
  <2>6. issued' /\ ~done' /\ ~dtack' /\ ~wb_ack_o' /\ ~stray'
    BY <1>0, <1>2, <1>5, <2>1 DEF S!ours, S!capture, Standing
  <2>7. S!WbRequest' = S!WbRequest
    BY <1>1 DEF S!WbRequest
  <2>8. Standing'
    <3>1. S!WbRequest \in WbRequests
      BY <1>0, <2>1, Captured
    <3>2. QED
      BY <1>1, <1>2, <2>1, <2>3, <2>6, <2>7, <3>1 DEF Standing, WbRequests
  <2>9. QED
    BY <1>4, <2>4, <2>5, <2>8 DEF SInv
<1>6. CASE busy /\ S!ack_pulse
  \* The answer is told: the data settled long ago.
  <2>1. req_tgl = ack_tgl /\ ack_s[2] = ack_tgl /\ ack_s[1] = ack_tgl
    BY <1>6, Pulse
  <2>2. /\ req' = req /\ req_tgl' = req_tgl /\ busy' = FALSE /\ wb_ack_o' = TRUE
        /\ wb_dat_o' = rd_lane
    BY <1>1, <1>2, <1>6 DEF S!AdapterClk, S!capture
  <2>3. Same(ack_s', ack_tgl')
    BY <1>1, <1>3, <2>1 DEF Same
  <2>4. Asked'
    BY <1>0, <1>1, <2>2 DEF Asked
  <2>5. Told'
    BY <1>1, <2>1, <2>2, <2>3 DEF Told
  <2>6. /\ ENABLE /\ ~done /\ ~wb_ack_o /\ req \in WbRequests
        /\ ~stray => PHASE /\ issued /\ req = S!WbRequest
        /\ ~req.we => rd_lane = mem[req.a][0]
    BY <1>0, <1>6, <2>1 DEF Standing
  <2>7. ~done' /\ ~dtack' /\ ENABLE' /\ (stray' <=> stray) /\ (~stray => issued')
    BY <1>0, <1>2, <2>2, <2>6 DEF S!ours, SynchronousTypes
  <2>8. S!WbRequest' = S!WbRequest
    BY <1>1 DEF S!WbRequest
  <2>9. Standing'
    BY <1>1, <2>2, <2>6, <2>7, <2>8 DEF Standing, WbRequests
  <2>10. QED
    BY <1>4, <2>4, <2>5, <2>9 DEF SInv
<1>7. CASE ~S!capture /\ ~(busy /\ S!ack_pulse)
  <2>1. /\ req' = req /\ req_tgl' = req_tgl /\ busy' = busy /\ wb_dat_o' = wb_dat_o
        /\ wb_ack_o' = FALSE
    BY <1>1, <1>2, <1>7 DEF S!AdapterClk
  <2>2. Asked'
    BY <1>0, <1>1, <2>1 DEF Asked
  <2>3. Told'
    BY <1>0, <1>1, <1>3, <1>7, <2>1 DEF Told, Same, S!ack_pulse
  <2>4. Standing'
    <3>1. CASE busy
      <4>1. /\ ENABLE /\ ~done /\ ~wb_ack_o /\ req \in WbRequests
            /\ ~stray => PHASE /\ issued /\ req = S!WbRequest
        BY <1>0, <3>1 DEF Standing
      <4>2. ~done' /\ ~dtack' /\ ENABLE' /\ (stray' <=> stray) /\ (~stray => issued')
        BY <1>0, <1>2, <2>1, <3>1, <4>1 DEF S!ours, SynchronousTypes
      <4>3. S!WbRequest' = S!WbRequest
        BY <1>1 DEF S!WbRequest
      <4>4. QED
        BY <1>0, <1>1, <2>1, <3>1, <4>1, <4>2, <4>3 DEF Standing, WbRequests
    <3>2. CASE ~busy
      <4>1. ~busy' /\ ~wb_ack_o' /\ ~stray'
        BY <1>2, <2>1, <3>2
      <4>2. QED
        BY <4>1 DEF Standing
    <3>3. QED
      BY <3>1, <3>2
  <2>5. QED
    BY <1>4, <2>2, <2>3, <2>4 DEF SInv
<1>8. QED
  BY <1>5, <1>6, <1>7

\* An edge of the memory's clock: the toggle comes closer, and while a request
\* is under way nothing of it changes.
LEMMA SInvOnUiClk ==
  ASSUME SInv, S!UiClk \/ S!UiDone, UNCHANGED <<tag, queues, c>>
  PROVE  SInv'
<1>0. SynchronousTypes /\ QueuesAtRest /\ Strobes /\ Asked /\ Told /\ Standing
  BY DEF SInv
<1>1. /\ UNCHANGED <<ENABLE, issued, done, P_DATA_OUT, dtack, bus>> /\ (PHASE' <=> PHASE)
      /\ UNCHANGED <<busy, req, req_tgl, wb_ack_o, wb_dat_o, ack_s, stray>>
  BY DEF S!UiClk, S!UiDone, S!bridge, S!adapter, PHASE
<1>2. \E x \in {req_s[1], req_tgl} : req_s' = <<x, req_s[1], req_s[2]>>
  BY DEF S!UiClk, S!UiDone, S!Crossing
<1>3. S!WbRequest' = S!WbRequest
  BY <1>1 DEF S!WbRequest
<1>4. QueuesAtRest' /\ Strobes'
  BY <1>0, <1>1 DEF QueuesAtRest, queues, Strobes
<1>5. \A i \in 1 .. 3 : ack_s'[i] \in BOOLEAN /\ req_s'[i] \in BOOLEAN
  BY <1>0, <1>1, <1>2 DEF SynchronousTypes
<1>6. CASE S!UiClk
  <2>1. waiting' = (waiting \/ S!req_pulse) /\ UNCHANGED <<ack_tgl, rd_lane, mem>>
    BY <1>6 DEF S!UiClk
  <2>2. SynchronousTypes'
    BY <1>0, <1>1, <1>5, <2>1 DEF SynchronousTypes
  <2>3. Asked'
    <3>0. ASSUME Same(req_s, req_tgl) PROVE Same(req_s', req_tgl) /\ ~S!req_pulse
      BY <1>2, <3>0 DEF Same, S!req_pulse
    <3>1. CASE req_tgl = ack_tgl
      <4>1. Same(req_s, req_tgl) /\ ~waiting
        BY <1>0, <3>1 DEF Asked
      <4>2. Same(req_s', req_tgl') /\ ~waiting' /\ req_tgl' = ack_tgl'
        BY <1>1, <2>1, <3>0, <3>1, <4>1
      <4>3. QED
        BY <4>2 DEF Asked
    <3>2. CASE req_tgl # ack_tgl /\ waiting
      <4>1. Same(req_s, req_tgl)
        BY <1>0, <3>2 DEF Asked
      <4>2. Same(req_s', req_tgl') /\ waiting' /\ req_tgl' # ack_tgl'
        BY <1>1, <2>1, <3>0, <3>2, <4>1
      <4>3. QED
        BY <4>2 DEF Asked
    <3>3. CASE req_tgl # ack_tgl /\ ~waiting
      BY <1>0, <1>1, <1>2, <2>1, <3>3 DEF Asked, Same, S!req_pulse, SynchronousTypes
    <3>4. QED
      BY <1>0, <3>1, <3>2, <3>3 DEF SynchronousTypes
  <2>4. Told' /\ Standing'
    BY <1>0, <1>1, <1>3, <2>1 DEF Told, Standing, WbRequests
  <2>5. QED
    BY <1>4, <2>2, <2>3, <2>4 DEF SInv
<1>7. CASE S!UiDone
  <2>1. /\ waiting /\ waiting' = FALSE /\ ack_tgl' = ~ack_tgl
        /\ mem' = S!Performed(mem, req)
        /\ rd_lane' \in IF req.we THEN Byte ELSE {mem[req.a][0]}
    BY <1>7 DEF S!UiDone
  <2>2. req_tgl # ack_tgl /\ Same(req_s, req_tgl) /\ busy /\ Same(ack_s, ack_tgl)
    BY <1>0, <2>1 DEF Asked, Told
  <2>3. req.a \in Lines /\ (req.we => req.d \in Byte) /\ req.we \in BOOLEAN
    BY <1>0, <2>2 DEF Standing, WbRequests
  <2>4. mem' \in [Lines -> [Bytes -> Byte]] /\ (~req.we => mem' = mem)
    BY <1>0, <2>1, <2>3 DEF S!Performed, S!Bytes, Bytes, SynchronousTypes
  <2>5. rd_lane' \in Byte
    BY <1>0, <2>1, <2>3, OneByte DEF SynchronousTypes
  <2>6. ack_tgl' = req_tgl
    BY <1>0, <2>1, <2>2 DEF SynchronousTypes
  <2>7. SynchronousTypes'
    BY <1>0, <1>1, <1>5, <2>1, <2>4, <2>5, <2>6 DEF SynchronousTypes
  <2>8. Asked'
    BY <1>1, <1>2, <2>1, <2>2, <2>6 DEF Asked, Same
  <2>9. Told'
    BY <1>0, <1>1, <2>2, <2>6 DEF Told, Same
  <2>10. Standing'
    BY <1>0, <1>1, <1>3, <2>1, <2>2, <2>4 DEF Standing, WbRequests
  <2>11. QED
    BY <1>4, <2>7, <2>8, <2>9, <2>10 DEF SInv
<1>8. QED
  BY <1>6, <1>7

\* A phase that ends or begins leaves nothing under way but strays, and the
\* adapter runs what a master walks away from as one.
LEMMA SInvOnMasters ==
  ASSUME SInv, UNCHANGED <<tag, queues, c>>,
         \/ S!EndPhase \/ S!AbandonPhase
         \/ \E ph \in M!Phases : S!BeginPhase(ph)
         \/ UNCHANGED <<vars, syncregs>>
  PROVE  SInv'
<1>0. SynchronousTypes /\ QueuesAtRest /\ Strobes /\ Asked /\ Told /\ Standing
  BY DEF SInv
<1> DEFINE Still == /\ UNCHANGED <<ENABLE, issued, done, P_DATA_OUT, dtack>>
                    /\ UNCHANGED <<busy, req, req_tgl, wb_ack_o, wb_dat_o, ack_s>>
                    /\ UNCHANGED <<req_s, waiting, ack_tgl, rd_lane, mem>>
                    /\ bus' \in M!Phases \cup {NoPhase} /\ stray' \in BOOLEAN
                    /\ stray' => busy \/ wb_ack_o
                    /\ (busy \/ wb_ack_o) /\ ~stray' => ~stray /\ bus' = bus
<1>1. Still
  <2>1. CASE S!EndPhase
    <3>1. ~busy /\ ~wb_ack_o /\ ~stray
      BY <1>0, <2>1 DEF S!EndPhase, Standing
    <3>2. QED
      BY <1>0, <2>1, <3>1, SamePhase DEF S!EndPhase, S!bridge, S!adapter, S!uiregs, SynchronousTypes
  <2>2. CASE S!AbandonPhase
    BY <1>0, <2>2, SamePhase DEF S!AbandonPhase, S!bridge, S!adapter, S!uiregs, SynchronousTypes
  <2>3. ASSUME NEW ph \in M!Phases, S!BeginPhase(ph) PROVE Still
    <3>1. (busy \/ wb_ack_o) => stray
      BY <1>0, <2>3, SamePhase DEF S!BeginPhase, Standing
    <3>2. QED
      BY <1>0, <2>3, <3>1 DEF S!BeginPhase, S!bridge, S!adapter, S!uiregs, Standing, SynchronousTypes
  <2>4. CASE UNCHANGED <<vars, syncregs>>
    BY <1>0, <2>4 DEF vars, cpuregs, wbregs, syncregs, Standing, SynchronousTypes
  <2>5. QED
    BY <2>1, <2>2, <2>3, <2>4
<1> HIDE DEF Still
<1>2. SynchronousTypes' /\ QueuesAtRest' /\ Strobes' /\ Asked' /\ Told'
  BY <1>0, <1>1 DEF Still, SynchronousTypes, QueuesAtRest, queues, Strobes, Asked, Told
<1>3. bus' = bus => S!WbRequest' = S!WbRequest /\ (PHASE' <=> PHASE)
  BY <1>1 DEF S!WbRequest, PHASE
<1>4. Standing'
  BY <1>0, <1>1, <1>3 DEF Still, Standing, WbRequests
<1>5. QED
  BY <1>2, <1>4 DEF SInv

\* A write that is asked for is the machine's memory written.
LEMMA AskedView ==
  ASSUME SInv, S!CpuClk, S!capture
  PROVE  S!View' = IF bus.rd THEN S!View
                   ELSE [S!View EXCEPT ![bus.a] = M!Merge(@, bus.b, bus.d)]
<1>0. SynchronousTypes /\ Told
  BY DEF SInv
<1>1. /\ ~busy /\ PHASE /\ req' = S!WbRequest /\ req_tgl' = ~req_tgl
      /\ UNCHANGED <<ack_tgl, mem>>
  BY SamePhase DEF S!CpuClk, S!uiregs, S!AdapterClk, S!capture, S!wb_cyc_o
<1>2. req_tgl = ack_tgl /\ req_tgl' # ack_tgl'
  BY <1>0, <1>1 DEF Told, SynchronousTypes
<1>3. S!View = mem /\ S!View' = S!Performed(mem, S!WbRequest)
  BY <1>1, <1>2 DEF S!View, S!Performed
<1>4. /\ bus.rd \in BOOLEAN /\ bus.b = Bytes
      /\ S!WbRequest.a = bus.a /\ (S!WbRequest.we <=> ~bus.rd)
      /\ ~bus.rd => S!WbRequest.d = bus.d
  BY <1>0, <1>1, CapturedType
<1>5. CASE bus.rd
  BY <1>3, <1>4, <1>5 DEF S!Performed
<1>6. CASE ~bus.rd
  <2>1. S!View' = [mem EXCEPT ![bus.a] = [i \in Bytes |-> bus.d]]
    BY <1>3, <1>4, <1>6 DEF S!Performed, S!Bytes, Bytes
  <2>2. M!Merge(mem[bus.a], bus.b, bus.d) = [i \in Bytes |-> bus.d]
    BY <1>4 DEF M!Merge
  <2>3. QED
    BY <1>3, <1>6, <2>1, <2>2
<1>7. QED
  BY <1>4, <1>5, <1>6

\* The acknowledgement of a stray spoils the phase whose request is out, or it
\* is nothing that the machine can see.
LEMMA StrayOnBridgeClk ==
  ASSUME SInv, S!CpuClk, stray, wb_ack_o
  PROVE  S!OrphanTaken \/ UNCHANGED <<S!View, bus, S!Taken, P_DATA_OUT>>
<1>0. SynchronousTypes /\ Strobes /\ Standing
  BY DEF SInv
<1>1. /\ bus' = bus /\ (PHASE' <=> PHASE) /\ UNCHANGED <<mem, ack_tgl>>
      /\ S!BridgeClk /\ S!AdapterClk /\ stray' = (stray /\ (busy' \/ wb_ack_o'))
  BY DEF S!CpuClk, S!uiregs, PHASE
<1>2. ENABLE /\ ~done /\ ~busy
  BY <1>0 DEF Standing
<1>3. /\ ~busy' /\ ~wb_ack_o' /\ ~stray' /\ UNCHANGED <<req, req_tgl>>
      /\ done' = (PHASE /\ issued)
  BY <1>0, <1>1, <1>2, SamePhase DEF S!AdapterClk, S!BridgeClk, S!capture, S!ours, SynchronousTypes
<1>4. S!View' = S!View
  BY <1>1, <1>3 DEF S!View, S!Performed
<1>5. ~S!Taken /\ (S!Taken' <=> PHASE /\ issued)
  <2>1. S!Taken = (PHASE /\ IF bus.rd \/ stray THEN done ELSE busy \/ wb_ack_o \/ done)
    BY SamePhase DEF S!Taken
  <2>2. S!Taken' = (PHASE' /\ IF bus'.rd \/ stray' THEN done' ELSE busy' \/ wb_ack_o' \/ done')
    BY SamePhase DEF S!Taken, S!PHASE, PHASE, S!NoPhase, S!M!NoPhase, NoPhase, M!NoPhase
  <2>3. QED
    BY <1>1, <1>2, <1>3, <2>1, <2>2
<1>6. CASE issued
  <2>1. S!ours /\ S!Orphaned
    BY <1>6 DEF S!ours, S!Orphaned
  <2>2. CASE PHASE
    <3>1. P_DATA_OUT' = IF bus.rd THEN S!Word ELSE P_DATA_OUT
      BY <1>1, <1>2, <2>1, <2>2, SamePhase DEF S!BridgeClk, S!Loaded
    <3>2. QED
      BY <1>1, <1>3, <1>4, <1>5, <1>6, <2>1, <2>2, <3>1, SamePhase DEF S!OrphanTaken
  <2>3. CASE ~PHASE
    <3>1. P_DATA_OUT' \in {P_DATA_OUT, S!Word}
      BY <1>1, <1>2, <2>1, <2>3, SamePhase DEF S!BridgeClk, S!Loaded
    <3>2. QED
      BY <1>1, <1>3, <1>4, <1>5, <2>1, <2>3, <3>1, SamePhase DEF S!OrphanTaken
  <2>4. QED
    BY <2>2, <2>3
<1>7. CASE ~issued
  <2>1. P_DATA_OUT' = P_DATA_OUT
    BY <1>1, <1>2, <1>7 DEF S!BridgeClk, S!Loaded, S!ours
  <2>2. S!Taken = FALSE /\ S!Taken' = FALSE
    BY <1>5, <1>7 DEF S!Taken
  <2>3. QED
    BY <1>1, <1>4, <2>1, <2>2
<1>8. QED
  BY <1>6, <1>7

\* An edge of the bridge's clock takes the phase, or nothing that the machine
\* can see, unless it takes a stray's acknowledgement.
LEMMA SerialOnBridgeClk ==
  ASSUME SInv, S!CpuClk, built = "synchronous", built' = built
  PROVE  Serial!TakeWrite \/ Serial!TakeRead \/ S!OrphanTaken
         \/ UNCHANGED <<S!View, bus, S!Taken, P_DATA_OUT>>
<1>0. SynchronousTypes /\ Strobes /\ Told /\ Standing
  BY DEF SInv
<1>1. /\ bus' = bus /\ (PHASE' <=> PHASE) /\ mem' = mem /\ ack_tgl' = ack_tgl
      /\ S!BridgeClk /\ S!AdapterClk
  BY DEF S!CpuClk, S!uiregs, PHASE
<1>2. /\ done' = (ENABLE /\ PHASE /\ (done \/ S!ours))
      /\ wb_ack_o' = (busy /\ S!ack_pulse)
      /\ stray' = (stray /\ (busy' \/ wb_ack_o'))
  BY <1>1, SamePhase DEF S!CpuClk, S!BridgeClk, S!AdapterClk
<1>t. S!Taken = (PHASE /\ IF bus.rd \/ stray THEN done ELSE busy \/ wb_ack_o \/ done)
  BY SamePhase DEF S!Taken
<1>u. S!Taken' = (PHASE' /\ IF bus'.rd \/ stray' THEN done' ELSE busy' \/ wb_ack_o' \/ done')
  BY SamePhase DEF S!Taken, S!PHASE, PHASE, S!NoPhase, S!M!NoPhase, NoPhase, M!NoPhase
<1>3. CASE S!capture
  <2>1. /\ PHASE /\ ENABLE /\ ~busy /\ ~done /\ ~wb_ack_o /\ busy' = TRUE
        /\ ~S!ours /\ ~done' /\ ~stray /\ ~stray'
    BY <1>0, <1>1, <1>2, <1>3, SamePhase
       DEF S!capture, S!wb_cyc_o, S!AdapterClk, S!ours, Standing
  <2>2. P_DATA_OUT' = P_DATA_OUT
    BY <1>1, <2>1 DEF S!BridgeClk, S!Loaded
  <2>3. S!View' = IF bus.rd THEN S!View
                  ELSE [S!View EXCEPT ![bus.a] = M!Merge(@, bus.b, bus.d)]
    BY <1>3, AskedView
  <2>4. CASE bus.rd
    <3>1. S!Taken' = S!Taken
      BY <1>1, <1>t, <1>u, <2>1, <2>4
    <3>2. QED
      BY <1>1, <2>2, <2>3, <2>4, <3>1
  <2>5. CASE ~bus.rd
    <3>1. ~S!Taken /\ S!Taken'
      BY <1>1, <1>t, <1>u, <2>1, <2>5
    <3>2. QED
      BY <1>1, <2>1, <2>2, <2>3, <2>5, <3>1
         DEF Memory, Serial!TakeWrite, Serial!Merge, M!Merge, Serial!NoPhase, M!NoPhase, NoPhase, PHASE
  <2>6. QED
    BY <2>4, <2>5
<1>4. CASE wb_ack_o /\ ~stray
  <2>1. /\ PHASE /\ ENABLE /\ issued /\ ~done /\ ~busy /\ S!ours /\ done'
        /\ req = S!WbRequest /\ (~req.we => wb_dat_o = mem[req.a][0])
    BY <1>0, <1>2, <1>4 DEF Standing, S!ours
  <2>2. /\ bus.rd \in BOOLEAN /\ bus.b = {0} /\ req.a = bus.a /\ (req.we <=> ~bus.rd)
    BY <1>0, <2>1, CapturedType, OneByte
  <2>3. /\ UNCHANGED <<req, req_tgl>> /\ busy' = busy /\ req_tgl = ack_tgl
    BY <1>0, <1>1, <1>4, <2>1 DEF S!AdapterClk, S!capture, Told
  <2>4. S!View' = S!View /\ S!View = mem
    BY <1>1, <2>3 DEF S!View, S!Performed
  <2>5. CASE bus.rd
    <3>1. P_DATA_OUT' = [i \in bus.b |-> wb_dat_o]
      BY <1>1, <2>1, <2>2, <2>5, SamePhase DEF S!BridgeClk, S!Loaded, S!Word, S!Bytes
    <3>2. P_DATA_OUT' = [i \in bus.b |-> S!View[bus.a][i]]
      BY <2>1, <2>2, <2>4, <2>5, <3>1
    <3>3. ~S!Taken /\ S!Taken'
      BY <1>1, <1>t, <1>u, <2>1, <2>5
    <3>4. QED
      BY <1>1, <2>1, <2>4, <2>5, <3>2, <3>3
         DEF Memory, Serial!TakeRead, Serial!NoPhase, M!NoPhase, NoPhase, PHASE
  <2>6. CASE ~bus.rd
    <3>1. P_DATA_OUT' = P_DATA_OUT
      BY <1>1, <2>1, <2>6, SamePhase DEF S!BridgeClk, S!Loaded
    <3>2. S!Taken' = S!Taken
      BY <1>1, <1>2, <1>4, <1>t, <1>u, <2>1, <2>6
    <3>3. QED
      BY <1>1, <2>4, <3>1, <3>2
  <2>7. QED
    BY <2>5, <2>6
<1>s. CASE wb_ack_o /\ stray
  BY <1>s, StrayOnBridgeClk
<1>5. CASE ~S!capture /\ ~wb_ack_o
  <2>1. ~S!ours
    BY <1>5 DEF S!ours
  <2>2. P_DATA_OUT' = P_DATA_OUT
    BY <1>0, <1>1, <2>1 DEF S!BridgeClk, S!Loaded, Strobes
  <2>3. UNCHANGED <<req, req_tgl>>
    BY <1>1, <1>5 DEF S!AdapterClk
  <2>4. busy' \/ wb_ack_o' <=> busy
    BY <1>0, <1>1, <1>2, <1>5 DEF S!AdapterClk, SynchronousTypes
  <2>5. PHASE /\ done => done'
    BY <1>0, <1>2 DEF Strobes
  <2>6. done' => done
    BY <1>2, <2>1
  <2>7. done \in BOOLEAN /\ done' \in BOOLEAN /\ busy \in BOOLEAN
    BY <1>0, <1>2 DEF SynchronousTypes
  <2>s. stray' = stray
    BY <1>0, <1>2, <1>5, <2>4, <2>7 DEF Standing, SynchronousTypes
  <2>8. S!Taken' = S!Taken
    BY <1>1, <1>5, <1>t, <1>u, <2>s, <2>4, <2>5, <2>6, <2>7
  <2>9. S!View' = S!View
    BY <1>1, <2>3 DEF S!View, S!Performed
  <2>10. QED
    BY <1>1, <2>2, <2>8, <2>9
<1>6. QED
  BY <1>3, <1>4, <1>s, <1>5 DEF S!capture

\* Every step of the synchronous bridge is one of the memory's, or none, but for
\* a stray's acknowledgement.
LEMMA SerialSynchronous ==
  ASSUME SInv, built = "synchronous", built' = built,
         \/ S!CpuClk \/ S!UiClk \/ S!UiDone \/ S!EndPhase \/ S!AbandonPhase
         \/ \E ph \in M!Phases : S!BeginPhase(ph)
         \/ UNCHANGED <<vars, syncregs>>
  PROVE  S!OrphanTaken \/ [Serial!Next]_(Serial!mvars)
<1>0. SynchronousTypes /\ Asked /\ Standing
  BY DEF SInv
<1>m. /\ Serial!mvars = <<S!View, bus, S!Taken, P_DATA_OUT>>
      /\ Serial!mvars' = <<S!View, bus, S!Taken, P_DATA_OUT>>'
  BY DEF Serial!mvars, Memory
<1>1. CASE S!CpuClk
  BY <1>1, <1>m, SerialOnBridgeClk DEF Serial!Next
<1>2. CASE S!UiClk
  BY <1>2, <1>m DEF S!UiClk, S!bridge, S!adapter, S!View, S!Taken, S!Performed, S!PHASE
<1>3. CASE S!UiDone
  <2>1. waiting /\ mem' = S!Performed(mem, req) /\ ack_tgl' = ~ack_tgl
        /\ UNCHANGED <<S!bridge, bus, S!adapter, stray>>
    BY <1>3 DEF S!UiDone
  <2>2. req_tgl # ack_tgl /\ req_tgl' = req_tgl /\ req_tgl' = ack_tgl'
    BY <1>0, <2>1 DEF Asked, SynchronousTypes, S!adapter
  <2>3. S!View' = S!View
    BY <2>1, <2>2 DEF S!View
  <2>4. QED
    BY <1>m, <2>1, <2>3 DEF S!Taken, S!PHASE, S!bridge, S!adapter
<1>4. CASE S!EndPhase \/ S!AbandonPhase
  <2>1. UNCHANGED <<S!View, P_DATA_OUT>> /\ bus # NoPhase /\ bus' = NoPhase
    BY <1>4, SamePhase DEF S!EndPhase, S!AbandonPhase, S!bridge, S!adapter, S!uiregs, S!View, S!Performed, PHASE
  <2>2. ~S!Taken'
    BY <2>1, SamePhase DEF S!Taken, S!PHASE, S!NoPhase, S!M!NoPhase, NoPhase, M!NoPhase
  <2>3. Serial!Release
    BY <2>1, <2>2 DEF Serial!Release, Serial!NoPhase, M!NoPhase, NoPhase, Memory
  <2>4. QED
    BY <2>3 DEF Serial!Next
<1>5. ASSUME NEW ph \in M!Phases, S!BeginPhase(ph) PROVE [Serial!Next]_(Serial!mvars)
  <2>1. /\ UNCHANGED <<S!View, P_DATA_OUT, busy, wb_ack_o, done, stray>>
        /\ ~done /\ ~PHASE /\ bus' = ph
    BY <1>5, SamePhase DEF S!BeginPhase, S!bridge, S!adapter, S!uiregs, S!View, S!Performed
  <2>2. stray \/ (~busy /\ ~wb_ack_o)
    BY <1>0, <2>1 DEF Standing
  <2>3. S!Taken = FALSE /\ S!Taken' = FALSE
    BY <2>1, <2>2, SamePhase DEF S!Taken
  <2>4. ph \in Serial!Phases
    BY DEF M!Phases, M!Reads, M!Writes, Serial!Phases, Serial!Reads, Serial!Writes
  <2>5. Serial!Begin(ph)
    BY <2>1, <2>3 DEF Serial!Begin, Serial!NoPhase, M!NoPhase, NoPhase, PHASE, Memory
  <2>6. QED
    BY <2>4, <2>5 DEF Serial!Next
<1>6. CASE UNCHANGED <<vars, syncregs>>
  BY <1>6, <1>m DEF vars, cpuregs, wbregs, syncregs, S!View, S!Taken, S!Performed, S!PHASE
<1>7. QED
  BY <1>1, <1>2, <1>3, <1>4, <1>5, <1>6

\* What crosses without a synchroniser stays while it is looked at.
LEMMA HeldSynchronous ==
  ASSUME SInv,
         \/ S!CpuClk \/ S!UiClk \/ S!UiDone \/ S!EndPhase \/ S!AbandonPhase
         \/ \E ph \in M!Phases : S!BeginPhase(ph)
         \/ UNCHANGED <<vars, syncregs>>
  PROVE  /\ req_tgl # ack_tgl => req' = req
         /\ ack_tgl # ack_s[3] => rd_lane' = rd_lane
<1>0. SynchronousTypes /\ Asked /\ Told
  BY DEF SInv
<1>1. CASE S!CpuClk
  <2>1. rd_lane' = rd_lane
    BY <1>1 DEF S!CpuClk, S!uiregs
  <2>2. ASSUME req_tgl # ack_tgl PROVE req' = req
    <3>1. ~S!capture
      BY <1>0, <2>2 DEF Told, S!capture
    <3>2. QED
      BY <1>1, <3>1 DEF S!CpuClk, S!AdapterClk
  <2>3. QED
    BY <2>1, <2>2
<1>2. CASE S!UiDone
  <2>1. req_tgl # ack_tgl
    BY <1>0, <1>2 DEF S!UiDone, Asked
  <2>2. ack_s[3] = ack_tgl /\ req' = req
    BY <1>0, <1>2, <2>1 DEF S!UiDone, S!adapter, Told, Same
  <2>3. QED
    BY <2>2
<1>3. CASE S!UiClk
  BY <1>3 DEF S!UiClk, S!adapter
<1>4. CASE S!EndPhase \/ S!AbandonPhase
  BY <1>4 DEF S!EndPhase, S!AbandonPhase, S!adapter, S!uiregs
<1>5. ASSUME NEW ph \in M!Phases, S!BeginPhase(ph) PROVE req' = req /\ rd_lane' = rd_lane
  BY <1>5 DEF S!BeginPhase, S!adapter, S!uiregs
<1>6. CASE UNCHANGED <<vars, syncregs>>
  BY <1>6 DEF syncregs
<1>7. QED
  BY <1>1, <1>2, <1>3, <1>4, <1>5, <1>6
-----------------------------------------------------------------------------
(* Whichever bridge the machine has.                                        *)

IInv ==
  /\ built \in {"queued", "synchronous"}
  /\ built = "queued" => QInv
  /\ built = "synchronous" => SInv

\* A step is one of the bridge there is.
LEMMA OfOneBridge ==
  ASSUME IInv, [PathNext]_pathvars
  PROVE  /\ built' = built
         /\ built = "queued" => QInv /\ [Next]_vars /\ UNCHANGED syncregs
         /\ built = "synchronous" =>
              /\ SInv /\ UNCHANGED <<tag, queues, c>>
              /\ \/ S!CpuClk \/ S!UiClk \/ S!UiDone \/ S!EndPhase \/ S!AbandonPhase
                 \/ \E ph \in M!Phases : S!BeginPhase(ph)
                 \/ UNCHANGED <<vars, syncregs>>
<1>1. CASE UNCHANGED pathvars
  BY <1>1 DEF pathvars, vars, cpuregs, wbregs, IInv
<1>2. CASE Queued /\ (CpuClk \/ WbClk \/ WbAck \/ EndPhase \/ AbandonPhase
                      \/ \E ph \in M!Phases : BeginPhase(ph))
  BY <1>2 DEF Queued, Next, IInv
<1>3. CASE Synchronous /\ (S!CpuClk \/ S!UiClk \/ S!UiDone \/ S!EndPhase \/ S!AbandonPhase
                           \/ \E ph \in M!Phases : S!BeginPhase(ph))
  BY <1>3 DEF Synchronous, IInv
<1>4. QED
  BY <1>1, <1>2, <1>3 DEF PathNext

\* Either machine comes out of reset as it should.
LEMMA InitIInv == PathInit => IInv
BY InitQInv, InitSInv DEF PathInit, IInv

\* Either machine stays so.
LEMMA StepIInv == IInv /\ [PathNext]_pathvars => IInv'
<1> SUFFICES ASSUME IInv, [PathNext]_pathvars PROVE IInv'
  OBVIOUS
<1>1. CASE built = "queued"
  BY <1>1, OfOneBridge, StepQInv DEF IInv
<1>2. CASE built = "synchronous"
  BY <1>2, OfOneBridge, SInvOnCpuClk, SInvOnUiClk, SInvOnMasters DEF IInv
<1>3. QED
  BY <1>1, <1>2 DEF IInv

\* Every register, queue and memory cell of either path holds what it should.
THEOREM TypeCorrect == FairPaths => []TypeOK
<1>1. QInv => TypeOK
  BY TypeParts DEF QInv
<1>2. SInv => TypeOK
  <2> SUFFICES ASSUME SInv PROVE TypeOK
    OBVIOUS
  <2>1. tag \in 0 .. Tags - 1
    BY BridgeAssumption DEF SInv, QueuesAtRest
  <2>2. QueueOK(Requests, ReqDepth, <<>>, 0, 0) /\ QueueOK(Answers, RspDepth, <<>>, 0, 0)
    BY BridgeAssumption DEF QueueOK
  <2>3. RequestsOK /\ AnswersOK
    BY <2>2 DEF SInv, QueuesAtRest, RequestsOK, AnswersOK
  <2>4. RegistersOK
    BY <2>1 DEF SInv, SynchronousTypes, QueuesAtRest, RegistersOK
  <2>5. QED
    BY <2>3, <2>4 DEF TypeOK, RegistersOK, RequestsOK, AnswersOK, QueueOK
<1>3. IInv => TypeOK
  BY <1>1, <1>2 DEF IInv
<1>4. QED
  BY InitIInv, StepIInv, <1>3, PTL DEF FairPaths

\* A read is only put to the memory with room kept for its answer, so that the
\* answer FIFO never drops one (sun2_fifo_bridge.v 219-221): for any depths,
\* any number of tags and any memory.
THEOREM AnswersNeverDropped == FairPaths => []RoomForTheAnswer
<1>1. QInv => RoomForTheAnswer
  BY DEF QInv, TInv, Room, RoomForTheAnswer, RS!Full, AnswersOK, QueueOK
<1>2. SInv => RoomForTheAnswer
  BY BridgeAssumption DEF SInv, QueuesAtRest, RoomForTheAnswer, RS!Full
<1>3. IInv => RoomForTheAnswer
  BY <1>1, <1>2 DEF IInv
<1>4. QED
  BY InitIInv, StepIInv, <1>3, PTL DEF FairPaths

\* Every read sees every write acknowledged before it, every write is performed
\* exactly once, and no answer reaches a phase it is not for
\* (sun2_fifo_bridge.v 18-35, 44-47), whatever phases the masters walk away
\* from: every step of the queued bridge is a step of the serial memory or one
\* the machine cannot see.  So is every step of the synchronous one but where it
\* takes the acknowledgement of an abandoned phase for that of the phase whose
\* request is out, and then only that phase is spoilt.
THEOREM OneMemory == FairPaths => SerialMemorySpec
<1>1. PathInit => Serial!Init
  <2> SUFFICES ASSUME PathInit PROVE Serial!Init
    OBVIOUS
  <2>1. /\ Init /\ S!Init /\ bus = NoPhase /\ P_DATA_OUT = <<>> /\ rq = <<>> /\ ~busy
        /\ mem \in [Lines -> [Bytes -> Byte]] /\ req_tgl = ack_tgl
    BY DEF PathInit, Init, S!Init, RQ!Start
  <2>2. View = mem
    BY <2>1, InitQInv, ViewAtRest DEF QInv, TInv
  <2>3. S!View = mem
    BY <2>1 DEF S!View
  <2>4. ~Taken /\ ~S!Taken
    BY <2>1, SamePhase DEF Taken, S!Taken, PHASE
  <2>5. QED
    BY <2>1, <2>2, <2>3, <2>4 DEF Serial!Init, Memory, Serial!Line, Serial!NoPhase, M!NoPhase, NoPhase
<1> DEFINE Promised == Serial!Next \/ (built = "synchronous" /\ S!OrphanTaken)
<1>2. IInv /\ [PathNext]_pathvars => [Promised]_(Serial!mvars)
  <2> SUFFICES ASSUME IInv, [PathNext]_pathvars PROVE [Promised]_(Serial!mvars)
    OBVIOUS
  <2>1. CASE built = "queued"
    BY <2>1, OfOneBridge, SerialQueued
  <2>2. CASE built = "synchronous"
    BY <2>2, OfOneBridge, SerialSynchronous
  <2>3. QED
    BY <2>1, <2>2 DEF IInv
<1>3. QED
  BY InitIInv, StepIInv, <1>1, <1>2, PTL DEF FairPaths, SerialMemorySpec

\* "Both are stable across their handshake, so neither needs a synchroniser"
\* (wb_to_mig_ui.sv 76-80): the request stands from its toggle to the answer,
\* and the answer from its toggle until it has been told.
THEOREM PayloadStands == FairPaths => HeldAcross
<1> DEFINE Still == /\ req_tgl # ack_tgl => req' = req \/ req_tgl' = ack_tgl'
                    /\ ack_tgl # ack_s[3] => rd_lane' = rd_lane
<1>1. IInv /\ [PathNext]_pathvars => Still
  <2> SUFFICES ASSUME IInv, [PathNext]_pathvars PROVE Still
    OBVIOUS
  <2>1. CASE built = "queued"
    BY <2>1, OfOneBridge DEF syncregs
  <2>2. CASE built = "synchronous"
    BY <2>2, OfOneBridge, HeldSynchronous
  <2>3. QED
    BY <2>1, <2>2 DEF IInv
<1>2. QED
  BY InitIInv, StepIInv, <1>1, PTL DEF FairPaths, HeldAcross, S!HeldAcross
=============================================================================
