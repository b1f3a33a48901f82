------------------------- MODULE PointerFifoProofs -------------------------
(***************************************************************************)
(* The FIFO neither overruns nor underruns, whatever its depth and however  *)
(* the two clocks interleave; and each edge of either clock is a step of    *)
(* the queue that the storage and the two positions stand for.              *)
(***************************************************************************)
EXTENDS PointerFifo, Sequences, TLAPS

\* A position stays a position.
LEMMA Next1Type == ASSUME NEW p \in Pos PROVE Next1(p) \in Pos
BY DepthAssumption DEF Next1, Pos

\* Each position names a storage cell.
LEMMA CellType == ASSUME NEW p \in Pos PROVE Cell(p) \in Cells
BY DepthAssumption DEF Cell, Cells, Pos

\* Distances are natural, below a lap of the positions.
LEMMA DistType == ASSUME NEW a \in Pos, NEW b \in Pos PROVE Dist(a, b) \in 0 .. 2 * Depth - 1
BY DepthAssumption DEF Dist, Pos

\* Moving the far end on by one adds one, unless it was about to lap.
LEMMA DistAhead ==
  ASSUME NEW a \in Pos, NEW b \in Pos, Dist(a, b) < 2 * Depth - 1
  PROVE  Dist(a, Next1(b)) = Dist(a, b) + 1
BY DepthAssumption DEF Dist, Next1, Pos

\* Moving the near end on by one takes one off, unless they were level.
LEMMA DistBehind ==
  ASSUME NEW a \in Pos, NEW b \in Pos, a # b
  PROVE  Dist(Next1(a), b) = Dist(a, b) - 1
BY DepthAssumption DEF Dist, Next1, Pos

\* Level positions, and only those, are at no distance.
LEMMA DistZero ==
  ASSUME NEW a \in Pos, NEW b \in Pos PROVE (Dist(a, b) = 0) <=> (a = b)
BY DepthAssumption DEF Dist, Pos
-----------------------------------------------------------------------------
\* Entering the circuit out of its two resets: every distance is zero.
LEMMA InitIInv == Init => IInv
BY DepthAssumption
   DEF Init, IInv, TypeOK, WriteSideLate, ReadSideLate, Pos, Cells, Dist

\* Every edge leaves every register holding a value it can hold.
LEMMA StepType == TypeOK /\ [Next]_vars => TypeOK'
<1> SUFFICES ASSUME TypeOK, [Next]_vars PROVE TypeOK'
  OBVIOUS
<1> USE DEF TypeOK
<1>1. ASSUME NEW d \in Data, Write(d) PROVE TypeOK'
  <2>1. mem' \in [Cells -> Data]
    BY <1>1, CellType DEF Write
  <2>2. wbin' \in Pos
    BY <1>1, Next1Type DEF Write
  <2>3. QED
    BY <1>1, <2>1, <2>2 DEF Write, WSync, rvars
<1>2. CASE WIdle
  BY <1>2 DEF WIdle, WSync, rvars
<1>3. CASE Read
  <2>1. rbin' \in Pos
    BY <1>3, Next1Type DEF Read
  <2>2. QED
    BY <1>3, <2>1 DEF Read, RSync, wvars
<1>4. CASE RIdle
  BY <1>4 DEF RIdle, RSync, wvars
<1>5. CASE UNCHANGED vars
  BY <1>5 DEF vars
<1>6. QED
  BY <1>1, <1>2, <1>3, <1>4, <1>5 DEF Next, WEdge, REdge

\* Every edge keeps the write side's view of the read position late and in
\* order, and the write position within a lap of it.
LEMMA StepWriteSide == IInv /\ [Next]_vars => WriteSideLate'
<1> SUFFICES ASSUME IInv, [Next]_vars PROVE WriteSideLate'
  OBVIOUS
<1> USE DEF IInv, TypeOK, WriteSideLate
<1>1. ASSUME NEW d \in Data, Write(d) PROVE WriteSideLate'
  <2> DEFINE Ahead(a) == Dist(a, Next1(wbin)) = Dist(a, wbin) + 1
  <2>1. Dist(rbin_w2, wbin) < Depth
    BY <1>1, DistType, DepthAssumption DEF Write, wfull
  <2>2. /\ Dist(rbin, wbin) \in Nat /\ Dist(rbin_was, wbin) \in Nat
        /\ Dist(rbin_w1, wbin) \in Nat /\ Dist(rbin_w2, wbin) \in Nat
    BY DistType, DepthAssumption
  <2>3. Ahead(rbin) /\ Ahead(rbin_was) /\ Ahead(rbin_w1) /\ Ahead(rbin_w2)
    BY <2>1, <2>2, DistAhead, DepthAssumption
  <2>4. /\ rbin' = rbin /\ rbin_was' = rbin /\ rbin_w1' \in {rbin_was, rbin}
        /\ rbin_w2' = rbin_w1 /\ wbin' = Next1(wbin)
    BY <1>1 DEF Write, WSync, rvars
  <2> HIDE DEF Ahead
  <2>5. QED
    BY <2>1, <2>2, <2>3, <2>4, DepthAssumption DEF Ahead
<1>2. CASE WIdle
  BY <1>2, DistType, DepthAssumption DEF WIdle, WSync, rvars
<1>3. CASE Read
  <2>1. rbin # wbin
    <3>1. rbin # wbin_r2
      BY <1>3 DEF Read, rempty
    <3>2. QED
      BY <3>1, DistType, DistZero, DepthAssumption DEF ReadSideLate
  <2>2. Dist(Next1(rbin), wbin) = Dist(rbin, wbin) - 1
    BY <2>1, DistBehind
  <2>3. QED
    BY <1>3, <2>2, DistType, DepthAssumption DEF Read, RSync, wvars
<1>4. CASE RIdle
  BY <1>4, DistType, DepthAssumption DEF RIdle, RSync, wvars
<1>5. CASE UNCHANGED vars
  BY <1>5 DEF vars
<1>6. QED
  BY <1>1, <1>2, <1>3, <1>4, <1>5 DEF Next, WEdge, REdge

\* Every edge keeps the read side's view of the write position late and in order.
LEMMA StepReadSide == IInv /\ [Next]_vars => ReadSideLate'
<1> SUFFICES ASSUME IInv, [Next]_vars PROVE ReadSideLate'
  OBVIOUS
<1> USE DEF IInv, TypeOK, ReadSideLate
<1>1. ASSUME NEW d \in Data, Write(d) PROVE ReadSideLate'
  <2>1. Dist(rbin, wbin) < Depth
    BY <1>1, DistType, DepthAssumption DEF Write, wfull, WriteSideLate
  <2>2. Dist(rbin, Next1(wbin)) = Dist(rbin, wbin) + 1
    BY <2>1, DistType, DistAhead, DepthAssumption
  <2>3. QED
    BY <1>1, <2>2, DistType, DepthAssumption DEF Write, WSync, rvars
<1>2. CASE WIdle
  BY <1>2, DistType, DepthAssumption DEF WIdle, WSync, rvars
<1>3. CASE Read
  <2> DEFINE Behind(b) == Dist(Next1(rbin), b) = Dist(rbin, b) - 1
  <2>1. rbin # wbin_r2
    BY <1>3 DEF Read, rempty
  <2>2. rbin # wbin_r1 /\ rbin # wbin_was /\ rbin # wbin
    BY <2>1, DistType, DistZero, DepthAssumption
  <2>3. Behind(wbin_r2) /\ Behind(wbin_r1) /\ Behind(wbin_was) /\ Behind(wbin)
    BY <2>1, <2>2, DistBehind
  <2>4. /\ rbin' = Next1(rbin) /\ wbin' = wbin /\ wbin_was' = wbin
        /\ wbin_r1' \in {wbin_was, wbin} /\ wbin_r2' = wbin_r1
    BY <1>3 DEF Read, RSync, wvars
  <2>5. /\ Dist(rbin, wbin) \in Nat /\ Dist(rbin, wbin_was) \in Nat
        /\ Dist(rbin, wbin_r1) \in Nat /\ Dist(rbin, wbin_r2) \in Nat
    BY DistType, DepthAssumption
  <2> HIDE DEF Behind
  <2>6. QED
    BY <2>3, <2>4, <2>5 DEF Behind
<1>4. CASE RIdle
  BY <1>4, DistType, DepthAssumption DEF RIdle, RSync, wvars
<1>5. CASE UNCHANGED vars
  BY <1>5 DEF vars
<1>6. QED
  BY <1>1, <1>2, <1>3, <1>4, <1>5 DEF Next, WEdge, REdge

\* IInv holds whatever the clocks do: with it, both flags err on the safe side
\* for every depth (sun2_async_fifo.v 100-102, 122).
THEOREM Invariance == Spec => []IInv
<1>1. IInv /\ [Next]_vars => IInv'
  BY StepType, StepWriteSide, StepReadSide DEF IInv
<1>2. QED
  BY <1>1, InitIInv, PTL DEF Spec

\* No depth of queue and no interleaving of the clocks loses an entry to an
\* overrun or shows the read side one that was never written.
THEOREM NeverOverruns == Spec => []NoOverrun
<1>1. IInv => NoOverrun
  BY DistType, DepthAssumption
     DEF IInv, TypeOK, WriteSideLate, ReadSideLate, NoOverrun
<1>2. QED
  BY <1>1, Invariance, PTL

\* A cell the read side can see is never the one being written, which is what
\* lets the storage be read without a clock (sun2_async_fifo.v 23-28).
THEOREM SeenStable == Spec => SeenCellsStable
<1>1. IInv /\ [Next]_vars => [\A c \in Seen : mem'[c] = mem[c]]_vars
  <2> SUFFICES ASSUME IInv, [Next]_vars, NEW c \in Seen PROVE mem'[c] = mem[c]
    OBVIOUS
  <2> USE DEF IInv, TypeOK
  <2>1. PICK p \in Pos : c = Cell(p) /\ Dist(rbin, p) < Dist(rbin, wbin_r2)
    BY DEF Seen
  <2>2. ASSUME NEW d \in Data, Write(d) PROVE mem'[c] = mem[c]
    <3>1. Dist(rbin, wbin_r2) <= Dist(rbin, wbin) /\ Dist(rbin, wbin) < Depth
      BY <2>2, DistType, DepthAssumption DEF Write, wfull, WriteSideLate, ReadSideLate
    <3>2. Dist(rbin, p) < Dist(rbin, wbin)
      BY <2>1, <3>1, DistType, DepthAssumption
    <3>3. Cell(p) # Cell(wbin)
      BY <3>1, <3>2, DepthAssumption DEF Dist, Cell, Pos
    <3>4. QED
      BY <2>1, <2>2, <3>3, CellType DEF Write
  <2>3. CASE ~ \E d \in Data : Write(d)
    BY <2>3 DEF Next, WEdge, REdge, WIdle, Read, RIdle, RSync, wvars, vars
  <2>4. QED
    BY <2>2, <2>3
<1>2. QED
  BY <1>1, Invariance, PTL DEF Spec, SeenCellsStable
-----------------------------------------------------------------------------
(* The queue it stands for.                                                 *)

\* The position i entries on from p.
On(p, i) == IF p + i >= 2 * Depth THEN p + i - 2 * Depth ELSE p + i

\* Going on from a position stays among the positions, and goes that far.
LEMMA OnType ==
  ASSUME NEW p \in Pos, NEW i \in 0 .. 2 * Depth - 1
  PROVE  On(p, i) \in Pos /\ Dist(p, On(p, i)) = i
BY DepthAssumption DEF On, Pos, Dist

\* One more step is the next position; the first step may be taken first.
LEMMA OnNext ==
  ASSUME NEW p \in Pos, NEW i \in 0 .. 2 * Depth - 2
  PROVE  /\ On(p, i + 1) = On(Next1(p), i)
         /\ On(p, 0) = p
BY DepthAssumption DEF On, Pos, Next1

\* Going on as far as b is ahead arrives at b.
LEMMA OnDist == ASSUME NEW a \in Pos, NEW b \in Pos PROVE On(a, Dist(a, b)) = b
BY DepthAssumption DEF On, Pos, Dist

\* What is less than a lap of the storage apart is in different cells.
LEMMA CellsApart ==
  ASSUME NEW p \in Pos, NEW i \in 0 .. Depth - 1, NEW j \in 0 .. Depth - 1, i # j
  PROVE  Cell(On(p, i)) # Cell(On(p, j))
BY DepthAssumption DEF On, Cell, Pos

\* A distance is the sum of the two on the way.
LEMMA DistSplit ==
  ASSUME NEW a \in Pos, NEW b \in Pos, NEW e \in Pos, Dist(b, e) <= Dist(a, e)
  PROVE  Dist(a, e) = Dist(a, b) + Dist(b, e)
BY DepthAssumption DEF Dist, Pos

\* A position is at no distance from itself.
LEMMA DistSelf == ASSUME NEW a \in Pos PROVE Dist(a, a) = 0
BY DepthAssumption DEF Dist, Pos
-----------------------------------------------------------------------------
\* The queue holds, in order, what the cells from the read position on hold.
QueueInCells ==
  /\ QueueOf \in Seq(Data)
  /\ Len(QueueOf) = Dist(rbin, wbin)
  /\ \A i \in 1 .. Dist(rbin, wbin) : QueueOf[i] = mem[Cell(On(rbin, i - 1))]

\* The invariant makes it so: the queue is as long as the pointers are apart.
LEMMA QueueIs == IInv => QueueInCells
<1> SUFFICES ASSUME IInv PROVE QueueInCells
  OBVIOUS
<1> DEFINE n == Dist(rbin, wbin)
           e(i) == mem[Cell(On(rbin, i - 1))]
<1>1. n \in 0 .. Depth /\ Depth \in Nat
  BY DistType, DepthAssumption DEF IInv, TypeOK, WriteSideLate
<1>2. ASSUME NEW i \in 1 .. n PROVE e(i) \in Data
  <2>1. rbin \in Pos /\ i - 1 \in 0 .. 2 * Depth - 1
    BY <1>1 DEF IInv, TypeOK
  <2>2. Cell(On(rbin, i - 1)) \in Cells
    BY <2>1, OnType, CellType
  <2>3. QED
    BY <2>2 DEF IInv, TypeOK
<1>3. QueueOf = [i \in 1 .. n |-> e(i)]
  BY DEF QueueOf, On
<1> HIDE DEF n, e
<1>4. [i \in 1 .. n |-> e(i)] \in Seq(Data)
  BY <1>1, <1>2
<1>5. Len(QueueOf) = n
  BY <1>1, <1>3, <1>4
<1>6. \A i \in 1 .. n : QueueOf[i] = e(i)
  BY <1>3
<1>7. QED
  BY <1>3, <1>4, <1>5, <1>6 DEF n, e, QueueInCells

\* So does the queue after a step.
LEMMA QueueThen == IInv' => QueueInCells'
BY QueueIs, PTL

\* Two queues of the same length with the same entries are the same queue.
LEMMA SameQueue ==
  ASSUME NEW s \in Seq(Data), NEW t \in Seq(Data), Len(s) = Len(t),
         \A i \in 1 .. Len(s) : s[i] = t[i]
  PROVE  s = t
OBVIOUS

\* What the abstract queue's counters are here, and when it is full.
LEMMA Counters ==
  ASSUME IInv
  PROVE  /\ Dist(rbin, wbin) \in 0 .. Depth
         /\ Dist(rbin_w2, rbin) \in Nat /\ Dist(rbin, wbin_r2) \in Nat
         /\ Dist(rbin_w2, wbin) = Dist(rbin_w2, rbin) + Dist(rbin, wbin)
         /\ Dist(rbin_w1, wbin) = Dist(rbin_w1, rbin) + Dist(rbin, wbin)
         /\ Dist(rbin_w1, rbin) \in 0 .. Dist(rbin_w2, rbin)
         /\ Abstract!Full <=> wfull
         /\ Abstract!Empty <=> rempty
<1> USE DEF IInv, TypeOK
<1>1. /\ Dist(rbin, wbin) \in Nat /\ Dist(rbin_was, wbin) \in Nat
      /\ Dist(rbin_w1, wbin) \in Nat /\ Dist(rbin_w2, wbin) \in Nat
      /\ Dist(rbin_w1, rbin) \in Nat /\ Dist(rbin_w2, rbin) \in Nat /\ Dist(rbin, wbin_r2) \in Nat
  BY DistType, DepthAssumption
<1>2. /\ Dist(rbin, wbin) <= Dist(rbin_w1, wbin) /\ Dist(rbin_w1, wbin) <= Dist(rbin_w2, wbin)
      /\ Dist(rbin, wbin) <= Depth
  BY <1>1, DepthAssumption DEF WriteSideLate
<1>3. /\ Dist(rbin_w2, wbin) = Dist(rbin_w2, rbin) + Dist(rbin, wbin)
      /\ Dist(rbin_w1, wbin) = Dist(rbin_w1, rbin) + Dist(rbin, wbin)
  BY <1>1, <1>2, DistSplit
<1>4. Abstract!Full <=> wfull
  BY <1>1, <1>3, QueueIs DEF Abstract!Full, wfull, QueueInCells
<1>5. Abstract!Empty <=> rempty
  BY DistZero DEF Abstract!Empty, rempty
<1>6. QED
  BY <1>1, <1>2, <1>3, <1>4, <1>5, DepthAssumption
-----------------------------------------------------------------------------
\* Out of reset the queue is empty, and both sides know it.
LEMMA InitQueue == Init => Abstract!Start
<1> SUFFICES ASSUME Init PROVE Abstract!Start
  OBVIOUS
<1>1. IInv
  BY InitIInv
<1>2. Dist(rbin, wbin) = 0 /\ Dist(rbin, wbin_r2) = 0 /\ Dist(rbin_w2, rbin) = 0
  BY DepthAssumption DEF Init, Dist
<1>3. QueueOf = <<>>
  BY <1>1, <1>2, QueueIs DEF QueueInCells
<1>4. QED
  BY <1>2, <1>3 DEF Abstract!Start

\* A write-clock edge that stores an entry is a push.
LEMMA WritePushes ==
  ASSUME IInv, IInv', NEW d \in Data, Write(d) PROVE Abstract!Push(d)
<1> USE DEF IInv, TypeOK
<1>1. /\ wbin' = Next1(wbin) /\ rbin' = rbin /\ wbin_r2' = wbin_r2 /\ rbin_w2' = rbin_w1
      /\ mem' = [mem EXCEPT ![Cell(wbin)] = d]
  BY DEF Write, WSync, rvars
<1>2. ~Abstract!Full
  BY Counters DEF Write
<1> DEFINE n == Dist(rbin, wbin)
<1>3. n \in 0 .. Depth - 1 /\ Depth \in Nat /\ Dist(rbin, wbin)' = n + 1
  <2>1. Dist(rbin_w2, wbin) # Depth /\ n \in 0 .. Depth /\ n <= Dist(rbin_w2, wbin)
        /\ Dist(rbin_w2, wbin) <= Depth /\ Dist(rbin_w2, wbin) \in Nat
    BY Counters, DistType, DepthAssumption DEF Write, wfull, WriteSideLate
  <2>2. n \in 0 .. Depth - 1
    BY <2>1, DepthAssumption
  <2>3. Dist(rbin, Next1(wbin)) = n + 1
    BY <2>2, DistAhead, DepthAssumption
  <2>4. QED
    BY <1>1, <2>2, <2>3, DepthAssumption
<1>4. QueueOf' = Append(QueueOf, d)
  <2>1. QueueOf \in Seq(Data) /\ Len(QueueOf) = n
        /\ \A i \in 1 .. n : QueueOf[i] = mem[Cell(On(rbin, i - 1))]
    BY QueueIs DEF QueueInCells
  <2>2. QueueOf' \in Seq(Data) /\ Len(QueueOf') = n + 1
        /\ \A i \in 1 .. n + 1 : QueueOf'[i] = mem'[Cell(On(rbin, i - 1))]
    <3>1. /\ QueueOf' \in Seq(Data) /\ Len(QueueOf') = Dist(rbin, wbin)'
          /\ \A i \in 1 .. Dist(rbin, wbin)' : QueueOf'[i] = mem'[Cell(On(rbin', i - 1))]
      BY QueueThen DEF QueueInCells, On, Cell
    <3>2. QED
      BY <1>1, <1>3, <3>1
  <2>3. ASSUME NEW i \in 1 .. n PROVE QueueOf'[i] = QueueOf[i]
    <3>1. Cell(On(rbin, i - 1)) # Cell(On(rbin, n))
      BY <1>3, CellsApart
    <3>2. On(rbin, n) = wbin
      BY OnDist
    <3>3. Cell(On(rbin, i - 1)) \in Cells
      BY <1>3, OnType, CellType, DepthAssumption
    <3>4. i \in 1 .. n + 1
      BY <1>3
    <3>5. QED
      BY <1>1, <2>1, <2>2, <3>1, <3>2, <3>3, <3>4
  <2>4. QueueOf'[n + 1] = d
    <3>1. On(rbin, n) = wbin /\ Cell(wbin) \in Cells
      BY OnDist, CellType
    <3>2. n + 1 \in 1 .. n + 1 /\ (n + 1) - 1 = n
      BY <1>3
    <3>3. QED
      BY <1>1, <2>2, <3>1, <3>2
  <2> DEFINE s == QueueOf'
             t == Append(QueueOf, d)
  <2>5. t \in Seq(Data) /\ Len(t) = n + 1 /\ t[n + 1] = d
        /\ \A i \in 1 .. n : t[i] = QueueOf[i]
    BY <1>3, <2>1
  <2>6. \A i \in 1 .. n + 1 : s[i] = t[i]
    BY <1>3, <2>3, <2>4, <2>5
  <2> HIDE DEF s, t
  <2>7. s = t
    BY <2>2, <2>5, <2>6, SameQueue DEF s
  <2>8. QED
    BY <2>7 DEF s, t
<1>5. Dist(rbin_w2, rbin)' \in 0 .. Dist(rbin_w2, rbin)
  BY <1>1, Counters
<1>6. QED
  BY <1>1, <1>2, <1>4, <1>5 DEF Abstract!Push

\* A write-clock edge that stores nothing is one of the abstract queue's too.
LEMMA WIdlePushesNothing == ASSUME IInv, WIdle PROVE Abstract!NoPush
<1>1. UNCHANGED <<mem, wbin, rbin, wbin_r2>> /\ rbin_w2' = rbin_w1
  BY DEF WIdle, WSync, rvars
<1>2. QueueOf' = QueueOf
  BY <1>1 DEF QueueOf
<1>3. Dist(rbin_w2, rbin)' \in 0 .. Dist(rbin_w2, rbin)
  BY <1>1, Counters
<1>4. QED
  BY <1>1, <1>2, <1>3 DEF Abstract!NoPush

\* What the read side comes to know is what it knew, or more, never too much.
LEMMA News ==
  ASSUME IInv
  PROVE  Dist(rbin, wbin_r1) \in Dist(rbin, wbin_r2) .. Dist(rbin, wbin)
<1>1. /\ Dist(rbin, wbin) \in Nat /\ Dist(rbin, wbin_was) \in Nat
      /\ Dist(rbin, wbin_r1) \in Nat /\ Dist(rbin, wbin_r2) \in Nat
  BY DistType, DepthAssumption DEF IInv, TypeOK
<1>2. QED
  BY <1>1 DEF IInv, ReadSideLate

\* A read-clock edge that consumes nothing is one of the abstract queue's too.
LEMMA RIdlePopsNothing == ASSUME IInv, RIdle PROVE Abstract!NoPop
<1>1. UNCHANGED <<mem, wbin, rbin, rbin_w2>> /\ wbin_r2' = wbin_r1
  BY DEF RIdle, RSync, wvars
<1>2. QueueOf' = QueueOf
  BY <1>1 DEF QueueOf
<1>3. QED
  BY <1>1, <1>2, News, QueueIs DEF Abstract!NoPop, QueueInCells

\* A read-clock edge that consumes the head is a pop.
LEMMA ReadPops == ASSUME IInv, IInv', Read PROVE Abstract!Pop
<1> USE DEF IInv, TypeOK
<1>1. /\ rbin' = Next1(rbin) /\ wbin' = wbin /\ wbin_r2' = wbin_r1
      /\ rbin_w2' = rbin_w2 /\ mem' = mem
  BY DEF Read, RSync, wvars
<1>2. ~Abstract!Empty
  BY Counters DEF Read
<1> DEFINE n == Dist(rbin, wbin)
<1>3. rbin # wbin_r2 /\ rbin # wbin_r1 /\ rbin # wbin /\ n \in 1 .. Depth /\ Depth \in Nat
  <2>1. Dist(rbin, wbin_r2) \in Nat /\ Dist(rbin, wbin_r2) # 0
    BY DistType, DistZero, DepthAssumption DEF Read, rempty
  <2>2. Dist(rbin, wbin_r1) # 0 /\ n # 0 /\ n \in 0 .. Depth
    BY <2>1, News, Counters, DistType, DepthAssumption
  <2>3. QED
    BY <2>1, <2>2, DistZero, DepthAssumption
<1>4. /\ Dist(rbin, wbin)' = n - 1
      /\ Dist(rbin, wbin_r2)' = Dist(rbin, wbin_r1) - 1
  BY <1>1, <1>3, DistBehind
<1>5. Dist(rbin_w2, rbin)' = Dist(rbin_w2, rbin) + 1
  <2>1. Dist(rbin_w2, wbin) <= Depth
    BY DEF WriteSideLate
  <2>2. Dist(rbin_w2, rbin) < 2 * Depth - 1
    BY <1>3, <2>1, Counters
  <2>3. QED
    BY <1>1, <2>2, DistAhead
<1>6. QueueOf' = Tail(QueueOf)
  <2>1. QueueOf \in Seq(Data) /\ Len(QueueOf) = n
        /\ \A i \in 1 .. n : QueueOf[i] = mem[Cell(On(rbin, i - 1))]
    BY QueueIs DEF QueueInCells
  <2>2. QueueOf' \in Seq(Data) /\ Len(QueueOf') = n - 1
        /\ \A i \in 1 .. n - 1 : QueueOf'[i] = mem[Cell(On(Next1(rbin), i - 1))]
    BY <1>1, <1>4, QueueThen DEF QueueInCells, On, Cell
  <2> DEFINE s == QueueOf'
             t == Tail(QueueOf)
  <2>3. t \in Seq(Data) /\ Len(t) = n - 1
        /\ \A i \in 1 .. n - 1 : t[i] = QueueOf[i + 1]
    BY <1>3, <2>1
  <2>4. ASSUME NEW i \in 1 .. n - 1 PROVE s[i] = t[i]
    <3>1. i - 1 \in 0 .. 2 * Depth - 2 /\ i + 1 \in 1 .. n /\ (i + 1) - 1 = (i - 1) + 1
      BY <1>3
    <3>2. On(rbin, (i - 1) + 1) = On(Next1(rbin), i - 1)
      BY <3>1, OnNext
    <3> HIDE DEF s, t
    <3>3. t[i] = mem[Cell(On(rbin, (i - 1) + 1))]
      BY <2>1, <2>3, <3>1
    <3>4. s[i] = mem[Cell(On(Next1(rbin), i - 1))]
      BY <2>2 DEF s
    <3>5. QED
      BY <3>2, <3>3, <3>4
  <2> HIDE DEF s, t
  <2>5. s = t
    BY <2>2, <2>3, <2>4, SameQueue DEF s
  <2>6. QED
    BY <2>5 DEF s, t
<1>7. Dist(rbin, wbin_r2)' \in Dist(rbin, wbin_r2) - 1 .. Len(QueueOf) - 1
  <2>1. Len(QueueOf) = n
    BY QueueIs DEF QueueInCells
  <2>2. /\ Dist(rbin, wbin_r1) \in Dist(rbin, wbin_r2) .. n
        /\ Dist(rbin, wbin_r2) \in Nat
    BY News, Counters
  <2> HIDE DEF n
  <2>3. QED
    BY <1>3, <1>4, <2>1, <2>2
<1>8. QED
  BY <1>2, <1>5, <1>6, <1>7 DEF Abstract!Pop

\* Every step of the circuit is a step of the queue, or leaves it alone.
LEMMA StepQueue ==
  IInv /\ IInv' /\ [Next]_vars => [Abstract!WClk \/ Abstract!RClk]_(Abstract!qvars)
<1> SUFFICES ASSUME IInv, IInv', [Next]_vars
             PROVE  Abstract!WClk \/ Abstract!RClk \/ UNCHANGED Abstract!qvars
  OBVIOUS
<1>1. ASSUME NEW d \in Data, Write(d) PROVE Abstract!WClk
  BY <1>1, WritePushes DEF Abstract!WClk
<1>2. CASE WIdle
  BY <1>2, WIdlePushesNothing DEF Abstract!WClk
<1>3. CASE Read
  BY <1>3, ReadPops DEF Abstract!RClk
<1>4. CASE RIdle
  BY <1>4, RIdlePopsNothing DEF Abstract!RClk
<1>5. CASE UNCHANGED vars
  BY <1>5 DEF vars, Abstract!qvars, QueueOf
<1>6. QED
  BY <1>1, <1>2, <1>3, <1>4, <1>5 DEF Next, WEdge, REdge

\* For every depth, the dual-clock FIFO implements the queue that the bridges
\* are built on: what goes in comes out, once and in order, and neither side
\* ever believes in an entry or in room that is not there
\* (sun2_async_fifo.v 18-35).  That its news arrives is left to the runs.
THEOREM IsAQueue == Spec => Abstract!Spec
<1>1. IInv /\ [Next]_vars => IInv'
  BY StepType, StepWriteSide, StepReadSide DEF IInv
<1>2. QED
  BY <1>1, InitIInv, InitQueue, StepQueue, PTL DEF Spec, Abstract!Spec
=============================================================================
