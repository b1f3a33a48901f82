---------------------------- MODULE PointerFifo ----------------------------
(***************************************************************************)
(* rtl/sun2-common/sun2_async_fifo.v with its gray words read as the        *)
(* positions they stand for.  A position counts entries modulo TWICE the    *)
(* depth (the source's ADDR+1 bits), so that a full queue and an empty one  *)
(* differ.  AsyncFifo is the same circuit down to the bits of the words,    *)
(* and is shown to implement this module; PointerFifoProofs proves what     *)
(* must hold here for every depth.                                          *)
(*                                                                          *)
(* The two clocks are unrelated: one action is one edge of one of them.  A  *)
(* flop that samples a register of the other domain on the very edge that   *)
(* register changes may resolve to its old or to its new value, so the      *)
(* first sample after a change takes either one: `was` holds the old value  *)
(* until that sample has been taken.                                        *)
(***************************************************************************)
EXTENDS Integers

CONSTANTS Depth,    \* the number of entries, 2**ADDR in the source
          Data      \* what an entry can hold

ASSUME DepthAssumption == Depth \in Nat \ {0}

VARIABLES
  mem,              \* the storage, Cell -> Data
  wbin,             \* the write position
  rbin_w1, rbin_w2, \* the read position, as it crosses into the write side
  wbin_was,         \* the write position before its last edge, if unsampled
  rbin,             \* the read position
  wbin_r1, wbin_r2, \* the write position, as it crosses into the read side
  rbin_was          \* the read position before its last edge, if unsampled

wvars == <<mem, wbin, rbin_w1, rbin_w2>>
rvars == <<rbin, wbin_r1, wbin_r2>>
vars  == <<mem, wbin, rbin_w1, rbin_w2, wbin_was, rbin, wbin_r1, wbin_r2, rbin_was>>

Pos   == 0 .. 2 * Depth - 1
Cells == 0 .. Depth - 1

Next1(p) == IF p = 2 * Depth - 1 THEN 0 ELSE p + 1

\* The low ADDR bits of a position: the storage cell it names.
Cell(p) == IF p >= Depth THEN p - Depth ELSE p

\* How far b is ahead of a, going round.
Dist(a, b) == IF a <= b THEN b - a ELSE b - a + 2 * Depth
-----------------------------------------------------------------------------
\* The write side's full flag: one lap ahead of the read position it knows.
wfull == Dist(rbin_w2, wbin) = Depth

\* The read side's empty flag: level with the write position it knows.
rempty == rbin = wbin_r2

Init ==
  /\ mem \in [Cells -> Data]
  /\ wbin = 0 /\ rbin_w1 = 0 /\ rbin_w2 = 0 /\ wbin_was = 0
  /\ rbin = 0 /\ wbin_r1 = 0 /\ wbin_r2 = 0 /\ rbin_was = 0

\* What every edge of the write clock does to the incoming pointer.
WSync ==
  /\ rbin_w1' \in {rbin_was, rbin}
  /\ rbin_w2' = rbin_w1
  /\ rbin_was' = rbin
  /\ wbin_was' = wbin
  /\ UNCHANGED rvars

RSync ==
  /\ wbin_r1' \in {wbin_was, wbin}
  /\ wbin_r2' = wbin_r1
  /\ wbin_was' = wbin
  /\ rbin_was' = rbin
  /\ UNCHANGED wvars

\* A write-clock edge that stores an entry: wr_en, and room.
Write(d) ==
  /\ ~wfull
  /\ mem' = [mem EXCEPT ![Cell(wbin)] = d]
  /\ wbin' = Next1(wbin)
  /\ WSync

\* A write-clock edge that stores nothing: no wr_en, or wr_en while full.
WIdle == UNCHANGED <<mem, wbin>> /\ WSync

\* A read-clock edge that consumes the head: rd_en, and not empty.
Read ==
  /\ ~rempty
  /\ rbin' = Next1(rbin)
  /\ RSync

\* A read-clock edge that consumes nothing.
RIdle == UNCHANGED rbin /\ RSync

WEdge == WIdle \/ \E d \in Data : Write(d)
REdge == RIdle \/ Read

Next == WEdge \/ REdge

Spec == Init /\ [][Next]_vars

\* Both clocks run for ever; nothing is assumed about their ratio.
FairSpec == Spec /\ WF_vars(WEdge) /\ WF_vars(REdge)
-----------------------------------------------------------------------------
TypeOK ==
  /\ mem \in [Cells -> Data]
  /\ wbin \in Pos /\ rbin_w1 \in Pos /\ rbin_w2 \in Pos /\ wbin_was \in Pos
  /\ rbin \in Pos /\ wbin_r1 \in Pos /\ wbin_r2 \in Pos /\ rbin_was \in Pos

\* What the write side knows of the read position is late, never ahead, in the
\* order the flops pass it on; and it has not let itself run a lap past it.
WriteSideLate ==
  /\ Dist(rbin, wbin) <= Dist(rbin_was, wbin)
  /\ Dist(rbin_was, wbin) <= Dist(rbin_w1, wbin)
  /\ Dist(rbin_w1, wbin) <= Dist(rbin_w2, wbin)
  /\ Dist(rbin_w2, wbin) <= Depth

\* The mirror image on the read side.
ReadSideLate ==
  /\ Dist(rbin, wbin_r2) <= Dist(rbin, wbin_r1)
  /\ Dist(rbin, wbin_r1) <= Dist(rbin, wbin_was)
  /\ Dist(rbin, wbin_was) <= Dist(rbin, wbin)

\* The inductive invariant.
IInv == TypeOK /\ WriteSideLate /\ ReadSideLate

\* The queue never holds more than it has room for, and what the read side
\* takes for the queue's contents is a prefix of them: wfull and rempty each
\* err only on the safe side (sun2_async_fifo.v 100-102, 122).
NoOverrun ==
  /\ Dist(rbin, wbin) <= Depth
  /\ Dist(rbin, wbin_r2) <= Dist(rbin, wbin)
  /\ Dist(rbin, wbin) <= Dist(rbin_w2, wbin)

\* The cells the read side can see.
Seen == {c \in Cells : \E p \in Pos : c = Cell(p) /\ Dist(rbin, p) < Dist(rbin, wbin_r2)}

\* "The write side only ever writes the one entry the read side cannot yet
\* see" (sun2_async_fifo.v 27-28): the asynchronous read never races a write.
SeenCellsStable == [][\A c \in Seen : mem'[c] = mem[c]]_vars
-----------------------------------------------------------------------------
\* The queue these registers stand for.
QueueOf ==
  LET n == Dist(rbin, wbin)
      At(i) == IF rbin + i >= 2 * Depth THEN rbin + i - 2 * Depth ELSE rbin + i
  IN  [i \in 1 .. n |-> mem[Cell(At(i - 1))]]

Abstract == INSTANCE DelayedQueue WITH
  q <- QueueOf, vis <- Dist(rbin, wbin_r2), lag <- Dist(rbin_w2, rbin)

\* The circuit is a queue: what goes in comes out, once, in order, and each
\* side is only ever too pessimistic about the other -- and not for ever, as
\* long as both clocks run.
QueueSpec == Abstract!FairSpec
=============================================================================
