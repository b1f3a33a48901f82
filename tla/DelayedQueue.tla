--------------------------- MODULE DelayedQueue ---------------------------
(***************************************************************************)
(* What a dual-clock FIFO promises its two sides, with the pointers gone: a *)
(* queue of bounded length whose news travels late.  The reading side knows *)
(* of the first `vis` entries only; the writing side still counts `lag`     *)
(* entries that have already been taken.  PointerFifo implements this       *)
(* module; the bridges are built on it.                                     *)
(*                                                                          *)
(* One action is one edge of one clock.                                     *)
(***************************************************************************)
EXTENDS Integers, Sequences

CONSTANTS Depth, Data

VARIABLES q, vis, lag

qvars == <<q, vis, lag>>

Full  == Len(q) + lag = Depth
Empty == vis = 0
Head1 == q[1]

Start == q = <<>> /\ vis = 0 /\ lag = 0

\* An edge of the writing clock: some of the takings become known to it.
Push(d) ==
  /\ ~Full
  /\ q' = Append(q, d)
  /\ lag' \in 0 .. lag
  /\ vis' = vis

NoPush ==
  /\ lag' \in 0 .. lag
  /\ UNCHANGED <<q, vis>>

\* An edge of the reading clock: some of the entries become known to it.
Pop ==
  /\ ~Empty
  /\ q' = Tail(q)
  /\ vis' \in vis - 1 .. Len(q) - 1
  /\ lag' = lag + 1

NoPop ==
  /\ vis' \in vis .. Len(q)
  /\ UNCHANGED <<q, lag>>

WClk == NoPush \/ \E d \in Data : Push(d)
RClk == NoPop \/ Pop

Spec == Start /\ [][WClk \/ RClk]_qvars

\* News is late but does arrive.
News ==
  /\ WF_qvars(WClk /\ lag' < lag)
  /\ WF_qvars(RClk /\ vis' - vis > Len(q') - Len(q))

FairSpec == Spec /\ News
=============================================================================
