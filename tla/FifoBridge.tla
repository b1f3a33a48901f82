----------------------------- MODULE FifoBridge -----------------------------
(***************************************************************************)
(* rtl/sun2-common/sun2_fifo_bridge.v: the Sun-2 bus to Wishbone through    *)
(* two dual-clock FIFOs, with the machine's bus masters on one side of it   *)
(* and a memory that answers when it likes on the other.                    *)
(*                                                                          *)
(* CpuClk is an edge of CLK with everything the CLK side does on it; WbClk  *)
(* is an edge of WB_CLK.  The masters drive the strobes between CLK edges.  *)
(* The data lanes are modelled in ByteLanes; here an address holds one      *)
(* value.                                                                   *)
(***************************************************************************)
EXTENDS Integers, Sequences, SequencesExt

CONSTANTS
  Lines, Byte,       \* addresses, and what one holds
  ReqDepth,          \* 2**REQ_ADDR
  RspDepth,          \* 2**RSP_ADDR
  Tags               \* 2**TAG_BITS

ASSUME BridgeAssumption ==
  /\ 0 \in Byte /\ Lines # {}
  /\ ReqDepth \in Nat \ {0} /\ RspDepth \in Nat \ {0} /\ Tags \in Nat \ {0}

VARIABLES
  ENABLE, issued, done, tag, P_DATA_OUT,   \* registers of the CLK side
  bus,                                     \* the phase the strobes show, or NoPhase
  dtack,                                   \* W_ACK, as the last CLK edge found it
  rq, rq_vis, rq_lag,                      \* the request FIFO
  rs, rs_vis, rs_lag,                      \* the answer FIFO
  busy, c,                                 \* the WB_CLK side's transaction
  mem                                      \* the memory behind Wishbone

cpuregs == <<ENABLE, issued, done, tag, P_DATA_OUT, dtack>>
queues  == <<rq, rq_vis, rq_lag, rs, rs_vis, rs_lag>>
wbregs  == <<busy, c, mem>>
vars    == <<cpuregs, bus, queues, wbregs>>

Bytes == {0}
M == INSTANCE SerialMemory WITH m <- mem, taken <- done, dout <- P_DATA_OUT
NoPhase == M!NoPhase

Requests == [tag : 0 .. Tags - 1, we : {FALSE}, a : Lines]
            \cup [tag : 0 .. Tags - 1, we : {TRUE}, a : Lines, d : Byte]
Answers  == [tag : 0 .. Tags - 1, d : Byte]
NoRequest == [we |-> FALSE]

RQ == INSTANCE DelayedQueue WITH
        q <- rq, vis <- rq_vis, lag <- rq_lag, Depth <- ReqDepth, Data <- Requests
RS == INSTANCE DelayedQueue WITH
        q <- rs, vis <- rs_vis, lag <- rs_lag, Depth <- RspDepth, Data <- Answers
-----------------------------------------------------------------------------
(* The CLK side's wires. *)

PHASE == bus # NoPhase
q_we  == ~bus.rd

enq == ENABLE /\ PHASE /\ ~issued /\ ~RQ!Full

tag_next == (tag + 1) % Tags

rd_wait == ENABLE /\ PHASE /\ issued /\ ~done /\ bus.rd

rs_ours_any == ~RS!Empty /\ rd_wait
rs_ours == ~RS!Empty /\ rd_wait /\ rs[1].tag = tag

rs_pop_ours == rs_ours
\* Anything at the head that is not the awaited answer is stale, and dropped.
rs_pop == rs_ours \/ (~RS!Empty /\ ~rs_ours)

W_ACK == ENABLE /\ (rs_ours \/ done)

\* A read's tag is the next one; a write carries the current tag, unused.
Request == IF q_we THEN [tag |-> tag, we |-> TRUE, a |-> bus.a, d |-> bus.d]
                   ELSE [tag |-> tag_next, we |-> FALSE, a |-> bus.a]

\* An edge of CLK; SET_ENABLE may be up on it.
CpuClk ==
  /\ \E SET_ENABLE \in BOOLEAN : ENABLE' = (ENABLE \/ SET_ENABLE)
  /\ tag' = IF enq /\ ~q_we THEN tag_next ELSE tag
  /\ issued' = (ENABLE /\ PHASE /\ (issued \/ enq))
  /\ done' = (ENABLE /\ PHASE /\ (done \/ (issued /\ q_we) \/ rs_ours))
  /\ P_DATA_OUT' = IF ~ENABLE THEN <<>>
                   ELSE IF rs_ours THEN [i \in bus.b |-> rs[1].d] ELSE P_DATA_OUT
  /\ dtack' = W_ACK
  /\ IF enq THEN RQ!Push(Request) ELSE RQ!NoPush
  /\ IF rs_pop THEN RS!Pop ELSE RS!NoPop
  /\ UNCHANGED <<bus, wbregs>>
-----------------------------------------------------------------------------
(* The masters: one phase at a time, the strobes released for at least one  *)
(* CLK edge between two (so that issued and done have cleared), a phase     *)
(* held until DTACK unless the master is reset under it.                    *)

\* Read requests still on their way round.
ReadsAfter(k) == {j \in k + 1 .. Len(rq) : ~rq[j].we}
Outstanding   == Cardinality(ReadsAfter(0)) + Len(rs) + (IF busy /\ ~c.we THEN 1 ELSE 0)

\* Abandoned reads are bounded by the number of tags: the queue alone would
\* let more than that many pile up, if as many masters were reset in turn.
BeginPhase(ph) ==
  /\ ~PHASE /\ ~issued /\ ~done
  /\ ph.rd => Outstanding < Tags
  /\ bus' = ph
  /\ UNCHANGED <<cpuregs, queues, wbregs>>

EndPhase ==
  /\ PHASE /\ dtack
  /\ bus' = NoPhase
  /\ UNCHANGED <<cpuregs, queues, wbregs>>

AbandonPhase ==
  /\ PHASE /\ ~dtack
  /\ bus' = NoPhase
  /\ UNCHANGED <<cpuregs, queues, wbregs>>
-----------------------------------------------------------------------------
(* The WB_CLK side: one transaction at a time, from the head of the queue. *)

start_blind == ~busy /\ ~RQ!Empty
start_batch == ~busy /\ rq_vis > 1 /\ ~RS!Full
start == ~busy /\ ~RQ!Empty /\ ~RS!Full

\* An edge of WB_CLK with no acknowledgement up.
WbClk ==
  /\ IF start THEN /\ RQ!Pop
                   /\ busy' = TRUE /\ c' = rq[1]
              ELSE /\ RQ!NoPop
                   /\ UNCHANGED <<busy, c>>
  /\ RS!NoPush
  /\ UNCHANGED <<cpuregs, bus, mem>>

\* An edge of WB_CLK with wb_ack_i up: the memory has done what was asked.  A
\* FIFO that is full drops what is pushed at it.
WbAck ==
  /\ busy
  /\ busy' = FALSE
  /\ mem' = IF c.we THEN [mem EXCEPT ![c.a] = [i \in Bytes |-> c.d]] ELSE mem
  /\ IF ~c.we /\ ~RS!Full THEN RS!Push([tag |-> c.tag, d |-> mem[c.a][0]]) ELSE RS!NoPush
  /\ RQ!NoPop
  /\ UNCHANGED <<cpuregs, bus, c>>
-----------------------------------------------------------------------------
Init ==
  /\ ENABLE = FALSE /\ issued = FALSE /\ done = FALSE /\ tag = 0 /\ P_DATA_OUT = <<>>
  /\ bus = NoPhase /\ dtack = FALSE
  /\ RQ!Start /\ RS!Start
  /\ busy = FALSE /\ c = NoRequest
  /\ mem \in [Lines -> [Bytes -> Byte]]

Next ==
  \/ CpuClk
  \/ WbClk \/ WbAck
  \/ EndPhase \/ AbandonPhase
  \/ \E ph \in M!Phases : BeginPhase(ph)

Spec == Init /\ [][Next]_vars
-----------------------------------------------------------------------------
TypeOK ==
  /\ ENABLE \in BOOLEAN /\ issued \in BOOLEAN /\ done \in BOOLEAN /\ dtack \in BOOLEAN
  /\ tag \in 0 .. Tags - 1
  /\ P_DATA_OUT \in {<<>>} \cup [Bytes -> Byte]
  /\ bus \in M!Phases \cup {NoPhase}
  /\ rq \in Seq(Requests) /\ Len(rq) <= ReqDepth /\ rq_vis \in 0 .. Len(rq)
  /\ rs \in Seq(Answers) /\ Len(rs) <= RspDepth /\ rs_vis \in 0 .. Len(rs)
  /\ rq_lag \in 0 .. ReqDepth - Len(rq) /\ rs_lag \in 0 .. RspDepth - Len(rs)
  /\ busy \in BOOLEAN /\ c \in Requests \cup {NoRequest}
  /\ mem \in [Lines -> [Bytes -> Byte]]

\* A read is only put to the memory with room kept for its answer, so the
\* answer FIFO never drops one (sun2_fifo_bridge.v 219-221).
RoomForTheAnswer == busy /\ ~c.we => ~RS!Full

\* The memory as it will be once everything queued has been performed: of the
\* writes to a line the last one queued.
Performed(mm, r) == IF r.we THEN [mm EXCEPT ![r.a] = [i \in Bytes |-> r.d]] ELSE mm
WritesTo(s, l)   == {k \in DOMAIN s : s[k].we /\ s[k].a = l}
After(mm, s) ==
  [l \in Lines |-> IF WritesTo(s, l) = {} THEN mm[l]
                   ELSE [i \in Bytes |-> s[Max(WritesTo(s, l))].d]]
View == After(IF busy THEN Performed(mem, c) ELSE mem, rq)

\* The phase on the bus has had its effect, as the machine may count on it.
Taken == PHASE /\ (IF bus.rd THEN done ELSE issued)

\* A master that waits is answered: backpressure, a queue full of abandoned
\* work and stale answers delay a phase but never wedge it.
PhaseAnswered == PHASE ~> (dtack \/ ~PHASE)
=============================================================================
