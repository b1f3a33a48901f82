---------------------------- MODULE CachedBridge ----------------------------
(***************************************************************************)
(* rtl/sun2-common/sun2_cached_fifo_bridge.v: sun2_fifo_bridge with a       *)
(* direct-mapped, write-through, no-allocate read cache on the machine's    *)
(* side of the request queue.                                               *)
(*                                                                          *)
(* What the bus shows is a location: a line of main memory, or the frame    *)
(* buffer, whose physical address aliases a line of main memory.  A line is *)
(* a few independently writable bytes.                                      *)
(***************************************************************************)
EXTENDS Integers, Sequences, SequencesExt

CONSTANTS
  MemLines, Fb,      \* the lines of main memory; the frame buffer's locations
  Alias,             \* location -> the line of its physical address
  NSets, SetOf,      \* 2**IDX, and the line's index among them
  TagOf,             \* what is left of a line's address above the index
  Bytes, Byte,
  ReqDepth, RspDepth, Tags

Locations == MemLines \cup Fb
Invalid   == "invalid"

CacheTags == {TagOf[l] : l \in MemLines} \cup {Invalid}

ASSUME CachedAssumption ==
  /\ ReqDepth \in Nat \ {0} /\ RspDepth \in Nat \ {0} /\ Tags \in Nat \ {0}
  /\ MemLines \cap Fb = {}
  /\ \A l \in Locations : Alias[l] \in MemLines /\ (l \in MemLines => Alias[l] = l)
  /\ NSets \in Nat \ {0} /\ \A l \in MemLines : SetOf[l] \in 0 .. NSets - 1
  /\ \A l \in MemLines : TagOf[l] # Invalid
  /\ \A k, l \in MemLines : SetOf[k] = SetOf[l] /\ TagOf[k] = TagOf[l] => k = l

VARIABLES
  ENABLE, issued, done, tag, P_DATA_OUT,   \* registers of the CLK side
  bus, adr,                                \* the strobes' phase; the address lines
  swp,                                     \* the sweep of the valid bits
  tmem, dmem,                              \* the cache: tag and data RAMs
  tq, dq, lk_line, lk_cwr,                 \* the RAMs' registered read, and of what
  rq, rq_vis, rq_lag, rs, rs_vis, rs_lag,  \* the two FIFOs
  busy, c,                                 \* the WB_CLK side's transaction
  mem

cpuregs == <<ENABLE, issued, done, tag, P_DATA_OUT>>
cache   == <<swp, tmem, dmem, tq, dq, lk_line, lk_cwr>>
queues  == <<rq, rq_vis, rq_lag, rs, rs_vis, rs_lag>>
wbregs  == <<busy, c, mem>>
vars    == <<cpuregs, bus, adr, cache, queues, wbregs>>

M == INSTANCE SerialMemory WITH Lines <- Locations, m <- mem, taken <- done, dout <- P_DATA_OUT
NoPhase == M!NoPhase

Requests == [tag : 0 .. Tags - 1, we : {FALSE}, a : Locations]
            \cup [tag : 0 .. Tags - 1, we : {TRUE}, a : Locations, b : SUBSET Bytes, d : Byte]
Answers  == [tag : 0 .. Tags - 1, line : M!Line]
NoRequest == [we |-> FALSE]

RQ == INSTANCE DelayedQueue WITH
        q <- rq, vis <- rq_vis, lag <- rq_lag, Depth <- ReqDepth, Data <- Requests
RS == INSTANCE DelayedQueue WITH
        q <- rs, vis <- rs_vis, lag <- rs_lag, Depth <- RspDepth, Data <- Answers
-----------------------------------------------------------------------------
(* The CLK side's wires. *)

PHASE     == bus # NoPhase
q_we      == ~bus.rd
CACHEABLE_any == TRUE
CACHEABLE == adr \notin Fb

cur_line == Alias[adr]
cur_idx  == SetOf[cur_line]
cur_tag  == TagOf[cur_line]
swp_done == swp = NSets

lk_ok_no_write_check == swp_done /\ lk_line = cur_line
\* Is what the RAMs are showing a lookup of the line on the bus now?
lk_ok  == swp_done /\ lk_line = cur_line /\ ~lk_cwr
lk_hit == lk_ok /\ tq = cur_tag

rd_hit == ENABLE /\ PHASE /\ bus.rd /\ ~issued /\ ~done /\ CACHEABLE /\ lk_hit
enq    == ENABLE /\ PHASE /\ ~issued /\ ~done /\ ~RQ!Full /\ ~rd_hit

tag_next == (tag + 1) % Tags

rd_wait == ENABLE /\ PHASE /\ issued /\ ~done /\ bus.rd
rs_ours == ~RS!Empty /\ rd_wait /\ rs[1].tag = tag
rs_pop  == rs_ours \/ (~RS!Empty /\ ~rs_ours)

Request == IF q_we THEN [tag |-> tag, we |-> TRUE, a |-> adr, b |-> bus.b, d |-> bus.d]
                   ELSE [tag |-> tag_next, we |-> FALSE, a |-> adr]

wr_now == enq /\ q_we /\ CACHEABLE
fill   == rs_ours /\ CACHEABLE

invalidate == wr_now /\ ~lk_ok
update == wr_now /\ lk_hit

\* The cache RAMs' one write port: the sweep, a fill, a write hit or an
\* invalidation, in that order of precedence.
tmem_next ==
  IF ~swp_done       THEN [tmem EXCEPT ![swp] = Invalid]
  ELSE IF fill       THEN [tmem EXCEPT ![cur_idx] = cur_tag]
  ELSE IF invalidate THEN [tmem EXCEPT ![cur_idx] = Invalid]
  ELSE tmem

dmem_next ==
  IF ~swp_done   THEN dmem
  ELSE IF fill   THEN [dmem EXCEPT ![cur_idx] = rs[1].line]
  ELSE IF update THEN [dmem EXCEPT ![cur_idx] = M!Merge(@, bus.b, bus.d)]
  ELSE dmem

cache_we == ~swp_done \/ fill \/ update \/ invalidate

\* The RAMs' read ports run free on the bus address; reading the entry that is
\* being written may show the old contents or the new.
CacheClk ==
  /\ tmem' = tmem_next /\ dmem' = dmem_next
  /\ tq' \in {tmem[cur_idx], tmem_next[cur_idx]}
  /\ dq' \in {dmem[cur_idx], dmem_next[cur_idx]}
  /\ lk_line' = cur_line
  /\ lk_cwr' = cache_we
  /\ swp' = IF swp_done THEN swp ELSE swp + 1

\* An edge of CLK; SET_ENABLE may be up on it.
CpuClk ==
  /\ \E SET_ENABLE \in BOOLEAN : ENABLE' = (ENABLE \/ SET_ENABLE)
  /\ tag' = IF enq /\ ~q_we THEN tag_next ELSE tag
  /\ issued' = (ENABLE /\ PHASE /\ (issued \/ enq))
  /\ done' = (ENABLE /\ PHASE /\ (done \/ (issued /\ q_we) \/ rs_ours \/ rd_hit))
  /\ P_DATA_OUT' = CASE ~ENABLE -> <<>>
                     [] rd_hit  -> [i \in bus.b |-> dq[i]]
                     [] rs_ours -> [i \in bus.b |-> rs[1].line[i]]
                     [] OTHER   -> P_DATA_OUT
  /\ CacheClk
  /\ IF enq THEN RQ!Push(Request) ELSE RQ!NoPush
  /\ IF rs_pop THEN RS!Pop ELSE RS!NoPop
  /\ UNCHANGED <<bus, adr, wbregs>>
-----------------------------------------------------------------------------
(* The masters, as in FifoBridge; the address lines may move at any time    *)
(* the strobes are released, and need not settle a clock before a phase.    *)

ReadsAfter(k) == {j \in k + 1 .. Len(rq) : ~rq[j].we}
Outstanding   == Cardinality(ReadsAfter(0)) + Len(rs) + (IF busy /\ ~c.we THEN 1 ELSE 0)

BeginPhase(ph) ==
  /\ ~PHASE /\ ~issued /\ ~done
  /\ ph.rd => Outstanding < Tags
  /\ bus' = ph /\ adr' = ph.a
  /\ UNCHANGED <<cpuregs, cache, queues, wbregs>>

MoveAddress ==
  /\ ~PHASE
  /\ adr' \in Locations \ {adr}
  /\ UNCHANGED <<cpuregs, bus, cache, queues, wbregs>>

\* W_ACK is rd_hit, rs_ours or done; the strobes release on it or, when the
\* master is reset under the phase, without it.
EndPhase ==
  /\ PHASE
  /\ bus' = NoPhase
  /\ UNCHANGED <<cpuregs, adr, cache, queues, wbregs>>
-----------------------------------------------------------------------------
start == ~busy /\ ~RQ!Empty /\ ~RS!Full

\* An edge of WB_CLK with no acknowledgement up.
WbClk ==
  /\ IF start THEN /\ RQ!Pop
                   /\ busy' = TRUE /\ c' = rq[1]
              ELSE /\ RQ!NoPop
                   /\ UNCHANGED <<busy, c>>
  /\ RS!NoPush
  /\ UNCHANGED <<cpuregs, bus, adr, cache, mem>>

Performed(mm, r) == IF r.we THEN [mm EXCEPT ![r.a] = M!Merge(@, r.b, r.d)] ELSE mm

\* An edge of WB_CLK with wb_ack_i up; a read's answer is the whole line.
WbAck ==
  /\ busy
  /\ busy' = FALSE
  /\ mem' = Performed(mem, c)
  /\ IF ~c.we /\ ~RS!Full THEN RS!Push([tag |-> c.tag, line |-> mem[c.a]]) ELSE RS!NoPush
  /\ RQ!NoPop
  /\ UNCHANGED <<cpuregs, bus, adr, cache, c>>
-----------------------------------------------------------------------------
\* The RAMs power up holding anything, and so do the registers that read them.
Init ==
  /\ ENABLE = FALSE /\ issued = FALSE /\ done = FALSE /\ tag = 0 /\ P_DATA_OUT = <<>>
  /\ bus = NoPhase
  /\ adr \in Locations
  /\ swp = 0
  /\ tmem \in [0 .. NSets - 1 -> CacheTags]
  /\ dmem \in [0 .. NSets - 1 -> M!Line]
  /\ tq \in CacheTags /\ dq \in M!Line
  /\ lk_line \in MemLines /\ lk_cwr \in BOOLEAN
  /\ RQ!Start /\ RS!Start
  /\ busy = FALSE /\ c = NoRequest
  /\ mem \in [Locations -> M!Line]

Next ==
  \/ CpuClk
  \/ WbClk \/ WbAck
  \/ EndPhase \/ MoveAddress
  \/ \E ph \in M!Phases : BeginPhase(ph)

Spec == Init /\ [][Next]_vars
-----------------------------------------------------------------------------
TypeOK ==
  /\ ENABLE \in BOOLEAN /\ issued \in BOOLEAN /\ done \in BOOLEAN
  /\ tag \in 0 .. Tags - 1
  /\ bus \in M!Phases \cup {NoPhase} /\ adr \in Locations
  /\ swp \in 0 .. NSets /\ lk_cwr \in BOOLEAN /\ lk_line \in MemLines
  /\ tmem \in [0 .. NSets - 1 -> CacheTags]
  /\ dmem \in [0 .. NSets - 1 -> M!Line]
  /\ tq \in CacheTags /\ dq \in M!Line
  /\ rq \in Seq(Requests) /\ rs \in Seq(Answers)
  /\ busy \in BOOLEAN /\ c \in Requests \cup {NoRequest}
  /\ mem \in [Locations -> M!Line]

\* The memory as it will be once everything queued has been performed: of the
\* writes that drive a byte the last one queued.
WritesTo(s, l, i) == {k \in DOMAIN s : s[k].we /\ s[k].a = l /\ i \in s[k].b}
After(mm, s) ==
  [l \in Locations |-> [i \in Bytes |->
     IF WritesTo(s, l, i) = {} THEN mm[l][i] ELSE s[Max(WritesTo(s, l, i))].d]]
View == After(IF busy THEN Performed(mem, c) ELSE mem, rq)

\* "Why it cannot go stale" (sun2_cached_fifo_bridge.v 14-29): a valid line
\* holds what memory will hold once the writes queued for it are performed.
CacheCoherent ==
  swp_done => \A l \in MemLines : tmem[SetOf[l]] = TagOf[l] => dmem[SetOf[l]] = View[l]

Serial == INSTANCE SerialMemory WITH
  Lines <- Locations, m <- View, dout <- P_DATA_OUT,
  taken <- PHASE /\ (IF bus.rd THEN done ELSE issued)

\* With the cache in front, and the frame buffer aliased beneath it, the
\* machine still sees one memory.
SerialMemorySpec == Serial!Spec
=============================================================================
