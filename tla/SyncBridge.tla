----------------------------- MODULE SyncBridge -----------------------------
(***************************************************************************)
(* The other path to memory: rtl/sun2-common/sun2_wishbone_bridge.v, which  *)
(* holds its request up until it is acknowledged, in front of               *)
(* boards/Wukong/wb_to_mig_ui.sv, which latches a request on its first      *)
(* clock, carries it to the memory controller's clock on a toggle, runs it  *)
(* to the end and carries the answer back on another.                       *)
(*                                                                          *)
(* CpuClk is an edge of the clock the bridge and the adapter's Wishbone     *)
(* side share; UiClk is an edge of the memory controller's.  A toggle that  *)
(* crosses may be sampled late, by any number of edges.                     *)
(*                                                                          *)
(* A phase that is walked away from leaves the adapter running it to the    *)
(* end, and nothing tells its acknowledgement from another's: `stray' is    *)
(* the history that says whose it is.                                       *)
(***************************************************************************)
EXTENDS Integers

CONSTANTS Lines, Byte

VARIABLES
  ENABLE, issued, done, P_DATA_OUT,        \* the bridge's registers
  bus, dtack,                              \* the phase on the strobes; W_ACK as last sampled
  busy, req, req_tgl, wb_ack_o, wb_dat_o,  \* the adapter's Wishbone side
  ack_s,                                   \* ack_tgl_s1, _s2, _s3
  req_s,                                   \* req_tgl_s1, _s2, _s3
  waiting, ack_tgl, rd_lane,               \* the adapter's memory side
  mem,
  stray                                    \* the adapter runs a phase that was abandoned

bridge  == <<ENABLE, issued, done, P_DATA_OUT, dtack>>
adapter == <<busy, req, req_tgl, wb_ack_o, wb_dat_o, ack_s>>
uiregs  == <<req_s, waiting, ack_tgl, rd_lane, mem>>
vars    == <<bridge, bus, adapter, uiregs, stray>>

Bytes == {0}
M == INSTANCE SerialMemory WITH m <- mem, taken <- done, dout <- P_DATA_OUT
NoPhase   == M!NoPhase
NoRequest == [we |-> FALSE]
-----------------------------------------------------------------------------
(* The bridge's wires. *)

PHASE == bus # NoPhase

wb_cyc_o    == ENABLE /\ PHASE /\ ~done

ours_any == wb_ack_o
ours     == wb_ack_o /\ issued

W_ACK == ENABLE /\ (ours \/ done)

Word == [i \in Bytes |-> wb_dat_o]

\* Nothing but R/W gates the load, and R/W is anyone's guess once the strobes
\* are released.
Loaded ==
  CASE ~ENABLE                  -> {<<>>}
    [] ENABLE /\ ours /\ PHASE  -> {IF bus.rd THEN Word ELSE P_DATA_OUT}
    [] ENABLE /\ ours /\ ~PHASE -> {P_DATA_OUT, Word}
    [] OTHER                    -> {P_DATA_OUT}

\* A master sees the acknowledgement only while its own match is up.
BridgeClk ==
  /\ \E SET_ENABLE \in BOOLEAN : ENABLE' = (ENABLE \/ SET_ENABLE)
  /\ issued' = (ENABLE /\ PHASE /\ (issued \/ wb_cyc_o))
  /\ done'   = (ENABLE /\ PHASE /\ (done \/ ours))
  /\ P_DATA_OUT' \in Loaded
  /\ dtack' = (PHASE /\ W_ACK)
-----------------------------------------------------------------------------
(* The adapter's Wishbone side. *)

ack_pulse == ack_s[2] # ack_s[3]

capture_over  == wb_cyc_o /\ ~wb_ack_o
capture == ~busy /\ wb_cyc_o /\ ~wb_ack_o

WbRequest == IF bus.rd THEN [we |-> FALSE, a |-> bus.a] ELSE [we |-> TRUE, a |-> bus.a, d |-> bus.d]

AdapterClk ==
  /\ \E late \in BOOLEAN : ack_s' = <<IF late THEN ack_s[1] ELSE ack_tgl, ack_s[1], ack_s[2]>>
  /\ wb_ack_o' = (busy /\ ack_pulse)
  /\ CASE capture ->
            /\ req' = WbRequest /\ req_tgl' = ~req_tgl /\ busy' = TRUE
            /\ UNCHANGED wb_dat_o
       [] busy /\ ack_pulse ->
            /\ wb_dat_o' = rd_lane /\ busy' = FALSE
            /\ UNCHANGED <<req, req_tgl>>
       [] OTHER -> UNCHANGED <<req, req_tgl, busy, wb_dat_o>>

CpuClk ==
  /\ BridgeClk /\ AdapterClk
  /\ stray' = (stray /\ (busy' \/ wb_ack_o'))
  /\ UNCHANGED <<bus, uiregs>>
-----------------------------------------------------------------------------
(* The masters, the same as the queued bridge's: a phase is held until      *)
(* DTACK unless the master is reset under it.                               *)

BeginPhase(ph) ==
  /\ ~PHASE /\ ~issued /\ ~done
  /\ bus' = ph
  /\ UNCHANGED <<bridge, adapter, uiregs, stray>>

EndPhase ==
  /\ PHASE /\ dtack
  /\ bus' = NoPhase
  /\ UNCHANGED <<bridge, adapter, uiregs, stray>>

AbandonPhase ==
  /\ PHASE /\ ~dtack
  /\ bus' = NoPhase
  /\ stray' = (busy \/ wb_ack_o)
  /\ UNCHANGED <<bridge, adapter, uiregs>>
-----------------------------------------------------------------------------
(* The adapter's memory side. *)

req_pulse == req_s[2] # req_s[3]
c_req     == req_pulse \/ waiting

Crossing == \E late \in BOOLEAN : req_s' = <<IF late THEN req_s[1] ELSE req_tgl, req_s[1], req_s[2]>>

Performed(mm, r) == IF r.we THEN [mm EXCEPT ![r.a] = [i \in Bytes |-> r.d]] ELSE mm

\* An edge of ui_clk without c_done.
UiClk ==
  /\ Crossing
  /\ waiting' = (waiting \/ req_pulse)
  /\ UNCHANGED <<ack_tgl, rd_lane, mem, bridge, bus, adapter, stray>>

\* An edge of ui_clk with c_done: the arbiter registers it, so it follows the
\* first clock of c_req by one at least.  A write's answer loads whatever the
\* arbiter last read.
UiDone ==
  /\ waiting
  /\ Crossing
  /\ mem' = Performed(mem, req)
  /\ rd_lane' \in IF req.we THEN Byte ELSE {mem[req.a][0]}
  /\ waiting' = FALSE
  /\ ack_tgl' = ~ack_tgl
  /\ UNCHANGED <<bridge, bus, adapter, stray>>
-----------------------------------------------------------------------------
Init ==
  /\ ENABLE = FALSE /\ issued = FALSE /\ done = FALSE /\ P_DATA_OUT = <<>>
  /\ bus = NoPhase /\ dtack = FALSE
  /\ busy = FALSE /\ req = NoRequest /\ req_tgl = FALSE /\ wb_ack_o = FALSE /\ wb_dat_o = 0
  /\ ack_s = <<FALSE, FALSE, FALSE>> /\ req_s = <<FALSE, FALSE, FALSE>>
  /\ waiting = FALSE /\ ack_tgl = FALSE /\ rd_lane = 0 /\ stray = FALSE
  /\ mem \in [Lines -> [Bytes -> Byte]]

Next ==
  \/ CpuClk
  \/ UiClk \/ UiDone
  \/ EndPhase \/ AbandonPhase
  \/ \E ph \in M!Phases : BeginPhase(ph)

Spec == Init /\ [][Next]_vars
-----------------------------------------------------------------------------
\* What crosses without a synchroniser is stable while it is looked at: the
\* request from its toggle to the answer, the answer from its toggle on
\* (wb_to_mig_ui.sv 76-80).
HeldAcross ==
  [][ /\ (req_tgl # ack_tgl => (req' = req \/ req_tgl' = ack_tgl'))
      /\ (ack_tgl # ack_s[3] => rd_lane' = rd_lane) ]_vars

\* The memory as it will be once the write that crosses has been performed, and
\* whether the phase on the bus has had its effect.  What the adapter does is
\* that phase's only if it is not a stray.
View  == IF req_tgl # ack_tgl THEN Performed(mem, req) ELSE mem
Taken == PHASE /\ (IF bus.rd \/ stray THEN done ELSE busy \/ wb_ack_o \/ done)

\* The acknowledgement of an abandoned phase, up while a request has been out
\* for a clock: the bridge takes it for that request's own.
Orphaned == stray /\ wb_ack_o /\ issued

\* The phase on the bus is then told that it was served when it was not: a read
\* is answered with the abandoned phase's word, a write is not performed.  With
\* no phase on the bus yet, the word may reach the data register all the same.
OrphanTaken ==
  /\ Orphaned /\ ~stray'
  /\ View' = View /\ bus' = bus
  /\ \/ /\ PHASE /\ ~Taken /\ Taken'
        /\ P_DATA_OUT' = IF bus.rd THEN Word ELSE P_DATA_OUT
     \/ /\ ~PHASE /\ ~Taken'
        /\ P_DATA_OUT' \in {P_DATA_OUT, Word}
=============================================================================
