------------------------------- MODULE ScsiDma -------------------------------
(***************************************************************************)
(* The SCSI host adapter of rtl/sun2-common/sun2_scsi_core.sv: its control  *)
(* register, New Request and IntReq, the acknowledge by programmed access,  *)
(* and the DMA engine that gathers bytes into longwords.                    *)
(*                                                                          *)
(* Clk is one edge of CLK.  With it may come a bus cycle of the CPU, which  *)
(* runs a driver's command from selection to status; a move of the target,  *)
(* one CDB byte standing for six and STATUS for STATUS and MESSAGE IN; and  *)
(* a clock of the DVMA master of rtl/sun2-vme/sun2_dvma.v, whose bus cycles *)
(* reach the beat of ByteLanes.                                             *)
(***************************************************************************)
EXTENDS ByteLanes

CONSTANTS
  Transfers,    \* what the driver asks for: [at, len, dir, word]
  Moved         \* how many bytes a target may move in one data phase

ASSUME ScsiAssumption ==
  /\ Transfers \subseteq [at : Places, len : 1 .. 16, dir : {"in", "out"}, word : BOOLEAN]
  /\ Transfers # {} /\ \A j \in Transfers : j.at + j.len <= 16
  /\ Moved \subseteq Nat

VARIABLES
  drv, job,             \* where the driver is, and with what transfer
  dvma_on,              \* EN_DVMA, as software has it for that transfer
  mpu,                  \* the CPU: its last bus cycle, the clocks before its next can
                        \* end, and whether one has since the engine asked for the bus
  dma_addr, left,       \* left is the complement of dma_count
  icr,                  \* the control half: [sel, rst, dma, word]
  status,               \* st_buserr and st_odd, with data_r
  eng,                  \* the engine's registers and the pulses it gives
  ack_q, req_d, req_latch,
  T,                    \* the target: phase, REQ, bytes moved and to be moved
  dvma,                 \* the DVMA master: its state, its answer, the longword it
                        \* read, its error latch
  cut                   \* a request of an abandoned fetch stood when this transfer
                        \* was set up, or has been left standing in it

host    == <<drv, job, dvma_on, mpu>>
regs    == <<dma_addr, left, icr, status>>
pio     == <<ack_q, req_d, req_latch>>
channel == <<host, regs, eng, pio, T, dvma, cut>>
-----------------------------------------------------------------------------
(* The SCSI bus and what the registers make of it. *)

bsy       == T.ph # "free"
cd        == T.ph \in {"command", "status"}
io        == T.ph \in {"in", "status"}
ack       == ack_q \/ eng.ack
data      == job.at + T.n           \* the byte the target hands over

\* Between selection and COMMAND the target has BSY up and drives no C/D, which
\* looks like a data phase.
data_phase == ~cd
cmd_phase  == cd /\ ~io
scsi_req   == req_latch /\ ~(data_phase /\ icr.dma)
st_int     == (req_latch /\ ~cmd_phase /\ ~(data_phase /\ icr.dma)) \/ status.buserr

cur_lane   == dma_addr % 4
dma_done   == left = 0
dma_last   == left = 1
dma_armed  == icr.dma /\ bsy /\ data_phase
odd_tail   == icr.word /\ dma_last /\ ~eng.nbytes_odd
NoLong     == [i \in 0 .. 3 |-> Blank]

dma_out_byte == eng.stage[eng.out_lane]
-----------------------------------------------------------------------------
(* One clock of the engine in each of its states; e has its pulses down.     *)

\* A register that is written again before it is looked at goes back to blank.
Forget(e) ==
  [e EXCEPT !.stage = NoLong, !.out_lane = 0,
            !.chunk_adr = IF e.wb_req THEN @ ELSE 0, !.wb_we = e.wb_req /\ @]

D_IDLE(e) ==
  [Forget(e) EXCEPT
     !.stage_sel = {}, !.nbytes_odd = FALSE,
     !.dst = IF ~(dma_armed /\ ~dma_done /\ T.req) THEN "IDLE" ELSE IF io THEN "IN" ELSE "FETCH"]

Gather(e) ==
  [e EXCEPT !.chunk_adr = IF e.stage_sel = {} THEN dma_addr \div 4 ELSE @,
            !.stage[cur_lane] = data, !.stage_sel = @ \cup {cur_lane}]

Settled_unflushed(e) == [e EXCEPT !.dst = "IDLE"]
Settled(e)           == [e EXCEPT !.dst = IF e.stage_sel = {} THEN "IDLE" ELSE "FLUSH"]

TakeByte(e) ==
  [(IF odd_tail THEN [e EXCEPT !.hold = TRUE, !.odd_byte = data] ELSE Gather(e)) EXCEPT
     !.adv = TRUE, !.nbytes_odd = ~@, !.ack = TRUE, !.dst = "INACK"]

D_IN(e) ==
  IF dma_armed /\ T.req
  THEN IF dma_done THEN Settled([e EXCEPT !.err = TRUE]) ELSE TakeByte(e)
  ELSE IF ~dma_armed \/ dma_done THEN Settled(e) ELSE e

D_INACK(e) ==
  IF T.req THEN e
  ELSE [e EXCEPT !.ack = FALSE, !.dst = IF cur_lane = 0 /\ e.stage_sel # {} THEN "FLUSH" ELSE "IN"]

Flushed(e) == [e EXCEPT !.wb_req = FALSE, !.stage_sel = {}, !.stage = NoLong]

D_FLUSH_stays(e) ==
  CASE ~e.wb_req          -> [e EXCEPT !.wb_req = TRUE, !.wb_we = TRUE]
    [] dvma.ans = "ack"   -> Flushed(e)
    [] dvma.ans = "err"   -> [Flushed(e) EXCEPT !.err = TRUE, !.dst = "IDLE"]
    [] OTHER              -> e

D_FLUSH(e) ==
  CASE ~e.wb_req          -> [e EXCEPT !.wb_req = TRUE, !.wb_we = TRUE]
    [] dvma.ans = "ack"   -> [Flushed(e) EXCEPT !.dst = "IN"]
    [] dvma.ans = "err"   -> [Flushed(e) EXCEPT !.err = TRUE, !.dst = "IDLE"]
    [] OTHER              -> e

D_FETCH(e) ==
  IF ~dma_armed \/ dma_done THEN [e EXCEPT !.dst = "IDLE"]
  ELSE CASE ~e.wb_req      -> [e EXCEPT !.chunk_adr = dma_addr \div 4, !.stage_sel = 0 .. 3,
                                        !.wb_req = TRUE, !.wb_we = FALSE]
         [] dvma.ans # ""  -> [e EXCEPT !.wb_req = FALSE, !.stage = dvma.rd, !.out_lane = cur_lane,
                                        !.err = dvma.ans = "err",
                                        !.dst = IF dvma.ans = "err" THEN "IDLE" ELSE "OUT"]
         [] OTHER          -> e

D_OUT(e) ==
  IF ~dma_armed \/ dma_done THEN [e EXCEPT !.dst = "IDLE"]
  ELSE IF T.req THEN [e EXCEPT !.adv = TRUE, !.nbytes_odd = ~@, !.ack = TRUE, !.dst = "OUTACK"]
  ELSE e

D_OUTACK(e) ==
  IF T.req THEN e
  ELSE [e EXCEPT !.ack = FALSE, !.out_lane = cur_lane,
                 !.dst = IF cur_lane = 0 THEN "FETCH" ELSE "OUT"]

Engine ==
  LET e == [eng EXCEPT !.adv = FALSE, !.err = FALSE, !.hold = FALSE, !.odd_byte = Blank]
  IN eng' = CASE e.dst = "IDLE"  -> D_IDLE(e)
               [] e.dst = "IN"    -> D_IN(e)
               [] e.dst = "INACK" -> D_INACK(e)
               [] e.dst = "FLUSH" -> D_FLUSH(e)
               [] e.dst = "FETCH" -> D_FETCH(e)
               [] e.dst = "OUT"   -> D_OUT(e)
               [] e.dst = "OUTACK" -> D_OUTACK(e)
-----------------------------------------------------------------------------
(* The register file and the two acknowledges.  cyc is the CPU's bus cycle.  *)

Control(sel, rst, dma, word) == [sel |-> sel, rst |-> rst, dma |-> dma, word |-> word]

\* The engine's pulses are applied first, and the CPU's write wins.
RegisterFile(cyc) ==
  /\ dma_addr' = IF cyc = "setup" THEN job.at ELSE IF eng.adv THEN dma_addr + 1 ELSE dma_addr
  /\ left'     = IF cyc = "setup" THEN job.len ELSE IF eng.adv THEN left - 1 ELSE left
  /\ icr' = CASE cyc = "select"  -> Control(TRUE, FALSE, FALSE, FALSE)
              [] cyc = "arm"     -> Control(FALSE, FALSE, TRUE, job.word)
              [] cyc = "reset"   -> Control(FALSE, TRUE, FALSE, FALSE)
              [] cyc = "release" -> Control(FALSE, FALSE, FALSE, FALSE)
              [] OTHER           -> icr
  /\ status' = [buserr |-> cyc # "reset" /\ (status.buserr \/ eng.err),
                odd    |-> status.odd \/ eng.hold,
                data_r |-> IF eng.hold THEN eng.odd_byte ELSE status.data_r]

\* Touching cmd_stat gives one ACK, which lasts until REQ has gone.
Pio(cyc) ==
  ack_q' = IF cyc \in {"cdb", "status"} /\ ~ack_q THEN TRUE ELSE ack_q /\ T.req

RequestLatch ==
  /\ req_d' = T.req
  /\ req_latch' = IF T.req /\ ~req_d THEN TRUE ELSE req_latch /\ ~ack_q /\ bsy
-----------------------------------------------------------------------------
(* The CPU.  A bus cycle takes four clocks, two accesses of the card have a  *)
(* fetch between them, and of a bus that is asked for the CPU has no more    *)
(* than the cycle it is in.                                                  *)

CycleClocks == 4

\* The master lets go of the bus, and the CPU begins a cycle.
BusBack == dvma.st = "BUS" /\ dvma'.st # "BUS"

OnBus == mpu.busy = 0 /\ (eng.wb_req => ~mpu.ran)

Driver == {"start", "select", "setup", "command", "wait", "status", "fail", "reset"}

Moves(cyc, from, to) ==
  drv = from /\ drv' = to /\ (cyc # "select" => UNCHANGED <<job, dvma_on>>)

Access(cyc) ==
  CASE cyc = "select"  -> /\ ~bsy /\ Moves(cyc, "start", "select")
                          /\ job' \in Transfers /\ dvma_on' \in BOOLEAN
    [] cyc = "arm"     -> bsy /\ Moves(cyc, "select", "setup")
    [] cyc = "setup"   -> Moves(cyc, "setup", "command")
    [] cyc = "cdb"     -> scsi_req /\ cmd_phase /\ Moves(cyc, "command", "wait")
    [] cyc = "poll"    -> st_int /\ Moves(cyc, "wait", IF status.buserr THEN "fail" ELSE "status")
    [] cyc = "status"  -> scsi_req /\ T.ph = "status" /\ Moves(cyc, "status", "start")
    [] cyc = "reset"   -> \E at \in Driver \ {"start", "reset"} : Moves(cyc, at, "reset")
    [] cyc = "release" -> Moves(cyc, "reset", "start")

Accesses == {"select", "arm", "setup", "cdb", "poll", "status", "reset", "release"}

Mpu(cyc) ==
  /\ CASE cyc = "none"  -> ~(OnBus /\ mpu.last = "access") /\ UNCHANGED <<drv, job, dvma_on>>
       [] cyc = "fetch" -> OnBus /\ mpu.last = "access" /\ UNCHANGED <<drv, job, dvma_on>>
       [] OTHER         -> OnBus /\ mpu.last = "fetch" /\ Access(cyc)
  /\ mpu' = [last |-> CASE cyc = "none"  -> mpu.last
                      [] cyc = "fetch" -> "fetch"
                      [] OTHER         -> "access",
             ran  |-> eng.wb_req /\ dvma.ans = "" /\ (mpu.ran \/ cyc # "none"),
             busy |-> IF cyc # "none" \/ BusBack THEN CycleClocks - 1
                      ELSE IF mpu.busy = 0 THEN 0 ELSE mpu.busy - 1]
  /\ cut' = \/ cyc = "setup" /\ eng.wb_req
            \/ cyc # "setup" /\ cut
            \/ eng.dst = "FETCH" /\ eng.wb_req /\ eng'.wb_req /\ eng'.dst = "IDLE"
-----------------------------------------------------------------------------
(* The target, which may take its time over every move.                      *)

Phase(ph, want) == [ph |-> ph, req |-> FALSE, n |-> 0, want |-> want]

MoveDone == IF T.ph \in {"in", "out"} THEN T.n = T.want ELSE T.n = 1

Target ==
  IF icr.rst THEN T' = Phase("free", 0)
  ELSE \/ UNCHANGED T
       \/ T.ph = "free" /\ icr.sel /\ T' = Phase("selected", 0)
       \/ T.ph = "selected" /\ ~icr.sel /\ T' = Phase("command", 0)
       \/ T.req /\ ack /\ T' = [T EXCEPT !.req = FALSE, !.n = @ + 1]
       \/ /\ T.ph \notin {"free", "selected"} /\ ~T.req /\ ~ack
          /\ \/ ~MoveDone /\ T' = [T EXCEPT !.req = TRUE]
             \/ MoveDone /\ T.ph = "command"
                /\ \E w \in Moved : T' = Phase(IF w = 0 THEN "status" ELSE job.dir, w)
             \/ MoveDone /\ T.ph \in {"in", "out"} /\ T' = Phase("status", T.want)
             \/ MoveDone /\ T.ph = "status" /\ T' = Phase("free", 0)

-----------------------------------------------------------------------------
(* The DVMA master.  BUS is its states from S_REQ to S_DONE, ACK and ERR are  *)
(* S_ACK with and without err_cyc.  The card's RST is its ether_reset, which  *)
(* clears the latch of a bus error and nothing else.                          *)

\* Software readies its buffer before it asks: that of a write is full, as
\* CpuWrite leaves it, that of a read empty.
Prepared ==
  [k \in Places |-> IF job.dir = "in" THEN Blank ELSE IF k % 2 = 0 THEN k + 1 ELSE k - 1]

ReadLong == [i \in 0 .. 3 |-> dvma_din(beat, eng.chunk_adr, i)]

Lanes(cyc, sel) ==
  IF cyc = "setup"
  THEN beat' = Prepared /\ written' = IF job.dir = "out" THEN Places ELSE {}
  ELSE IF ~eng.wb_we \/ sel = {} THEN UNCHANGED lanes
  ELSE /\ beat' = StoreLong(beat, eng.chunk_adr, eng.stage, sel)
       /\ written' = written \cup {4 * eng.chunk_adr + i : i \in sel}

\* RST clears dvma_err, and a bus error sets it whatever RST is.
Stepped(st, ans, rd, berr) ==
  [st |-> st, ans |-> ans, rd |-> rd, latched |-> berr \/ (dvma.latched /\ ~icr.rst)]

\* A request is refused when software has DVMA off or after a bus error; one that
\* selects no byte is done; any other waits for the last grant to be withdrawn.
Decided ==
  IF ~eng.wb_req \/ dvma.ans # "" THEN {"IDLE"}
  ELSE IF ~dvma_on \/ dvma.latched THEN {"ERR"}
  ELSE IF eng.stage_sel = {} THEN {"ACK"} ELSE {"IDLE", "BUS"}

S_IDLE(cyc) ==
  /\ dvma.st = "IDLE"
  /\ \E st \in Decided : dvma' = Stepped(st, "", NoLong, FALSE)
  /\ Lanes(cyc, {})

\* The half that has no selected byte is skipped, and the high half comes after
\* the low one has been acknowledged.
LowDone == IF eng.stage_sel \cap {2, 3} = {} THEN {} ELSE eng.stage_sel \cap {0, 1}

S_BUS(cyc) ==
  /\ dvma.st = "BUS"
  /\ \/ dvma' = Stepped("BUS", "", NoLong, FALSE) /\ Lanes(cyc, {})
     \/ /\ cyc = "none"
        /\ dvma' = Stepped("ACK", "", IF eng.wb_we THEN NoLong ELSE ReadLong, FALSE)
        /\ Lanes(cyc, eng.stage_sel)
     \/ /\ cyc = "none"
        /\ dvma' = Stepped("ERR", "", NoLong, TRUE)
        /\ \E sel \in {{}, LowDone} : Lanes(cyc, sel)

S_ACK(cyc) ==
  /\ dvma.st \in {"ACK", "ERR"}
  /\ dvma' = Stepped("IDLE", IF dvma.st = "ACK" THEN "ack" ELSE "err", dvma.rd, FALSE)
  /\ Lanes(cyc, {})

Master(cyc) == S_IDLE(cyc) \/ S_BUS(cyc) \/ S_ACK(cyc)
-----------------------------------------------------------------------------
ChannelInit ==
  /\ drv = "start" /\ job = (CHOOSE j \in Transfers : TRUE) /\ dvma_on = FALSE
  /\ mpu = [last |-> "fetch", ran |-> FALSE, busy |-> 0]
  /\ dma_addr = 0 /\ left = 0 /\ icr = Control(FALSE, FALSE, FALSE, FALSE)
  /\ status = [buserr |-> FALSE, odd |-> FALSE, data_r |-> Blank]
  /\ eng = [dst |-> "IDLE", stage |-> NoLong, stage_sel |-> {}, chunk_adr |-> 0, out_lane |-> 0,
            nbytes_odd |-> FALSE, ack |-> FALSE, wb_req |-> FALSE, wb_we |-> FALSE,
            adv |-> FALSE, err |-> FALSE, hold |-> FALSE, odd_byte |-> Blank]
  /\ ack_q = FALSE /\ req_d = FALSE /\ req_latch = FALSE
  /\ T = Phase("free", 0)
  /\ dvma = [st |-> "IDLE", ans |-> "", rd |-> NoLong, latched |-> FALSE]
  /\ cut = FALSE

Clk ==
  \E cyc \in Accesses \cup {"none", "fetch"} :
    Engine /\ RegisterFile(cyc) /\ Pio(cyc) /\ RequestLatch /\ Master(cyc) /\ Mpu(cyc) /\ Target
-----------------------------------------------------------------------------
OddLast == job.dir = "in" /\ job.word /\ job.len % 2 = 1 /\ T.want = job.len

Landed(a) == a \in job.at .. job.at + T.want - (IF OddLast THEN 2 ELSE 1)

StatusRead == drv = "status" /\ drv' = "start" /\ ~status.buserr
ByteTaken  == T.ph = "out" /\ T.req /\ T'.ph = "out" /\ ~T'.req

\* When a driver reads the status byte and no bus error is told, memory has
\* every byte a target handed over, in its place, and nothing else; the residue
\* is what was not moved; and the byte of an odd transfer that has no partner is
\* in the Data Register.  What a target takes are the buffer's bytes, in order,
\* none twice (sun2_scsi_core.sv 496-628).  The transfer that meets the request
\* of an abandoned fetch, still standing, is excepted.
EveryByteInPlace ==
  [][ ~cut =>
        /\ StatusRead =>
             /\ left = job.len - T.want
             /\ job.dir = "in" => written = {a \in Places : Landed(a)}
             /\ OddLast => status.odd /\ status.data_r = job.at + job.len - 1
        /\ ByteTaken => dma_out_byte = job.at + T.n ]_<<channel, lanes>>

\* A byte the count has room for is moved, or a bus error is told, or the phase
\* is given up.
RequestMet ==
  (T.req /\ T.ph \in {"in", "out"} /\ icr.dma /\ left > 0) ~> (eng.ack \/ status.buserr \/ ~icr.dma)
=============================================================================
