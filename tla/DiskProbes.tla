----------------------------- MODULE DiskProbes -----------------------------
(***************************************************************************)
(* The two boot blocks that drive the emulated Xylogics 450:               *)
(*   xychain   chains of IOPBs, and the interrupts they ask for            *)
(*   wrprobe   writes of growing size, read back into another buffer       *)
(* and the controller as they meet it (sun2_xy450.sv): the status          *)
(* register, and an engine that takes one IOPB after another out of memory *)
(* while the processor polls.  A sector is the number of the block whose   *)
(* pattern it carries.                                                     *)
(***************************************************************************)
EXTENDS ProbeMachine, Integers

CONSTANTS
  ChainLimit,  \* CHAIN_LIMIT: links the controller follows after one Go, 64
  BigXfer,     \* sectors in a large transfer of wrprobe, 16
  LongSect,    \* a fault of long transfers begins at this sector
  ManySect     \* a fault of many transfers begins after this many sectors

ASSUME DiskAssumption ==
  /\ {ChainLimit, BigXfer, LongSect, ManySect} \subseteq Nat \ {0}
  /\ ChainLimit > 4
  /\ LongSect < BigXfer /\ ManySect >= 2 * (1 + BigXfer)
-----------------------------------------------------------------------------
(* The controller.                                                         *)

\* The IOPBs the blocks build, and MultiBus address 0: memory that was never
\* written, which decodes as a NOP that links to itself.
NOWHERE == 5
IOPBs   == 0..NOWHERE
POISON == 1000      \* no block
None   == [cmd |-> "nop", chen |-> FALSE, ien |-> FALSE, iei |-> FALSE, next |-> NOWHERE,
           blk |-> 0, n |-> 1, done |-> FALSE, cc |-> 0]

\* csr_gbsy, csr_err, csr_ipnd; whether a register was written while busy;
\* the engine's state, the IOPB it is at, whether that ended badly, the links
\* followed; the IOPBs and buffers in memory; whether the drive has its size.
Controller(f, disk) ==
  [ faults |-> f, busy |-> FALSE, err |-> FALSE, ipnd |-> FALSE, conflict |-> FALSE,
    est |-> "idle", at |-> 0, hard |-> FALSE, links |-> 0,
    iopb |-> [n \in IOPBs |-> None], buf |-> [n \in IOPBs |-> POISON],
    size |-> FALSE, disk |-> disk, wbuf |-> <<>>, rbuf |-> <<>>, moved |-> 0 ]

\* A read of xy_resupd: registers cleared, GBSY stays set for RESET_CLOCKS.
Reset(mm) == [mm EXCEPT !.busy = TRUE, !.err = FALSE, !.ipnd = FALSE, !.est = "reset"]

\* go(): the address registers and XY_GO.  Any of them while the controller
\* is busy is a Busy Conflict, and XY_GO is ignored.  It leaves ERR alone.
GoAt(mm, n) ==
  IF mm.busy THEN [mm EXCEPT !.err = TRUE, !.conflict = TRUE]
  ELSE [mm EXCEPT !.busy = TRUE, !.est = "decode", !.at = n, !.links = 0]

Interrupting(mm) == mm.ipnd /\ ~Has(mm, "noInt2")

\* E_DECODE: what is refused as a hard error.
HardError(mm, b) ==
  \/ b.cmd \in {"read", "write"} /\ Has(mm, "noDrive")
  \/ b.cmd \in {"read", "write"} /\ ~mm.size /\ b.blk > 0
  \/ b.cmd = "write" /\ Has(mm, "hardOnce") /\ mm.moved = 0

\* The sectors of a transfer that are really moved.
Moves(mm, k) ==
  /\ ~Has(mm, "noTouch")
  /\ Has(mm, "longTransfer") => k < LongSect
  /\ Has(mm, "manyTransfers") => mm.moved + k < ManySect

Lands(mm, b) == b + (IF Has(mm, "wrongBlock") THEN 1 ELSE 0)

\* E_SECT to E_SECT_END, for the IOPB's command.
Transfer(mm, n) ==
  LET b == mm.iopb[n]
  IN CASE b.cmd = "nop"     -> mm
       [] b.cmd = "setsize" -> [mm EXCEPT !.size = TRUE]
       [] b.cmd = "write" ->
            [mm EXCEPT !.moved = @ + b.n,
               !.disk = [x \in DOMAIN @ |->
                  LET k == x - Lands(mm, b.blk)
                  IN IF k \in 0..(b.n - 1) /\ Moves(mm, k) THEN mm.wbuf[k + 1] ELSE @[x]]]
       [] b.cmd = "read" /\ prog = "wrprobe" ->
            [mm EXCEPT !.moved = @ + b.n,
               !.rbuf = [k \in DOMAIN @ |->
                  IF Moves(mm, k - 1) /\ k <= b.n THEN mm.disk[b.blk + k - 1] ELSE @[k]]]
       [] b.cmd = "read" /\ prog = "xychain" ->
            [mm EXCEPT !.buf[n] = IF Has(mm, "wrongBlock") THEN b.blk + 1 ELSE b.blk]

\* The write back: DONE and the completion code.
WriteBack(mm, n, hard) ==
  [mm EXCEPT !.iopb[n].done = TRUE, !.iopb[n].cc = IF hard THEN 1 ELSE 0]

\* E_IOPB_END, E_NEXT and E_FINISH: GBSY drops and IPND rises in one cycle.
DoChain(mm, b) == (b.chen \/ Has(mm, "staleLink")) /\ ~Has(mm, "noChain")

Finish(mm, b, hard) ==
  [mm EXCEPT !.est = "idle", !.ipnd = @ \/ b.ien, !.busy = FALSE, !.err = @ \/ hard]

EndOf(mm, b, hard) ==
  LET each == b.ien /\ ((b.iei /\ ~Has(mm, "noIei")) \/ Has(mm, "alwaysIei"))
      ends == [mm EXCEPT !.ipnd = @ \/ each]
  IN CASE hard \/ ~DoChain(mm, b) -> Finish(ends, b, hard)
       [] ~hard /\ DoChain(mm, b) ->
            IF mm.links = ChainLimit
            THEN Finish(WriteBack(ends, mm.at, TRUE), b, TRUE)
            ELSE [ends EXCEPT !.est = "decode", !.at = b.next, !.links = @ + 1]

\* E_DECODE to E_WB: an IOPB that is already DONE is skipped.
XyExecute(mm) ==
  LET n    == mm.at
      b    == mm.iopb[n]
      hard == HardError(mm, b)
  IN [ (IF b.done THEN mm ELSE WriteBack(IF hard THEN mm ELSE Transfer(mm, n), n, hard))
       EXCEPT !.est = "end", !.hard = ~b.done /\ hard ]

\* The engine takes its next step.  The handler of an interrupt is over long
\* before the controller, hundreds of bus cycles to an IOPB, ends another.
XyStep ==
  /\ prog \in {"xychain", "wrprobe"}
  /\ ~Has(m, "hangs") /\ ~Interrupting(m)
  /\ m.est # "idle"
  /\ m' = CASE m.est = "reset"  -> [m EXCEPT !.busy = FALSE, !.est = "idle"]
            [] m.est = "decode" -> XyExecute(m)
            [] m.est = "end"    -> EndOf(m, m.iopb[m.at], m.hard)
  /\ UNCHANGED <<prog, pc, r, said>>
-----------------------------------------------------------------------------
(* xychain.                                                                *)

XyFaults == {"noDrive", "hangs", "noInt2", "noIei", "alwaysIei", "noChain", "staleLink",
             "wrongBlock"}

XyInit ==
  /\ m \in {Controller(f, <<>>) : f \in FaultSets(XyFaults)}
  /\ pc = "xy start" /\ said = NoVerdict
  /\ r = [irqs |-> 0]

Read(chen, iei, next, blk) ==
  [None EXCEPT !.cmd = "read", !.chen = chen, !.ien = TRUE, !.iei = iei, !.next = next, !.blk = blk]

\* The IOPBs in memory: four in a row, or two and a third behind a stale next
\* pointer.
Four(iei) == [i \in 0..3 |-> Read(i < 3, iei, i + 1, i)]
Stale == [i \in {0, 1, 4} |-> IF i = 0 THEN Read(TRUE, FALSE, 1, 0)
                             ELSE IF i = 1 THEN Read(FALSE, FALSE, 4, 1)
                             ELSE Read(FALSE, FALSE, NOWHERE, 3)]

\* What each case builds, how many interrupts it wants, where it waits, and what
\* comes after it.
Chain ==
  [ clear |-> [iopb |-> Four(FALSE), want |-> 1, wait |-> "clear wait", next |-> "each"],
    each  |-> [iopb |-> Four(TRUE),  want |-> 4, wait |-> "each wait",  next |-> "stale"],
    stale |-> [iopb |-> Stale,       want |-> 1, wait |-> "stale wait", next |-> "done"] ]

\* The controller reset, and the wait for it.
XyReset ==
  /\ At("xychain", "xy start")
  /\ m' = Reset(m)
  /\ Goto("xy reset") /\ UNCHANGED <<r, said>>

\* Whether a wait ends: the controller is idle, or the count ran out.
Waited_not(mm) == TRUE
Waited(mm) == ~mm.busy \/ Has(mm, "hangs")

\* Set Drive Size.
XySize ==
  /\ At("xychain", "xy reset") /\ Waited(m)
  /\ Says("reset", (IF m.busy THEN {"never finished"} ELSE {}) \cup
                   (IF Has(m, "noDrive") THEN {"no drive"} ELSE {}))
  /\ m' = GoAt([m EXCEPT !.iopb[0] = [None EXCEPT !.cmd = "setsize"]], 0)
  /\ Goto("xy size") /\ UNCHANGED r

XySized ==
  /\ At("xychain", "xy size") /\ Waited(m)
  /\ Says("size", (IF m.busy THEN {"never finished"} ELSE {}) \cup
                  (IF m.iopb[0].cc # 0 THEN {"failed"} ELSE {}))
  /\ Goto("clear") /\ UNCHANGED <<m, r>>

\* build() and fill(), irq_count, go().
Built(mm, c) ==
  LET new == Chain[c].iopb
  IN [mm EXCEPT !.iopb = [n \in IOPBs |-> IF n \in DOMAIN new THEN new[n] ELSE @[n]],
                !.buf  = [n \in IOPBs |-> IF n \in DOMAIN new THEN POISON ELSE @[n]]]

XyGo ==
  \E c \in DOMAIN Chain :
    /\ At("xychain", c)
    /\ m' = GoAt(Built(m, c), 0)
    /\ r' = [irqs |-> 0]
    /\ Goto(Chain[c].wait) /\ UNCHANGED said

\* irq_handler: count, and clear IPND (one interrupt too many is as good as
\* any number).
XyInterrupt ==
  /\ prog = "xychain" /\ Interrupting(m)
  /\ m' = [m EXCEPT !.ipnd = FALSE]
  /\ r' = [irqs |-> IF r.irqs > 4 THEN 5 ELSE r.irqs + 1]
  /\ UNCHANGED <<prog, pc, said>>

\* wait_idle: once GBSY is seen clear, a thousand reads more, in which the
\* interrupt that rose with it is taken.
Settled(mm) == Waited(mm) /\ ~Interrupting(mm)

XyComplaints(c) ==
  (IF m.busy THEN {"never idle"} ELSE {}) \cup
  (IF r.irqs # Chain[c].want THEN {"interrupts"} ELSE {}) \cup
  (CASE c = "clear" ->
          {v \in {"no DONE", "error", "label", "program"} :
             \/ v = "no DONE" /\ \E i \in 0..3 : ~m.iopb[i].done
             \/ v = "error"   /\ \E i \in 0..3 : m.iopb[i].cc # 0
             \/ v = "label"   /\ m.buf[0] # 0
             \/ v = "program" /\ m.buf[1] # 1 }
     [] c = "each"  -> {}
     [] c = "stale" ->
          {v \in {"tail", "followed", "data"} :
             \/ v = "tail"     /\ m.iopb[1].cc # 0
             \/ v = "followed" /\ m.iopb[4].done
             \/ v = "data"     /\ m.buf[4] # POISON })

XyJudge ==
  \E c \in DOMAIN Chain :
    /\ At("xychain", Chain[c].wait) /\ Settled(m)
    /\ Says(c, XyComplaints(c))
    /\ Goto(Chain[c].next) /\ UNCHANGED <<m, r>>

XyNext == XyStep \/ XyReset \/ XySize \/ XySized \/ XyGo \/ XyInterrupt \/ XyJudge

XyBlames(v) ==
  CASE v[2] \in {"never finished", "never idle"} -> {"hangs"}
    [] v[2] = "no drive"         -> {"noDrive"}
    [] v[2] = "interrupts"       -> {"noInt2", "noIei", "alwaysIei", "noDrive", "hangs",
                                     "staleLink", "noChain"}
    [] v[2] = "no DONE"          -> {"noChain", "noDrive", "hangs"}
    [] v[2] \in {"error", "tail"} -> {"noDrive"}
    [] v[2] \in {"label", "program"} -> {"wrongBlock", "noDrive", "hangs", "noChain"}
    [] v[2] \in {"followed", "data"} -> {"staleLink"}
    [] OTHER                     -> {}
-----------------------------------------------------------------------------
(* wrprobe.                                                                *)

WrFaults == {"hangs", "hardOnce", "wrongBlock", "noTouch", "longTransfer", "manyTransfers",
             "noDrive"}

\* One sector, sixteen, then sixteen four times over; blocks from FIRST_BLK.
Rounds ==
  << [blk |-> 1, n |-> 1], [blk |-> 3, n |-> BigXfer] >> \o
  [i \in 1..4 |-> [blk |-> 4 + i * BigXfer, n |-> BigXfer]]

DiskBlocks == 0..(5 + 5 * BigXfer)

WrInit ==
  /\ m \in {Controller(f, [b \in DiskBlocks |-> POISON]) : f \in FaultSets(WrFaults)}
  /\ pc = "wr size" /\ said = NoVerdict
  /\ r = [round |-> 0]

WrSize ==
  /\ At("wrprobe", "wr size")
  /\ m' = GoAt([m EXCEPT !.iopb[0] = [None EXCEPT !.cmd = "setsize"]], 0)
  /\ Goto("wr sized") /\ UNCHANGED <<r, said>>

WrSized ==
  /\ At("wrprobe", "wr sized") /\ Waited(m)
  /\ Says("size", IF m.busy THEN {"hung"} ELSE IF m.err THEN {"ERROR"} ELSE {})
  /\ r' = [round |-> 1]
  /\ Goto("write") /\ UNCHANGED m

\* build(cmd, blk, nsect, buf): the IOPB for a round.
WrBuild(cmd) ==
  [None EXCEPT !.cmd = cmd, !.blk = Rounds[r.round].blk, !.n = Rounds[r.round].n]

\* pat(): a sector knows the block it was made for.
Pattern(rd) == [k \in 1..rd.n |-> rd.blk + k - 1]

\* fill both buffers, write.
WrWrite ==
  /\ At("wrprobe", "write")
  /\ m' = GoAt([m EXCEPT !.iopb[0] = WrBuild("write"), !.wbuf = Pattern(Rounds[r.round]),
                         !.rbuf = [k \in 1..Rounds[r.round].n |-> POISON]], 0)
  /\ Goto("written") /\ UNCHANGED <<r, said>>

\* A round that ends, well or badly, makes way for the next.
RoundName(k) == IF k = 1 THEN "single" ELSE IF k = 2 THEN "sixteen" ELSE "run of sixteens"
NextRound(verdicts) ==
  /\ Says(RoundName(r.round), verdicts)
  /\ IF r.round < Len(Rounds)
     THEN r' = [round |-> r.round + 1] /\ Goto("write")
     ELSE r' = r /\ Goto("done")

\* After the write, and after the read: hung, ERR, or go on.
WrWritten ==
  /\ At("wrprobe", "written") /\ Waited(m)
  /\ IF m.busy \/ m.err
     THEN NextRound(IF m.busy THEN {"never finished"} ELSE {"ERROR"}) /\ UNCHANGED m
     ELSE /\ m' = GoAt([m EXCEPT !.iopb[0] = WrBuild("read")], 0)
          /\ Goto("read") /\ UNCHANGED <<r, said>>

WrVerify ==
  /\ At("wrprobe", "read") /\ Waited(m)
  /\ NextRound(IF m.busy THEN {"never finished"} ELSE IF m.err THEN {"ERROR"}
               ELSE IF m.rbuf = Pattern(Rounds[r.round]) THEN {"ok"} ELSE {"BAD"})
  /\ UNCHANGED m

WrNext == WrSize \/ WrSized \/ WrWrite \/ WrWritten \/ WrVerify

\* Which round fails first tells a fault of long transfers from one of many.
WrBlames(v) ==
  CASE v[2] \in {"hung", "never finished"} -> {"hangs"}
    [] v[2] = "ERROR" -> {"hardOnce", "noDrive", "hangs"}
    [] v[2] = "BAD"   -> {"wrongBlock", "noTouch"} \cup
                         (IF v[1] # "single" THEN {"longTransfer"} ELSE {}) \cup
                         (IF v[1] = "run of sixteens" THEN {"manyTransfers"} ELSE {})
    [] OTHER          -> {}
=============================================================================
