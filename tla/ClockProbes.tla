---------------------------- MODULE ClockProbes -----------------------------
(***************************************************************************)
(* src/tools/clkprobe: does the Am9513's counter 2, the level 5 clock of   *)
(* SunOS, tick and interrupt?  src/tools/caprobe: does a read-modify-write *)
(* instruction execute once?  Both meet ttl_am9513.v, in the 16-bit mode   *)
(* the monitor selects, so that one access moves one register.             *)
(*                                                                         *)
(* The clocks run while the program does: every access of clkprobe may     *)
(* come before or after a tick, and a status read takes at least one.      *)
(***************************************************************************)
EXTENDS ProbeMachine, SequencesExt

CONSTANTS
  TickMode,       \* TICK_MODE, 0x0C22
  MonitorLoad,    \* what the monitor gives counter 1, 0x1E00
  TickLoad,       \* TICK_LOAD, 3072
  FastLoad,       \* FAST_LOAD, 16
  LongWatch,      \* ticks that 15000 status reads take, some 22 periods
  ShortWatch,     \* ticks that 1500 status reads take
  RmwIters,       \* ITERS, 20000
  ByteSize        \* values of a byte, 256

ASSUME ClockAssumption ==
  /\ {TickMode, MonitorLoad, TickLoad, FastLoad, ShortWatch, LongWatch} \subseteq Nat \ {0}
  /\ FastLoad < TickLoad /\ TickLoad < TickMode /\ TickMode < MonitorLoad
  /\ ShortWatch > TickMode + FastLoad + 1 /\ LongWatch > 2 * TickLoad + 1
ASSUME RmwAssumption == RmwIters \in Nat /\ ByteSize \in Nat \ {0}

CLKTIMER == 2
-----------------------------------------------------------------------------
(* The chip.  A register command sets the data pointer, except the one for *)
(* hold, 0x10 + counter, which ttl_am9513.v does not decode.               *)

\* casex (data_in[7:0]), the commands the probes use.
Command(mm, c) ==
  CASE c[1] = "acc"  -> IF c[2] = "hold" \/ (c[2] = "load" /\ Has(mm, "noLoadPointer")) THEN mm
                        ELSE [mm EXCEPT !.ptr = <<c[3], c[2]>>]
    [] c[1] = "arm"      -> IF Has(mm, "armNeedsLoad") THEN mm
                            ELSE [mm EXCEPT !.armed = @ \cup {c[2]}]
    [] c[1] = "load arm" -> [mm EXCEPT !.armed = @ \cup {c[2]},
                                       !.cnt[c[2]] = mm.reg[<<c[2], "load">>]]
    [] c[1] = "disarm"   -> [mm EXCEPT !.armed = @ \ {c[2]}]
    [] c[1] = "clear"    -> [mm EXCEPT !.out = @ \ {c[2]}]

NextElement(e) == CASE e = "mode" -> "load" [] e = "load" -> "hold"
                    [] e = "hold" -> "none" [] e = "none" -> "mode"

\* A data write stores one register and steps the pointer.
StoreStep(mm, v) ==
  [mm EXCEPT !.reg = [k \in DOMAIN @ |-> IF k = mm.ptr THEN v ELSE @[k]],
             !.ptr[2] = IF Has(mm, "noStep") THEN @ ELSE NextElement(@)]

\* write_stb makes one bus cycle one write; the defect it cured ran the body
\* on every clock of the cycle.
DataWrite(mm, v) ==
  IF Has(mm, "everyClock") THEN StoreStep(StoreStep(mm, v), v) ELSE StoreStep(mm, v)

\* A data read leaves the pointer alone.
DataRead(mm) == mm.reg[mm.ptr]

\* One tick of F2 for an armed counter that selects it.
Tick(mm, c) ==
  IF c \notin mm.armed \/ mm.reg[<<c, "mode">>] # TickMode \/ Has(mm, "noCount") THEN mm
  ELSE IF mm.cnt[c] > 0 THEN [mm EXCEPT !.cnt[c] = @ - 1]
  ELSE [mm EXCEPT !.cnt[c] = mm.reg[<<c, "load">>],
                  !.out = IF c \in @ THEN @ \ {c} ELSE @ \cup {c}]
-----------------------------------------------------------------------------
(* clkprobe.  Its register accesses are scripts, one access at a time.     *)

ClkFaults == {"noLoadPointer", "armNeedsLoad", "everyClock", "noStep", "noCount", "noLevel5"}

Acc(e, c) == <<"acc", e, c>>
ReadOf(e, c) == << Acc(e, c), <<"read", e>> >>
DumpScript == ReadOf("mode", 1) \o ReadOf("load", 1) \o ReadOf("hold", 1)
Disarm == << <<"disarm", CLKTIMER>>, <<"clear", CLKTIMER>> >>
ReadBack == ReadOf("mode", CLKTIMER) \o ReadOf("load", CLKTIMER)

KernelArm(load) ==
  << Acc("mode", CLKTIMER), <<"write", TickMode>>, Acc("load", CLKTIMER), <<"write", load>>,
     <<"arm", CLKTIMER>> >>
MonitorArm(load, c) ==
  << <<"clear", c>>, Acc("mode", c), <<"write", TickMode>>, <<"write", load>>, <<"load arm", c>> >>

\* main's three passes: the arming sequence, the load value, the watch.
Pass ==
  << [name |-> "kernel",  arm |-> KernelArm(TickLoad), load |-> TickLoad, watch |-> LongWatch],
     [name |-> "fast",    arm |-> KernelArm(FastLoad), load |-> FastLoad, watch |-> ShortWatch],
     [name |-> "monitor", arm |-> MonitorArm(FastLoad, CLKTIMER), load |-> FastLoad, watch |-> ShortWatch] >>

Perform(mm, op) == CASE op[1] = "write" -> DataWrite(mm, op[2])
                     [] op[1] = "read"  -> mm
                     [] OTHER           -> Command(mm, op)

\* The monitor has armed counter 1 its own way, through the same chip.
Armed1(mm) ==
  FoldLeft(Perform, mm, SubSeq(MonitorArm(MonitorLoad, 1), 1, 4))

\* What an earlier system left in counter 2: a reset chip, or a count part way.
ClkInit ==
  /\ m \in { Armed1([ faults |-> f, net |-> net, ipl |-> 7, ptr |-> <<1, "mode">>, armed |-> {},
                      out |-> {}, cnt |-> (1 :> 0) @@ (2 :> left),
                      reg |-> [k \in {1, 2} \X {"mode", "load", "hold"} |-> 0] ]) :
             f \in FaultSets(ClkFaults), net \in BOOLEAN, left \in {0, FastLoad, TickLoad} }
  /\ pc = "dump" /\ said = NoVerdict
  /\ r = [todo |-> DumpScript, pass |-> 0, mode |-> 0, load |-> 0, hold |-> 0,
          edges |-> 0, prev |-> FALSE, left |-> 0, irqs |-> 0]

\* Whatever the program does next, a tick may come first.
MayTick(mm) == {mm, Tick(mm, CLKTIMER)}

\* One access of the script in hand.
ClkAccess ==
  /\ prog = "clkprobe" /\ r.todo # <<>>
  /\ \E mm \in MayTick(m) :
       LET op == Head(r.todo)
       IN /\ m' = Perform(mm, op)
          /\ r' = IF op[1] = "read"
                  THEN [r EXCEPT !.todo = Tail(@), ![op[2]] = DataRead(mm)]
                  ELSE [r EXCEPT !.todo = Tail(@)]
  /\ UNCHANGED <<prog, pc, said>>

Ready(place) == At("clkprobe", place) /\ r.todo = <<>>

\* dump_counter1: what the monitor left in counter 1, before any write.
ClkDump ==
  /\ Ready("dump")
  /\ Says("dump", IF r.load = MonitorLoad THEN {"right"}
                  ELSE IF r.load = r.mode THEN {"several registers"} ELSE {"neither"})
  /\ r' = [r EXCEPT !.pass = 1, !.todo = Disarm \o Pass[1].arm \o ReadBack]
  /\ Goto("check") /\ UNCHANGED m

\* check() on the two values read back, then watch_out begins.
ClkCheck ==
  /\ Ready("check")
  /\ Says(Pass[r.pass].name, {v \in {"mode not taken", "load not taken"} :
                     \/ v = "mode not taken" /\ r.mode # TickMode
                     \/ v = "load not taken" /\ r.load # Pass[r.pass].load})
  /\ r' = [r EXCEPT !.prev = CLKTIMER \in m.out, !.edges = 0, !.left = Pass[r.pass].watch]
  /\ Goto("watch") /\ UNCHANGED m

\* watch_out: edges of OUT2 in the status register, interrupts masked.
ClkWatch ==
  /\ Ready("watch") /\ r.left > 0
  /\ m' = Tick(m, CLKTIMER)
  /\ LET now == CLKTIMER \in m'.out
     IN r' = [r EXCEPT !.left = @ - 1, !.prev = now,
                       !.edges = IF now # r.prev THEN 1 ELSE @]
  /\ UNCHANGED <<prog, pc, said>>

\* Clear OUT2, forget the interrupts counted, spl4.
ClkOpen ==
  /\ Ready("watch") /\ r.left = 0
  /\ m' = [Command(m, <<"clear", CLKTIMER>>) EXCEPT !.ipl = 4]
  /\ r' = [r EXCEPT !.irqs = 0, !.left = Pass[r.pass].watch]
  /\ Goto("open") /\ UNCHANGED said

Level5 == CLKTIMER \in m.out /\ ~Has(m, "noLevel5") /\ m.ipl < 5

\* irq_handler: count, and clear the output that would interrupt for ever.
IrqHandler_keeps(mm) == mm
IrqHandler(mm) == Command(mm, <<"clear", CLKTIMER>>)

ClkInterrupt ==
  /\ Ready("open") /\ Level5
  /\ m' = IrqHandler(m)
  /\ r' = [r EXCEPT !.irqs = 1]
  /\ UNCHANGED <<prog, pc, said>>

\* The second watch_out.  A packet may come for the Ethernet the network boot
\* left armed, a level 3 autovector nothing handles: let in, it ends the run.
ClkSpin ==
  /\ Ready("open") /\ ~Level5 /\ r.left > 0
  /\ \E packet \in {FALSE, m.net} :
       IF packet /\ m.ipl < 3
       THEN Goto("lost") /\ UNCHANGED <<m, r>>
       ELSE /\ m' = Tick(m, CLKTIMER)
            /\ r' = [r EXCEPT !.left = @ - 1]
            /\ UNCHANGED pc
  /\ UNCHANGED <<prog, said>>

\* spl7, the verdict of the pass, disarm, and the next pass.
ClkVerdict ==
  /\ Ready("open") /\ ~Level5 /\ r.left = 0
  /\ Says(Pass[r.pass].name, IF r.edges = 0 THEN {"never"}
                  ELSE IF r.irqs = 0 THEN {"nothing at level 5"} ELSE {"right"})
  /\ m' = [m EXCEPT !.ipl = 7]
  /\ IF r.pass < Len(Pass)
     THEN /\ r' = [r EXCEPT !.pass = @ + 1,
                            !.todo = Disarm \o Disarm \o Pass[r.pass + 1].arm \o ReadBack]
          /\ Goto("check")
     ELSE /\ r' = [r EXCEPT !.todo = Disarm]
          /\ Goto("done")

ClkNext == ClkAccess \/ ClkDump \/ ClkCheck \/ ClkWatch \/ ClkOpen \/ ClkInterrupt
             \/ ClkSpin \/ ClkVerdict

\* The pointer command that is not decoded makes two reads return the same
\* register, which clkprobe reads as one write that reached both.
ClkBlames(v) ==
  CASE v = <<"dump", "several registers">>   -> {"everyClock", "noLoadPointer"}
    [] v = <<"dump", "neither">>             -> {"noStep"}
    [] v[2] = "mode not taken"               -> {"noStep"}
    [] v[2] = "load not taken"               -> {"everyClock", "noStep", "noLoadPointer"}
    [] v[2] = "never"                        -> {"noCount", "armNeedsLoad", "noStep"}
    [] v[2] = "nothing at level 5"           -> {"noLevel5"}
    [] OTHER                                 -> {}
-----------------------------------------------------------------------------
(* caprobe.  A read-modify-write may be executed twice, always or now and  *)
(* then, or lose its write.                                                *)

CaFaults == {"rmwTwice", "rmwSometimes", "clrLost"}
CaInit ==
  /\ m \in [faults : FaultSets(CaFaults), target : {0}]
  /\ pc = "bchg" /\ said = NoVerdict
  /\ r = [i |-> 0, bad |-> FALSE]

\* How often an instruction may execute.
Executions == IF Has(m, "rmwTwice") THEN {2} ELSE IF Has(m, "rmwSometimes") THEN {1, 2} ELSE {1}

CaAfter(place, next, verdict) ==
  IF r.i + 1 < RmwIters
  THEN Goto(place) /\ UNCHANGED said
  ELSE Goto(next) /\ Says(place, IF verdict THEN {"fail"} ELSE {"pass"})

\* 1  bchg: the bit must be the parity of the executions.  Only the last
\* iteration leaves the target 0 for the next test.
CaBchg ==
  /\ At("caprobe", "bchg")
  /\ \E n \in Executions :
       LET now == (m.target + n) % 2
           bad == r.bad \/ now # (r.i + 1) % 2
           end == r.i + 1 = RmwIters
       IN /\ m' = [m EXCEPT !.target = IF end THEN 0 ELSE now]
          /\ r' = [i |-> IF end THEN 0 ELSE r.i + 1, bad |-> ~end /\ bad]
          /\ CaAfter("bchg", "addq", bad)

\*    addq.b: the byte must be the iterations modulo its size.
CaAddq ==
  /\ At("caprobe", "addq")
  /\ \E n \in Executions :
       LET now == (m.target + n) % ByteSize
           end == r.i + 1 = RmwIters
       IN /\ m' = [m EXCEPT !.target = IF end THEN 0 ELSE now]
          /\ r' = [r EXCEPT !.i = IF end THEN 0 ELSE @ + 1]
          /\ CaAfter("addq", "pair", now # RmwIters % ByteSize)

\* 2  the PROM's pair: bset then bclr, which doing twice does not change.
CaPair ==
  /\ At("caprobe", "pair")
  /\ LET bad == r.bad \/ Has(m, "clrLost")
         end == r.i + 1 = RmwIters
     IN /\ r' = [i |-> IF end THEN 0 ELSE r.i + 1, bad |-> bad]
        /\ CaAfter("pair", "done", bad)
  /\ UNCHANGED m

CaNext == CaBchg \/ CaAddq \/ CaPair

CaBlames(v) ==
  CASE v \in {<<"bchg", "fail">>, <<"addq", "fail">>} -> {"rmwTwice", "rmwSometimes"}
    [] v = <<"pair", "fail">>                         -> {"clrLost"}
    [] OTHER                                          -> {}
=============================================================================
