---------------------------- MODULE Diagnostics -----------------------------
(***************************************************************************)
(* The programs under src/tools, one of which runs at a time.  Each is a   *)
(* diagnosis: from what it can reach, the maps, the bus error register,    *)
(* the interrupts it takes, the words it reads back, it names what is      *)
(* wrong with the hardware.  The properties are about the diagnosis: it    *)
(* accuses nothing that works, it overlooks nothing it looks for, and      *)
(* beyond the pages it is there to change it leaves the machine as it was. *)
(***************************************************************************)
EXTENDS CtxProbe, MmuProbes, CoreProbes, ClockProbes, DiskProbes, LoopProbe, HostTools

Init ==
  \/ prog = "ctxprobe" /\ CtxInit
  \/ prog = "mmuprobe" /\ MmuInit
  \/ prog = "refmodprobe" /\ RefInit
  \/ prog = "usrprobe" /\ UsrInit
  \/ prog \in {"beprobe", "dogprobe"} /\ BusInit
  \/ prog \in {"strprobe", "rteprobe"} /\ CopyInit
  \/ prog = "clkprobe" /\ ClkInit
  \/ prog = "caprobe" /\ CaInit
  \/ prog = "xychain" /\ XyInit
  \/ prog = "wrprobe" /\ WrInit
  \/ prog = "loopprobe" /\ LoopInit
  \/ prog = "patwr" /\ PatInit
  \/ prog = "memdwell" /\ DwellInit
  \/ prog = "memchk" /\ ChkInit
  \/ prog = "netchk" /\ NetInit
  \/ prog = "rompatch" /\ RomInit

Next == CtxNext \/ MmuNext \/ RefNext \/ CoreNext \/ ClkNext \/ CaNext
          \/ XyNext \/ WrNext \/ LoopNext \/ HostNext

\* The blocks that wait for a device.  A processor that runs and a device that
\* is not hung go on; the other blocks run straight through and need no fairness.
Polling     == {"clkprobe", "xychain", "wrprobe"}
PollingNext == ClkNext \/ XyNext \/ WrNext

Spec == Init /\ [][Next]_vars /\ WF_vars(PollingNext)
-----------------------------------------------------------------------------
Satisfied == {"right", "armed", "banner", "vector 2", "agrees", "pass", "not valid", "ok", "both pass"}

\* The faults a verdict of the program lays the blame on.
Blames(v) ==
  CASE prog = "ctxprobe"                 -> CtxBlames(v)
    [] prog = "mmuprobe"                 -> MmuBlames(v)
    [] prog = "refmodprobe"              -> RefBlames(v)
    [] prog = "usrprobe"                 -> UsrBlames(v)
    [] prog \in {"beprobe", "dogprobe"}  -> BusBlames(v)
    [] prog \in {"strprobe", "rteprobe"} -> CopyBlames(v)
    [] prog = "clkprobe"                 -> ClkBlames(v)
    [] prog = "caprobe"                  -> CaBlames(v)
    [] prog = "xychain"                  -> XyBlames(v)
    [] prog = "wrprobe"                  -> WrBlames(v)
    [] prog = "loopprobe"                -> LoopBlames(v)
    [] prog = "patwr"                    -> PatBlames(v)
    [] prog = "memdwell"                 -> DwellBlames(v)
    [] prog = "memchk"                   -> ChkBlames(v)
    [] prog = "netchk"                   -> NetBlames(v)
    [] prog = "rompatch"                 -> RomBlames(v)

\* Every complaint a program prints accuses at least one fault the hardware
\* does have: with an error left in the register from before the block, with
\* several faults at once, and, for ctxprobe and refmodprobe, which rewrite the
\* pages of the PROM's Ethernet driver, loaded from the disk or over the network.
NoFalseAlarm ==
  \A v \in said : v[2] \notin Satisfied => Blames(v) \cap m.faults # {}

\* The faults a program sets out to find.  ctxprobe runs G, F, H and E only
\* when the stack's page is mapped, and refmodprobe nothing at all unless it
\* is; the restart of E that loses the CPU, the watchdog that does not come and
\* the user program that loops show as silence, and the reader is told so.
Sought ==
  CASE prog = "ctxprobe" ->
         {"timeout", "unchecked", "bothctx", "fc3sup", "segall", "usersup", "fetchStuck"} \cup
         (IF "V" \notin r.stack.bits THEN {}
          ELSE {"bithigh", "absStuck", "absWrong", "incStuck", "incWrong", "decStuck", "decWrong"})
    [] prog = "mmuprobe"    -> MmuFaults
    [] prog = "refmodprobe" -> IF "V" \in r.pme.bits THEN RefFaults \ {"timeout"} ELSE {}
    [] prog = "usrprobe"    -> {"frameUser", "frameSpill"}
    [] prog = "beprobe"     -> {"vec3", "sswFalse", "answered"}
    [] prog = "dogprobe"    -> {"answered"}
    [] prog = "strprobe"    -> {"oddAlways", "oddBoth", "wordBus", "wordNone"}
    [] prog = "rteprobe"    -> CopyFaults
    [] prog = "clkprobe"    -> ClkFaults
    [] prog = "caprobe"     -> CaFaults \ {"rmwSometimes"}
    [] prog = "xychain"     -> XyFaults
    [] prog = "wrprobe"     -> WrFaults
    [] prog = "loopprobe"   -> LoopFaults \ {"wrongTx", "staleReads"}
    [] prog = "patwr"       -> IF m.hit THEN PatFaults ELSE {}
    [] prog = "memdwell"    -> DwellFaults
    [] prog = "memchk"      -> ChkFaults \ {"elsewhere"}
    [] prog = "netchk"      -> NetFaults \ {"cut"}
    [] prog = "rompatch"    -> RomFaults

\* A program that reached its end on hardware with one fault, of those it
\* looks for, has named that fault; with several it has complained.  A program
\* that takes the machine down with it does so because the hardware is broken,
\* and has said everything before: ctxprobe keeps the instruction that may lose
\* the CPU for last, dogprobe announces the store that halts it, and clkprobe
\* never lets in the packet nothing handles.
NothingMissed ==
  /\ pc = "done" /\ m.faults \cap Sought # {} =>
       \E v \in said : Blames(v) \cap (IF Cardinality(m.faults) = 1 THEN m.faults ELSE Sought) # {}
  /\ pc = "lost" =>
       /\ m.faults # {}
       /\ prog = "ctxprobe" /\ "bothctx" \notin m.faults =>
            {"A", "B", "C", "G", "F", "H"} \subseteq {v[1] : v \in said}
       /\ prog = "dogprobe" => <<"dog", "armed">> \in said

\* The programs that write the maps, and what of them each leaves as its last
\* case set it: mmuprobe its probe page's entry, the page's segment pointed at
\* SEGINV, and in SEGINV's own group the two entries it denied there; usrprobe
\* the page its user program faulted on; beprobe and dogprobe the page nothing
\* answers on.
MapWriters == {"ctxprobe", "mmuprobe", "refmodprobe", "usrprobe", "beprobe", "dogprobe"}
LeftSegments == IF prog = "mmuprobe" THEN {<<0, "probe">>} ELSE {}
LeftEntries ==
  CASE prog = "mmuprobe"                -> {<<"probe", "probe">>, <<SEGINV, "probe">>, <<SEGINV, "kern">>}
    [] prog = "usrprobe"                -> {<<"user", "user">>}
    [] prog \in {"beprobe", "dogprobe"} -> {<<"probe", "probe">>}
    [] OTHER                            -> {}

\* A program that writes the maps ends, wherever it stops, with everything but
\* those as the monitor set it: both context registers, every segment of both
\* contexts, the permissions of every entry.  What it denied or widened of the
\* code it shares the machine with, the stack and the kernel's page, in either
\* context, is back.  And an image that could not be patched is not written.
RestLeftAsFound ==
  pc = "done" =>
    /\ prog \in MapWriters =>
         /\ m.sx = 0 /\ m.ux = 0
         /\ \A k \in (Contexts \X Segments) \ LeftSegments : m.smap[k] = r.was.smap[k]
         /\ \A s \in (Pmegs \X Pages) \ LeftEntries : m.pmap[s].bits = r.was.pmap[s].bits
    /\ prog = "rompatch" => m.out = {} \/ m.faults = {}

\* What a tool counts wrong is what was wrong: memchk's walk over its chunks
\* passes over no word and counts none twice, and netchk's total is that of
\* the longwords compared, in whatever pieces the stream arrived.
CountsTrue ==
  /\ prog = "memchk" => ChkCounted
  /\ prog = "netchk" => NetCounted

\* A disk probe never writes the address registers or Go while the controller
\* is busy, as long as the controller always comes back: every Go waits for
\* the end of the one before it, and the first for the reset.
NeverConflicts ==
  prog \in {"xychain", "wrprobe"} /\ "hangs" \notin m.faults => ~m.conflict

\* A program that waits for a device ends, or takes the machine down: no wait
\* lasts for ever, and no interrupt it lets in comes back without end.
Finishes == prog \in Polling ~> Finished

\* On a timer without a fault the third register read is hold: clkprobe.c
\* prints it as "expected untouched", caprobe.c calls it the witness.
HoldReadsHold ==
  prog = "clkprobe" /\ pc # "dump" /\ m.faults = {} => r.hold = m.reg[<<1, "hold">>]
=============================================================================
