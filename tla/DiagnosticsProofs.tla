------------------------- MODULE DiagnosticsProofs --------------------------
(***************************************************************************)
(* What holds of the programs under src/tools whatever the sizes they are  *)
(* built with, and however many faults the hardware has at once: the disk  *)
(* probes never touch a busy controller; memchk and netchk count what is   *)
(* wrong, no more and no less; and the programs that rewrite the maps      *)
(* leave them, beyond what is their own, as they found them.  Each program *)
(* has an inductive invariant of its own; the first section shows that no  *)
(* other program's steps matter.                                           *)
(***************************************************************************)
EXTENDS Diagnostics, FiniteSetTheorems, WellFoundedInduction, TLAPS

-----------------------------------------------------------------------------
(* One program runs at a time, and it is the one that was loaded.          *)

\* ctxprobe's cases move only ctxprobe.
LEMMA CtxAlone == CtxNext => prog = "ctxprobe" /\ prog' = prog
BY DEF CtxNext, CtxStart, CtxCaseA, CtxCaseB, CtxCaseC, CtxCaseG, CtxCaseF, CtxCaseH,
       CtxCaseE, CtxRestart, CtxDone, At, Goto

\* mmuprobe's cases move only mmuprobe.
LEMMA MmuAlone == MmuNext => prog = "mmuprobe" /\ prog' = prog
BY DEF MmuNext, MmuDenied, MmuControl, At, Goto

\* refmodprobe's cases move only refmodprobe.
LEMMA RefAlone == RefNext => prog = "refmodprobe" /\ prog' = prog
BY DEF RefNext, RefStart, RefClear, RefRead, RefWrite, RefDenied, RefConclude, At, Goto

\* The 68010 probes move only themselves.
CorePrograms == {"usrprobe", "beprobe", "dogprobe", "strprobe", "rteprobe"}
LEMMA CoreAlone == CoreNext => prog \in CorePrograms /\ prog' = prog
<1>1. UsrTrap \/ UsrBusError => prog = "usrprobe" /\ prog' = prog
  BY DEF UsrTrap, UsrBusError, At, Goto
<1>2. BeProbe \/ DogArm \/ DogStore => prog \in {"beprobe", "dogprobe"} /\ prog' = prog
  BY DEF BeProbe, DogArm, DogStore, At, Goto
<1>3. CopyControlA \/ CopyControlB \/ StrSweep \/ RteSweep =>
        prog \in {"strprobe", "rteprobe"} /\ prog' = prog
  BY DEF CopyControlA, CopyControlB, StrSweep, RteSweep, At, Goto
<1> QED BY <1>1, <1>2, <1>3 DEF CoreNext, CorePrograms

\* The clock and read-modify-write probes move only themselves.
LEMMA ClkAlone == ClkNext => prog = "clkprobe" /\ prog' = prog
BY DEF ClkNext, ClkAccess, ClkDump, ClkCheck, ClkWatch, ClkOpen, ClkInterrupt, ClkSpin,
       ClkVerdict, Ready, At, Goto

\* caprobe's tests move only caprobe.
LEMMA CaAlone == CaNext => prog = "caprobe" /\ prog' = prog
BY DEF CaNext, CaBchg, CaAddq, CaPair, CaAfter, At, Goto

\* The disk probes, and the controller under them, move only themselves.
DiskPrograms == {"xychain", "wrprobe"}
LEMMA XyAlone == XyNext => prog \in DiskPrograms /\ prog' = prog
BY DEF XyNext, XyStep, XyReset, XySize, XySized, XyGo, XyInterrupt, XyJudge, At, Goto,
       DiskPrograms

\* wrprobe's rounds move only wrprobe.
LEMMA WrAlone == WrNext => prog = "wrprobe" /\ prog' = prog
BY DEF WrNext, WrSize, WrSized, WrWrite, WrWritten, WrVerify, NextRound, At, Goto

\* loopprobe's cases move only loopprobe.
LEMMA LoopAlone == LoopNext => prog = "loopprobe" /\ prog' = prog
BY DEF LoopNext, LoopCaseA, LoopCaseB, LoopCaseC, LoopCaseD, LoopConclude, At, Goto

\* The host tools move only themselves.
ChkNext == MFill \/ ChkWalk \/ ChkPass
NetNext == NetConnect \/ NetRead \/ NetEnd \/ NetSay
RomNext == RomApply \/ RomWrite

\* Each tool's steps are its own.
LEMMA HostAlone ==
  HostNext =>
    /\ prog' = prog
    /\ \/ prog = "patwr" /\ PatNext
       \/ prog = "memdwell" /\ DwellPass
       \/ prog = "memchk" /\ ChkNext
       \/ prog = "netchk" /\ NetNext
       \/ prog = "rompatch" /\ RomNext
<1>1. PatNext => prog = "patwr" /\ prog' = prog
  BY DEF PatNext, PatFlush, PatEvict, PatWrite, PatSync, PatVerify, PatReboot, At, Goto
<1>2. DwellPass => prog = "memdwell" /\ prog' = prog
  BY DEF DwellPass, Goto
<1>3. ChkNext => prog = "memchk" /\ prog' = prog
  BY DEF ChkNext, MFill, ChkWalk, ChkPass, At, Goto
<1>4. NetNext => prog = "netchk" /\ prog' = prog
  BY DEF NetNext, NetConnect, NetRead, NetEnd, NetSay, At, Goto
<1>5. RomNext => prog = "rompatch" /\ prog' = prog
  BY DEF RomNext, RomApply, RomWrite, At, Goto
<1> QED BY <1>1, <1>2, <1>3, <1>4, <1>5 DEF HostNext, ChkNext, NetNext, RomNext

\* What the program that was loaded does next.
LEMMA NextByProgram ==
  Next =>
    /\ prog' = prog
    /\ prog = "ctxprobe" => CtxNext
    /\ prog = "mmuprobe" => MmuNext
    /\ prog = "refmodprobe" => RefNext
    /\ prog \in CorePrograms => CoreNext
    /\ prog \in DiskPrograms => XyNext \/ WrNext
    /\ prog = "memchk" => ChkNext
    /\ prog = "netchk" => NetNext
    /\ prog = "rompatch" => RomNext
BY CtxAlone, MmuAlone, RefAlone, CoreAlone, ClkAlone, CaAlone, XyAlone, WrAlone, LoopAlone,
   HostAlone DEF Next, CorePrograms, DiskPrograms
-----------------------------------------------------------------------------
(* The disk probes and their controller.                                   *)

IopbFields == {"cmd", "chen", "ien", "iei", "next", "blk", "n", "done", "cc"}
IopbOK(b) ==
  DOMAIN b = IopbFields /\ b.cmd \in {"nop", "setsize", "read", "write"} /\ b.next \in IOPBs

ControllerFields ==
  {"faults", "busy", "err", "ipnd", "conflict", "est", "at", "hard", "links", "iopb", "buf",
   "size", "disk", "wbuf", "rbuf", "moved"}

\* What the engine does next is defined: it is at an IOPB, with a command in it.
ControllerOK(mm) ==
  /\ DOMAIN mm = ControllerFields
  /\ mm.at \in IOPBs /\ mm.est \in {"idle", "reset", "decode", "end"}
  /\ DOMAIN mm.iopb = IOPBs /\ \A n \in IOPBs : IopbOK(mm.iopb[n])

\* The places a probe comes to only when the controller is idle, or has hung.
IdlePlaces == {"xy start", "clear", "each", "stale", "wr size", "write", "done"}

DiskInv ==
  prog \in DiskPrograms =>
    /\ ControllerOK(m)
    /\ ~Has(m, "hangs") => ~m.conflict /\ (pc \in IdlePlaces => ~m.busy)

\* What the engine leaves alone: it never makes an idle controller busy.
EngineKeeps(a, b) ==
  /\ ControllerOK(b)
  /\ b.faults = a.faults /\ b.conflict = a.conflict
  /\ b.busy => a.busy

\* The write back touches the IOPB's DONE and its completion code.
LEMMA WriteBackKeeps ==
  ASSUME NEW mm, ControllerOK(mm), NEW n \in IOPBs, NEW hard
  PROVE  EngineKeeps(mm, WriteBack(mm, n, hard)) /\ WriteBack(mm, n, hard).at = mm.at
<1> DEFINE b == [mm.iopb[n] EXCEPT !.done = TRUE]
           c == [b EXCEPT !.cc = IF hard THEN 1 ELSE 0]
           f == [mm.iopb EXCEPT ![n] = b]
           g == [f EXCEPT ![n] = c]
           w == [[mm EXCEPT !.iopb = f] EXCEPT !.iopb = g]
<1>1. IopbOK(b) /\ IopbOK(c)
  BY DEF ControllerOK, IopbOK, IopbFields
<1>2. DOMAIN g = IOPBs /\ \A i \in IOPBs : IopbOK(g[i])
  BY <1>1 DEF ControllerOK
<1>3. WriteBack(mm, n, hard) = w
  BY <1>1 DEF WriteBack, ControllerOK, ControllerFields, IopbOK, IopbFields
<1> QED BY <1>2, <1>3 DEF EngineKeeps, ControllerOK, ControllerFields

\* A command moves sectors, and sets the drive's size; nothing else.
LEMMA TransferKeeps ==
  ASSUME NEW mm, ControllerOK(mm), NEW n \in IOPBs, prog \in DiskPrograms
  PROVE  EngineKeeps(mm, Transfer(mm, n)) /\ Transfer(mm, n).at = mm.at
<1>1. mm.iopb[n].cmd \in {"nop", "setsize", "read", "write"}
  BY DEF ControllerOK, IopbOK
<1>2. CASE mm.iopb[n].cmd = "nop"
  <2>1. Transfer(mm, n) = mm
    BY <1>2 DEF Transfer
  <2> QED BY <2>1 DEF EngineKeeps
<1>3. CASE mm.iopb[n].cmd = "setsize"
  <2>1. Transfer(mm, n) = [mm EXCEPT !.size = TRUE]
    BY <1>3 DEF Transfer
  <2> QED BY <2>1 DEF EngineKeeps, ControllerOK, ControllerFields
<1>4. CASE mm.iopb[n].cmd = "write"
  <2>1. \E moved, disk : Transfer(mm, n) = [[mm EXCEPT !.moved = moved] EXCEPT !.disk = disk]
    BY <1>4 DEF Transfer
  <2> QED BY <2>1 DEF EngineKeeps, ControllerOK, ControllerFields
<1>5. CASE mm.iopb[n].cmd = "read" /\ prog = "wrprobe"
  <2>1. \E moved, rbuf : Transfer(mm, n) = [[mm EXCEPT !.moved = moved] EXCEPT !.rbuf = rbuf]
    BY <1>5 DEF Transfer
  <2> QED BY <2>1 DEF EngineKeeps, ControllerOK, ControllerFields
<1>6. CASE mm.iopb[n].cmd = "read" /\ prog = "xychain"
  <2>1. \E buf : Transfer(mm, n) = [mm EXCEPT !.buf = buf]
    BY <1>6 DEF Transfer
  <2> QED BY <2>1 DEF EngineKeeps, ControllerOK, ControllerFields
<1> QED BY <1>1, <1>2, <1>3, <1>4, <1>5, <1>6 DEF DiskPrograms

\* An IOPB taken out of memory, performed, and written back.
LEMMA ExecuteKeeps ==
  ASSUME NEW mm, ControllerOK(mm), prog \in DiskPrograms
  PROVE  EngineKeeps(mm, XyExecute(mm))
<1> DEFINE n == mm.at
           hard == HardError(mm, mm.iopb[n])
           moved == IF hard THEN mm ELSE Transfer(mm, n)
           after == IF mm.iopb[n].done THEN mm ELSE WriteBack(moved, n, hard)
<1>1. n \in IOPBs
  BY DEF ControllerOK
<1>2. EngineKeeps(mm, moved)
  BY <1>1, TransferKeeps DEF EngineKeeps
<1>3. EngineKeeps(mm, after)
  BY <1>1, <1>2, WriteBackKeeps DEF EngineKeeps
<1>4. \E h : XyExecute(mm) = [[after EXCEPT !.est = "end"] EXCEPT !.hard = h]
  BY DEF XyExecute
<1> HIDE DEF after
<1> QED BY <1>3, <1>4 DEF EngineKeeps, ControllerOK, ControllerFields

\* The end of an IOPB: the next one, or the end of the command.
LEMMA EndOfKeeps ==
  ASSUME NEW mm, ControllerOK(mm)
  PROVE  EngineKeeps(mm, EndOf(mm, mm.iopb[mm.at], mm.hard))
<1> DEFINE b == mm.iopb[mm.at]
           each == b.ien /\ ((b.iei /\ ~Has(mm, "noIei")) \/ Has(mm, "alwaysIei"))
           ends == [mm EXCEPT !.ipnd = @ \/ each]
           fails == WriteBack(ends, mm.at, TRUE)
<1>1. mm.at \in IOPBs /\ IopbOK(b)
  BY DEF ControllerOK
<1>2. EngineKeeps(mm, ends)
  BY DEF EngineKeeps, ControllerOK, ControllerFields
<1>3. EngineKeeps(mm, fails)
  BY <1>1, <1>2, WriteBackKeeps DEF EngineKeeps
<1>4. ASSUME NEW x, NEW h, EngineKeeps(mm, x)
      PROVE  EngineKeeps(mm, Finish(x, b, h))
  BY <1>4 DEF Finish, EngineKeeps, ControllerOK, ControllerFields
<1>5. ASSUME NEW l
      PROVE  EngineKeeps(mm, [[[ends EXCEPT !.est = "decode"] EXCEPT !.at = b.next] EXCEPT !.links = l])
  <2> HIDE DEF ends, b
  <2> QED BY <1>1, <1>2 DEF EngineKeeps, ControllerOK, ControllerFields, IopbOK
<1>6. \/ EndOf(mm, b, mm.hard) = Finish(ends, b, mm.hard)
      \/ EndOf(mm, b, mm.hard) = Finish(fails, b, TRUE)
      \/ \E l : EndOf(mm, b, mm.hard) =
               [[[ends EXCEPT !.est = "decode"] EXCEPT !.at = b.next] EXCEPT !.links = l]
  BY DEF EndOf
<1>7. EngineKeeps(mm, EndOf(mm, b, mm.hard))
  <2> HIDE DEF ends, fails, b
  <2> QED BY <1>2, <1>3, <1>4, <1>5, <1>6
<1> QED BY <1>7

\* The engine's next step, whichever it is.
LEMMA EngineStep ==
  ASSUME XyStep, ControllerOK(m)
  PROVE  EngineKeeps(m, m') /\ pc' = pc
<1>1. prog \in DiskPrograms /\ pc' = pc
  BY DEF XyStep, DiskPrograms
<1>2. ASSUME m' = [[m EXCEPT !.busy = FALSE] EXCEPT !.est = "idle"]
      PROVE  EngineKeeps(m, m')
  BY <1>2 DEF EngineKeeps, ControllerOK, ControllerFields
<1>3. EngineKeeps(m, XyExecute(m)) /\ EngineKeeps(m, EndOf(m, m.iopb[m.at], m.hard))
  BY <1>1, ExecuteKeeps, EndOfKeeps
<1>4. m.est \in {"reset", "decode", "end"}
  BY DEF XyStep, ControllerOK
<1> QED BY <1>1, <1>2, <1>3, <1>4 DEF XyStep

\* Go conflicts only with a controller that is busy.
LEMMA GoKeeps ==
  ASSUME NEW mm, ControllerOK(mm), NEW n \in IOPBs
  PROVE  LET g == GoAt(mm, n)
         IN ControllerOK(g) /\ g.faults = mm.faults /\ (~mm.busy => g.conflict = mm.conflict)
<1>1. CASE ~mm.busy
  <2>1. GoAt(mm, n) = [[[[mm EXCEPT !.busy = TRUE] EXCEPT !.est = "decode"] EXCEPT !.at = n] EXCEPT !.links = 0]
    BY <1>1 DEF GoAt
  <2> QED BY <2>1 DEF ControllerOK, ControllerFields
<1>2. CASE mm.busy
  <2>1. GoAt(mm, n) = [[mm EXCEPT !.err = TRUE] EXCEPT !.conflict = TRUE]
    BY <1>2 DEF GoAt
  <2> QED BY <1>2, <2>1 DEF ControllerOK, ControllerFields
<1> QED BY <1>1, <1>2

\* The IOPBs the probes build.
LEMMA IopbsBuilt ==
  /\ IopbOK(None) /\ IopbOK([None EXCEPT !.cmd = "setsize"])
  /\ \A c \in DOMAIN Chain :
       LET new == Chain[c].iopb
       IN DOMAIN new \subseteq IOPBs /\ \A n \in DOMAIN new : IopbOK(new[n])
<1>1. IopbOK(None) /\ IopbOK([None EXCEPT !.cmd = "setsize"])
  BY DEF None, IopbOK, IopbFields, IOPBs, NOWHERE
<1>2. ASSUME NEW chen, NEW iei, NEW next \in IOPBs, NEW blk
      PROVE  IopbOK(Read(chen, iei, next, blk))
  BY DEF Read, None, IopbOK, IopbFields
<1>3. ASSUME NEW iei
      PROVE  DOMAIN Four(iei) \subseteq IOPBs /\ \A n \in DOMAIN Four(iei) : IopbOK(Four(iei)[n])
  BY <1>2 DEF Four, IOPBs, NOWHERE
<1>4. DOMAIN Stale \subseteq IOPBs /\ \A n \in DOMAIN Stale : IopbOK(Stale[n])
  <2>1. /\ IopbOK(Read(TRUE, FALSE, 1, 0)) /\ IopbOK(Read(FALSE, FALSE, 4, 1))
        /\ IopbOK(Read(FALSE, FALSE, NOWHERE, 3))
    <3>1. 1 \in IOPBs /\ 0 \in IOPBs /\ 4 \in IOPBs /\ NOWHERE \in IOPBs
      BY DEF IOPBs, NOWHERE
    <3> QED BY <1>2, <3>1
  <2>2. DOMAIN Stale = {0, 1, 4} /\ \A n \in {0, 1, 4} : IopbOK(Stale[n])
    BY <2>1 DEF Stale
  <2> QED BY <2>2 DEF IOPBs, NOWHERE
<1>5. ASSUME NEW c \in DOMAIN Chain
      PROVE  Chain[c].iopb \in {Four(FALSE), Four(TRUE), Stale}
  <2>1. c \in {"clear", "each", "stale"}
    BY DEF Chain
  <2>2. /\ Chain["clear"].iopb = Four(FALSE) /\ Chain["each"].iopb = Four(TRUE)
        /\ Chain["stale"].iopb = Stale
    BY DEF Chain
  <2> QED BY <2>1, <2>2
<1> QED BY <1>1, <1>3, <1>4, <1>5

\* build() and fill() do not touch the controller.
LEMMA BuiltKeeps ==
  ASSUME NEW mm, ControllerOK(mm), NEW c \in DOMAIN Chain
  PROVE  /\ ControllerOK(Built(mm, c))
         /\ Built(mm, c).faults = mm.faults /\ Built(mm, c).conflict = mm.conflict
         /\ Built(mm, c).busy = mm.busy
<1> DEFINE new == Chain[c].iopb
           iopb == [n \in IOPBs |-> IF n \in DOMAIN new THEN new[n] ELSE mm.iopb[n]]
<1>1. DOMAIN iopb = IOPBs /\ \A n \in IOPBs : IopbOK(iopb[n])
  BY IopbsBuilt DEF ControllerOK
<1>2. \E buf : Built(mm, c) = [[mm EXCEPT !.iopb = iopb] EXCEPT !.buf = buf]
  BY DEF Built
<1> HIDE DEF iopb
<1> QED BY <1>1, <1>2 DEF ControllerOK, ControllerFields

\* The probes begin with the controller idle.
LEMMA InitDiskInv == Init => DiskInv
<1>1. ASSUME NEW f, NEW disk
      PROVE  /\ ControllerOK(Controller(f, disk))
             /\ Controller(f, disk).conflict = FALSE /\ Controller(f, disk).busy = FALSE
  BY IopbsBuilt DEF Controller, ControllerOK, ControllerFields, IOPBs, NOWHERE
<1>2. XyInit => \E f, disk : m = Controller(f, disk)
  BY DEF XyInit
<1>3. WrInit => \E f, disk : m = Controller(f, disk)
  BY DEF WrInit
<1>4. Init /\ prog \in DiskPrograms => XyInit \/ WrInit
  BY DEF Init, DiskPrograms
<1> QED BY <1>1, <1>2, <1>3, <1>4 DEF DiskInv

\* What a probe has to leave: nothing in conflict, and a controller that is
\* idle where the next place relies on it.
Conflictless(mm, place) == ~Has(mm, "hangs") => ~mm.conflict /\ (place \in IdlePlaces => ~mm.busy)

\* Go after a wait that ended, from memory the probe has prepared meanwhile.
LEMMA GoAfterWait ==
  ASSUME NEW mm, ControllerOK(mm), NEW place, NEW next, next \notin IdlePlaces,
         mm.faults = m.faults, mm.conflict = m.conflict, mm.busy = m.busy,
         Conflictless(m, place), place \in IdlePlaces \/ Waited(m)
  PROVE  ControllerOK(GoAt(mm, 0)) /\ Conflictless(GoAt(mm, 0), next)
<1>1. 0 \in IOPBs
  BY DEF IOPBs, NOWHERE
<1>2. Has(m, "hangs") \/ ~m.busy
  BY DEF Conflictless, Waited
<1> QED BY <1>1, <1>2, GoKeeps DEF Conflictless, Has

\* The same, written for the invariant.
LEMMA DiskInvIs ==
  DiskInv <=> (prog \in DiskPrograms => ControllerOK(m) /\ Conflictless(m, pc))
BY DEF DiskInv, Conflictless

\* xychain: every Go comes after a wait, and a wait that has ended leaves the
\* controller idle, unless it hangs.
LEMMA XyKeepsDiskInv == DiskInv /\ XyNext => DiskInv'
<1> SUFFICES ASSUME DiskInv, XyNext
             PROVE  DiskInv'
  OBVIOUS
<1>1. prog \in DiskPrograms /\ prog' = prog
  BY XyAlone
<1>2. ControllerOK(m) /\ Conflictless(m, pc)
  BY <1>1, DiskInvIs
<1>3. SUFFICES ControllerOK(m') /\ Conflictless(m', pc')
  BY <1>1 DEF DiskInv, Conflictless
<1>4. CASE XyStep
  BY <1>2, <1>4, EngineStep DEF EngineKeeps, Conflictless, Has
<1>5. CASE XyReset
  <2>1. pc' \notin IdlePlaces
    BY <1>5 DEF XyReset, Goto, IdlePlaces
  <2>2. m' = [[[[m EXCEPT !.busy = TRUE] EXCEPT !.err = FALSE] EXCEPT !.ipnd = FALSE] EXCEPT !.est = "reset"]
    BY <1>5 DEF XyReset, Reset
  <2> QED BY <1>2, <2>1, <2>2 DEF ControllerOK, ControllerFields, Conflictless, Has
<1>6. CASE XySize
  <2> DEFINE mm == [m EXCEPT !.iopb[0] = [None EXCEPT !.cmd = "setsize"]]
  <2>1. ControllerOK(mm) /\ mm.faults = m.faults /\ mm.conflict = m.conflict /\ mm.busy = m.busy
    BY <1>2, IopbsBuilt DEF ControllerOK, ControllerFields, IOPBs, NOWHERE
  <2>2. m' = GoAt(mm, 0) /\ pc' \notin IdlePlaces /\ Waited(m)
    BY <1>6 DEF XySize, Goto, IdlePlaces
  <2> QED BY <1>2, <2>1, <2>2, GoAfterWait
<1>7. CASE XySized
  BY <1>2, <1>7 DEF XySized, Conflictless, Waited, Has
<1>8. CASE XyGo
  <2>1. PICK c \in DOMAIN Chain : pc = c /\ m' = GoAt(Built(m, c), 0) /\ pc' = Chain[c].wait
    BY <1>8 DEF XyGo, At, Goto
  <2>2. c \in IdlePlaces /\ Chain[c].wait \notin IdlePlaces
    <3>1. c \in {"clear", "each", "stale"}
      BY DEF Chain
    <3>2. /\ Chain["clear"].wait = "clear wait" /\ Chain["each"].wait = "each wait"
          /\ Chain["stale"].wait = "stale wait"
      BY DEF Chain
    <3> QED BY <3>1, <3>2 DEF IdlePlaces
  <2> QED BY <1>2, <2>1, <2>2, BuiltKeeps, GoAfterWait
<1>9. CASE XyInterrupt
  <2>1. pc' = pc /\ m' = [m EXCEPT !.ipnd = FALSE]
    BY <1>9 DEF XyInterrupt
  <2> QED BY <1>2, <2>1 DEF ControllerOK, ControllerFields, Conflictless, Has
<1>10. CASE XyJudge
  BY <1>2, <1>10 DEF XyJudge, Settled, Conflictless, Waited, Has
<1> QED BY <1>4, <1>5, <1>6, <1>7, <1>8, <1>9, <1>10 DEF XyNext

\* wrprobe: the same, with the rounds that give up on an error in between.
LEMMA WrKeepsDiskInv == DiskInv /\ WrNext => DiskInv'
<1> SUFFICES ASSUME DiskInv, WrNext
             PROVE  DiskInv'
  OBVIOUS
<1>1. prog \in DiskPrograms /\ prog' = prog
  BY WrAlone DEF DiskPrograms
<1>2. ControllerOK(m) /\ Conflictless(m, pc)
  BY <1>1, DiskInvIs
<1>3. SUFFICES ControllerOK(m') /\ Conflictless(m', pc')
  BY <1>1 DEF DiskInv, Conflictless
<1>4. ASSUME NEW cmd \in {"write", "read"}
      PROVE  IopbOK(WrBuild(cmd))
  BY IopbsBuilt DEF WrBuild, None, IopbOK, IopbFields
<1>5. CASE WrSize
  <2> DEFINE mm == [m EXCEPT !.iopb[0] = [None EXCEPT !.cmd = "setsize"]]
  <2>1. ControllerOK(mm) /\ mm.faults = m.faults /\ mm.conflict = m.conflict /\ mm.busy = m.busy
    BY <1>2, IopbsBuilt DEF ControllerOK, ControllerFields, IOPBs, NOWHERE
  <2>2. m' = GoAt(mm, 0) /\ pc \in IdlePlaces /\ pc' \notin IdlePlaces
    BY <1>5 DEF WrSize, At, Goto, IdlePlaces
  <2> QED BY <1>2, <2>1, <2>2, GoAfterWait
<1>6. CASE WrSized
  BY <1>2, <1>6 DEF WrSized, Conflictless, Waited, Has
<1>7. CASE WrWrite
  <2>1. PICK wbuf, rbuf :
          m' = GoAt([[[m EXCEPT !.iopb = [m.iopb EXCEPT ![0] = WrBuild("write")]] EXCEPT !.wbuf = wbuf]
                       EXCEPT !.rbuf = rbuf], 0)
    BY <1>7 DEF WrWrite
  <2>2. pc \in IdlePlaces /\ pc' \notin IdlePlaces
    BY <1>7 DEF WrWrite, At, Goto, IdlePlaces
  <2> DEFINE mm == [[[m EXCEPT !.iopb = [m.iopb EXCEPT ![0] = WrBuild("write")]] EXCEPT !.wbuf = wbuf]
                      EXCEPT !.rbuf = rbuf]
  <2>3. ControllerOK(mm) /\ mm.faults = m.faults /\ mm.conflict = m.conflict /\ mm.busy = m.busy
    BY <1>2, <1>4 DEF ControllerOK, ControllerFields, IOPBs, NOWHERE
  <2>4. m' = GoAt(mm, 0)
    BY <2>1
  <2> HIDE DEF mm
  <2> QED BY <1>2, <2>2, <2>3, <2>4, GoAfterWait
<1>8. CASE WrWritten
  <2> DEFINE mm == [m EXCEPT !.iopb[0] = WrBuild("read")]
  <2>1. ControllerOK(mm) /\ mm.faults = m.faults /\ mm.conflict = m.conflict /\ mm.busy = m.busy
    BY <1>2, <1>4 DEF ControllerOK, ControllerFields, IOPBs, NOWHERE
  <2>2. Waited(m) /\ (m' = m \/ (m' = GoAt(mm, 0) /\ pc' \notin IdlePlaces))
    <3>1. Waited(m)
      BY <1>8 DEF WrWritten
    <3>2. CASE m.busy \/ m.err
      BY <1>8, <3>1, <3>2 DEF WrWritten
    <3>3. CASE ~(m.busy \/ m.err)
      BY <1>8, <3>1, <3>3 DEF WrWritten, Goto, IdlePlaces
    <3> QED BY <3>2, <3>3
  <2>3. CASE m' = m
    BY <1>2, <2>2, <2>3 DEF Conflictless, Waited, Has
  <2> QED BY <1>2, <2>1, <2>2, <2>3, GoAfterWait
<1>9. CASE WrVerify
  BY <1>2, <1>9 DEF WrVerify, Conflictless, Waited, Has
<1> QED BY <1>5, <1>6, <1>7, <1>8, <1>9 DEF WrNext

\* A step of another program, or none, leaves the disk probes where they are.
LEMMA NextKeepsDiskInv == DiskInv /\ [Next]_vars => DiskInv'
<1>1. CASE prog \in DiskPrograms /\ Next
  BY <1>1, NextByProgram, XyKeepsDiskInv, WrKeepsDiskInv
<1>2. CASE prog \notin DiskPrograms /\ Next
  BY <1>2, NextByProgram DEF DiskInv
<1>3. CASE UNCHANGED vars
  BY <1>3 DEF vars, DiskInv, Has, ControllerOK, IopbOK
<1> QED BY <1>1, <1>2, <1>3

\* For any chain limit, any transfer sizes and any faults but the one where it
\* hangs, the controller is never written to while it is busy: xychain.c and
\* wrprobe.c wait for every Go, whatever the one before it came to.
THEOREM DiskNeverConflicts == Spec => []NeverConflicts
<1>1. DiskInv => NeverConflicts
  BY DEF DiskInv, NeverConflicts, DiskPrograms, Has
<1> QED BY <1>1, InitDiskInv, NextKeepsDiskInv, PTL DEF Spec
-----------------------------------------------------------------------------
(* Counting.                                                               *)

\* The place in a buffer of a word of a stream cut into whole buffers.
LEMMA PlaceInBuffer ==
  ASSUME NEW L \in Nat \ {0}, NEW q \in Nat, NEW j \in 0 .. L - 1
  PROVE  (q * L + j) % L = j
OBVIOUS

\* The chunk a word lies in.
LEMMA ChunkOf ==
  ASSUME NEW L \in Nat \ {0}, NEW j \in Nat
  PROVE  /\ j % L \in 0 .. L - 1
         /\ j = (j \div L) * L + (j % L) /\ j \div L \in Nat
OBVIOUS

\* Chunks do not overlap.
LEMMA ChunksApart ==
  ASSUME NEW L \in Nat \ {0}, NEW a \in Nat, NEW b \in Nat, a * L > b * L
  PROVE  a * L >= b * L + L
<1>1. a > b
  OBVIOUS
<1>2. a = b + (a - b - 1) + 1
  OBVIOUS
<1> QED BY <1>1, <1>2

\* The order of the naturals.
Below == {p \in Nat \X Nat : p[1] < p[2]}

\* It is well founded: Min of some of them is the least.
LEMMA LeastOf ==
  ASSUME NEW K \in SUBSET Nat, K # {}
  PROVE  Min(K) \in K /\ \A k \in K : Min(K) <= k
<1>1. IsWellFoundedOn(Below, Nat)
  BY NatLessThanWellFounded DEF OpToRel, Below
<1>2. PICK n \in K : \A k \in K : <<k, n>> \notin Below
  BY <1>1, WFMin
<1>3. ASSUME NEW k \in K PROVE n <= k
  <2>1. k \in Nat /\ n \in Nat /\ <<k, n>> \notin Below
    BY <1>2
  <2>2. ~(k < n)
    BY <2>1 DEF Below
  <2> QED BY <2>1, <2>2
<1> QED BY <1>3 DEF Min

\* A word of the pass that is wrong.
BadWord(x) == m.buf[x] # ChkVals[r.i]

\* memloop.s finds the first wrong word there is, in whichever chunk.
LEMMA FirstBad ==
  ASSUME NEW p \in Nat, NEW n \in Nat
  PROVE  /\ MCheck(p, n) = -1 => \A x \in p .. p + n - 1 : ~BadWord(x)
         /\ MCheck(p, n) # -1 => /\ MCheck(p, n) \in p .. p + n - 1
                                 /\ BadWord(MCheck(p, n))
                                 /\ \A x \in p .. MCheck(p, n) - 1 : ~BadWord(x)
<1> DEFINE hit == {k \in Chunks(p, n) : BadIn(p, n, k) # {}}
           first == Min(hit)
           bad == Min(BadIn(p, n, first))
           C(x) == ((x - p) \div LoopWords) * LoopWords
<1>1. LoopWords \in Nat \ {0}
  BY HostAssumption
<1>2. ASSUME NEW k \in Chunks(p, n)
      PROVE  /\ k \in 0 .. n - 1 /\ k = (k \div LoopWords) * LoopWords /\ k \div LoopWords \in Nat
             /\ BadIn(p, n, k) \subseteq p + k .. p + n - 1
             /\ \A x \in BadIn(p, n, k) : BadWord(x) /\ x < p + k + LoopWords
  <2>1. k \in 0 .. n - 1 /\ k \in Nat /\ k % LoopWords = 0
    BY DEF Chunks
  <2>2. k = (k \div LoopWords) * LoopWords + (k % LoopWords) /\ k \div LoopWords \in Nat
    BY <1>1, <2>1, ChunkOf
  <2> QED BY <1>1, <2>1, <2>2 DEF BadIn, BadWord
<1>3. ASSUME NEW x \in p .. p + n - 1, BadWord(x)
      PROVE  /\ C(x) \in hit /\ x \in BadIn(p, n, C(x))
  <2> DEFINE j == x - p
  <2>0. j \in Nat
    OBVIOUS
  <2>1. /\ j % LoopWords \in 0 .. LoopWords - 1
        /\ j = C(x) + (j % LoopWords) /\ j \div LoopWords \in Nat
    <3> HIDE DEF j
    <3>1. j = (j \div LoopWords) * LoopWords + (j % LoopWords)
      BY <1>1, <2>0, ChunkOf
    <3>2. j % LoopWords \in 0 .. LoopWords - 1 /\ j \div LoopWords \in Nat
      BY <1>1, <2>0, ChunkOf
    <3> QED BY <3>1, <3>2 DEF j
  <2>2. C(x) \in Nat /\ C(x) % LoopWords = 0
    <3>1. C(x) \in Nat
      BY <1>1, <2>1
    <3>2. ((j \div LoopWords) * LoopWords + 0) % LoopWords = 0
      <4> HIDE DEF j
      <4>1. 0 \in 0 .. LoopWords - 1 /\ j \div LoopWords \in Nat
        BY <1>1, <2>1
      <4> QED BY <1>1, <4>1, PlaceInBuffer
    <3> QED BY <3>1, <3>2
  <2>3. C(x) \in Chunks(p, n)
    BY <1>1, <2>1, <2>2 DEF Chunks
  <2> HIDE DEF C
  <2>4. x \in BadIn(p, n, C(x))
    <3> DEFINE q == j % LoopWords
    <3>1. /\ q \in 0 .. LoopWords - 1 /\ j = C(x) + q /\ C(x) \in Nat
          /\ x = p + j /\ x \in p .. p + n - 1
      BY <2>1, <2>2
    <3> HIDE DEF q, j
    <3>2. x = p + C(x) + q /\ x <= p + n - 1
      BY <3>1
    <3>3. x \in p + C(x) .. p + n - 1 /\ x < p + C(x) + LoopWords
      BY <1>1, <3>1, <3>2
    <3> QED BY <1>1, <1>3, <3>1, <3>3 DEF BadIn, BadWord
  <2> QED BY <2>3, <2>4
<1>4. CASE hit = {}
  <2>1. MCheck(p, n) = -1
    BY <1>4 DEF MCheck
  <2> QED BY <1>3, <1>4, <2>1
<1>5. CASE hit # {}
  <2>1. MCheck(p, n) = bad
    BY <1>5 DEF MCheck
  <2>2. hit \in SUBSET Nat
    BY <1>2
  <2>3. first \in hit /\ \A k \in hit : first <= k
    BY <1>5, <2>2, LeastOf
  <2>4. first \in Chunks(p, n) /\ BadIn(p, n, first) # {} /\ first \in Nat
    <3> HIDE DEF first
    <3> QED BY <2>2, <2>3
  <2>5. /\ BadIn(p, n, first) \subseteq p + first .. p + n - 1
        /\ \A x \in BadIn(p, n, first) : BadWord(x) /\ x < p + first + LoopWords
    <3> HIDE DEF first
    <3> QED BY <1>2, <2>4
  <2>6. bad \in BadIn(p, n, first) /\ \A x \in BadIn(p, n, first) : bad <= x
    <3> HIDE DEF first
    <3>1. BadIn(p, n, first) \in SUBSET Nat
      BY <2>4, <2>5
    <3> QED BY <2>4, <3>1, LeastOf
  <2>7. bad \in p .. p + n - 1 /\ BadWord(bad) /\ bad < p + first + LoopWords
    <3> HIDE DEF first, bad
    <3> QED BY <2>4, <2>5, <2>6
  <2>8. ASSUME NEW x \in p .. bad - 1, BadWord(x)
        PROVE  FALSE
    <3>1. x \in p .. p + n - 1
      BY <2>7, <2>8
    <3>2. C(x) \in hit /\ x \in BadIn(p, n, C(x))
      BY <1>3, <2>8, <3>1
    <3>3. first <= C(x) /\ C(x) \in Chunks(p, n) /\ C(x) \in Nat
      <4> HIDE DEF C, first
      <4> QED BY <2>2, <2>3, <3>2
    <3>4. C(x) # first
      <4> HIDE DEF C, first, bad
      <4> QED BY <2>6, <2>7, <2>8, <3>2
    <3>5. /\ first = (first \div LoopWords) * LoopWords /\ first \div LoopWords \in Nat
          /\ C(x) = (C(x) \div LoopWords) * LoopWords /\ C(x) \div LoopWords \in Nat
      BY <1>2, <2>4, <3>3
    <3>6. C(x) >= first + LoopWords
      <4> DEFINE c == C(x)
                 a == c \div LoopWords
                 b == first \div LoopWords
      <4>1. a * LoopWords > b * LoopWords /\ a \in Nat /\ b \in Nat
        <5> HIDE DEF C, first
        <5>1. c > first
          BY <2>4, <3>3, <3>4
        <5> QED BY <3>5, <5>1
      <4>2. a * LoopWords >= b * LoopWords + LoopWords
        <5> HIDE DEF a, b
        <5> QED BY <1>1, <4>1, ChunksApart
      <4> HIDE DEF C, first
      <4> QED BY <3>5, <4>2
    <3>7. x >= p + C(x)
      BY <1>2, <3>2, <3>3
    <3> QED BY <1>1, <2>4, <2>7, <2>8, <3>6, <3>7
  <2> QED BY <2>1, <2>7, <2>8
<1> QED BY <1>4, <1>5

\* memchk's walk has counted what is behind it.
ChkInv ==
  prog = "memchk" =>
    /\ DOMAIN r = {"i", "p", "n", "nbad"}
    /\ pc = "walk" => r.p \in Nat /\ r.n \in Nat
    /\ ChkCounted

\* The wrong words before place p.
BadBefore(p) == {x \in 0 .. p - 1 : BadWord(x)}

\* One more wrong word, the next one there is, is one more to count.
LEMMA NextBad ==
  ASSUME NEW p \in Nat, NEW bad \in Nat, p <= bad, BadWord(bad),
         \A x \in p .. bad - 1 : ~BadWord(x)
  PROVE  Cardinality(BadBefore(bad + 1)) = Cardinality(BadBefore(p)) + 1
<1>1. BadBefore(bad + 1) = BadBefore(p) \cup {bad}
  BY DEF BadBefore
<1>2. bad \notin BadBefore(p)
  BY DEF BadBefore
<1>3. IsFiniteSet(BadBefore(p))
  <2>1. IsFiniteSet(0 .. p - 1)
    BY FS_Interval
  <2> QED BY <2>1, FS_Subset DEF BadBefore
<1> QED BY <1>1, <1>2, <1>3, FS_AddElement

\* Every pass begins its count again, and walks from word to word.
LEMMA ChkKeepsInv == ChkInv /\ prog = "memchk" /\ prog' = prog /\ ChkNext => ChkInv'
<1> SUFFICES ASSUME ChkInv, prog = "memchk", prog' = prog, ChkNext
             PROVE  ChkInv'
  OBVIOUS
<1>1. DOMAIN r = {"i", "p", "n", "nbad"}
  BY DEF ChkInv
<1>2. CASE MFill
  <2>1. r' = [[[r EXCEPT !.p = 0] EXCEPT !.n = MemWords] EXCEPT !.nbad = 0]
    BY <1>2 DEF MFill
  <2>2. DOMAIN r' = {"i", "p", "n", "nbad"} /\ r'.p = 0 /\ r'.n = MemWords /\ r'.nbad = 0
    BY <1>1, <2>1
  <2>3. {x \in 0 .. r'.p - 1 : (m').buf[x] # ChkVals[r'.i]} = {}
    BY <2>2
  <2>4. ChkCounted'
    BY <2>2, <2>3, FS_EmptySet DEF ChkCounted
  <2> QED BY <2>2, <2>4, HostAssumption DEF ChkInv
<1>3. CASE ChkWalk
  <2> DEFINE bad == MCheck(r.p, r.n)
  <2>1. pc = "walk" /\ pc' = pc /\ m' = m /\ bad # -1
        /\ r' = [[[r EXCEPT !.n = @ - ((bad - r.p) + 1)] EXCEPT !.p = bad + 1] EXCEPT !.nbad = @ + 1]
    BY <1>3 DEF ChkWalk, At
  <2>2. r.p \in Nat /\ r.n \in Nat /\ r.nbad = Cardinality(BadBefore(r.p))
    BY <2>1 DEF ChkInv, ChkCounted, BadBefore, BadWord
  <2>3. bad \in r.p .. r.p + r.n - 1 /\ BadWord(bad) /\ \A x \in r.p .. bad - 1 : ~BadWord(x)
    BY <2>1, <2>2, FirstBad
  <2>4. Cardinality(BadBefore(bad + 1)) = Cardinality(BadBefore(r.p)) + 1
    <3> HIDE DEF bad
    <3>1. bad \in Nat /\ r.p <= bad
      BY <2>2, <2>3
    <3> QED BY <2>2, <2>3, <3>1, NextBad
  <2>5. /\ DOMAIN r' = {"i", "p", "n", "nbad"} /\ r'.i = r.i
        /\ r'.p = bad + 1 /\ r'.n = r.n - ((bad - r.p) + 1) /\ r'.nbad = r.nbad + 1
    <3> HIDE DEF bad
    <3> QED BY <1>1, <2>1
  <2>6. r'.p \in Nat /\ r'.n \in Nat
    <3> HIDE DEF bad
    <3> QED BY <2>2, <2>3, <2>5
  <2>7. {x \in 0 .. r'.p - 1 : (m').buf[x] # ChkVals[r'.i]} = BadBefore(bad + 1)
    <3> HIDE DEF bad
    <3> QED BY <2>1, <2>5 DEF BadBefore, BadWord
  <2>8. ChkCounted'
    BY <2>2, <2>4, <2>5, <2>7 DEF ChkCounted
  <2> QED BY <2>5, <2>6, <2>8 DEF ChkInv
<1>4. CASE ChkPass
  <2>1. pc' # "walk"
    BY <1>4 DEF ChkPass, Goto
  <2>2. DOMAIN r' = DOMAIN r
    BY <1>1, <1>4 DEF ChkPass
  <2> QED BY <1>1, <2>1, <2>2 DEF ChkInv, ChkCounted
<1> QED BY <1>2, <1>3, <1>4 DEF ChkNext

\* Where the stream begins, for the receiver.
First == IF Has(m, "shifts") THEN 1 ELSE 0

\* The longwords of the stream, from place a to before place b of those
\* received, that are not what the pattern has there.
WrongFrom(a, b) == {k \in a .. b - 1 : m.sent[First + k] # k % NetBuf}

\* A place in the stream where a whole buffer begins.
Aligned(d) == \E q \in Nat : d = q * NetBuf

\* A buffer that holds the stream from place d on.
HoldsFrom(b, d) == \A k \in 1 .. Len(b) : b[k] = m.sent[First + d + k - 1]

\* The words of a whole buffer that are not the pattern.
WrongWords(b) == {k \in 1 .. NetBuf : b[k] # k - 1}

\* What is in netchk's buffer is what was sent, from the last whole buffer on,
\* and what it has counted is what was wrong before.
NetFilling ==
  /\ r.done \in Nat /\ Aligned(r.done)
  /\ r.buf \in Seq(Int) /\ Len(r.buf) < NetBuf
  /\ m.at = First + r.done + Len(r.buf)
  /\ HoldsFrom(r.buf, r.done)

NetInv ==
  prog = "netchk" =>
    /\ DOMAIN r = {"buf", "done", "nbad", "end"}
    /\ DOMAIN m = {"faults", "sent", "at"} /\ m.sent \in [0 .. NetTotal - 1 -> Int]
    /\ pc \in {"connect", "read", "done"}
    /\ pc = "connect" => r.buf = <<>> /\ r.done = 0 /\ r.nbad = 0
    /\ pc = "read" => NetFilling
    /\ NetCounted

\* The first place of the stream begins a buffer.
LEMMA ZeroAligned == Aligned(0)
<1>1. NetBuf \in Nat \ {0}
  BY HostAssumption
<1>2. 0 = 0 * NetBuf
  BY <1>1
<1> QED BY <1>2 DEF Aligned

\* A buffer further on begins a buffer again.
LEMMA NextAligned ==
  ASSUME NEW d \in Nat, Aligned(d)
  PROVE  d + NetBuf \in Nat /\ Aligned(d + NetBuf)
<1>1. NetBuf \in Nat \ {0}
  BY HostAssumption
<1>2. PICK q \in Nat : d = q * NetBuf
  BY DEF Aligned
<1>3. d + NetBuf = (q + 1) * NetBuf /\ q + 1 \in Nat /\ d + NetBuf \in Nat
  BY <1>1, <1>2
<1> QED BY <1>3 DEF Aligned

\* The pattern of a buffer that begins where one should.
LEMMA AlignedPattern ==
  ASSUME NEW d \in Nat, Aligned(d), NEW j \in 0 .. NetBuf - 1
  PROVE  (d + j) % NetBuf = j
<1>1. NetBuf \in Nat \ {0}
  BY HostAssumption
<1>2. PICK q \in Nat : d = q * NetBuf
  BY DEF Aligned
<1>3. (q * NetBuf + j) % NetBuf = j
  BY <1>1, PlaceInBuffer
<1> QED BY <1>2, <1>3

\* T has, from place d on, what S has from 1 on.
Answers(T, d, S, n) ==
  /\ S \in SUBSET (1 .. n) /\ T \in SUBSET (d .. d + n - 1)
  /\ \A k \in 1 .. n : k \in S <=> d + k - 1 \in T

\* Sets that answer each other, place for place, are equally large.
LEMMA ShiftedSet ==
  ASSUME NEW d \in Nat, NEW n \in Nat, NEW S, NEW T, Answers(T, d, S, n)
  PROVE  IsFiniteSet(S) /\ IsFiniteSet(T) /\ Cardinality(T) = Cardinality(S)
<1> DEFINE f == [k \in S |-> d + k - 1]
<1>0. /\ S \in SUBSET (1 .. n) /\ T \in SUBSET (d .. d + n - 1)
      /\ \A k \in 1 .. n : k \in S <=> d + k - 1 \in T
  BY DEF Answers
<1>1. IsFiniteSet(S)
  <2>1. IsFiniteSet(1 .. n)
    BY FS_Interval
  <2> QED BY <1>0, <2>1, FS_Subset
<1>2. f \in [S -> T]
  BY <1>0
<1>3. ASSUME NEW x \in S, NEW y \in S, f[x] = f[y]
      PROVE  x = y
  BY <1>0, <1>3
<1>4. ASSUME NEW z \in T
      PROVE  \E x \in S : f[x] = z
  <2>1. z - d + 1 \in 1 .. n /\ d + (z - d + 1) - 1 = z
    BY <1>0
  <2>2. z - d + 1 \in S
    BY <1>0, <2>1
  <2> QED BY <2>1, <2>2
<1> HIDE DEF f
<1>5. f \in Injection(S, T)
  BY <1>2, <1>3 DEF Injection, IsInjective
<1>6. f \in Surjection(S, T)
  BY <1>2, <1>4 DEF Surjection
<1>7. f \in Bijection(S, T)
  BY <1>5, <1>6 DEF Bijection
<1> QED BY <1>1, <1>7, FS_Bijection DEF ExistsBijection

\* A whole buffer adds to the count what is wrong in it.
LEMMA NextBuffer ==
  ASSUME NEW d \in Nat, Aligned(d), NEW b \in Seq(Int), Len(b) = NetBuf, HoldsFrom(b, d)
  PROVE  Cardinality(WrongFrom(0, d + NetBuf)) =
           Cardinality(WrongFrom(0, d)) + Cardinality(WrongWords(b))
<1> DEFINE S == WrongWords(b)
           T == WrongFrom(d, d + NetBuf)
<1>1. NetBuf \in Nat \ {0} /\ First \in {0, 1}
  BY HostAssumption DEF First
<1>2. ASSUME NEW k \in 1 .. NetBuf
      PROVE  k \in S <=> d + k - 1 \in T
  <2>1. k - 1 \in 0 .. NetBuf - 1 /\ d + k - 1 \in d .. d + NetBuf - 1
    BY <1>1
  <2>2. d + (k - 1) = d + k - 1 /\ First + d + k - 1 = First + (d + k - 1)
    BY <1>1
  <2>3. (d + k - 1) % NetBuf = k - 1
    BY <2>1, <2>2, AlignedPattern
  <2>4. b[k] = m.sent[First + (d + k - 1)]
    BY <2>2 DEF HoldsFrom
  <2>5. d + k - 1 \in T <=> m.sent[First + (d + k - 1)] # k - 1
    BY <2>1, <2>3 DEF WrongFrom
  <2>6. k \in S <=> b[k] # k - 1
    BY DEF WrongWords
  <2> HIDE DEF S, T
  <2> QED BY <2>4, <2>5, <2>6
<1>3. S \in SUBSET (1 .. NetBuf) /\ T \in SUBSET (d .. d + NetBuf - 1)
  BY DEF WrongWords, WrongFrom
<1>4. Cardinality(T) = Cardinality(S) /\ IsFiniteSet(T)
  <2>1. NetBuf \in Nat
    BY <1>1
  <2> HIDE DEF S, T
  <2>2. Answers(T, d, S, NetBuf)
    BY <1>2, <1>3 DEF Answers
  <2> QED BY <2>1, <2>2, ShiftedSet
<1>5. WrongFrom(0, d + NetBuf) = WrongFrom(0, d) \cup T /\ WrongFrom(0, d) \cap T = {}
  BY <1>1 DEF WrongFrom
<1>6. IsFiniteSet(WrongFrom(0, d))
  <2>1. IsFiniteSet(0 .. d - 1)
    BY FS_Interval
  <2>2. WrongFrom(0, d) \in SUBSET (0 .. d - 1)
    BY DEF WrongFrom
  <2> QED BY <2>1, <2>2, FS_Subset
<1>7. Cardinality(WrongFrom(0, d + NetBuf)) = Cardinality(WrongFrom(0, d)) + Cardinality(T)
  <2> HIDE DEF T
  <2>1. Cardinality(WrongFrom(0, d)) \in Nat /\ Cardinality(T) \in Nat
    BY <1>4, <1>6, FS_CardinalityType
  <2>2. Cardinality(WrongFrom(0, d) \cap T) = 0
    BY <1>5, FS_EmptySet
  <2>3. Cardinality(WrongFrom(0, d) \cup T) =
          Cardinality(WrongFrom(0, d)) + Cardinality(T) - Cardinality(WrongFrom(0, d) \cap T)
    BY <1>4, <1>6, FS_Union
  <2> DEFINE a == Cardinality(WrongFrom(0, d))
             e == Cardinality(T)
             x == Cardinality(WrongFrom(0, d) \cap T)
             u == Cardinality(WrongFrom(0, d) \cup T)
  <2>4. u = a + e
    <3>1. a \in Nat /\ e \in Nat /\ x = 0 /\ u = a + e - x
      BY <2>1, <2>2, <2>3
    <3> HIDE DEF a, e, x, u
    <3> QED BY <3>1
  <2> QED BY <1>5, <2>4
<1> QED BY <1>4, <1>7

\* A function on the places of a sequence is one.
LEMMA AsSequence ==
  ASSUME NEW n \in Nat, NEW c \in [1 .. n -> Int]
  PROVE  c \in Seq(Int) /\ Len(c) = n
OBVIOUS

\* Where the places of two sequences, one behind the other, come from.
LEMMA BehindEachOther ==
  ASSUME NEW b \in Seq(Int), NEW c \in Seq(Int)
  PROVE  /\ b \o c \in Seq(Int) /\ Len(b \o c) = Len(b) + Len(c)
         /\ \A k \in 1 .. Len(b) : (b \o c)[k] = b[k]
         /\ \A k \in Len(b) + 1 .. Len(b) + Len(c) : (b \o c)[k] = c[k - Len(b)]
OBVIOUS

\* What a read adds is what comes next in the stream.
LEMMA PieceOfStream ==
  ASSUME NEW a \in Nat, NEW n \in Nat, a + n <= NetTotal, m.sent \in [0 .. NetTotal - 1 -> Int]
  PROVE  LET c == [k \in 1 .. n |-> m.sent[a + k - 1]]
         IN c \in Seq(Int) /\ Len(c) = n
<1>1. NetTotal \in Nat
  BY HostAssumption
<1>2. \A k \in 1 .. n : a + k - 1 \in 0 .. NetTotal - 1
  BY <1>1
<1>3. [k \in 1 .. n |-> m.sent[a + k - 1]] \in [1 .. n -> Int]
  BY <1>2
<1> QED BY <1>3, AsSequence

\* c is the stream's next n words behind b, which starts d words in.
NextPiece(b, c, d, n) == \A k \in 1 .. n : c[k] = m.sent[First + d + Len(b) + k - 1]

\* A buffer that holds the stream, with the next piece of it behind, still does.
LEMMA Appended ==
  ASSUME NEW d \in Nat, NEW n \in Nat, NEW b \in Seq(Int), HoldsFrom(b, d),
         NEW c \in Seq(Int), Len(c) = n,
         NextPiece(b, c, d, n)
  PROVE  /\ b \o c \in Seq(Int) /\ Len(b \o c) = Len(b) + n
         /\ HoldsFrom(b \o c, d)
<1>1. First \in {0, 1}
  BY DEF First
<1>2. /\ b \o c \in Seq(Int) /\ Len(b \o c) = Len(b) + n
      /\ \A k \in 1 .. Len(b) : (b \o c)[k] = b[k]
      /\ \A k \in Len(b) + 1 .. Len(b) + n : (b \o c)[k] = c[k - Len(b)]
  BY BehindEachOther, Zenon
<1>4. Len(b) \in Nat
  OBVIOUS
<1>3. ASSUME NEW k \in 1 .. Len(b) + n
      PROVE  (b \o c)[k] = m.sent[First + d + k - 1]
  <2>1. CASE k <= Len(b)
    <3>1. (b \o c)[k] = b[k] /\ k \in 1 .. Len(b)
      BY <1>2, <2>1
    <3> QED BY <3>1 DEF HoldsFrom
  <2>2. CASE k > Len(b)
    <3> DEFINE j == k - Len(b)
    <3>1. (b \o c)[k] = c[j] /\ j \in 1 .. n
      BY <1>2, <1>4, <2>2
    <3>2. First + d + Len(b) + j - 1 = First + d + k - 1
      BY <1>1, <1>4
    <3> HIDE DEF j
    <3> QED BY <3>1, <3>2 DEF NextPiece
  <2>3. k <= Len(b) \/ k > Len(b)
    BY <1>4
  <2> QED BY <2>1, <2>2, <2>3
<1> QED BY <1>2, <1>3 DEF HoldsFrom

\* netchk's count keeps up with the stream, in whatever pieces it comes.
LEMMA NetKeepsInv == NetInv /\ prog = "netchk" /\ prog' = prog /\ NetNext => NetInv'
<1> SUFFICES ASSUME NetInv, prog = "netchk", prog' = prog, NetNext
             PROVE  NetInv'
  OBVIOUS
<1>1. /\ DOMAIN r = {"buf", "done", "nbad", "end"}
      /\ DOMAIN m = {"faults", "sent", "at"} /\ m.sent \in [0 .. NetTotal - 1 -> Int]
  BY DEF NetInv
<1>2. NetBuf \in Nat \ {0} /\ NetTotal \in Nat
  BY HostAssumption
<1>3. First \in {0, 1}
  BY DEF First
<1>4. NetCounted <=> (pc \in {"read", "done"} => r.nbad = Cardinality(WrongFrom(0, r.done)))
  BY DEF NetCounted, WrongFrom, First
<1>5. CASE NetConnect
  <2>1. /\ m' = [m EXCEPT !.at = IF Has(m, "shifts") THEN 1 ELSE 0]
        /\ r' = r /\ pc = "connect" /\ pc' = "read"
    BY <1>5 DEF NetConnect, At, Goto
  <2>2. DOMAIN m' = DOMAIN m /\ (m').sent = m.sent /\ (m').faults = m.faults /\ (m').at = First
    BY <1>1, <2>1 DEF First
  <2>3. First' = First
    BY <2>2 DEF First, Has
  <2>4. r.buf = <<>> /\ r.done = 0 /\ r.nbad = 0
    BY <2>1 DEF NetInv
  <2>5. NetFilling'
    <3>1. r'.done = 0 /\ r'.buf \in Seq(Int) /\ Len(r'.buf) = 0
      BY <2>1, <2>4
    <3>2. Aligned(r'.done)
      BY <3>1, ZeroAligned
    <3>3. HoldsFrom(r.buf, r.done)'
      BY <3>1 DEF HoldsFrom
    <3>4. (m').at = First' + r'.done + Len(r'.buf)
      BY <1>3, <2>2, <2>3, <3>1
    <3> QED BY <1>2, <3>1, <3>2, <3>3, <3>4 DEF NetFilling, Aligned
  <2>6. NetCounted'
    <3>1. {k \in 0 .. (r'.done - 1) : (m').sent[(IF Has(m', "shifts") THEN 1 ELSE 0) + k] # k % NetBuf} = {}
      BY <2>1, <2>4
    <3> QED BY <2>1, <2>4, <3>1, FS_EmptySet DEF NetCounted
  <2> QED BY <1>1, <2>1, <2>2, <2>5, <2>6 DEF NetInv
<1>6. CASE NetRead
  <2>1. /\ pc = "read" /\ pc' = "read"
        /\ r.done \in Nat /\ Aligned(r.done) /\ r.buf \in Seq(Int) /\ Len(r.buf) < NetBuf
        /\ m.at = First + r.done + Len(r.buf) /\ HoldsFrom(r.buf, r.done)
        /\ r.nbad = Cardinality(WrongFrom(0, r.done))
    BY <1>4, <1>6 DEF NetRead, At, NetInv, NetFilling
  <2>2. PICK n \in 1 .. (NetBuf - Len(r.buf)) :
          /\ m.at + n <= NetTotal
          /\ m' = [m EXCEPT !.at = @ + n]
          /\ LET b == r.buf \o [k \in 1..n |-> m.sent[m.at + k - 1]]
             IN r' = IF Len(b) < NetBuf THEN [r EXCEPT !.buf = b]
                     ELSE [r EXCEPT !.buf = <<>>, !.done = @ + NetBuf,
                                    !.nbad = @ + Cardinality(WrongWords(b))]
    BY <1>6 DEF NetRead, WrongWords
  <2> DEFINE c == [k \in 1..n |-> m.sent[m.at + k - 1]]
             b == r.buf \o c
  <2>3. Len(r.buf) \in Nat /\ n \in Nat \ {0} /\ Len(r.buf) + n <= NetBuf /\ m.at \in Nat
    <3>1. Len(r.buf) \in Nat
      BY <2>1
    <3> QED BY <1>2, <1>3, <2>1, <2>2, <3>1
  <2>4. c \in Seq(Int) /\ Len(c) = n
    BY <1>1, <2>2, <2>3, PieceOfStream
  <2>5. NextPiece(r.buf, c, r.done, n)
    BY <2>1 DEF NextPiece
  <2>6. b \in Seq(Int) /\ Len(b) = Len(r.buf) + n /\ HoldsFrom(b, r.done)
    <3> HIDE DEF c
    <3>1. n \in Nat
      BY <2>3
    <3> QED BY <2>1, <2>4, <2>5, <3>1, Appended
  <2>7. m' = [m EXCEPT !.at = @ + n] /\ r' = IF Len(b) < NetBuf THEN [r EXCEPT !.buf = b]
                     ELSE [r EXCEPT !.buf = <<>>, !.done = @ + NetBuf,
                                    !.nbad = @ + Cardinality(WrongWords(b))]
    BY <2>2
  <2> HIDE DEF b, c
  <2>8. DOMAIN m' = DOMAIN m /\ (m').sent = m.sent /\ (m').faults = m.faults /\ (m').at = m.at + n
    BY <1>1, <2>7
  <2>9. First' = First
    BY <2>8 DEF First, Has
  <2>10. (m').at = First + r.done + Len(b)
    <3> DEFINE l == Len(r.buf)
               d == r.done
    <3>1. (m').at = (First + d + l) + n /\ Len(b) = l + n /\ d \in Nat /\ l \in Nat
      BY <2>1, <2>3, <2>6, <2>8
    <3> HIDE DEF l, d
    <3>2. (First + d + l) + n = First + d + (l + n)
      BY <1>3, <2>3, <3>1
    <3> QED BY <3>1, <3>2 DEF d
  <2>11. CASE Len(b) < NetBuf
    <3>1. DOMAIN r' = DOMAIN r /\ r'.buf = b /\ r'.done = r.done /\ r'.nbad = r.nbad
      BY <1>1, <2>7, <2>11
    <3>2. NetFilling'
      <4>1. HoldsFrom(r.buf, r.done)'
        BY <2>6, <2>8, <2>9, <3>1 DEF HoldsFrom
      <4>2. Aligned(r'.done)
        BY <2>1, <3>1
      <4>3. Aligned(r.done)'
        BY <4>2 DEF Aligned
      <4> QED BY <2>1, <2>6, <2>9, <2>10, <2>11, <3>1, <4>1, <4>3 DEF NetFilling
    <3>3. WrongFrom(0, r.done)' = WrongFrom(0, r.done)
      BY <2>8, <2>9, <3>1 DEF WrongFrom
    <3>4. NetCounted'
      <4>1. r'.nbad = Cardinality(WrongFrom(0, r.done)')
        BY <2>1, <3>1, <3>3
      <4> QED BY <4>1 DEF NetCounted, WrongFrom, First
    <3> QED BY <1>1, <2>1, <2>8, <3>1, <3>2, <3>4 DEF NetInv
  <2>12. CASE ~(Len(b) < NetBuf)
    <3>1. Len(b) = NetBuf
      BY <1>2, <2>3, <2>6, <2>12
    <3>2. r' = [[[r EXCEPT !.buf = <<>>] EXCEPT !.done = @ + NetBuf] EXCEPT !.nbad = @ + Cardinality(WrongWords(b))]
      BY <2>7, <2>12
    <3>3. /\ DOMAIN r' = DOMAIN r /\ r'.buf = <<>> /\ r'.done = r.done + NetBuf
          /\ r'.nbad = r.nbad + Cardinality(WrongWords(b))
      BY <1>1, <3>2
    <3>4. r'.done \in Nat /\ Aligned(r'.done)
      BY <2>1, <3>3, NextAligned
    <3>5. NetFilling'
      <4>1. r'.buf \in Seq(Int) /\ Len(r'.buf) = 0
        BY <3>3
      <4>2. (m').at = First' + r'.done + Len(r'.buf)
        <5>1. First' + r'.done + 0 = First + r.done + NetBuf
          BY <1>2, <1>3, <2>1, <2>9, <3>3
        <5> QED BY <2>10, <3>1, <4>1, <5>1
      <4>3. HoldsFrom(r.buf, r.done)'
        BY <4>1 DEF HoldsFrom
      <4>4. Aligned(r.done)'
        BY <3>4 DEF Aligned
      <4> QED BY <1>2, <3>4, <4>1, <4>2, <4>3, <4>4 DEF NetFilling
    <3>6. r'.nbad = Cardinality(WrongFrom(0, r.done + NetBuf))
      BY <2>1, <2>6, <3>1, <3>3, NextBuffer
    <3>7. WrongFrom(0, r.done + NetBuf) =
            {k \in 0 .. (r'.done - 1) : (m').sent[(IF Has(m', "shifts") THEN 1 ELSE 0) + k] # k % NetBuf}
      BY <2>8, <2>9, <3>3 DEF WrongFrom, First
    <3>8. NetCounted'
      BY <3>6, <3>7 DEF NetCounted
    <3> QED BY <1>1, <2>1, <2>8, <3>3, <3>5, <3>8 DEF NetInv
  <2> QED BY <2>11, <2>12
<1>7. CASE NetEnd
  <2>1. r' = [r EXCEPT !.end = TRUE] /\ m' = m /\ pc' = pc
    BY <1>7 DEF NetEnd
  <2>2. DOMAIN r' = DOMAIN r /\ r'.buf = r.buf /\ r'.done = r.done /\ r'.nbad = r.nbad
    BY <1>1, <2>1
  <2>3. NetFilling => NetFilling'
    BY <2>1, <2>2 DEF NetFilling, HoldsFrom, Aligned, First, Has
  <2>4. NetCounted => NetCounted'
    BY <2>1, <2>2 DEF NetCounted, Has
  <2> QED BY <1>1, <2>1, <2>2, <2>3, <2>4 DEF NetInv
<1>8. CASE NetSay
  <2>1. pc = "read" /\ pc' = "done" /\ m' = m /\ r' = r
    BY <1>8 DEF NetSay, At, Goto
  <2> QED BY <2>1 DEF NetInv, NetCounted, Has
<1> QED BY <1>5, <1>6, <1>7, <1>8 DEF NetNext

\* memchk starts with nothing walked.
LEMMA InitChk == Init => ChkInv
BY DEF Init, ChkInv, ChkInit, ChkCounted, CtxInit, MmuInit, RefInit, UsrInit, BusInit, CopyInit,
       ClkInit, CaInit, XyInit, WrInit, LoopInit, PatInit, DwellInit, NetInit, RomInit

\* netchk starts with nothing received.
LEMMA InitNet == Init => NetInv
<1> SUFFICES ASSUME Init, prog = "netchk"
             PROVE  NetInv
  BY DEF NetInv
<1>1. NetInit
  BY DEF Init
<1>2. PICK f, s : m = [faults |-> f, sent |-> s, at |-> 0] /\
                  \E bad : s = [i \in 0..(NetTotal - 1) |-> IF i \in bad THEN -1 ELSE i % NetBuf]
  BY <1>1 DEF NetInit
<1>3. NetBuf \in Nat \ {0}
  BY HostAssumption
<1>4. s \in [0 .. NetTotal - 1 -> Int]
  BY <1>2, <1>3
<1>5. pc = "connect" /\ r = [buf |-> <<>>, done |-> 0, nbad |-> 0, end |-> FALSE]
  BY <1>1 DEF NetInit
<1>6. NetCounted
  BY <1>5 DEF NetCounted
<1> QED BY <1>2, <1>4, <1>5, <1>6 DEF NetInv

\* Every step keeps both counts.
LEMMA NextKeepsCounts == ChkInv /\ NetInv /\ [Next]_vars => ChkInv' /\ NetInv'
<1>1. CASE UNCHANGED vars
  BY <1>1 DEF vars, ChkInv, ChkCounted, NetInv, NetCounted, NetFilling, HoldsFrom, Aligned, First, Has
<1>2. CASE Next
  <2>1. prog' = prog /\ (prog = "memchk" => ChkNext) /\ (prog = "netchk" => NetNext)
    BY <1>2, NextByProgram
  <2>2. ChkInv => ChkInv'
    BY <2>1, ChkKeepsInv DEF ChkInv
  <2>3. NetInv => NetInv'
    BY <2>1, NetKeepsInv DEF NetInv
  <2> QED BY <2>2, <2>3
<1> QED BY <1>1, <1>2

\* For any buffer and chunk sizes, and a stream cut in any pieces, memchk's and
\* netchk's counts of wrong words are the numbers of words that were wrong.
THEOREM CountsAreTrue == Spec => []CountsTrue
<1>1. ChkInv /\ NetInv => CountsTrue
  BY DEF ChkInv, NetInv, CountsTrue
<1> QED BY <1>1, InitChk, InitNet, NextKeepsCounts, PTL DEF Spec
-----------------------------------------------------------------------------
(* What the boot blocks leave of the maps.                                 *)

MachineFields == {"faults", "sx", "ux", "smap", "pmap", "latch", "net", "masked"}
EntryOK(e)    == DOMAIN e = {"bits", "bus", "st"}
Slots         == Pmegs \X Pages

\* A machine as its maps are addressed.
MachineOK(a) ==
  /\ DOMAIN a = MachineFields
  /\ a.sx \in Contexts /\ a.ux \in Contexts
  /\ DOMAIN a.smap = Contexts \X Segments /\ \A k \in Contexts \X Segments : a.smap[k] \in Pmegs
  /\ DOMAIN a.pmap = Slots /\ \A s \in Slots : EntryOK(a.pmap[s])

\* From a to b no context register and no segment has moved, and no permission
\* but those of slot s.
SameBut(a, b, s) ==
  /\ MachineOK(b)
  /\ b.faults = a.faults /\ b.sx = a.sx /\ b.ux = a.ux /\ b.smap = a.smap
  /\ \A t \in Slots : t # s => b.pmap[t].bits = a.pmap[t].bits

\* Maps sm and pm are machine w's, but for some segments and the permissions of
\* some slots.
FrameOf(w, sm, pm, slots, segs) ==
  /\ \A t \in Slots \ slots : pm[t].bits = w.pmap[t].bits
  /\ \A k \in (Contexts \X Segments) \ segs : sm[k] = w.smap[k]

\* It stays so when no other slot's permissions change.
LEMMA FrameKept ==
  ASSUME NEW w, NEW a, NEW b, NEW slots, NEW segs, FrameOf(w, a.smap, a.pmap, slots, segs),
         NEW s, SameBut(a, b, s), s \in slots \/ s \notin Slots
  PROVE  FrameOf(w, b.smap, b.pmap, slots, segs)
BY DEF FrameOf, SameBut

\* The slot FC 3 reaches for a page.
MapSlot(a, va) == Slot(a, MapContext(a), va)

\* What is the same, but for a slot, from one step to the next is the same.
LEMMA SameFurther ==
  ASSUME NEW a, NEW b, NEW c, NEW s, SameBut(a, b, s), SameBut(b, c, s)
  PROVE  SameBut(a, c, s)
BY DEF SameBut

\* FC 3 still reaches the same slot.
LEMMA SameMapSlot ==
  ASSUME NEW a, NEW b, NEW s, SameBut(a, b, s), NEW va
  PROVE  MapSlot(b, va) = MapSlot(a, va) /\ MapContext(b) = MapContext(a)
BY DEF SameBut, MapSlot, Slot, MapContext, Has

\* Every page's segment has a slot.
LEMMA SlotThere ==
  ASSUME NEW a, MachineOK(a), NEW c \in Contexts, NEW va \in Pages
  PROVE  Slot(a, c, va) \in Slots
<1>1. SegOf(va) \in Segments
  BY DEF SegOf, Pages, Segments
<1>2. <<c, SegOf(va)>> \in Contexts \X Segments
  BY <1>1
<1> QED BY <1>2 DEF MachineOK, Slot, Slots

\* The register armed again, nothing else.
LEMMA RearmedSame ==
  ASSUME NEW a, MachineOK(a), NEW s
  PROVE  SameBut(a, Rearmed(a), s)
BY DEF SameBut, MachineOK, MachineFields, Rearmed, EntryOK

\* From a to b the entry of a slot has been replaced, and the register.
Replaced(a, b, t, e) ==
  \E l : b = [[a EXCEPT !.pmap = [a.pmap EXCEPT ![t] = e]] EXCEPT !.latch = l]

\* Nothing else has, then.
LEMMA EntryReplaced ==
  ASSUME NEW a, NEW b, NEW t \in Slots, NEW e, MachineOK(a), EntryOK(e), Replaced(a, b, t, e)
  PROVE  /\ MachineOK(b) /\ b.pmap = [a.pmap EXCEPT ![t] = e]
         /\ b.faults = a.faults /\ b.sx = a.sx /\ b.ux = a.ux /\ b.smap = a.smap
<1>0. PICK l : b = [[a EXCEPT !.pmap = [a.pmap EXCEPT ![t] = e]] EXCEPT !.latch = l]
  BY DEF Replaced
<1>1. DOMAIN a = MachineFields
  BY DEF MachineOK
<1>2. /\ DOMAIN b = MachineFields /\ b.pmap = [a.pmap EXCEPT ![t] = e]
      /\ b.faults = a.faults /\ b.sx = a.sx /\ b.ux = a.ux /\ b.smap = a.smap
  BY <1>0, <1>1 DEF MachineFields
<1>3. DOMAIN b.pmap = Slots /\ \A s \in Slots : EntryOK(b.pmap[s])
  BY <1>2 DEF MachineOK
<1> QED BY <1>2, <1>3 DEF MachineOK

\* A translated access changes the statistics of one entry, of its page.
LEMMA AccessReplaces ==
  ASSUME NEW a, MachineOK(a), NEW fc, NEW rw, NEW va \in Pages
  PROVE  \E t \in Slots : \E e : /\ t[2] = va /\ EntryOK(e) /\ e.bits = a.pmap[t].bits
                                 /\ Replaced(a, Access(a, fc, rw, va).m, t, e)
<1> DEFINE t == Slot(a, AccessContext(a, fc), va)
           b == Access(a, fc, rw, va).m
<1>1. t \in Slots /\ t[2] = va
  <2>1. AccessContext(a, fc) \in Contexts
    BY DEF AccessContext, MachineOK
  <2>2. t \in Slots
    BY <2>1, SlotThere
  <2> QED BY <2>2 DEF Slot
<1>2. \E st, l : b = [[a EXCEPT !.pmap = [a.pmap EXCEPT ![t] = [a.pmap[t] EXCEPT !.st = st]]] EXCEPT !.latch = l]
  BY DEF Access
<1>3. PICK st, l : b = [[a EXCEPT !.pmap = [a.pmap EXCEPT ![t] = [a.pmap[t] EXCEPT !.st = st]]] EXCEPT !.latch = l]
  BY <1>2
<1> HIDE DEF t, b
<1> DEFINE e == [a.pmap[t] EXCEPT !.st = st]
<1>4. EntryOK(e) /\ e.bits = a.pmap[t].bits
  BY <1>1 DEF MachineOK, EntryOK
<1>5. Replaced(a, b, t, e)
  BY <1>3 DEF Replaced
<1> HIDE DEF e
<1> QED BY <1>1, <1>4, <1>5 DEF b

\* So it changes no permission.
LEMMA AccessSame ==
  ASSUME NEW a, MachineOK(a), NEW fc, NEW rw, NEW va \in Pages, NEW s
  PROVE  SameBut(a, Access(a, fc, rw, va).m, s)
<1> DEFINE b == Access(a, fc, rw, va).m
<1>0. PICK t \in Slots : \E e : EntryOK(e) /\ e.bits = a.pmap[t].bits /\ Replaced(a, b, t, e)
  BY AccessReplaces
<1>1. PICK e : EntryOK(e) /\ e.bits = a.pmap[t].bits /\ Replaced(a, b, t, e)
  BY <1>0
<1> HIDE DEF b
<1>2. /\ MachineOK(b) /\ b.pmap = [a.pmap EXCEPT ![t] = e]
      /\ b.faults = a.faults /\ b.sx = a.sx /\ b.ux = a.ux /\ b.smap = a.smap
  BY <1>1, EntryReplaced
<1>3. ASSUME NEW u \in Slots PROVE b.pmap[u].bits = a.pmap[u].bits
  BY <1>1, <1>2 DEF MachineOK
<1>4. SameBut(a, b, s)
  BY <1>2, <1>3 DEF SameBut
<1> QED BY <1>4 DEF b

\* A write of an entry through FC 3 reaches the slot of its page, and sets its
\* permissions; and the rest of it, if the hardware stores it.
LEMMA SetPageReplaces ==
  ASSUME NEW a, MachineOK(a), NEW va \in Pages, NEW e, EntryOK(e)
  PROVE  /\ MapSlot(a, va) \in Slots /\ MapSlot(a, va)[2] = va
         /\ \E x : /\ EntryOK(x) /\ x.bits = e.bits /\ (~Has(a, "fc3nostat") => x = e)
                   /\ Replaced(a, setpgmap(a, va, e), MapSlot(a, va), x)
<1> DEFINE t == MapSlot(a, va)
           b == setpgmap(a, va, e)
           x == IF Has(a, "fc3nostat") THEN [e EXCEPT !.st = a.pmap[t].st] ELSE e
<1>1. t \in Slots /\ t[2] = va
  <2>1. MapContext(a) \in Contexts
    BY DEF MapContext, MachineOK
  <2>2. t \in Slots
    BY <2>1, SlotThere DEF MapSlot
  <2> QED BY <2>2 DEF MapSlot, Slot
<1>2. b = [a EXCEPT !.pmap = [a.pmap EXCEPT ![t] = x]]
  BY DEF setpgmap, MapSlot
<1>3. EntryOK(x) /\ x.bits = e.bits /\ (~Has(a, "fc3nostat") => x = e)
  BY DEF EntryOK
<1> HIDE DEF t, b, x
<1>4. Replaced(a, b, t, x)
  <2>1. DOMAIN a = MachineFields
    BY DEF MachineOK
  <2>2. b = [[a EXCEPT !.pmap = [a.pmap EXCEPT ![t] = x]] EXCEPT !.latch = a.latch]
    BY <1>2, <2>1 DEF MachineFields
  <2> QED BY <2>2 DEF Replaced
<1> QED BY <1>1, <1>3, <1>4 DEF t, b

\* No other slot's permissions change.
LEMMA SetPageSame ==
  ASSUME NEW a, MachineOK(a), NEW va \in Pages, NEW e, EntryOK(e)
  PROVE  /\ SameBut(a, setpgmap(a, va, e), MapSlot(a, va))
         /\ setpgmap(a, va, e).pmap[MapSlot(a, va)].bits = e.bits
<1> DEFINE t == MapSlot(a, va)
           b == setpgmap(a, va, e)
<1>1. t \in Slots /\ \E x : EntryOK(x) /\ x.bits = e.bits /\ Replaced(a, b, t, x)
  BY SetPageReplaces
<1> HIDE DEF t, b
<1>2. PICK x : EntryOK(x) /\ x.bits = e.bits /\ Replaced(a, b, t, x)
  BY <1>1
<1>3. /\ MachineOK(b) /\ b.pmap = [a.pmap EXCEPT ![t] = x]
      /\ b.faults = a.faults /\ b.sx = a.sx /\ b.ux = a.ux /\ b.smap = a.smap
  BY <1>1, <1>2, EntryReplaced
<1>4. ASSUME NEW u \in Slots, u # t PROVE b.pmap[u].bits = a.pmap[u].bits
  BY <1>3, <1>4 DEF MachineOK
<1>5. b.pmap[t].bits = e.bits
  BY <1>1, <1>2, <1>3 DEF MachineOK
<1>6. SameBut(a, b, t)
  BY <1>3, <1>4 DEF SameBut
<1> QED BY <1>5, <1>6 DEF b, t

\* The driver's store, if it comes, is an access like another.
LEMMA InterruptedSame ==
  ASSUME NEW a, MachineOK(a), NEW i \in Interrupted(a), NEW s
  PROVE  SameBut(a, i.m, s)
<1>1. CASE i = [m |-> a, fault |-> FALSE]
  BY <1>1 DEF SameBut
<1>2. CASE \E va \in {"user", "stack"} : i = Access(a, "SD", "w", va)
  <2>1. PICK va \in Pages : i = Access(a, "SD", "w", va)
    BY <1>2 DEF Pages
  <2> QED BY <2>1, AccessSame
<1> QED BY <1>1, <1>2 DEF Interrupted

\* So is the access under test, or there is none.
LEMMA TrySame ==
  ASSUME NEW i, MachineOK(i.m), NEW fc, NEW rw, NEW va \in Pages, NEW s
  PROVE  SameBut(i.m, Try(i, fc, rw, va).m, s)
<1>1. CASE i.fault
  BY <1>1 DEF Try, SameBut
<1>2. CASE ~i.fault
  BY <1>2, AccessSame DEF Try
<1> QED BY <1>1, <1>2

\* The handler's repair reaches the slot of its page.
LEMMA FixupSame ==
  ASSUME NEW a, MachineOK(a), NEW va \in Pages, NEW e, EntryOK(e)
  PROVE  SameBut(a, Fixup(a, va, e), MapSlot(a, va))
<1> DEFINE b == Rearmed(a)
           s == MapSlot(a, va)
<1>1. SameBut(a, b, s)
  BY RearmedSame
<1>2. MachineOK(b) /\ MapSlot(b, va) = s
  <2> HIDE DEF b
  <2> QED BY <1>1, SameMapSlot DEF SameBut
<1>3. SameBut(b, setpgmap(b, va, e), s)
  <2> HIDE DEF b, s
  <2> QED BY <1>2, SetPageSame
<1>4. SameBut(a, setpgmap(b, va, e), s)
  <2> HIDE DEF b, s
  <2> QED BY <1>1, <1>3, SameFurther
<1> QED BY <1>4 DEF Fixup

\* However often it faults, an access run again under the handler changes no
\* permission but those of its page.
LEMMA RerunSame ==
  ASSUME NEW i, MachineOK(i.m), NEW fc, NEW rw, NEW va \in Pages, NEW e, EntryOK(e), NEW kind
  PROVE  SameBut(i.m, Rerun(i, fc, rw, va, e, kind).m, MapSlot(i.m, va))
<1> DEFINE s      == MapSlot(i.m, va)
           before == IF i.fault THEN Fixup(i.m, va, e) ELSE i.m
           first  == Access(before, fc, rw, va)
           fixed  == Fixup(first.m, va, e)
           again  == Access(fixed, fc, rw, va)
           last   == Fixup(again.m, va, e)
<1>1. SameBut(i.m, before, s) /\ MapSlot(before, va) = s
  <2>1. SameBut(i.m, before, s)
    BY FixupSame DEF SameBut
  <2> HIDE DEF before
  <2> QED BY <2>1, SameMapSlot
<1>2. SameBut(i.m, first.m, s) /\ MapSlot(first.m, va) = s
  <2> HIDE DEF before, s
  <2>1. MachineOK(before)
    BY <1>1 DEF SameBut
  <2>2. SameBut(before, first.m, s)
    BY <2>1, AccessSame
  <2> HIDE DEF first
  <2>3. SameBut(i.m, first.m, s)
    BY <1>1, <2>2, SameFurther
  <2> QED BY <1>1, <2>2, <2>3, SameMapSlot
<1>3. SameBut(i.m, fixed, s) /\ MapSlot(fixed, va) = s
  <2> HIDE DEF first, before, s
  <2>1. MachineOK(first.m)
    BY <1>2 DEF SameBut
  <2>2. SameBut(first.m, fixed, s)
    BY <1>2, <2>1, FixupSame
  <2> HIDE DEF fixed
  <2>3. SameBut(i.m, fixed, s)
    BY <1>2, <2>2, SameFurther
  <2> QED BY <1>2, <2>2, <2>3, SameMapSlot
<1>4. SameBut(i.m, again.m, s) /\ MapSlot(again.m, va) = s
  <2> HIDE DEF fixed, first, before, s
  <2>1. MachineOK(fixed)
    BY <1>3 DEF SameBut
  <2>2. SameBut(fixed, again.m, s)
    BY <2>1, AccessSame
  <2> HIDE DEF again
  <2>3. SameBut(i.m, again.m, s)
    BY <1>3, <2>2, SameFurther
  <2> QED BY <1>3, <2>2, <2>3, SameMapSlot
<1>5. SameBut(i.m, last, s)
  <2> HIDE DEF again, fixed, first, before, s
  <2>1. MachineOK(again.m)
    BY <1>4 DEF SameBut
  <2>2. SameBut(again.m, last, s)
    BY <1>4, <2>1, FixupSame
  <2> HIDE DEF last
  <2> QED BY <1>4, <2>2, SameFurther
<1>6. Rerun(i, fc, rw, va, e, kind).m \in {first.m, again.m, last}
  <2> HIDE DEF s
  <2> QED BY DEF Rerun
<1> HIDE DEF last, again, fixed, first, before
<1> QED BY <1>2, <1>4, <1>5, <1>6

\* The machine as the monitor leaves it.
LEMMA MonitorOK ==
  ASSUME NEW c, NEW a \in Machines(c)
  PROVE  /\ MachineOK(a) /\ a.sx = 0 /\ a.ux = 0 /\ a.faults \in FaultSets(c)
         /\ \A k \in Contexts : a.smap[<<k, "user">>] = "user"
         /\ a.pmap[<<"user", "user">>].bits = PERM_ALL
         /\ a.pmap[<<"user", "stack">>].bits \in {PERM_ALL, {}}
         /\ a.smap[<<0, "probe">>] = "probe"
<1>1. PICK f \in FaultSets(c), first \in {{}, NoAnswer}, net \in BOOLEAN,
           maps \in {MonitorMaps(st, b, k) : st \in SUBSET REFMOD, b \in {PERM_ALL, {}},
                                             k \in {"kern", SEGINV}} :
        a = [faults |-> f, sx |-> 0, ux |-> 0, smap |-> maps.smap, pmap |-> maps.pmap,
             latch |-> first, net |-> net, masked |-> FALSE]
  BY DEF Machines
<1>5. PICK st \in SUBSET REFMOD, b \in {PERM_ALL, {}}, k \in {"kern", SEGINV} :
        maps = MonitorMaps(st, b, k)
  OBVIOUS
<1>2. /\ DOMAIN maps.smap = Contexts \X Segments
      /\ \A x \in Contexts \X Segments : maps.smap[x] \in Pmegs
      /\ \A x \in Contexts : maps.smap[<<x, "user">>] = "user" /\ maps.smap[<<x, "probe">>] = "probe"
  BY <1>5 DEF MonitorMaps, Segments, Pmegs
<1>3. /\ DOMAIN maps.pmap = Slots /\ \A s \in Slots : EntryOK(maps.pmap[s])
      /\ maps.pmap[<<"user", "user">>].bits = PERM_ALL
      /\ maps.pmap[<<"user", "stack">>].bits \in {PERM_ALL, {}}
  BY <1>5 DEF MonitorMaps, Slots, Entry, EntryOK, Pmegs, Pages, Segments, SEGINV
<1>4. /\ DOMAIN a = MachineFields /\ a.sx = 0 /\ a.ux = 0 /\ a.faults = f
      /\ a.smap = maps.smap /\ a.pmap = maps.pmap
  BY <1>1 DEF MachineFields
<1> QED BY <1>2, <1>3, <1>4 DEF MachineOK, Contexts

-----------------------------------------------------------------------------
(* refmodprobe: one page, denied and granted, and put back.                *)

RefFields == {"was", "pme", "clr", "rd", "wr", "den", "rdf", "wrf", "denf"}
RefPlaces == {"1", "2", "3", "4", "conclude", "done"}

\* Nothing but the permissions of the scratch page has changed, the entry that
\* will be put back has those it had, and in the end it has them again.
RefInv ==
  prog = "refmodprobe" =>
    /\ MachineOK(m) /\ DOMAIN r = RefFields /\ pc \in {"ref start"} \cup RefPlaces
    /\ MachineOK(r.was) /\ r.was.sx = 0 /\ r.was.ux = 0
    /\ pc = "ref start" => m = r.was
    /\ pc \in RefPlaces =>
         /\ SameBut(r.was, m, MapSlot(r.was, "stack"))
         /\ EntryOK(r.pme) /\ r.pme.bits = getpgmap(r.was, "stack").bits
    /\ pc \in {"conclude", "done"} => getpgmap(m, "stack").bits = r.pme.bits

\* Any machine is the same as itself.
LEMMA SameAsItself == ASSUME NEW a, MachineOK(a), NEW s PROVE SameBut(a, a, s)
BY DEF SameBut

\* A case: the page set as the case wants it, what comes in between, and the
\* access; only the page's permissions have changed.
LEMMA RefCaseSame ==
  ASSUME NEW a, MachineOK(a), NEW e, EntryOK(e),
         NEW i, i \in Interrupted(setpgmap(a, "stack", e)) \/
                i \in Interrupted(Rearmed(setpgmap(a, "stack", e))),
         NEW rw
  PROVE  LET s == MapSlot(a, "stack")
         IN SameBut(a, i.m, s) /\ SameBut(a, Try(i, "UD", rw, "stack").m, s)
<1> DEFINE s == MapSlot(a, "stack")
           b == setpgmap(a, "stack", e)
           c == Rearmed(b)
           t == Try(i, "UD", rw, "stack")
<1>1. "stack" \in Pages
  BY DEF Pages
<1>2. SameBut(a, b, s)
  BY <1>1, SetPageSame
<1> HIDE DEF b, s
<1>7. MachineOK(b)
  BY <1>2 DEF SameBut
<1>3. MachineOK(b) /\ SameBut(b, c, s)
  BY <1>7, RearmedSame
<1> HIDE DEF c
<1>4. SameBut(a, c, s) /\ MachineOK(c)
  BY <1>2, <1>3, SameFurther DEF SameBut
<1>5. SameBut(a, i.m, s)
  <2>1. CASE i \in Interrupted(b)
    BY <1>2, <1>3, <2>1, InterruptedSame, SameFurther
  <2>2. CASE i \in Interrupted(c)
    BY <1>4, <2>2, InterruptedSame, SameFurther
  <2> QED BY <2>1, <2>2 DEF b, c
<1>6. SameBut(a, t.m, s)
  <2>1. MachineOK(i.m)
    BY <1>5 DEF SameBut
  <2>2. SameBut(i.m, t.m, s)
    BY <1>1, <2>1, TrySame
  <2> HIDE DEF t
  <2> QED BY <1>5, <2>2, SameFurther
<1> QED BY <1>5, <1>6 DEF s

\* What is as it was but for the scratch page is so after a case.
LEMMA RefGoesOn ==
  ASSUME NEW was, NEW a, NEW b, SameBut(was, a, MapSlot(was, "stack")),
         SameBut(a, b, MapSlot(a, "stack"))
  PROVE  SameBut(was, b, MapSlot(was, "stack"))
<1> DEFINE s == MapSlot(was, "stack")
<1>1. MapSlot(a, "stack") = s
  <2> HIDE DEF s
  <2> QED BY SameMapSlot DEF s
<1> HIDE DEF s
<1> QED BY <1>1, SameFurther DEF s

\* The page put back after the last case.
LEMMA RefPutBack ==
  ASSUME NEW a, MachineOK(a), NEW e, EntryOK(e)
  PROVE  /\ SameBut(a, setpgmap(a, "stack", e), MapSlot(a, "stack"))
         /\ getpgmap(setpgmap(a, "stack", e), "stack").bits = e.bits
<1> DEFINE b == setpgmap(a, "stack", e)
           s == MapSlot(a, "stack")
<1>1. SameBut(a, b, s) /\ b.pmap[s].bits = e.bits
  BY SetPageSame DEF Pages
<1> HIDE DEF b, s
<1>2. MapSlot(b, "stack") = s
  <2>1. MapSlot(b, "stack") = MapSlot(a, "stack")
    BY <1>1, SameMapSlot
  <2> QED BY <2>1 DEF s
<1>3. getpgmap(b, "stack") = b.pmap[MapSlot(b, "stack")]
  BY DEF getpgmap, MapSlot
<1> QED BY <1>1, <1>2, <1>3 DEF b, s

\* Every case of refmodprobe.
LEMMA RefKeepsInv == RefInv /\ prog = "refmodprobe" /\ prog' = prog /\ RefNext => RefInv'
<1> SUFFICES ASSUME RefInv, prog = "refmodprobe", prog' = prog, RefNext
             PROVE  RefInv'
  OBVIOUS
<1> DEFINE s == MapSlot(r.was, "stack")
<1>1. MachineOK(m) /\ DOMAIN r = RefFields
  BY DEF RefInv
<1>2. EntryOK(RefAll) /\ EntryOK(RefNone)
  BY DEF EntryOK, RefAll, RefNone, Entry
<1>3. CASE RefStart
  <2>1. PICK i \in Interrupted(m) :
          m' = RefMask(i.m) /\ r' = [r EXCEPT !.pme = getpgmap(m', "stack")]
    BY <1>3 DEF RefStart
  <2>2. pc = "ref start" /\ m = r.was
    BY <1>3 DEF RefStart, At, RefInv
  <2>3. SameBut(m, i.m, <<>>)
    BY <1>1, InterruptedSame
  <2>4. SameBut(m, m', <<>>) /\ MachineOK(m')
    BY <2>1, <2>3 DEF RefMask, MachineOK, MachineFields, SameBut
  <2>5. DOMAIN r' = RefFields /\ r'.was = m /\ r'.pme = getpgmap(m', "stack")
    BY <1>1, <2>1, <2>2 DEF RefFields
  <2>6. MapSlot(m', "stack") = s /\ s \in Slots
    <3>1. MapSlot(m', "stack") = MapSlot(m, "stack")
      BY <2>4, SameMapSlot
    <3>2. MapContext(m) \in Contexts /\ "stack" \in Pages
      BY <1>1 DEF MapContext, MachineOK, Pages
    <3>3. Slot(m, MapContext(m), "stack") \in Slots
      BY <1>1, <3>2, SlotThere
    <3> QED BY <2>2, <3>1, <3>3 DEF MapSlot
  <2>7. getpgmap(m', "stack") = (m').pmap[s] /\ getpgmap(r.was, "stack") = m.pmap[s]
    BY <2>2, <2>6 DEF getpgmap, MapSlot
  <2> HIDE DEF s
  <2>8. EntryOK(r'.pme) /\ r'.pme.bits = getpgmap(r.was, "stack").bits
    <3>2. <<>> \notin Slots
      BY DEF Slots
    <3>1. s # <<>>
      BY <2>6, <3>2
    <3> QED BY <2>4, <2>5, <2>6, <2>7, <3>1 DEF SameBut, MachineOK
  <2>9. SameBut(r.was, m', s)
    <3>1. <<>> \notin Slots
      BY DEF Slots
    <3> QED BY <2>2, <2>4, <3>1 DEF SameBut
  <2>10. pc' \in RefPlaces
    BY <1>3 DEF RefStart, Goto, RefPlaces
  <2>11. r'.was = r.was /\ pc' # "ref start"
    BY <2>2, <2>5, <2>10 DEF RefPlaces
  <2>12. SameBut(r'.was, m', MapSlot(r'.was, "stack"))
    BY <2>9, <2>11 DEF s
  <2> QED BY <2>2, <2>4, <2>5, <2>8, <2>10, <2>11, <2>12 DEF RefInv
<1>4. ASSUME pc \in RefPlaces, pc' \in RefPlaces, r'.was = r.was, r'.pme = r.pme, DOMAIN r' = DOMAIN r,
             SameBut(m, m', MapSlot(m, "stack")),
             pc' \in {"conclude", "done"} => getpgmap(m', "stack").bits = r.pme.bits
      PROVE  RefInv'
  <2>1. MachineOK(r.was) /\ SameBut(r.was, m, s) /\ EntryOK(r.pme) /\ r.pme.bits = getpgmap(r.was, "stack").bits
    BY <1>4 DEF RefInv
  <2>2. SameBut(r.was, m', s)
    BY <1>4, <2>1, RefGoesOn
  <2>3. MachineOK(m')
    BY <2>2 DEF SameBut
  <2>4. pc' # "ref start"
    BY <1>4 DEF RefPlaces
  <2> QED BY <1>1, <1>4, <2>1, <2>2, <2>3, <2>4 DEF RefInv
<1> HIDE DEF s
<1>5. CASE RefClear
  <2>1. PICK i \in Interrupted(setpgmap(m, "stack", RefAll)) :
          m' = i.m /\ r' = [r EXCEPT !.clr = getpgmap(i.m, "stack").st]
    BY <1>5 DEF RefClear
  <2>2. SameBut(m, m', MapSlot(m, "stack"))
    BY <1>1, <1>2, <2>1, RefCaseSame
  <2>3. DOMAIN r' = DOMAIN r /\ r'.was = r.was /\ r'.pme = r.pme
    BY <1>1, <2>1 DEF RefFields
  <2>4. pc = "1" /\ pc' = "2"
    BY <1>5 DEF RefClear, At, Goto
  <2> QED BY <1>4, <2>2, <2>3, <2>4 DEF RefPlaces
<1>6. CASE RefRead
  <2>1. PICK i \in Interrupted(RefArm(m)) :
          LET t == Try(i, "UD", "r", "stack")
          IN m' = Rearmed(t.m) /\ r' = [[r EXCEPT !.rd = getpgmap(t.m, "stack").st] EXCEPT !.rdf = t.fault]
    BY <1>6 DEF RefRead
  <2> DEFINE t == Try(i, "UD", "r", "stack")
             x == MapSlot(m, "stack")
  <2>2. SameBut(m, t.m, x)
    <3>1. SameBut(m, Rearmed(m), x)
      BY <1>1, RearmedSame
    <3>2. MachineOK(Rearmed(m))
      BY <3>1 DEF SameBut
    <3>3. SameBut(Rearmed(m), i.m, x)
      BY <2>1, <3>2, InterruptedSame DEF RefArm
    <3>4. MachineOK(i.m)
      BY <3>3 DEF SameBut
    <3>5. "stack" \in Pages
      BY DEF Pages
    <3>6. SameBut(i.m, t.m, x)
      BY <3>4, <3>5, TrySame
    <3> HIDE DEF t, x
    <3> QED BY <3>1, <3>3, <3>6, SameFurther
  <2>3. SameBut(m, m', x)
    <3> HIDE DEF x
    <3>1. MachineOK(t.m) /\ m' = Rearmed(t.m)
      BY <2>1, <2>2 DEF SameBut
    <3>2. SameBut(t.m, m', x)
      BY <3>1, RearmedSame
    <3> HIDE DEF t
    <3> QED BY <2>2, <3>2, SameFurther
  <2>4. DOMAIN r' = DOMAIN r /\ r'.was = r.was /\ r'.pme = r.pme
    BY <1>1, <2>1 DEF RefFields
  <2>5. pc = "2" /\ pc' = "3"
    BY <1>6 DEF RefRead, At, Goto
  <2> QED BY <1>4, <2>3, <2>4, <2>5 DEF RefPlaces
<1>7. CASE RefWrite
  <2>1. PICK i \in Interrupted(RefArm(setpgmap(m, "stack", RefAll))) :
          LET t == Try(i, "UD", "w", "stack")
          IN m' = t.m /\ r' = [[r EXCEPT !.wr = getpgmap(t.m, "stack").st] EXCEPT !.wrf = t.fault]
    BY <1>7 DEF RefWrite
  <2>2. SameBut(m, m', MapSlot(m, "stack"))
    BY <1>1, <1>2, <2>1, RefCaseSame DEF RefArm
  <2>3. DOMAIN r' = DOMAIN r /\ r'.was = r.was /\ r'.pme = r.pme
    BY <1>1, <2>1 DEF RefFields
  <2>4. pc = "3" /\ pc' = "4"
    BY <1>7 DEF RefWrite, At, Goto
  <2> QED BY <1>4, <2>2, <2>3, <2>4 DEF RefPlaces
<1>8. CASE RefDenied
  <2>1. PICK i \in Interrupted(RefArm(setpgmap(m, "stack", RefNone))) :
          LET t == Try(i, "UD", "r", "stack")
          IN /\ m' = setpgmap(t.m, "stack", r.pme)
             /\ r' = [[r EXCEPT !.den = getpgmap(t.m, "stack").st] EXCEPT !.denf = t.fault]
    BY <1>8 DEF RefDenied
  <2> DEFINE t == Try(i, "UD", "r", "stack")
  <2>2. SameBut(m, t.m, MapSlot(m, "stack"))
    BY <1>1, <1>2, <2>1, RefCaseSame DEF RefArm
  <2>3. pc = "4" /\ pc' = "conclude"
    BY <1>8 DEF RefDenied, At, Goto
  <2>4. EntryOK(r.pme)
    BY <2>3 DEF RefInv, RefPlaces
  <2>5. MachineOK(t.m)
    BY <2>2 DEF SameBut
  <2>6. m' = setpgmap(t.m, "stack", r.pme)
    BY <2>1
  <2>7. DOMAIN r' = DOMAIN r /\ r'.was = r.was /\ r'.pme = r.pme
    BY <1>1, <2>1 DEF RefFields
  <2> HIDE DEF t
  <2>8. /\ SameBut(t.m, m', MapSlot(t.m, "stack"))
        /\ getpgmap(m', "stack").bits = r.pme.bits
    BY <2>4, <2>5, <2>6, RefPutBack
  <2>9. SameBut(m, m', MapSlot(m, "stack"))
    BY <2>2, <2>8, RefGoesOn
  <2> QED BY <1>4, <2>3, <2>7, <2>8, <2>9 DEF RefPlaces
<1>9. CASE RefConclude
  <2>1. m' = m /\ r' = r /\ pc = "conclude" /\ pc' = "done"
    BY <1>9 DEF RefConclude, At, Goto
  <2>2. SameBut(m, m', MapSlot(m, "stack"))
    BY <1>1, <2>1, SameAsItself
  <2>3. getpgmap(m', "stack").bits = r.pme.bits
    BY <2>1 DEF RefInv
  <2> QED BY <1>4, <2>1, <2>2, <2>3 DEF RefPlaces
<1> QED BY <1>3, <1>5, <1>6, <1>7, <1>8, <1>9 DEF RefNext

-----------------------------------------------------------------------------
(* mmuprobe: the kernel's page, taken away twice.                          *)

\* From a to b page v, and its segment, have not been touched.
SameOn(a, b, v) ==
  /\ MachineOK(b) /\ b.faults = a.faults /\ b.sx = a.sx /\ b.ux = a.ux
  /\ \A k \in Contexts : b.smap[<<k, SegOf(v)>>] = a.smap[<<k, SegOf(v)>>]
  /\ \A p \in Pmegs : b.pmap[<<p, v>>] = a.pmap[<<p, v>>]

\* Untouched twice is untouched.
LEMMA SameOnFurther ==
  ASSUME NEW a, NEW b, NEW c, NEW v, SameOn(a, b, v), SameOn(b, c, v)
  PROVE  SameOn(a, c, v)
BY DEF SameOn

\* Replacing an entry of one page touches no other.
LEMMA ReplacedOn ==
  ASSUME NEW a, NEW b, NEW t \in Slots, NEW e, MachineOK(a), EntryOK(e), Replaced(a, b, t, e),
         NEW v, t[2] # v
  PROVE  SameOn(a, b, v)
<1>1. /\ MachineOK(b) /\ b.pmap = [a.pmap EXCEPT ![t] = e]
      /\ b.faults = a.faults /\ b.sx = a.sx /\ b.ux = a.ux /\ b.smap = a.smap
  BY EntryReplaced
<1>2. ASSUME NEW p \in Pmegs PROVE b.pmap[<<p, v>>] = a.pmap[<<p, v>>]
  <2>1. <<p, v>> # t
    OBVIOUS
  <2>2. [a.pmap EXCEPT ![t] = e][<<p, v>>] = a.pmap[<<p, v>>]
    BY <2>1
  <2> QED BY <1>1, <2>2
<1> QED BY <1>1, <1>2 DEF SameOn

\* Nor does an access to one page.
LEMMA AccessOn ==
  ASSUME NEW a, MachineOK(a), NEW fc, NEW rw, NEW va \in Pages, NEW v, va # v
  PROVE  SameOn(a, Access(a, fc, rw, va).m, v)
<1> DEFINE b == Access(a, fc, rw, va).m
<1>0. PICK t \in Slots : \E e : t[2] = va /\ EntryOK(e) /\ Replaced(a, b, t, e)
  BY AccessReplaces
<1>1. PICK e : t[2] = va /\ EntryOK(e) /\ Replaced(a, b, t, e)
  BY <1>0
<1> HIDE DEF b
<1>2. SameOn(a, b, v)
  BY <1>1, ReplacedOn
<1> QED BY <1>2 DEF b

\* Nor a write of its entry.
LEMMA SetPageOn ==
  ASSUME NEW a, MachineOK(a), NEW va \in Pages, NEW e, EntryOK(e), NEW v, va # v
  PROVE  SameOn(a, setpgmap(a, va, e), v)
<1> DEFINE b == setpgmap(a, va, e)
           t == MapSlot(a, va)
<1>1. t \in Slots /\ t[2] = va /\ \E x : EntryOK(x) /\ Replaced(a, b, t, x)
  BY SetPageReplaces
<1> HIDE DEF b, t
<1>2. SameOn(a, b, v)
  BY <1>1, ReplacedOn
<1> QED BY <1>2 DEF b

\* From a to b a segment has been set, in the context FC 3 uses and perhaps in
\* the other.
SegmentSet(a, b, seg, p) ==
  /\ MachineOK(b) /\ b.pmap = a.pmap
  /\ b.faults = a.faults /\ b.sx = a.sx /\ b.ux = a.ux
  /\ b.smap[<<MapContext(a), seg>>] = p
  /\ \A k \in Contexts :
       /\ b.smap[<<k, seg>>] \in {p, a.smap[<<k, seg>>]}
       /\ Has(a, "segall") => b.smap[<<k, seg>>] = p
       /\ ~Has(a, "segall") /\ k # MapContext(a) => b.smap[<<k, seg>>] = a.smap[<<k, seg>>]
  /\ \A k \in Contexts, g \in Segments : g # seg => b.smap[<<k, g>>] = a.smap[<<k, g>>]

\* That is what a write of the segment map does.
LEMMA SetSegment ==
  ASSUME NEW a, MachineOK(a), NEW va \in Pages, NEW p \in Pmegs
  PROVE  SegmentSet(a, setsegmap(a, va, p), SegOf(va), p)
<1> DEFINE hit == IF Has(a, "segall") THEN Contexts ELSE {MapContext(a)}
           f == [k \in Contexts \X Segments |-> IF k[1] \in hit /\ k[2] = SegOf(va) THEN p ELSE a.smap[k]]
           b == setsegmap(a, va, p)
<1>1. b = [a EXCEPT !.smap = f]
  BY DEF setsegmap, MachineOK
<1>2. DOMAIN a = MachineFields
  BY DEF MachineOK
<1>3. /\ DOMAIN b = MachineFields /\ b.smap = f /\ b.pmap = a.pmap
      /\ b.faults = a.faults /\ b.sx = a.sx /\ b.ux = a.ux
  <2> HIDE DEF f, b
  <2> QED BY <1>1, <1>2 DEF MachineFields
<1>4. MapContext(a) \in Contexts /\ SegOf(va) \in Segments
  BY DEF MapContext, MachineOK, SegOf, Pages, Segments
<1>5. /\ DOMAIN f = Contexts \X Segments /\ \A k \in Contexts \X Segments : f[k] \in Pmegs
      /\ f[<<MapContext(a), SegOf(va)>>] = p
      /\ \A k \in Contexts :
           /\ f[<<k, SegOf(va)>>] \in {p, a.smap[<<k, SegOf(va)>>]}
           /\ Has(a, "segall") => f[<<k, SegOf(va)>>] = p
           /\ ~Has(a, "segall") /\ k # MapContext(a) => f[<<k, SegOf(va)>>] = a.smap[<<k, SegOf(va)>>]
      /\ \A k \in Contexts, g \in Segments : g # SegOf(va) => f[<<k, g>>] = a.smap[<<k, g>>]
  BY <1>4 DEF MachineOK
<1> HIDE DEF b, f
<1>6. MachineOK(b)
  BY <1>3, <1>5 DEF MachineOK
<1>7. SegmentSet(a, b, SegOf(va), p)
  BY <1>3, <1>5, <1>6 DEF SegmentSet
<1> QED BY <1>7 DEF b

\* The rest of the maps stays as it was.
LEMMA FrameOfSegment ==
  ASSUME NEW w, NEW a, NEW b, NEW slots, NEW segs, FrameOf(w, a.smap, a.pmap, slots, segs),
         NEW seg, NEW p, SegmentSet(a, b, seg, p),
         \A k \in Contexts : <<k, seg>> \in segs \/ b.smap[<<k, seg>>] = a.smap[<<k, seg>>]
  PROVE  FrameOf(w, b.smap, b.pmap, slots, segs)
<1>1. \A t \in Slots \ slots : b.pmap[t].bits = w.pmap[t].bits
  BY DEF FrameOf, SegmentSet
<1>2. ASSUME NEW k \in (Contexts \X Segments) \ segs PROVE b.smap[k] = w.smap[k]
  <2>1. k = <<k[1], k[2]>> /\ k[1] \in Contexts /\ k[2] \in Segments
    OBVIOUS
  <2>2. a.smap[k] = w.smap[k]
    BY DEF FrameOf
  <2>3. b.smap[<<k[1], k[2]>>] = a.smap[<<k[1], k[2]>>]
    <3>1. CASE k[2] = seg
      BY <2>1, <3>1
    <3>2. CASE k[2] # seg
      BY <2>1, <3>2 DEF SegmentSet
    <3> QED BY <3>1, <3>2
  <2> QED BY <2>1, <2>2, <2>3
<1> QED BY <1>1, <1>2 DEF FrameOf

\* It touches no page of another segment.
LEMMA SetSegmentOn ==
  ASSUME NEW a, MachineOK(a), NEW va \in Pages, NEW p \in Pmegs, NEW v \in Pages, SegOf(va) # SegOf(v)
  PROVE  SameOn(a, setsegmap(a, va, p), v)
<1> DEFINE b == setsegmap(a, va, p)
<1>1. SegOf(v) \in Segments
  BY DEF SegOf, Pages, Segments
<1>2. SegmentSet(a, b, SegOf(va), p)
  BY SetSegment
<1> HIDE DEF b
<1>3. SameOn(a, b, v)
  BY <1>1, <1>2 DEF SameOn, SegmentSet
<1> QED BY <1>3 DEF b

\* A denied case, up to and with the write, touches its page and "low" only.
LEMMA MmuDenyOn ==
  ASSUME NEW a, MachineOK(a), NEW c \in DOMAIN MmuCase, NEW v \in Pages,
         SegOf(MmuCase[c].va) # SegOf(v), v # "low"
  PROVE  SameOn(a, MmuDeny(a, MmuCase[c]).m, v)
<1> DEFINE cc   == MmuCase[c]
           seg  == IF cc.inv THEN setsegmap(a, cc.va, SEGINV) ELSE a
           page == setpgmap(seg, cc.va, PME_DENY)
           set  == Rearmed(page)
           far  == IF cc.far THEN Access(set, "SD", "r", "low").m ELSE set
           t    == Access(far, cc.fc, "w", cc.va)
<1>1. cc.va \in Pages /\ SegOf(cc.va) # SegOf(v) /\ cc.va # v
  BY DEF MmuCase, Pages
<1>2. SEGINV \in Pmegs /\ EntryOK(PME_DENY) /\ "low" \in Pages
  BY DEF Pmegs, EntryOK, PME_DENY, Entry, Pages
<1>3. MmuDeny(a, cc) = t
  BY DEF MmuDeny
<1> HIDE DEF cc
<1>4. SameOn(a, seg, v)
  <2>1. SameOn(a, a, v)
    BY DEF SameOn
  <2>2. SameOn(a, setsegmap(a, cc.va, SEGINV), v)
    BY <1>1, <1>2, SetSegmentOn
  <2> QED BY <2>1, <2>2
<1> HIDE DEF seg
<1>5. SameOn(a, page, v)
  <2>1. MachineOK(seg)
    BY <1>4 DEF SameOn
  <2>2. SameOn(seg, page, v)
    BY <1>1, <1>2, <2>1, SetPageOn
  <2> HIDE DEF page
  <2> QED BY <1>4, <2>2, SameOnFurther
<1> HIDE DEF page
<1>6. SameOn(a, set, v)
  BY <1>5 DEF SameOn, Rearmed, MachineOK, MachineFields
<1> HIDE DEF set
<1>7. SameOn(a, far, v)
  <2>1. MachineOK(set)
    BY <1>6 DEF SameOn
  <2>2. SameOn(set, Access(set, "SD", "r", "low").m, v)
    BY <1>2, <2>1, AccessOn
  <2>3. SameOn(a, Access(set, "SD", "r", "low").m, v)
    BY <1>6, <2>2, SameOnFurther
  <2> QED BY <1>6, <2>3
<1> HIDE DEF far
<1>8. SameOn(a, t.m, v)
  <2>1. MachineOK(far)
    BY <1>7 DEF SameOn
  <2>2. SameOn(far, t.m, v)
    BY <1>1, <2>1, AccessOn
  <2> HIDE DEF t
  <2> QED BY <1>7, <2>2, SameOnFurther
<1> QED BY <1>3, <1>8 DEF cc

\* A segment and an entry put back are what they were, in the one context
\* mmuprobe uses.
LEMMA KernBack ==
  ASSUME NEW a, MachineOK(a), a.faults \subseteq MmuFaults, a.ux = 0,
         NEW seg \in Pmegs, NEW pme, EntryOK(pme)
  PROVE  LET b == setpgmap(setsegmap(a, "kern", seg), "kern", pme)
         IN /\ MachineOK(b) /\ b.faults = a.faults /\ b.sx = a.sx /\ b.ux = a.ux
            /\ b.smap[<<0, "kern">>] = seg /\ b.pmap[<<seg, "kern">>] = pme
<1> DEFINE c == setsegmap(a, "kern", seg)
           b == setpgmap(c, "kern", pme)
           t == MapSlot(c, "kern")
<1>1. "kern" \in Pages /\ SegOf("kern") = "kern"
  BY DEF Pages, SegOf
<1>2. /\ ~Has(a, "fc3sup") /\ ~Has(a, "fc3nostat") /\ MapContext(a) = 0
  BY DEF MmuFaults, Has, MapContext
<1>9. SegmentSet(a, c, "kern", seg)
  BY <1>1, SetSegment
<1> HIDE DEF c
<1>3. /\ MachineOK(c) /\ c.pmap = a.pmap /\ c.faults = a.faults /\ c.sx = a.sx /\ c.ux = a.ux
      /\ c.smap[<<MapContext(a), "kern">>] = seg
  BY <1>9 DEF SegmentSet
<1>4. ~Has(c, "fc3nostat") /\ MapContext(c) = 0 /\ c.smap[<<0, "kern">>] = seg
  BY <1>2, <1>3 DEF Has, MapContext
<1>5. t = <<seg, "kern">>
  BY <1>1, <1>4 DEF MapSlot, Slot
<1>6. t \in Slots /\ Replaced(c, b, t, pme)
  BY <1>1, <1>3, <1>4, SetPageReplaces
<1> HIDE DEF b, t
<1>7. /\ MachineOK(b) /\ b.pmap = [c.pmap EXCEPT ![t] = pme]
      /\ b.faults = c.faults /\ b.sx = c.sx /\ b.ux = c.ux /\ b.smap = c.smap
  BY <1>3, <1>6, EntryReplaced
<1>8. b.pmap[t] = pme
  BY <1>3, <1>6, <1>7 DEF MachineOK
<1> QED BY <1>3, <1>4, <1>5, <1>7, <1>8 DEF b, c

\* The kernel's page as FC 3 sees it on mmuprobe's machine.
MmuMachine(a) == MachineOK(a) /\ a.faults \subseteq MmuFaults /\ a.sx = 0 /\ a.ux = 0
KernSeg(a)    == a.smap[<<0, "kern">>]
KernPme(a)    == a.pmap[<<KernSeg(a), "kern">>]

\* That is what the block reads.
LEMMA KernRead ==
  ASSUME NEW a, MmuMachine(a)
  PROVE  /\ getsegmap(a, "kern") = KernSeg(a) /\ getpgmap(a, "kern") = KernPme(a)
         /\ KernSeg(a) \in Pmegs /\ EntryOK(KernPme(a))
<1>1. MapContext(a) = 0 /\ SegOf("kern") = "kern"
  BY DEF MmuMachine, MmuFaults, Has, MapContext, SegOf
<1>2. KernSeg(a) \in Pmegs
  <2>1. <<0, "kern">> \in Contexts \X Segments
    BY DEF Contexts, Segments
  <2> QED BY <2>1 DEF MmuMachine, MachineOK, KernSeg
<1>3. EntryOK(KernPme(a))
  <2>1. <<KernSeg(a), "kern">> \in Slots
    BY <1>2 DEF Slots, Pages
  <2> QED BY <2>1 DEF MmuMachine, MachineOK, KernPme
<1> QED BY <1>1, <1>2, <1>3 DEF getsegmap, getpgmap, Slot, KernSeg, KernPme

\* What mmuprobe ever writes: the entries it leaves and the kernel's own, two
\* segments of context 0.
MmuEntries(w) == {<<"probe", "probe">>, <<SEGINV, "probe">>, <<SEGINV, "kern">>, <<KernSeg(w), "kern">>}
MmuSegments   == {<<0, "probe">>, <<0, "kern">>}
MmuFrame(w, a) ==
  /\ FrameOf(w, a.smap, a.pmap, MmuEntries(w), MmuSegments)
  /\ a.smap[<<0, "probe">>] \in {"probe", SEGINV}

\* A step that writes one of those entries, or none.
LEMMA MmuFrameSame ==
  ASSUME NEW w, NEW a, MmuMachine(a), MmuFrame(w, a), NEW b, NEW s, SameBut(a, b, s),
         s \in MmuEntries(w) \/ s \notin Slots
  PROVE  MmuMachine(b) /\ MmuFrame(w, b)
<1>1. FrameOf(w, b.smap, b.pmap, MmuEntries(w), MmuSegments)
  BY FrameKept DEF MmuFrame
<1> QED BY <1>1 DEF MmuFrame, MmuMachine, SameBut

\* The register armed again, and an access to any page, write none.
LEMMA MmuFrameAccess ==
  ASSUME NEW w, NEW a, MmuMachine(a), MmuFrame(w, a), NEW fc, NEW rw, NEW va \in Pages
  PROVE  /\ MmuMachine(Rearmed(a)) /\ MmuFrame(w, Rearmed(a))
         /\ MmuMachine(Access(a, fc, rw, va).m) /\ MmuFrame(w, Access(a, fc, rw, va).m)
<1>1. MachineOK(a) /\ <<>> \notin Slots
  BY DEF MmuMachine, Slots
<1>2. SameBut(a, Rearmed(a), <<>>) /\ SameBut(a, Access(a, fc, rw, va).m, <<>>)
  BY <1>1, RearmedSame, AccessSame
<1> QED BY <1>1, <1>2, MmuFrameSame

\* A write of a page's entry, where FC 3 reaches one of those.
LEMMA MmuFramePage ==
  ASSUME NEW w, NEW a, MmuMachine(a), MmuFrame(w, a), NEW va \in {"probe", "kern"},
         va = "kern" => KernSeg(a) \in {SEGINV, KernSeg(w)}, NEW e, EntryOK(e)
  PROVE  /\ MmuMachine(setpgmap(a, va, e)) /\ MmuFrame(w, setpgmap(a, va, e))
         /\ setpgmap(a, va, e).smap = a.smap
<1>1. MapContext(a) = 0 /\ SegOf(va) = va /\ va \in Pages
  BY DEF MmuMachine, MmuFaults, Has, MapContext, SegOf, Pages
<1>2. MapSlot(a, va) = <<a.smap[<<0, va>>], va>>
  BY <1>1 DEF MapSlot, Slot
<1>3. MapSlot(a, va) \in MmuEntries(w)
  BY <1>2 DEF MmuFrame, MmuEntries, KernSeg
<1>4. SameBut(a, setpgmap(a, va, e), MapSlot(a, va))
  BY <1>1, SetPageSame DEF MmuMachine
<1>5. setpgmap(a, va, e).smap = a.smap
  BY <1>4 DEF SameBut
<1> QED BY <1>3, <1>4, <1>5, MmuFrameSame

\* A write of one of the two segments.
LEMMA MmuFrameSegment ==
  ASSUME NEW w, NEW a, MmuMachine(a), MmuFrame(w, a), NEW va \in {"probe", "kern"},
         NEW p \in Pmegs, va = "probe" => p = SEGINV
  PROVE  LET b == setsegmap(a, va, p)
         IN MmuMachine(b) /\ MmuFrame(w, b) /\ b.smap[<<0, va>>] = p
<1> DEFINE b == setsegmap(a, va, p)
<1>1. MapContext(a) = 0 /\ SegOf(va) = va /\ va \in Pages /\ ~Has(a, "segall")
  BY DEF MmuMachine, MmuFaults, Has, MapContext, SegOf, Pages
<1>2. SegmentSet(a, b, va, p)
  BY <1>1, SetSegment DEF MmuMachine
<1> HIDE DEF b
<1>3. b.smap[<<0, va>>] = p /\ MmuMachine(b)
  BY <1>1, <1>2 DEF SegmentSet, MmuMachine
<1>4. \A k \in Contexts : <<k, va>> \in MmuSegments \/ b.smap[<<k, va>>] = a.smap[<<k, va>>]
  BY <1>1, <1>2 DEF SegmentSet, MmuSegments, Contexts
<1>5. FrameOf(w, b.smap, b.pmap, MmuEntries(w), MmuSegments)
  BY <1>2, <1>4, FrameOfSegment DEF MmuFrame
<1>6. b.smap[<<0, "probe">>] \in {"probe", SEGINV}
  <2>1. CASE va = "probe"
    BY <1>3, <2>1
  <2>2. CASE va = "kern"
    <3>1. b.smap[<<0, "probe">>] = a.smap[<<0, "probe">>]
      BY <1>2, <2>2 DEF SegmentSet, Contexts, Segments
    <3> QED BY <3>1 DEF MmuFrame
  <2> QED BY <2>1, <2>2
<1>7. MmuMachine(b) /\ MmuFrame(w, b) /\ b.smap[<<0, va>>] = p
  BY <1>3, <1>5, <1>6 DEF MmuFrame
<1> QED BY <1>7 DEF b

\* A denied case, up to and with the write.
LEMMA MmuDenyFrame ==
  ASSUME NEW w, NEW a, MmuMachine(a), MmuFrame(w, a), NEW c \in DOMAIN MmuCase
  PROVE  LET b == Rearmed(MmuDeny(a, MmuCase[c]).m) IN MmuMachine(b) /\ MmuFrame(w, b)
<1> DEFINE cc   == MmuCase[c]
           seg  == IF cc.inv THEN setsegmap(a, cc.va, SEGINV) ELSE a
           page == setpgmap(seg, cc.va, PME_DENY)
           set  == Rearmed(page)
           far  == IF cc.far THEN Access(set, "SD", "r", "low").m ELSE set
           t    == Access(far, cc.fc, "w", cc.va)
           b    == Rearmed(t.m)
<1>1. cc.va \in {"probe", "kern"} /\ (cc.va = "kern" => cc.inv)
  BY DEF MmuCase
<1>2. SEGINV \in Pmegs /\ EntryOK(PME_DENY) /\ "low" \in Pages /\ cc.va \in Pages
  BY <1>1 DEF Pmegs, EntryOK, PME_DENY, Entry, Pages
<1>3. Rearmed(MmuDeny(a, cc).m) = b
  BY DEF MmuDeny
<1> HIDE DEF cc
<1>4. MmuMachine(seg) /\ MmuFrame(w, seg) /\ (cc.va = "kern" => KernSeg(seg) = SEGINV)
  <2>1. CASE ~cc.inv
    BY <1>1, <2>1
  <2>2. CASE cc.inv
    BY <1>1, <1>2, <2>2, MmuFrameSegment DEF KernSeg
  <2> QED BY <2>1, <2>2
<1> HIDE DEF seg
<1>5. MmuMachine(page) /\ MmuFrame(w, page)
  BY <1>1, <1>2, <1>4, MmuFramePage
<1> HIDE DEF page
<1>6. MmuMachine(set) /\ MmuFrame(w, set)
  BY <1>2, <1>5, MmuFrameAccess
<1> HIDE DEF set
<1>7. MmuMachine(far) /\ MmuFrame(w, far)
  BY <1>2, <1>6, MmuFrameAccess
<1> HIDE DEF far
<1>8. MmuMachine(t.m) /\ MmuFrame(w, t.m)
  BY <1>2, <1>7, MmuFrameAccess
<1> HIDE DEF t
<1>9. MmuMachine(b) /\ MmuFrame(w, b)
  BY <1>2, <1>8, MmuFrameAccess
<1> HIDE DEF b
<1> QED BY <1>3, <1>9 DEF cc

\* The kernel's segment and entry are as at the start between the cases, what
\* F saved of them is what they were, and nothing else that is not left as the
\* cases set it has changed.
MmuInv ==
  prog = "mmuprobe" =>
    /\ MmuMachine(m) /\ MmuMachine(r.was) /\ DOMAIN r = {"was", "seg", "pme"}
    /\ KernSeg(m) = KernSeg(r.was) /\ KernPme(m) = KernPme(r.was)
    /\ pc = "MG" => r.seg = KernSeg(r.was) /\ r.pme = KernPme(r.was)
    /\ MmuFrame(r.was, m)

\* Every case of mmuprobe.
LEMMA MmuKeepsInv == MmuInv /\ prog = "mmuprobe" /\ prog' = prog /\ MmuNext => MmuInv'
<1> SUFFICES ASSUME MmuInv, prog = "mmuprobe", prog' = prog, MmuNext
             PROVE  MmuInv'
  OBVIOUS
<1>1. /\ MmuMachine(m) /\ MmuMachine(r.was) /\ DOMAIN r = {"was", "seg", "pme"}
      /\ KernSeg(m) = KernSeg(r.was) /\ KernPme(m) = KernPme(r.was) /\ MmuFrame(r.was, m)
  BY DEF MmuInv
<1>2. MachineOK(m) /\ "kern" \in Pages /\ "probe" \in Pages /\ "low" \in Pages /\ SegOf("kern") = "kern"
  BY <1>1 DEF MmuMachine, Pages, SegOf
<1>3. ASSUME NEW a, SameOn(m, a, "kern")
      PROVE  MmuMachine(a) /\ KernSeg(a) = KernSeg(r.was) /\ KernPme(a) = KernPme(r.was)
  <2>1. KernSeg(m) \in Pmegs
    BY <1>1, KernRead
  <2>2. KernSeg(a) = KernSeg(m)
    BY <1>2, <1>3 DEF SameOn, KernSeg, Contexts
  <2>3. KernPme(a) = KernPme(m)
    BY <1>3, <2>1, <2>2 DEF SameOn, KernPme
  <2> QED BY <1>1, <1>3, <2>2, <2>3 DEF SameOn, MmuMachine
<1>4. CASE MmuControl
  <2> DEFINE page == setpgmap(m, "probe", PME_ALLOW)
             set  == Rearmed(page)
             t    == Access(set, "SD", "r", "probe")
  <2>1. m' = Rearmed(t.m) /\ r' = r /\ pc' = "MD"
    BY <1>4 DEF MmuControl, Goto
  <2>2. SameOn(m, page, "kern")
    <3>1. EntryOK(PME_ALLOW)
      BY DEF EntryOK, PME_ALLOW, Entry
    <3> QED BY <1>2, <3>1, SetPageOn
  <2> HIDE DEF page
  <2>3. SameOn(m, set, "kern")
    BY <2>2 DEF SameOn, Rearmed, MachineOK, MachineFields
  <2> HIDE DEF set
  <2>4. SameOn(m, t.m, "kern")
    <3>1. MachineOK(set)
      BY <2>3 DEF SameOn
    <3>2. SameOn(set, t.m, "kern")
      BY <1>2, <3>1, AccessOn
    <3> HIDE DEF t
    <3> QED BY <2>3, <3>2, SameOnFurther
  <2>5. SameOn(m, m', "kern")
    <3> HIDE DEF t
    <3> QED BY <2>1, <2>4 DEF SameOn, Rearmed, MachineOK, MachineFields
  <2>6. MmuMachine(m') /\ KernSeg(m') = KernSeg(r.was) /\ KernPme(m') = KernPme(r.was)
    BY <1>3, <2>5
  <2>7. MmuFrame(r.was, m')
    <3>1. EntryOK(PME_ALLOW)
      BY DEF EntryOK, PME_ALLOW, Entry
    <3>2. MmuMachine(page) /\ MmuFrame(r.was, page)
      BY <1>1, <3>1, MmuFramePage DEF page
    <3>3. MmuMachine(set) /\ MmuFrame(r.was, set)
      BY <1>2, <3>2, MmuFrameAccess DEF set
    <3>4. MmuMachine(t.m) /\ MmuFrame(r.was, t.m)
      BY <1>2, <3>3, MmuFrameAccess
    <3> HIDE DEF t
    <3> QED BY <1>2, <2>1, <3>4, MmuFrameAccess
  <2> QED BY <1>1, <2>1, <2>6, <2>7 DEF MmuInv, KernSeg, KernPme
<1>5. CASE MmuDenied
  <2>1. PICK c \in DOMAIN MmuCase :
          /\ pc = c /\ pc' = MmuCase[c].next
          /\ LET t == MmuDeny(m, MmuCase[c])
             IN /\ r' = IF c = "MF" THEN [[r EXCEPT !.seg = getsegmap(m, "kern")]
                                             EXCEPT !.pme = getpgmap(m, "kern")] ELSE r
                /\ m' = MmuRestore(Rearmed(t.m), MmuCase[c].va, r'.seg, r'.pme)
    BY <1>5 DEF MmuDenied, At, Goto
  <2> DEFINE va == MmuCase[c].va
             t  == MmuDeny(m, MmuCase[c])
             b  == Rearmed(t.m)
  <2>2. DOMAIN r' = {"was", "seg", "pme"} /\ r'.was = r.was
    BY <1>1, <2>1
  <2>6. MmuMachine(b) /\ MmuFrame(r.was, b)
    BY <1>1, MmuDenyFrame
  <2>3. CASE va = "probe"
    <3>1. SameOn(m, t.m, "kern")
      <4>1. SegOf(va) # SegOf("kern")
        BY <2>3 DEF SegOf
      <4> QED BY <1>2, <4>1, MmuDenyOn
    <3>2. m' = b
      BY <2>1, <2>3 DEF MmuRestore
    <3>3. SameOn(m, m', "kern")
      <4> HIDE DEF t
      <4> QED BY <3>1, <3>2 DEF SameOn, Rearmed, MachineOK, MachineFields
    <3>4. MmuMachine(m') /\ KernSeg(m') = KernSeg(r.was) /\ KernPme(m') = KernPme(r.was)
      BY <1>3, <3>3
    <3>5. pc' # "MG"
      BY <2>1, <2>3 DEF MmuCase
    <3>6. MmuFrame(r.was, m')
      <4> HIDE DEF b
      <4> QED BY <2>6, <3>2
    <3> QED BY <1>1, <2>2, <3>4, <3>5, <3>6 DEF MmuInv, KernSeg, KernPme
  <2>4. CASE va = "kern"
    <3>1. SameOn(m, t.m, "user")
      <4>1. SegOf(va) # SegOf("user") /\ "user" \in Pages
        BY <2>4 DEF SegOf, Pages
      <4> QED BY <1>2, <4>1, MmuDenyOn
    <3>2. MachineOK(b) /\ b.faults = m.faults /\ b.sx = m.sx /\ b.ux = m.ux
      <4> HIDE DEF t
      <4> QED BY <3>1 DEF SameOn, Rearmed, MachineOK, MachineFields
    <3>3. m' = setpgmap(setsegmap(b, "kern", r'.seg), "kern", r'.pme)
      BY <2>1, <2>4 DEF MmuRestore
    <3>4. r'.seg = KernSeg(r.was) /\ r'.pme = KernPme(r.was)
      <4>1. CASE c = "MF"
        <5>1. r'.seg = getsegmap(m, "kern") /\ r'.pme = getpgmap(m, "kern")
          BY <1>1, <2>1, <4>1
        <5> QED BY <1>1, <5>1, KernRead
      <4>2. CASE c # "MF"
        <5>1. c = "MG" /\ r' = r
          BY <2>1, <2>4, <4>2 DEF MmuCase
        <5> QED BY <2>1, <5>1 DEF MmuInv
      <4> QED BY <4>1, <4>2
    <3>5. KernSeg(r.was) \in Pmegs /\ EntryOK(KernPme(r.was))
      BY <1>1, KernRead
    <3>6. b.faults \subseteq MmuFaults /\ b.sx = 0 /\ b.ux = 0
      BY <1>1, <3>2 DEF MmuMachine
    <3> HIDE DEF b
    <3>7. /\ MachineOK(m') /\ (m').faults = b.faults /\ (m').sx = b.sx /\ (m').ux = b.ux
          /\ (m').smap[<<0, "kern">>] = KernSeg(r.was)
          /\ (m').pmap[<<KernSeg(r.was), "kern">>] = KernPme(r.was)
      BY <3>2, <3>3, <3>4, <3>5, <3>6, KernBack
    <3>8. MmuMachine(m') /\ KernSeg(m') = KernSeg(r.was) /\ KernPme(m') = KernPme(r.was)
      BY <3>6, <3>7 DEF MmuMachine, KernSeg, KernPme
    <3>9. MmuFrame(r.was, m')
      <4> DEFINE d == setsegmap(b, "kern", KernSeg(r.was))
      <4>1. MmuMachine(d) /\ MmuFrame(r.was, d) /\ d.smap[<<0, "kern">>] = KernSeg(r.was)
        <5>1. MmuMachine(b) /\ MmuFrame(r.was, b) /\ "kern" \in {"probe", "kern"}
          BY <2>6
        <5> HIDE DEF t, va
        <5> QED BY <3>5, <5>1, MmuFrameSegment
      <4>2. m' = setpgmap(d, "kern", KernPme(r.was))
        BY <3>3, <3>4
      <4> HIDE DEF d
      <4> QED BY <3>5, <4>1, <4>2, MmuFramePage DEF KernSeg
    <3> QED BY <1>1, <2>2, <3>4, <3>8, <3>9 DEF MmuInv, KernSeg, KernPme
  <2>5. va \in {"probe", "kern"}
    BY DEF MmuCase
  <2> QED BY <2>3, <2>4, <2>5
<1> QED BY <1>4, <1>5 DEF MmuNext

-----------------------------------------------------------------------------
(* ctxprobe: two contexts, two pages, and where it stops.                  *)

\* The two pages the cases work on, and their segment in either context.
CtxVas      == {"user", "stack"}
CtxEntries  == {<<"user", "user">>, <<"user", "stack">>}
CtxSegments == {<<0, "user">>, <<1, "user">>}

\* Seen from machine w it was loaded on: the rest of the maps as it was, the
\* permissions of the two pages too, and context 0's user segment in place; at
\* rest, context 1's as well and both context registers 0.
CtxBits(w, a) == \A va \in CtxVas : a.pmap[<<"user", va>>].bits = w.pmap[<<"user", va>>].bits
CtxFrame(w, sm, pm) == FrameOf(w, sm, pm, CtxEntries, CtxSegments)
CtxMapped(w, a) ==
  MachineOK(a) /\ a.smap[<<0, "user">>] = "user" /\ CtxBits(w, a) /\ CtxFrame(w, a.smap, a.pmap)
CtxRest(w, a) == CtxMapped(w, a) /\ a.smap[<<1, "user">>] = "user" /\ a.sx = 0 /\ a.ux = 0
CtxWas(w) == \A k \in Contexts : w.smap[<<k, "user">>] = "user"
CtxSaved ==
  /\ DOMAIN r = {"was", "user", "stack", "seg"} /\ r.seg = "user" /\ CtxWas(r.was)
  /\ EntryOK(r.user) /\ r.user.bits = r.was.pmap[<<"user", "user">>].bits
  /\ EntryOK(r.stack)
StackSaved == r.stack.bits = r.was.pmap[<<"user", "stack">>].bits

\* Between the cases everything is in place, but for the user context between
\* B and C; and from C on what will be put back of the stack's page is what it had.
CtxInv ==
  prog = "ctxprobe" =>
    /\ CtxSaved
    /\ pc = "C" => /\ CtxMapped(r.was, m) /\ m.sx = 0 /\ m.ux = 1
                   /\ ~Has(m, "bothctx") /\ ~Has(m, "fc3sup")
    /\ pc \notin {"C", "lost"} => CtxRest(r.was, m)
    /\ pc \in {"G", "F", "H", "E"} => StackSaved

\* The slots of the two pages.
LEMMA CtxSlots ==
  /\ <<"user", "user">> \in Slots /\ <<"user", "stack">> \in Slots
  /\ CtxVas \subseteq Pages /\ \A va \in CtxVas : SegOf(va) = "user"
  /\ "user" \in Pmegs
BY DEF Slots, Pmegs, Segments, Pages, CtxVas, SegOf

\* With the user segment in place FC 3 reaches the slot of the page.
LEMMA CtxMapSlot ==
  ASSUME NEW a, NEW va \in CtxVas, a.smap[<<MapContext(a), "user">>] = "user"
  PROVE  MapSlot(a, va) = <<"user", va>>
<1>1. SegOf(va) = "user"
  BY CtxSlots
<1> QED BY <1>1 DEF MapSlot, Slot

\* A case that denies a page, for whatever comes in between, and puts its entry
\* back, leaves the pages as they were.
LEMMA CtxPutBack ==
  ASSUME NEW a, CtxBits(r.was, a), CtxFrame(r.was, a.smap, a.pmap),
         NEW va \in CtxVas, a.smap[<<MapContext(a), "user">>] = "user",
         NEW b, SameBut(a, b, MapSlot(a, va)), NEW e, EntryOK(e),
         e.bits = r.was.pmap[<<"user", va>>].bits
  PROVE  LET c == setpgmap(b, va, e)
         IN /\ MachineOK(c) /\ CtxBits(r.was, c) /\ CtxFrame(r.was, c.smap, c.pmap)
            /\ c.faults = a.faults /\ c.sx = a.sx /\ c.ux = a.ux /\ c.smap = a.smap
<1> DEFINE c == setpgmap(b, va, e)
           s == <<"user", va>>
<1>1. MapSlot(a, va) = s
  BY CtxMapSlot
<1> HIDE DEF s
<1>2. SameBut(a, b, s) /\ MachineOK(b)
  BY <1>1 DEF SameBut
<1>3. MapSlot(b, va) = s
  BY <1>1, <1>2, SameMapSlot
<1>4. va \in Pages
  BY CtxSlots
<1>5. SameBut(b, c, s) /\ c.pmap[s].bits = e.bits
  BY <1>2, <1>3, <1>4, SetPageSame
<1> HIDE DEF c
<1>6. SameBut(a, c, s)
  BY <1>2, <1>5, SameFurther
<1>7. \A t \in Slots : t # s => c.pmap[t].bits = a.pmap[t].bits
  BY <1>6 DEF SameBut
<1>8. CtxBits(r.was, c)
  <2> SUFFICES ASSUME NEW v \in CtxVas
               PROVE  c.pmap[<<"user", v>>].bits = r.was.pmap[<<"user", v>>].bits
    BY DEF CtxBits
  <2>1. <<"user", v>> \in Slots /\ s = <<"user", va>>
    BY CtxSlots DEF CtxVas, s
  <2>2. CASE v = va
    BY <1>5, <2>1, <2>2
  <2>3. CASE v # va
    <3>1. <<"user", v>> # s
      BY <2>1, <2>3
    <3>2. c.pmap[<<"user", v>>].bits = a.pmap[<<"user", v>>].bits
      BY <1>7, <2>1, <3>1
    <3> QED BY <3>2 DEF CtxBits
  <2> QED BY <2>2, <2>3
<1>9. CtxFrame(r.was, c.smap, c.pmap)
  <2>1. s \in CtxEntries
    BY DEF s, CtxVas, CtxEntries
  <2> QED BY <1>6, <2>1, FrameKept DEF CtxFrame
<1> QED BY <1>6, <1>8, <1>9 DEF SameBut, c

\* What touches no slot keeps all that.
LEMMA CtxSame ==
  ASSUME NEW a, CtxMapped(r.was, a), NEW b, SameBut(a, b, <<>>)
  PROVE  /\ CtxMapped(r.was, b)
         /\ CtxRest(r.was, a) => CtxRest(r.was, b)
<1>1. <<>> \notin Slots
  BY DEF Slots
<1>2. CtxFrame(r.was, b.smap, b.pmap)
  BY <1>1, FrameKept DEF CtxMapped, CtxFrame
<1>3. CtxBits(r.was, b)
  <2> SUFFICES ASSUME NEW v \in CtxVas
               PROVE  b.pmap[<<"user", v>>].bits = r.was.pmap[<<"user", v>>].bits
    BY DEF CtxBits
  <2>1. <<"user", v>> \in Slots
    BY CtxSlots DEF CtxVas
  <2>2. b.pmap[<<"user", v>>].bits = a.pmap[<<"user", v>>].bits
    BY <1>1, <2>1 DEF SameBut
  <2> QED BY <2>2 DEF CtxMapped, CtxBits
<1> QED BY <1>2, <1>3 DEF CtxMapped, CtxRest, SameBut

\* The page denied, and a store of the driver's before the access.
LEMMA CtxDenySame ==
  ASSUME NEW a, MachineOK(a), NEW va \in Pages, NEW e, EntryOK(e),
         NEW i \in Interrupted(setpgmap(a, va, e))
  PROVE  SameBut(a, i.m, MapSlot(a, va))
<1> DEFINE b == setpgmap(a, va, e)
           s == MapSlot(a, va)
<1>1. SameBut(a, b, s)
  BY SetPageSame
<1> HIDE DEF s
<1>2. SameBut(b, i.m, s)
  <2>1. MachineOK(b)
    BY <1>1 DEF SameBut
  <2> QED BY <2>1, InterruptedSame
<1> HIDE DEF b
<1>3. SameBut(a, i.m, s)
  BY <1>1, <1>2, SameFurther
<1> QED BY <1>3 DEF s

\* The user program's fetch and its store.
LEMMA CtxGoUserSame ==
  ASSUME NEW i, MachineOK(i.m), NEW s
  PROVE  SameBut(i.m, CtxGoUser(i).m, s)
<1> DEFINE f == Try(i, "UP", "r", "user")
<1>1. "user" \in Pages
  BY DEF Pages
<1>2. SameBut(i.m, f.m, s)
  BY <1>1, TrySame
<1> HIDE DEF f
<1>3. SameBut(f.m, Access(f.m, "UD", "w", "user").m, s)
  <2>1. MachineOK(f.m)
    BY <1>2 DEF SameBut
  <2> QED BY <1>1, <2>1, AccessSame
<1>4. SameBut(i.m, Access(f.m, "UD", "w", "user").m, s)
  BY <1>2, <1>3, SameFurther
<1>5. CtxGoUser(i) = IF f.fault THEN f ELSE Access(f.m, "UD", "w", "user")
  BY DEF CtxGoUser, f
<1> QED BY <1>2, <1>4, <1>5

\* The context registers written: the user one, and where they are one, both.
LEMMA SetContext ==
  ASSUME NEW a, MachineOK(a), NEW c \in Contexts
  PROVE  LET b == setusercontext(a, c)
         IN /\ MachineOK(b) /\ b.faults = a.faults /\ b.smap = a.smap /\ b.pmap = a.pmap
            /\ b.ux = c /\ b.sx = IF Has(a, "bothctx") THEN c ELSE a.sx
<1> DEFINE b == setusercontext(a, c)
<1>1. DOMAIN a = MachineFields
  BY DEF MachineOK
<1>2. b = [[a EXCEPT !.ux = c] EXCEPT !.sx = IF Has(a, "bothctx") THEN c ELSE a.sx]
  BY <1>1 DEF setusercontext, MachineFields
<1>3. /\ DOMAIN b = MachineFields /\ b.faults = a.faults /\ b.smap = a.smap /\ b.pmap = a.pmap
      /\ b.ux = c /\ b.sx = IF Has(a, "bothctx") THEN c ELSE a.sx
  <2> HIDE DEF b
  <2> QED BY <1>1, <1>2 DEF MachineFields
<1> HIDE DEF b
<1>4. MachineOK(b)
  BY <1>3 DEF MachineOK
<1> QED BY <1>3, <1>4 DEF b

\* The register armed again.
LEMMA RearmedRest ==
  ASSUME NEW a, MachineOK(a)
  PROVE  LET b == Rearmed(a)
         IN /\ MachineOK(b) /\ b.faults = a.faults /\ b.smap = a.smap /\ b.pmap = a.pmap
            /\ b.sx = a.sx /\ b.ux = a.ux
BY DEF Rearmed, MachineOK, MachineFields

\* At rest FC 3 goes through context 0.
LEMMA RestMap ==
  ASSUME NEW a, CtxRest(r.was, a)
  PROVE  /\ MachineOK(a) /\ CtxBits(r.was, a) /\ MapContext(a) = 0 /\ a.smap[<<MapContext(a), "user">>] = "user"
         /\ getsegmap(a, "user") = "user"
         /\ \A va \in CtxVas : getpgmap(a, va) = a.pmap[<<"user", va>>] /\ EntryOK(a.pmap[<<"user", va>>])
<1>1. MachineOK(a) /\ CtxBits(r.was, a) /\ MapContext(a) = 0 /\ a.smap[<<MapContext(a), "user">>] = "user"
  BY DEF CtxRest, CtxMapped, MapContext
<1>2. getsegmap(a, "user") = "user"
  BY <1>1 DEF getsegmap, SegOf
<1>3. ASSUME NEW va \in CtxVas
      PROVE  getpgmap(a, va) = a.pmap[<<"user", va>>] /\ EntryOK(a.pmap[<<"user", va>>])
  <2>1. MapSlot(a, va) = <<"user", va>>
    BY <1>1, CtxMapSlot
  <2>2. <<"user", va>> \in Slots
    BY CtxSlots DEF CtxVas
  <2> QED BY <1>1, <2>1, <2>2 DEF getpgmap, MapSlot, MachineOK
<1> QED BY <1>1, <1>2, <1>3

\* What is the same but for a page's slot, at rest, with the page put back, is
\* at rest.
LEMMA RestPutBack ==
  ASSUME NEW a, CtxRest(r.was, a), NEW va \in CtxVas, NEW b, SameBut(a, b, MapSlot(a, va)),
         NEW e, EntryOK(e), e.bits = r.was.pmap[<<"user", va>>].bits
  PROVE  CtxRest(r.was, setpgmap(b, va, e))
<1> DEFINE c == setpgmap(b, va, e)
<1>1. CtxBits(r.was, a) /\ a.smap[<<MapContext(a), "user">>] = "user" /\ CtxFrame(r.was, a.smap, a.pmap)
  BY RestMap DEF CtxRest, CtxMapped
<1>2. /\ MachineOK(c) /\ CtxBits(r.was, c) /\ CtxFrame(r.was, c.smap, c.pmap)
      /\ c.faults = a.faults /\ c.sx = a.sx /\ c.ux = a.ux /\ c.smap = a.smap
  BY <1>1, CtxPutBack
<1> HIDE DEF c
<1>3. CtxRest(r.was, c)
  BY <1>2 DEF CtxRest, CtxMapped
<1> QED BY <1>3 DEF c

\* The start: the register and the driver's store change no permission, and
\* what is saved is what is there.
LEMMA CtxStartKeeps ==
  ASSUME CtxSaved, CtxRest(r.was, m), CtxStart
  PROVE  CtxSaved' /\ r'.was = r.was /\ CtxRest(r.was, m') /\ pc' = "A"
<1>1. PICK i \in Interrupted(m) :
        /\ m' = [i.m EXCEPT !.masked = TRUE]
        /\ r' = [[r EXCEPT !.user = getpgmap(m', "user")] EXCEPT !.seg = getsegmap(m', "user")]
  BY DEF CtxStart
<1>2. MachineOK(m)
  BY DEF CtxRest, CtxMapped
<1>3. SameBut(m, i.m, <<>>)
  BY <1>2, InterruptedSame
<1>5. CtxRest(r.was, i.m)
  BY <1>3, CtxSame DEF CtxRest
<1>6. /\ MachineOK(m') /\ (m').sx = (i.m).sx /\ (m').ux = (i.m).ux
      /\ (m').smap = (i.m).smap /\ (m').pmap = (i.m).pmap
  BY <1>1, <1>5 DEF CtxRest, CtxMapped, MachineOK, MachineFields
<1>7. CtxRest(r.was, m')
  BY <1>5, <1>6 DEF CtxRest, CtxMapped, CtxBits
<1>8. /\ getsegmap(m', "user") = "user" /\ getpgmap(m', "user") = (m').pmap[<<"user", "user">>]
      /\ EntryOK((m').pmap[<<"user", "user">>])
      /\ (m').pmap[<<"user", "user">>].bits = r.was.pmap[<<"user", "user">>].bits
  <2>1. "user" \in CtxVas
    BY DEF CtxVas
  <2> QED BY <1>7, <2>1, RestMap DEF CtxBits
<1>9. /\ DOMAIN r' = DOMAIN r /\ r'.seg = "user" /\ r'.stack = r.stack /\ r'.was = r.was
      /\ r'.user = (m').pmap[<<"user", "user">>]
  BY <1>1, <1>8 DEF CtxSaved
<1>10. CtxSaved'
  BY <1>8, <1>9 DEF CtxSaved
<1>11. pc' = "A"
  BY DEF CtxStart, Goto
<1> QED BY <1>7, <1>9, <1>10, <1>11

\* A page denied and put back around what leaves everything else alone.
LEMMA CtxRestKeeps ==
  ASSUME CtxRest(r.was, m), NEW va \in CtxVas, NEW e, EntryOK(e),
         NEW i \in Interrupted(setpgmap(CtxArm(m), va, e)), NEW b,
         MachineOK(i.m) => SameBut(i.m, b, MapSlot(i.m, va)),
         NEW back, EntryOK(back), back.bits = r.was.pmap[<<"user", va>>].bits
  PROVE  CtxRest(r.was, setpgmap(b, va, back))
<1> DEFINE a == CtxArm(m)
           s == MapSlot(a, va)
<1>1. CtxRest(r.was, a)
  <2>1. /\ MachineOK(a) /\ a.faults = m.faults /\ a.smap = m.smap /\ a.pmap = m.pmap
        /\ a.sx = m.sx /\ a.ux = m.ux
    BY RearmedRest DEF CtxArm, CtxRest, CtxMapped
  <2> HIDE DEF a
  <2> QED BY <2>1 DEF CtxRest, CtxMapped, CtxBits
<1>2. MachineOK(a) /\ va \in Pages
  <2> HIDE DEF a
  <2> QED BY <1>1, CtxSlots DEF CtxRest, CtxMapped
<1>3. SameBut(a, i.m, s)
  <2> HIDE DEF a
  <2>1. i \in Interrupted(setpgmap(a, va, e))
    BY DEF a
  <2> QED BY <1>2, <2>1, CtxDenySame
<1> HIDE DEF a
<1>4. MapSlot(i.m, va) = s
  <2> HIDE DEF s
  <2>1. MapSlot(i.m, va) = MapSlot(a, va)
    BY <1>3, SameMapSlot
  <2> QED BY <2>1 DEF s
<1>5. SameBut(i.m, b, s)
  <2>1. MachineOK(i.m)
    BY <1>3 DEF SameBut
  <2> QED BY <1>4, <2>1
<1> HIDE DEF s
<1>6. SameBut(a, b, s)
  BY <1>3, <1>5, SameFurther
<1>7. SameBut(a, b, MapSlot(a, va))
  BY <1>6 DEF s
<1> QED BY <1>1, <1>7, RestPutBack

\* The entries the cases set are entries.
LEMMA WithPermOK ==
  ASSUME NEW e, EntryOK(e), NEW bits
  PROVE  EntryOK(WithPerm(e, bits)) /\ WithPerm(e, bits).bits = bits
BY DEF EntryOK, WithPerm

\* A: the page is put back.
LEMMA CtxAKeeps ==
  ASSUME CtxSaved, CtxRest(r.was, m), CtxCaseA
  PROVE  CtxSaved' /\ r' = r /\ CtxRest(r.was, m') /\ pc' = "B"
<1>1. PICK i \in Interrupted(setpgmap(CtxArm(m), "user", WithPerm(r.user, PERM_KERNTEXT))) :
        m' = setpgmap(Rearmed(CtxGoUser(i).m), "user", r.user)
  BY DEF CtxCaseA
<1>2. r' = r /\ pc' = "B"
  BY DEF CtxCaseA, Goto
<1> DEFINE b == Rearmed(CtxGoUser(i).m)
           s == MapSlot(i.m, "user")
<1>3. MachineOK(i.m) => SameBut(i.m, b, s)
  <2> SUFFICES ASSUME MachineOK(i.m) PROVE SameBut(i.m, b, s)
    OBVIOUS
  <2> HIDE DEF s
  <2> DEFINE t == CtxGoUser(i)
  <2>1. SameBut(i.m, t.m, s)
    BY CtxGoUserSame
  <2> HIDE DEF t
  <2>2. SameBut(t.m, Rearmed(t.m), s)
    <3>1. MachineOK(t.m)
      BY <2>1 DEF SameBut
    <3> QED BY <3>1, RearmedSame
  <2>3. SameBut(i.m, Rearmed(t.m), s)
    BY <2>1, <2>2, SameFurther
  <2> QED BY <2>3 DEF t
<1>4. "user" \in CtxVas /\ EntryOK(r.user) /\ r.user.bits = r.was.pmap[<<"user", "user">>].bits
  BY DEF CtxVas, CtxSaved
<1>5. EntryOK(WithPerm(r.user, PERM_KERNTEXT))
  BY <1>4, WithPermOK
<1> HIDE DEF b
<1>6. CtxRest(r.was, setpgmap(b, "user", r.user))
  BY <1>1, <1>3, <1>4, <1>5, CtxRestKeeps
<1> QED BY <1>1, <1>2, <1>6 DEF b, CtxSaved

\* G, F and E: so is the stack's.
LEMMA CtxRestartKeeps ==
  ASSUME CtxSaved, StackSaved, CtxRest(r.was, m), NEW case, NEW rw, NEW kind, NEW next, next # "C",
         CtxRestart(case, rw, kind, next)
  PROVE  CtxSaved' /\ r' = r /\ CtxRest(r.was, m') /\ pc' # "C"
<1>1. PICK i \in Interrupted(setpgmap(CtxArm(m), "stack", WithPerm(r.stack, PERM_NONE))) :
        /\ m' = setpgmap(Rerun(i, "SD", rw, "stack", WithPerm(r.stack, PERM_ALL), kind).m, "stack", r.stack)
        /\ pc' \in {"lost", next}
  BY DEF CtxRestart, Goto
<1>2. r' = r
  BY DEF CtxRestart
<1> DEFINE b == Rerun(i, "SD", rw, "stack", WithPerm(r.stack, PERM_ALL), kind).m
<1>3. "stack" \in CtxVas /\ EntryOK(r.stack) /\ r.stack.bits = r.was.pmap[<<"user", "stack">>].bits
  BY DEF CtxVas, CtxSaved, StackSaved
<1>4. EntryOK(WithPerm(r.stack, PERM_NONE)) /\ EntryOK(WithPerm(r.stack, PERM_ALL))
  BY <1>3, WithPermOK
<1>5. MachineOK(i.m) => SameBut(i.m, b, MapSlot(i.m, "stack"))
  <2>1. "stack" \in Pages
    BY DEF Pages
  <2> QED BY <1>4, <2>1, RerunSame
<1> HIDE DEF b
<1>6. CtxRest(r.was, setpgmap(b, "stack", r.stack))
  BY <1>1, <1>3, <1>4, <1>5, CtxRestKeeps
<1> QED BY <1>1, <1>2, <1>6 DEF b, CtxSaved

\* H: and here.
LEMMA CtxHKeeps ==
  ASSUME CtxSaved, StackSaved, CtxRest(r.was, m), CtxCaseH
  PROVE  CtxSaved' /\ r' = r /\ CtxRest(r.was, m') /\ pc' = "E"
<1>1. PICK i \in Interrupted(setpgmap(CtxArm(m), "stack", WithPerm(r.stack, PERM_NO_USRW))) :
        m' = setpgmap(Access(CtxArm(Try(i, "UD", "r", "stack").m), "UD", "w", "stack").m, "stack", r.stack)
  BY DEF CtxCaseH
<1>2. r' = r /\ pc' = "E"
  BY DEF CtxCaseH, Goto
<1> DEFINE load == Try(i, "UD", "r", "stack")
           arm  == CtxArm(load.m)
           b    == Access(arm, "UD", "w", "stack").m
           s    == MapSlot(i.m, "stack")
<1>3. MachineOK(i.m) => SameBut(i.m, b, s)
  <2> SUFFICES ASSUME MachineOK(i.m) PROVE SameBut(i.m, b, s)
    OBVIOUS
  <2> HIDE DEF s
  <2>1. "stack" \in Pages
    BY DEF Pages
  <2>2. SameBut(i.m, load.m, s)
    BY <2>1, TrySame
  <2> HIDE DEF load
  <2>3. SameBut(i.m, arm, s)
    <3>1. MachineOK(load.m)
      BY <2>2 DEF SameBut
    <3>2. SameBut(load.m, arm, s)
      BY <3>1, RearmedSame DEF CtxArm
    <3> HIDE DEF arm
    <3> QED BY <2>2, <3>2, SameFurther
  <2> HIDE DEF arm
  <2>4. SameBut(arm, b, s)
    <3>1. MachineOK(arm)
      BY <2>3 DEF SameBut
    <3> QED BY <2>1, <3>1, AccessSame
  <2> HIDE DEF b
  <2> QED BY <2>3, <2>4, SameFurther
<1>4. "stack" \in CtxVas /\ EntryOK(r.stack) /\ r.stack.bits = r.was.pmap[<<"user", "stack">>].bits
  BY DEF CtxVas, CtxSaved, StackSaved
<1>5. EntryOK(WithPerm(r.stack, PERM_NO_USRW))
  BY <1>4, WithPermOK
<1>7. m' = setpgmap(b, "stack", r.stack)
  BY <1>1
<1> HIDE DEF b
<1>6. CtxRest(r.was, setpgmap(b, "stack", r.stack))
  BY <1>1, <1>3, <1>4, <1>5, CtxRestKeeps
<1> QED BY <1>2, <1>6, <1>7 DEF CtxSaved

\* The register armed keeps the machine at rest.
LEMMA RearmedAtRest ==
  ASSUME NEW a, CtxRest(r.was, a)
  PROVE  CtxRest(r.was, CtxArm(a))
<1> DEFINE b == CtxArm(a)
<1>1. /\ MachineOK(b) /\ b.faults = a.faults /\ b.smap = a.smap /\ b.pmap = a.pmap
      /\ b.sx = a.sx /\ b.ux = a.ux
  BY RearmedRest DEF CtxArm, CtxRest, CtxMapped
<1> HIDE DEF b
<1>2. CtxRest(r.was, b)
  BY <1>1 DEF CtxRest, CtxMapped, CtxBits
<1> QED BY <1>2 DEF b

\* B: whatever the two context registers turn out to be, either the machine is
\* at rest again, or it is in user context 1 with context 0's map in place.
LEMMA CtxBKeeps ==
  ASSUME CtxSaved, CtxRest(r.was, m), CtxCaseB
  PROVE  /\ CtxSaved' /\ r' = r
         /\ \/ pc' \in {"ctx done", "lost"} /\ CtxRest(r.was, m')
            \/ /\ pc' = "C" /\ CtxMapped(r.was, m') /\ (m').sx = 0 /\ (m').ux = 1
               /\ ~Has(m', "bothctx") /\ ~Has(m', "fc3sup")
<1> DEFINE a   == CtxArm(m)
           in1 == setusercontext(a, 1)
           inv == setsegmap(in1, "user", SEGINV)
           in0 == setusercontext(inv, 0)
           fix == setsegmap(in0, "user", r.seg)
           on1 == setusercontext(in0, 1)
           out == setusercontext(in1, 0)
<1>1. r' = r
  BY DEF CtxCaseB
<1>2. \/ in1.sx # 0 /\ m' = out /\ pc' \in {"ctx done", "lost"}
      \/ in1.sx = 0 /\ getsegmap(in0, "user") # r.seg /\ m' = fix /\ pc' = "ctx done"
      \/ /\ in1.sx = 0 /\ getsegmap(in0, "user") = r.seg /\ pc' = "C"
         /\ \E i \in Interrupted(on1) :
              m' = IF CtxGoUser(i).fault THEN Rearmed(CtxGoUser(i).m) ELSE CtxGoUser(i).m
  BY DEF CtxCaseB, Goto
<1>3. CtxSaved' /\ r.seg = "user"
  BY <1>1 DEF CtxSaved
<1>4. CtxRest(r.was, a)
  BY RearmedAtRest
<1> HIDE DEF a
<1>5. /\ MachineOK(in1) /\ in1.faults = a.faults /\ in1.smap = a.smap /\ in1.pmap = a.pmap
      /\ in1.ux = 1 /\ in1.sx = IF Has(a, "bothctx") THEN 1 ELSE 0
  <2>1. 1 \in Contexts
    BY DEF Contexts
  <2> QED BY <1>4, <2>1, SetContext DEF CtxRest, CtxMapped
<1> HIDE DEF in1
<1>6. CASE in1.sx # 0 /\ m' = out /\ pc' \in {"ctx done", "lost"}
  <2>1. Has(in1, "bothctx")
    BY <1>5, <1>6 DEF Has
  <2>2. 0 \in Contexts
    BY DEF Contexts
  <2>3. /\ MachineOK(out) /\ out.smap = in1.smap /\ out.pmap = in1.pmap /\ out.ux = 0 /\ out.sx = 0
    BY <1>5, <2>1, <2>2, SetContext
  <2> HIDE DEF out
  <2>4. CtxRest(r.was, out)
    BY <1>4, <1>5, <2>3 DEF CtxRest, CtxMapped, CtxBits
  <2> QED BY <1>1, <1>3, <1>6, <2>4
<1>7. ASSUME in1.sx = 0
      PROVE  /\ MachineOK(in0) /\ in0.faults = a.faults /\ in0.pmap = a.pmap
             /\ in0.sx = 0 /\ in0.ux = 0 /\ ~Has(in0, "bothctx")
             /\ CtxFrame(r.was, in0.smap, in0.pmap)
             /\ getsegmap(in0, "user") = in0.smap[<<0, "user">>]
             /\ Has(in0, "fc3sup") => in0.smap[<<0, "user">>] = SEGINV
             /\ Has(in0, "segall") \/ in0.smap[<<0, "user">>] = "user" \/ in0.smap[<<1, "user">>] = "user"
  <2>1. ~Has(in1, "bothctx")
    BY <1>5, <1>7 DEF Has
  <2>2. SEGINV \in Pmegs /\ "user" \in Pages /\ SegOf("user") = "user" /\ 0 \in Contexts
    BY DEF Pmegs, Pages, SegOf, Contexts
  <2>3. SegmentSet(in1, inv, "user", SEGINV)
    BY <1>5, <2>2, SetSegment
  <2> HIDE DEF inv
  <2>4. /\ MachineOK(inv) /\ inv.pmap = in1.pmap /\ inv.faults = in1.faults /\ inv.sx = 0
    BY <1>7, <2>3 DEF SegmentSet
  <2>5. ~Has(inv, "bothctx")
    BY <2>1, <2>4 DEF Has
  <2>6. /\ MachineOK(in0) /\ in0.faults = inv.faults /\ in0.pmap = inv.pmap /\ in0.ux = 0 /\ in0.sx = 0
    BY <2>2, <2>4, <2>5, SetContext
  <2>7. in0.smap = inv.smap
    BY <2>2, <2>4, SetContext
  <2> HIDE DEF in0
  <2>8. MapContext(in1) = IF Has(in0, "fc3sup") THEN 0 ELSE 1
    BY <1>5, <1>7, <2>4, <2>6 DEF MapContext, Has
  <2>9. Has(in0, "fc3sup") => in0.smap[<<0, "user">>] = SEGINV
    BY <2>3, <2>7, <2>8 DEF SegmentSet
  <2>10. \A k \in Contexts : in1.smap[<<k, "user">>] = "user"
    BY <1>4, <1>5 DEF CtxRest, CtxMapped, Contexts
  <2>11. Has(in0, "segall") \/ in0.smap[<<0, "user">>] = "user" \/ in0.smap[<<1, "user">>] = "user"
    <3>1. Has(in0, "segall") = Has(in1, "segall")
      BY <2>4, <2>6 DEF Has
    <3> QED BY <2>3, <2>7, <2>8, <2>10, <3>1 DEF SegmentSet, Contexts
  <2>12. CtxFrame(r.was, inv.smap, inv.pmap)
    <3>1. CtxFrame(r.was, in1.smap, in1.pmap)
      BY <1>4, <1>5 DEF CtxRest, CtxMapped
    <3>2. \A k \in Contexts : <<k, "user">> \in CtxSegments
      BY DEF Contexts, CtxSegments
    <3> QED BY <2>3, <3>1, <3>2, FrameOfSegment DEF CtxFrame
  <2>13. MapContext(in0) = 0
    BY <2>6 DEF MapContext
  <2>14. getsegmap(in0, "user") = in0.smap[<<0, "user">>]
    BY <2>2, <2>13 DEF getsegmap
  <2>15. /\ in0.faults = a.faults /\ in0.pmap = a.pmap /\ ~Has(in0, "bothctx")
    BY <1>5, <2>4, <2>5, <2>6 DEF Has
  <2> QED BY <2>6, <2>7, <2>9, <2>11, <2>12, <2>14, <2>15
<1> HIDE DEF in0
<1>8. CASE in1.sx = 0 /\ getsegmap(in0, "user") # r.seg /\ m' = fix /\ pc' = "ctx done"
  <2>1. "user" \in Pmegs /\ "user" \in Pages /\ SegOf("user") = "user"
    BY DEF Pmegs, Segments, Pages, SegOf
  <2>2. SegmentSet(in0, fix, "user", "user")
    BY <1>3, <1>7, <1>8, <2>1, SetSegment
  <2>3. MapContext(in0) = 0
    BY <1>7, <1>8 DEF MapContext
  <2> HIDE DEF fix
  <2>4. MachineOK(fix) /\ fix.pmap = in0.pmap /\ fix.sx = in0.sx /\ fix.ux = in0.ux /\ fix.smap[<<0, "user">>] = "user"
    BY <2>2, <2>3 DEF SegmentSet
  <2>6. fix.smap[<<1, "user">>] = "user"
    BY <1>3, <1>7, <1>8, <2>2 DEF SegmentSet, Contexts
  <2>7. CtxFrame(r.was, fix.smap, fix.pmap)
    <3>1. \A k \in Contexts : <<k, "user">> \in CtxSegments
      BY DEF Contexts, CtxSegments
    <3> QED BY <1>7, <1>8, <2>2, <3>1, FrameOfSegment DEF CtxFrame
  <2>8. CtxBits(r.was, fix)
    BY <1>4, <1>7, <1>8, <2>4 DEF CtxRest, CtxMapped, CtxBits
  <2>5. CtxRest(r.was, fix)
    BY <1>7, <1>8, <2>4, <2>6, <2>7, <2>8 DEF CtxRest, CtxMapped
  <2> QED BY <1>1, <1>3, <1>8, <2>5
<1>9. CASE /\ in1.sx = 0 /\ getsegmap(in0, "user") = r.seg /\ pc' = "C"
           /\ \E i \in Interrupted(on1) :
                m' = IF CtxGoUser(i).fault THEN Rearmed(CtxGoUser(i).m) ELSE CtxGoUser(i).m
  <2>1. PICK i \in Interrupted(on1) :
          m' = IF CtxGoUser(i).fault THEN Rearmed(CtxGoUser(i).m) ELSE CtxGoUser(i).m
    BY <1>9
  <2>2. MapContext(in0) = 0 /\ SegOf("user") = "user"
    BY <1>7, <1>9 DEF MapContext, SegOf
  <2>3. in0.smap[<<0, "user">>] = "user"
    BY <1>3, <1>9, <2>2 DEF getsegmap
  <2>4. /\ MachineOK(on1) /\ on1.faults = in0.faults /\ on1.smap = in0.smap /\ on1.pmap = in0.pmap
        /\ on1.ux = 1 /\ on1.sx = 0
    <3>1. 1 \in Contexts
      BY DEF Contexts
    <3> QED BY <1>7, <1>9, <3>1, SetContext
  <2> HIDE DEF on1
  <2>5. SameBut(on1, i.m, <<>>)
    BY <2>1, <2>4, InterruptedSame
  <2> DEFINE t == CtxGoUser(i)
  <2>6. SameBut(on1, t.m, <<>>)
    <3>1. MachineOK(i.m)
      BY <2>5 DEF SameBut
    <3>2. SameBut(i.m, t.m, <<>>)
      BY <3>1, CtxGoUserSame
    <3> HIDE DEF t
    <3> QED BY <2>5, <3>2, SameFurther
  <2>7. m' = IF t.fault THEN Rearmed(t.m) ELSE t.m
    BY <2>1
  <2> HIDE DEF t
  <2>8. SameBut(on1, m', <<>>)
    <3>1. MachineOK(t.m)
      BY <2>6 DEF SameBut
    <3>2. SameBut(t.m, Rearmed(t.m), <<>>)
      BY <3>1, RearmedSame
    <3>3. SameBut(on1, Rearmed(t.m), <<>>)
      BY <2>6, <3>2, SameFurther
    <3> QED BY <2>6, <2>7, <3>3
  <2>9. CtxMapped(r.was, on1)
    <3>1. CtxBits(r.was, on1)
      BY <1>4, <1>7, <1>9, <2>4 DEF CtxRest, CtxMapped, CtxBits
    <3>2. CtxFrame(r.was, on1.smap, on1.pmap)
      BY <1>7, <1>9, <2>4
    <3> QED BY <2>3, <2>4, <3>1, <3>2 DEF CtxMapped
  <2>10. CtxMapped(r.was, m')
    BY <2>8, <2>9, CtxSame
  <2>11. (m').sx = 0 /\ (m').ux = 1 /\ (m').faults = in0.faults
    BY <2>4, <2>8 DEF SameBut
  <2>12. ~Has(in0, "bothctx") /\ ~Has(in0, "fc3sup")
    <3>1. SEGINV # "user"
      BY DEF SEGINV
    <3> QED BY <1>7, <1>9, <2>3, <3>1
  <2>13. ~Has(m', "bothctx") /\ ~Has(m', "fc3sup")
    BY <2>11, <2>12 DEF Has
  <2> QED BY <1>1, <1>3, <1>9, <2>10, <2>11, <2>13
<1> QED BY <1>1, <1>2, <1>6, <1>8, <1>9

\* C: the segment and the page are put back, in context 1, and context 0 is
\* chosen again.
LEMMA CtxCKeeps ==
  ASSUME CtxSaved, CtxMapped(r.was, m), m.sx = 0, m.ux = 1, ~Has(m, "bothctx"), ~Has(m, "fc3sup"),
         CtxCaseC
  PROVE  /\ CtxSaved' /\ StackSaved' /\ r'.was = r.was
         /\ CtxRest(r.was, m') /\ pc' \in {"G", "ctx done"}
<1> DEFINE a    == CtxArm(m)
           on1  == setusercontext(a, 1)
           in1  == setsegmap(on1, "user", r.seg)
           back == setusercontext(in1, 0)
           deny == WithPerm(r.user, PERM_KERNTEXT)
           all  == WithPerm(r.user, PERM_ALL)
           s    == MapSlot(in1, "user")
<1>1. PICK i \in Interrupted(setpgmap(in1, "user", deny)) :
        /\ m' = setusercontext(setpgmap(Rerun(i, "UP", "r", "user", all, "fetch").m, "user", r.user), 0)
        /\ r' = [r EXCEPT !.stack = getpgmap(m', "stack")]
        /\ pc' \in {"G", "ctx done"}
  BY DEF CtxCaseC, Goto
<1>2. r.seg = "user" /\ EntryOK(r.user) /\ r.user.bits = r.was.pmap[<<"user", "user">>].bits
  BY DEF CtxSaved
<1>3. EntryOK(deny) /\ EntryOK(all)
  BY <1>2, WithPermOK
<1>4. /\ MachineOK(a) /\ a.faults = m.faults /\ a.smap = m.smap /\ a.pmap = m.pmap
      /\ a.sx = m.sx /\ a.ux = m.ux
  BY RearmedRest DEF CtxArm, CtxMapped
<1> HIDE DEF a, deny, all
<1>5. /\ MachineOK(on1) /\ on1.faults = m.faults /\ on1.smap = m.smap /\ on1.pmap = m.pmap
      /\ on1.sx = 0 /\ on1.ux = 1
  <2>1. ~Has(a, "bothctx") /\ 1 \in Contexts
    BY <1>4 DEF Has, Contexts
  <2> QED BY <1>4, <2>1, SetContext
<1> HIDE DEF on1
<1>6. /\ MachineOK(in1) /\ in1.faults = m.faults /\ in1.pmap = m.pmap /\ in1.sx = 0 /\ in1.ux = 1
      /\ in1.smap[<<MapContext(in1), "user">>] = "user" /\ in1.smap[<<0, "user">>] = "user"
  <2>1. "user" \in Pmegs /\ "user" \in Pages /\ SegOf("user") = "user"
    BY DEF Pmegs, Segments, Pages, SegOf
  <2>2. SegmentSet(on1, in1, "user", "user")
    BY <1>2, <1>5, <2>1, SetSegment
  <2> HIDE DEF in1
  <2>3. /\ MachineOK(in1) /\ in1.faults = on1.faults /\ in1.pmap = on1.pmap
        /\ in1.sx = on1.sx /\ in1.ux = on1.ux
        /\ in1.smap[<<MapContext(on1), "user">>] = "user"
        /\ in1.smap[<<0, "user">>] \in {"user", on1.smap[<<0, "user">>]}
    BY <2>2 DEF SegmentSet, Contexts
  <2>4. MapContext(in1) = MapContext(on1)
    BY <2>3 DEF MapContext, Has
  <2> QED BY <1>5, <2>3, <2>4 DEF CtxMapped
<1>16. in1.smap[<<1, "user">>] = "user" /\ CtxFrame(r.was, in1.smap, in1.pmap)
  <2>1. MapContext(on1) = 1
    BY <1>5 DEF MapContext, Has
  <2>2. SegmentSet(on1, in1, "user", "user")
    <3>1. "user" \in Pmegs /\ "user" \in Pages /\ SegOf("user") = "user"
      BY DEF Pmegs, Segments, Pages, SegOf
    <3> QED BY <1>2, <1>5, <3>1, SetSegment
  <2> HIDE DEF in1
  <2>3. CtxFrame(r.was, on1.smap, on1.pmap)
    BY <1>5 DEF CtxMapped
  <2>4. \A k \in Contexts : <<k, "user">> \in CtxSegments
    BY DEF Contexts, CtxSegments
  <2>5. CtxFrame(r.was, in1.smap, in1.pmap)
    BY <2>2, <2>3, <2>4, FrameOfSegment DEF CtxFrame
  <2> QED BY <2>1, <2>2, <2>5 DEF SegmentSet
<1> HIDE DEF in1
<1>7. "user" \in Pages /\ "user" \in CtxVas /\ "stack" \in CtxVas
  BY DEF Pages, CtxVas
<1>8. SameBut(in1, i.m, s)
  BY <1>1, <1>3, <1>6, <1>7, CtxDenySame
<1> DEFINE t == Rerun(i, "UP", "r", "user", all, "fetch")
<1>9. SameBut(in1, t.m, s)
  <2>1. MachineOK(i.m)
    BY <1>8 DEF SameBut
  <2>2. MapSlot(i.m, "user") = s
    <3>1. MapSlot(i.m, "user") = MapSlot(in1, "user")
      BY <1>8, SameMapSlot
    <3> QED BY <3>1
  <2>3. SameBut(i.m, t.m, MapSlot(i.m, "user"))
    BY <1>3, <1>7, <2>1, RerunSame
  <2> HIDE DEF t, s
  <2>4. SameBut(i.m, t.m, s)
    BY <2>2, <2>3
  <2> QED BY <1>8, <2>4, SameFurther
<1> DEFINE d == setpgmap(t.m, "user", r.user)
<1>10. m' = setusercontext(d, 0)
  BY <1>1
<1> HIDE DEF t
<1>11. /\ MachineOK(d) /\ CtxBits(r.was, d) /\ CtxFrame(r.was, d.smap, d.pmap)
       /\ d.faults = in1.faults /\ d.sx = in1.sx /\ d.ux = in1.ux /\ d.smap = in1.smap
  <2>1. CtxBits(r.was, in1)
    BY <1>6 DEF CtxMapped, CtxBits
  <2> QED BY <1>2, <1>6, <1>7, <1>9, <1>16, <2>1, CtxPutBack
<1> HIDE DEF d
<1>12. CtxRest(r.was, m')
  <2>1. ~Has(d, "bothctx") /\ 0 \in Contexts
    BY <1>6, <1>11 DEF Has, Contexts
  <2>2. /\ MachineOK(m') /\ (m').smap = d.smap /\ (m').pmap = d.pmap /\ (m').ux = 0 /\ (m').sx = d.sx
    BY <1>10, <1>11, <2>1, SetContext
  <2> QED BY <1>6, <1>11, <1>16, <2>2 DEF CtxRest, CtxMapped, CtxBits
<1>13. /\ getpgmap(m', "stack") = (m').pmap[<<"user", "stack">>]
       /\ EntryOK((m').pmap[<<"user", "stack">>]) /\ CtxBits(r.was, m')
  BY <1>7, <1>12, RestMap
<1>14. /\ DOMAIN r' = DOMAIN r /\ r'.was = r.was /\ r'.user = r.user /\ r'.seg = r.seg
       /\ r'.stack = (m').pmap[<<"user", "stack">>]
  BY <1>1, <1>13 DEF CtxSaved
<1>15. CtxSaved' /\ StackSaved'
  <2>1. (m').pmap[<<"user", "stack">>].bits = r.was.pmap[<<"user", "stack">>].bits
    BY <1>7, <1>13 DEF CtxBits
  <2> QED BY <1>13, <1>14, <2>1 DEF CtxSaved, StackSaved
<1> QED BY <1>1, <1>12, <1>14, <1>15

\* done: nothing is left but what was there.
LEMMA CtxDoneKeeps ==
  ASSUME CtxSaved, CtxRest(r.was, m), CtxDone
  PROVE  CtxSaved' /\ r' = r /\ CtxRest(r.was, m') /\ pc' = "done"
<1> DEFINE a == setusercontext(m, 0)
           b == setsegmap(a, "user", r.seg)
           s == MapSlot(b, "user")
<1>1. m' = setpgmap(b, "user", r.user) /\ r' = r /\ pc' = "done"
  BY DEF CtxDone, Goto
<1>2. r.seg = "user" /\ EntryOK(r.user) /\ r.user.bits = r.was.pmap[<<"user", "user">>].bits
  BY DEF CtxSaved
<1>3. /\ MachineOK(a) /\ a.smap = m.smap /\ a.pmap = m.pmap /\ a.ux = 0 /\ a.sx = 0
  <2>1. 0 \in Contexts /\ MachineOK(m) /\ m.sx = 0
    BY DEF Contexts, CtxRest, CtxMapped
  <2> QED BY <2>1, SetContext
<1> HIDE DEF a
<1>4. /\ MachineOK(b) /\ b.pmap = a.pmap /\ b.sx = 0 /\ b.ux = 0
      /\ b.smap[<<0, "user">>] = "user" /\ b.smap[<<1, "user">>] = "user"
      /\ CtxFrame(r.was, b.smap, b.pmap)
  <2>1. "user" \in Pmegs /\ "user" \in Pages /\ SegOf("user") = "user"
    BY DEF Pmegs, Segments, Pages, SegOf
  <2>2. SegmentSet(a, b, "user", "user")
    BY <1>2, <1>3, <2>1, SetSegment
  <2>3. a.smap[<<0, "user">>] = "user" /\ a.smap[<<1, "user">>] = "user"
    BY <1>3 DEF CtxRest, CtxMapped
  <2>4. \A k \in Contexts : <<k, "user">> \in CtxSegments
    BY DEF Contexts, CtxSegments
  <2>5. CtxFrame(r.was, a.smap, a.pmap)
    BY <1>3 DEF CtxRest, CtxMapped
  <2> HIDE DEF b
  <2>6. CtxFrame(r.was, b.smap, b.pmap)
    BY <2>2, <2>4, <2>5, FrameOfSegment DEF CtxFrame
  <2> QED BY <1>3, <2>2, <2>3, <2>6 DEF SegmentSet, Contexts
<1> HIDE DEF b
<1>5. CtxRest(r.was, b)
  BY <1>3, <1>4 DEF CtxRest, CtxMapped, CtxBits
<1>6. SameBut(b, b, s)
  BY <1>4, SameAsItself
<1>7. CtxRest(r.was, m')
  <2>1. "user" \in CtxVas
    BY DEF CtxVas
  <2> QED BY <1>1, <1>2, <1>5, <1>6, <2>1, RestPutBack
<1> QED BY <1>1, <1>7 DEF CtxSaved

\* Every case of ctxprobe.
LEMMA CtxKeepsInv == CtxInv /\ prog = "ctxprobe" /\ prog' = prog /\ CtxNext => CtxInv'
<1> SUFFICES ASSUME CtxInv, prog = "ctxprobe", prog' = prog, CtxNext
             PROVE  CtxInv'
  OBVIOUS
<1>1. CtxSaved
  BY DEF CtxInv
<1>2. pc \notin {"C", "lost"} => CtxRest(r.was, m)
  BY DEF CtxInv
<1>11. pc \in {"G", "F", "H", "E"} => StackSaved
  BY DEF CtxInv
<1>3. ASSUME CtxSaved', r'.was = r.was, CtxRest(r.was, m'), pc' # "C",
             pc' \in {"G", "F", "H", "E"} => StackSaved'
      PROVE  CtxInv'
  BY <1>3 DEF CtxInv
<1>4. CASE CtxStart
  <2>1. pc = "ctx start"
    BY <1>4 DEF CtxStart, At
  <2> QED BY <1>1, <1>2, <1>3, <1>4, <2>1, CtxStartKeeps
<1>5. CASE CtxCaseA
  <2>1. pc = "A"
    BY <1>5 DEF CtxCaseA, At
  <2> QED BY <1>1, <1>2, <1>3, <1>5, <2>1, CtxAKeeps
<1>6. CASE CtxCaseB
  <2>1. pc = "B"
    BY <1>6 DEF CtxCaseB, At
  <2>2. /\ CtxSaved' /\ r' = r
        /\ \/ pc' \in {"ctx done", "lost"} /\ CtxRest(r.was, m')
           \/ /\ pc' = "C" /\ CtxMapped(r.was, m') /\ (m').sx = 0 /\ (m').ux = 1
              /\ ~Has(m', "bothctx") /\ ~Has(m', "fc3sup")
    BY <1>1, <1>2, <1>6, <2>1, CtxBKeeps
  <2> QED BY <2>2 DEF CtxInv
<1>7. CASE CtxCaseC
  <2>1. CtxMapped(r.was, m) /\ m.sx = 0 /\ m.ux = 1 /\ ~Has(m, "bothctx") /\ ~Has(m, "fc3sup")
    BY <1>7 DEF CtxCaseC, At, CtxInv
  <2> QED BY <1>1, <1>3, <1>7, <2>1, CtxCKeeps
<1>8. CASE CtxCaseG \/ CtxCaseF \/ CtxCaseE
  <2>1. ASSUME NEW case \in {"G", "F", "E"}, NEW rw, NEW kind, NEW next, next # "C",
               CtxRestart(case, rw, kind, next)
        PROVE  CtxInv'
    <3>1. pc = case
      BY <2>1 DEF CtxRestart, At
    <3>2. StackSaved /\ CtxRest(r.was, m)
      BY <1>2, <1>11, <3>1
    <3>3. CtxSaved' /\ r' = r /\ CtxRest(r.was, m') /\ pc' # "C"
      BY <1>1, <2>1, <3>2, CtxRestartKeeps
    <3>4. StackSaved'
      BY <3>2, <3>3 DEF StackSaved
    <3> QED BY <1>3, <3>3, <3>4
  <2>2. CASE CtxCaseG
    BY <2>1, <2>2 DEF CtxCaseG
  <2>3. CASE CtxCaseF
    BY <2>1, <2>3 DEF CtxCaseF
  <2>4. CASE CtxCaseE
    BY <2>1, <2>4 DEF CtxCaseE
  <2> QED BY <1>8, <2>2, <2>3, <2>4
<1>9. CASE CtxCaseH
  <2>1. pc = "H"
    BY <1>9 DEF CtxCaseH, At
  <2>2. StackSaved /\ CtxRest(r.was, m)
    BY <1>2, <1>11, <2>1
  <2>3. CtxSaved' /\ r' = r /\ CtxRest(r.was, m') /\ pc' = "E"
    BY <1>1, <1>9, <2>2, CtxHKeeps
  <2>4. StackSaved'
    BY <2>2, <2>3 DEF StackSaved
  <2> QED BY <1>3, <2>3, <2>4
<1>10. CASE CtxDone
  <2>1. pc = "ctx done"
    BY <1>10 DEF CtxDone, At
  <2> QED BY <1>1, <1>2, <1>3, <1>10, <2>1, CtxDoneKeeps
<1> QED BY <1>4, <1>5, <1>6, <1>7, <1>8, <1>9, <1>10 DEF CtxNext

-----------------------------------------------------------------------------
(* The 68010's probes: one entry each, set and left.                       *)

CoreWriters == {"usrprobe", "beprobe", "dogprobe"}

\* The machine's maps are as they were but for that entry.
CoreInv ==
  prog \in CoreWriters =>
    /\ MachineOK(m) /\ m.sx = 0 /\ m.ux = 0
    /\ m.smap[<<0, "user">>] = "user" /\ m.smap[<<0, "probe">>] = "probe"
    /\ DOMAIN r = {"was", "paint"} /\ FrameOf(r.was, m.smap, m.pmap, LeftEntries, {})

\* What moves no register and no segment, and writes no other entry, keeps that.
LEMMA CoreSame ==
  ASSUME CoreInv, prog \in CoreWriters, prog' = prog, DOMAIN r' = DOMAIN r, r'.was = r.was,
         NEW s, SameBut(m, m', s), s \in LeftEntries \/ s \notin Slots
  PROVE  CoreInv'
<1>1. LeftEntries' = LeftEntries
  BY DEF LeftEntries
<1>2. FrameOf(r.was, (m').smap, (m').pmap, LeftEntries, {})
  BY FrameKept DEF CoreInv
<1> QED BY <1>1, <1>2 DEF CoreInv, SameBut

\* The page nothing answers on, set, and the store to it.
LEMMA DeadPageSame ==
  ASSUME NEW a, MachineOK(a), a.sx = 0, a.ux = 0, a.smap[<<0, "probe">>] = "probe",
         NEW s, s = <<"probe", "probe">>
  PROVE  SameBut(a, DeadPage(a), s) /\ SameBut(a, DeadStore(a).m, s)
<1>1. MapSlot(a, "probe") = s /\ "probe" \in Pages /\ EntryOK(PROBE_PME)
  BY DEF MapSlot, Slot, MapContext, SegOf, Pages, EntryOK, PROBE_PME, Entry
<1>2. SameBut(a, DeadPage(a), s)
  BY <1>1, SetPageSame DEF DeadPage
<1>3. SameBut(a, Access(a, "SD", "w", "probe").m, s)
  BY <1>1, AccessSame
<1>4. DeadStore(a).m = Access(a, "SD", "w", "probe").m
  BY DEF DeadStore, Access
<1> QED BY <1>2, <1>3, <1>4

\* Every case of the three.
LEMMA CoreKeepsInv == CoreInv /\ prog \in CoreWriters /\ prog' = prog /\ CoreNext => CoreInv'
<1> SUFFICES ASSUME CoreInv, prog \in CoreWriters, prog' = prog, CoreNext
             PROVE  CoreInv'
  OBVIOUS
<1>1. /\ MachineOK(m) /\ m.sx = 0 /\ m.ux = 0
      /\ m.smap[<<0, "user">>] = "user" /\ m.smap[<<0, "probe">>] = "probe"
      /\ DOMAIN r = {"was", "paint"}
  BY DEF CoreInv
<1>2. <<>> \notin Slots
  BY DEF Slots
<1>3. ASSUME m' = m, r' = r PROVE CoreInv'
  <2>1. SameBut(m, m', <<>>)
    BY <1>1, <1>3, SameAsItself
  <2> QED BY <1>2, <1>3, <2>1, CoreSame
<1>4. CASE UsrTrap
  <2>1. m' = m /\ r' = r
    BY <1>4 DEF UsrTrap
  <2> QED BY <1>3, <2>1
<1>5. CASE UsrBusError
  <2> DEFINE d == setpgmap(m, "user", PME_DENY)
             t == Access(d, "UD", "w", "user")
             s == <<"user", "user">>
  <2>1. prog = "usrprobe" /\ m' = t.m
    BY <1>5 DEF UsrBusError, At
  <2>2. DOMAIN r' = DOMAIN r /\ r'.was = r.was
    <3>1. \E x : r' = [r EXCEPT !.paint = x]
      BY <1>5 DEF UsrBusError
    <3> QED BY <1>1, <3>1
  <2>3. MapSlot(m, "user") = s /\ "user" \in Pages /\ EntryOK(PME_DENY)
    BY <1>1 DEF MapSlot, Slot, MapContext, SegOf, Pages, EntryOK, PME_DENY, Entry
  <2>4. SameBut(m, d, s)
    BY <1>1, <2>3, SetPageSame
  <2> HIDE DEF d
  <2>5. SameBut(d, t.m, s)
    <3>1. MachineOK(d)
      BY <2>4 DEF SameBut
    <3> QED BY <2>3, <3>1, AccessSame
  <2> HIDE DEF t
  <2>6. SameBut(m, m', s)
    BY <2>1, <2>4, <2>5, SameFurther
  <2>7. s \in LeftEntries
    BY <2>1 DEF LeftEntries
  <2> QED BY <2>2, <2>6, <2>7, CoreSame
<1>6. CASE BeProbe \/ DogArm \/ DogStore
  <2> DEFINE s == <<"probe", "probe">>
             d == DeadPage(m)
  <2>1. prog \in {"beprobe", "dogprobe"} /\ r' = r
    BY <1>6 DEF BeProbe, DogArm, DogStore, At
  <2>2. s \in LeftEntries
    BY <2>1 DEF LeftEntries
  <2>3. ASSUME NEW a, SameBut(m, a, s)
        PROVE  SameBut(m, DeadPage(a), s) /\ SameBut(m, DeadStore(a).m, s)
    <3>1. MachineOK(a) /\ a.sx = 0 /\ a.ux = 0 /\ a.smap[<<0, "probe">>] = "probe"
      BY <1>1, <2>3 DEF SameBut
    <3>2. SameBut(a, DeadPage(a), s) /\ SameBut(a, DeadStore(a).m, s)
      BY <3>1, DeadPageSame
    <3> QED BY <2>3, <3>2, SameFurther
  <2>4. SameBut(m, m, s)
    BY <1>1, SameAsItself
  <2> HIDE DEF s
  <2>5. SameBut(m, d, s) /\ SameBut(m, DeadStore(d).m, s)
    BY <2>3, <2>4
  <2> HIDE DEF d
  <2>6. SameBut(m, DeadStore(m).m, s) /\ SameBut(m, DeadStore(DeadStore(m).m).m, s)
    BY <2>3, <2>4
  <2>7. m' \in {d, DeadStore(d).m, DeadStore(m).m, DeadStore(DeadStore(m).m).m}
    BY <1>6 DEF BeProbe, DogArm, DogStore, d
  <2>8. SameBut(m, m', s)
    BY <2>5, <2>6, <2>7
  <2> QED BY <2>1, <2>2, <2>8, CoreSame
<1>7. prog \notin {"strprobe", "rteprobe"}
  BY DEF CoreWriters
<1>8. ~(CopyControlA \/ CopyControlB \/ StrSweep \/ RteSweep)
  BY <1>7 DEF CopyControlA, CopyControlB, StrSweep, RteSweep, At
<1> QED BY <1>4, <1>5, <1>6, <1>8 DEF CoreNext

-----------------------------------------------------------------------------
(* rompatch.                                                               *)

\* No output file before the end; and what has been patched was as expected.
RomInv ==
  prog = "rompatch" =>
    /\ DOMAIN m = {"faults", "rom", "out"} /\ DOMAIN r = {"i"} /\ m.faults \subseteq RomFaults
    /\ DOMAIN m.rom = {0, 1}
    /\ pc \in {"apply", "done"}
    /\ pc = "apply" => /\ m.out = {} /\ r.i \in 1 .. 3
                       /\ r.i = 1 => m.rom[0] = IF "otherImage" \in m.faults THEN "z" ELSE "a"
                       /\ r.i > 1 => "otherImage" \notin m.faults
                       /\ r.i > 2 => "badPatch" \notin m.faults
    /\ m.out = {} \/ m.faults = {}

\* The two patches.
LEMMA RomPatches ==
  ASSUME NEW f
  PROVE  /\ Len(Patches(f)) = 2 /\ Patches(f)[1] = <<0, "a", "b">>
         /\ Patches(f)[2] = <<IF "badPatch" \in f THEN 9 ELSE 0, "b", "c">>
BY DEF Patches

\* A patch that does not fit is the end, before anything is written.
LEMMA RomKeepsInv == RomInv /\ prog = "rompatch" /\ prog' = prog /\ RomNext => RomInv'
<1> SUFFICES ASSUME RomInv, prog = "rompatch", prog' = prog, RomNext
             PROVE  RomInv'
  OBVIOUS
<1>1. CASE RomApply
  <2> DEFINE p == Patches(m.faults)[r.i]
  <2>1. pc = "apply" /\ r.i \in {1, 2}
    <3>1. pc = "apply" /\ r.i <= Len(Patches(m.faults))
      BY <1>1 DEF RomApply, At
    <3>2. Len(Patches(m.faults)) = 2
      BY RomPatches
    <3>3. r.i \in 1 .. 3
      BY <3>1 DEF RomInv
    <3> QED BY <3>1, <3>2, <3>3
  <2>2. \/ pc' = "done" /\ m' = m /\ r' = r
        \/ /\ p[1] \in DOMAIN m.rom /\ m.rom[p[1]] = p[2]
           /\ m' = [m EXCEPT !.rom[p[1]] = p[3]] /\ r' = [i |-> r.i + 1] /\ pc' = pc
    BY <1>1 DEF RomApply, Goto
  <2>3. CASE pc' = "done" /\ m' = m /\ r' = r
    BY <2>3 DEF RomInv
  <2>4. CASE /\ p[1] \in DOMAIN m.rom /\ m.rom[p[1]] = p[2]
             /\ m' = [m EXCEPT !.rom[p[1]] = p[3]] /\ r' = [i |-> r.i + 1] /\ pc' = pc
    <3>1. /\ DOMAIN m' = DOMAIN m /\ (m').faults = m.faults /\ (m').out = m.out
          /\ DOMAIN (m').rom = DOMAIN m.rom
      <4> HIDE DEF p
      <4> QED BY <2>4 DEF RomInv
    <3>2. CASE r.i = 1
      <4>1. p = <<0, "a", "b">>
        BY <3>2, RomPatches
      <4>2. "otherImage" \notin m.faults
        BY <2>1, <2>4, <3>2, <4>1 DEF RomInv
      <4>3. r'.i = 2 /\ DOMAIN r' = {"i"}
        BY <2>4, <3>2
      <4> HIDE DEF p
      <4> QED BY <2>1, <2>4, <3>1, <4>2, <4>3 DEF RomInv
    <3>3. CASE r.i = 2
      <4>1. p[1] = IF "badPatch" \in m.faults THEN 9 ELSE 0
        BY <3>3, RomPatches
      <4>2. "badPatch" \notin m.faults
        BY <2>1, <2>4, <4>1 DEF RomInv
      <4>3. r'.i = 3 /\ DOMAIN r' = {"i"}
        BY <2>4, <3>3
      <4> HIDE DEF p
      <4> QED BY <2>1, <2>4, <3>1, <3>3, <4>2, <4>3 DEF RomInv
    <3> QED BY <2>1, <3>2, <3>3
  <2> QED BY <2>2, <2>3, <2>4
<1>2. CASE RomWrite
  <2>1. pc = "apply" /\ pc' = "done" /\ r' = r /\ m' = [m EXCEPT !.out = {m.rom}] /\ r.i > 2
    BY <1>2, RomPatches DEF RomWrite, At, Goto
  <2>2. DOMAIN m' = DOMAIN m /\ (m').faults = m.faults /\ (m').rom = m.rom
    BY <2>1 DEF RomInv
  <2>3. m.faults = {}
    BY <2>1 DEF RomInv, RomFaults
  <2> QED BY <2>1, <2>2, <2>3 DEF RomInv
<1> QED BY <1>1, <1>2 DEF RomNext

-----------------------------------------------------------------------------
(* Together.                                                               *)

MapsInv == RefInv /\ MmuInv /\ CtxInv /\ CoreInv /\ RomInv

\* The machine the monitor starts a block on.
LEMMA InitMaps == Init => MapsInv
<1> SUFFICES ASSUME Init PROVE MapsInv
  OBVIOUS
<1>1. RefInv
  <2> SUFFICES ASSUME prog = "refmodprobe" PROVE RefInv
    BY DEF RefInv
  <2>1. m \in Machines(RefFaults) /\ pc = "ref start" /\ DOMAIN r = RefFields /\ r.was = m
    <3>1. RefInit
      BY DEF Init
    <3>2. r.was = m
      BY <3>1 DEF RefInit
    <3> QED BY <3>1, <3>2 DEF RefInit, RefFields
  <2>2. MachineOK(m) /\ m.sx = 0 /\ m.ux = 0
    BY <2>1, MonitorOK
  <2> QED BY <2>1, <2>2 DEF RefInv, RefPlaces
<1>2. MmuInv
  <2> SUFFICES ASSUME prog = "mmuprobe" PROVE MmuInv
    BY DEF MmuInv
  <2>1. m \in Machines(MmuFaults) /\ pc = "MA" /\ r = [was |-> m, seg |-> SEGINV, pme |-> PME_DENY]
    BY DEF Init, MmuInit
  <2>2. /\ MachineOK(m) /\ m.sx = 0 /\ m.ux = 0 /\ m.faults \in FaultSets(MmuFaults)
        /\ m.smap[<<0, "probe">>] = "probe"
    BY <2>1, MonitorOK
  <2>3. MmuMachine(m)
    BY <2>2 DEF MmuMachine, FaultSets
  <2>4. MmuFrame(m, m)
    BY <2>2 DEF MmuFrame, FrameOf
  <2> QED BY <2>1, <2>3, <2>4 DEF MmuInv
<1>3. CtxInv
  <2> SUFFICES ASSUME prog = "ctxprobe" PROVE CtxInv
    BY DEF CtxInv
  <2>1. /\ m \in Machines(CtxFaults) /\ pc = "ctx start"
        /\ r = [was |-> m, user |-> PME_ALLOW, stack |-> PME_ALLOW, seg |-> "user"]
    BY DEF Init, CtxInit
  <2>4. /\ MachineOK(m) /\ m.sx = 0 /\ m.ux = 0 /\ CtxWas(m)
        /\ m.pmap[<<"user", "user">>].bits = PERM_ALL
    BY <2>1, MonitorOK DEF CtxWas
  <2>2. CtxRest(m, m)
    BY <2>4 DEF CtxRest, CtxMapped, CtxBits, CtxFrame, FrameOf, CtxWas, Contexts
  <2>3. CtxSaved
    BY <2>1, <2>4 DEF CtxSaved, PME_ALLOW, Entry, EntryOK
  <2> QED BY <2>1, <2>2, <2>3 DEF CtxInv
<1>5. CoreInv
  <2> SUFFICES ASSUME prog \in CoreWriters PROVE CoreInv
    BY DEF CoreInv
  <2>1. (\E c : m \in Machines(c)) /\ r = [was |-> m, paint |-> TRUE]
    <3>1. UsrInit \/ BusInit
      BY DEF Init, CoreWriters
    <3> QED BY <3>1 DEF UsrInit, BusInit, CoreMachines
  <2>2. /\ MachineOK(m) /\ m.sx = 0 /\ m.ux = 0
        /\ m.smap[<<0, "user">>] = "user" /\ m.smap[<<0, "probe">>] = "probe"
    BY <2>1, MonitorOK DEF Contexts
  <2> QED BY <2>1, <2>2 DEF CoreInv, FrameOf
<1>4. RomInv
  <2> SUFFICES ASSUME prog = "rompatch" PROVE RomInv
    BY DEF RomInv
  <2>1. PICK f \in FaultSets(RomFaults) :
          m = [faults |-> f, rom |-> [x \in {0, 1} |-> IF "otherImage" \in f THEN "z" ELSE "a"], out |-> {}]
    BY DEF Init, RomInit
  <2>2. pc = "apply" /\ r = [i |-> 1]
    BY DEF Init, RomInit
  <2> QED BY <2>1, <2>2 DEF RomInv, FaultSets
<1> QED BY <1>1, <1>2, <1>3, <1>4, <1>5 DEF MapsInv

\* A step of the block that was loaded keeps its part; the others' do not arise.
LEMMA NextKeepsMaps == MapsInv /\ [Next]_vars => MapsInv'
<1> SUFFICES ASSUME MapsInv, [Next]_vars PROVE MapsInv'
  OBVIOUS
<1>1. CASE UNCHANGED vars
  <2>1. prog' = prog /\ pc' = pc /\ m' = m /\ r' = r
    BY <1>1 DEF vars
  <2>2. RefInv'
    BY <2>1 DEF MapsInv, RefInv
  <2>3. MmuInv'
    BY <2>1 DEF MapsInv, MmuInv
  <2>4. CtxInv'
    BY <2>1 DEF MapsInv, CtxInv, CtxSaved, StackSaved
  <2>5. RomInv'
    BY <2>1 DEF MapsInv, RomInv
  <2>6. CoreInv'
    BY <2>1 DEF MapsInv, CoreInv, LeftEntries
  <2> QED BY <2>2, <2>3, <2>4, <2>5, <2>6 DEF MapsInv
<1>2. CASE Next
  <2>1. /\ prog' = prog
        /\ prog = "ctxprobe" => CtxNext
        /\ prog = "mmuprobe" => MmuNext
        /\ prog = "refmodprobe" => RefNext
        /\ prog \in CoreWriters => CoreNext
        /\ prog = "rompatch" => RomNext
    BY <1>2, NextByProgram DEF CoreWriters, CorePrograms
  <2>2. RefInv'
    BY <2>1, RefKeepsInv DEF MapsInv, RefInv
  <2>3. MmuInv'
    BY <2>1, MmuKeepsInv DEF MapsInv, MmuInv
  <2>4. CtxInv'
    BY <2>1, CtxKeepsInv DEF MapsInv, CtxInv
  <2>5. RomInv'
    BY <2>1, RomKeepsInv DEF MapsInv, RomInv
  <2>6. CoreInv'
    BY <2>1, CoreKeepsInv DEF MapsInv, CoreInv
  <2> QED BY <2>2, <2>3, <2>4, <2>5, <2>6 DEF MapsInv
<1> QED BY <1>1, <1>2

\* The end of a program that writes the maps.
RestKept(a, w) ==
  /\ a.sx = 0 /\ a.ux = 0
  /\ \A k \in (Contexts \X Segments) \ LeftSegments : a.smap[k] = w.smap[k]
  /\ \A s \in Slots \ LeftEntries : a.pmap[s].bits = w.pmap[s].bits

\* refmodprobe's scratch page has the permissions it had.
LEMMA RefLeaves == RefInv /\ prog = "refmodprobe" /\ pc = "done" => RestKept(m, r.was)
<1> SUFFICES ASSUME RefInv, prog = "refmodprobe", pc = "done" PROVE RestKept(m, r.was)
  OBVIOUS
<1> DEFINE s == MapSlot(r.was, "stack")
<1>1. /\ MachineOK(r.was) /\ r.was.sx = 0 /\ r.was.ux = 0 /\ SameBut(r.was, m, s)
      /\ getpgmap(m, "stack").bits = getpgmap(r.was, "stack").bits
  BY DEF RefInv, RefPlaces
<1>2. getpgmap(r.was, "stack") = r.was.pmap[s] /\ getpgmap(m, "stack") = m.pmap[s]
  <2>1. MapSlot(m, "stack") = s
    BY <1>1, SameMapSlot
  <2> QED BY <2>1 DEF getpgmap, MapSlot
<1> HIDE DEF s
<1>3. \A t \in Slots : m.pmap[t].bits = r.was.pmap[t].bits
  BY <1>1, <1>2 DEF SameBut
<1> QED BY <1>1, <1>3 DEF RestKept, SameBut

\* mmuprobe's case F and G have put the kernel's segment and entry back.
LEMMA MmuLeaves == MmuInv /\ prog = "mmuprobe" => RestKept(m, r.was)
<1> SUFFICES ASSUME MmuInv, prog = "mmuprobe" PROVE RestKept(m, r.was)
  OBVIOUS
<1>1. /\ MmuMachine(m) /\ MmuFrame(r.was, m)
      /\ KernSeg(m) = KernSeg(r.was) /\ KernPme(m) = KernPme(r.was)
  BY DEF MmuInv
<1>2. ASSUME NEW t \in Slots \ LeftEntries PROVE m.pmap[t].bits = r.was.pmap[t].bits
  <2>1. CASE t = <<KernSeg(r.was), "kern">>
    BY <1>1, <2>1 DEF KernPme
  <2>2. CASE t # <<KernSeg(r.was), "kern">>
    <3>1. t \notin MmuEntries(r.was)
      BY <2>2 DEF MmuEntries, LeftEntries
    <3> QED BY <1>1, <3>1 DEF MmuFrame, FrameOf
  <2> QED BY <2>1, <2>2
<1>3. ASSUME NEW k \in (Contexts \X Segments) \ LeftSegments PROVE m.smap[k] = r.was.smap[k]
  <2>1. CASE k = <<0, "kern">>
    BY <1>1, <2>1 DEF KernSeg
  <2>2. CASE k # <<0, "kern">>
    <3>1. k \notin MmuSegments
      BY <2>2 DEF MmuSegments, LeftSegments
    <3> QED BY <1>1, <3>1 DEF MmuFrame, FrameOf
  <2> QED BY <2>1, <2>2
<1> QED BY <1>1, <1>2, <1>3 DEF RestKept, MmuMachine

\* ctxprobe has put back its two pages, and their segment in both contexts.
LEMMA CtxLeaves == CtxInv /\ prog = "ctxprobe" /\ pc = "done" => RestKept(m, r.was)
<1> SUFFICES ASSUME CtxInv, prog = "ctxprobe", pc = "done" PROVE RestKept(m, r.was)
  OBVIOUS
<1>1. CtxRest(r.was, m) /\ CtxWas(r.was)
  BY DEF CtxInv, CtxSaved
<1>2. ASSUME NEW t \in Slots PROVE m.pmap[t].bits = r.was.pmap[t].bits
  <2>1. CASE t \in CtxEntries
    BY <1>1, <2>1 DEF CtxEntries, CtxVas, CtxRest, CtxMapped, CtxBits
  <2>2. CASE t \notin CtxEntries
    BY <1>1, <2>2 DEF CtxRest, CtxMapped, CtxFrame, FrameOf
  <2> QED BY <2>1, <2>2
<1>3. ASSUME NEW k \in Contexts \X Segments PROVE m.smap[k] = r.was.smap[k]
  <2>1. CASE k \in CtxSegments
    BY <1>1, <2>1 DEF CtxSegments, CtxRest, CtxMapped, CtxWas, Contexts
  <2>2. CASE k \notin CtxSegments
    BY <1>1, <2>2 DEF CtxRest, CtxMapped, CtxFrame, FrameOf
  <2> QED BY <2>1, <2>2
<1> QED BY <1>1, <1>2, <1>3 DEF RestKept, CtxRest

\* The other three have written one entry each.
LEMMA CoreLeaves == CoreInv /\ prog \in CoreWriters => RestKept(m, r.was)
BY DEF CoreInv, FrameOf, RestKept, LeftSegments

\* At the end of each, the rest is what was found.
LEMMA MapsLeft == MapsInv => RestLeftAsFound
<1> SUFFICES ASSUME MapsInv, pc = "done" PROVE RestLeftAsFound
  BY DEF RestLeftAsFound
<1>1. prog \in MapWriters => RestKept(m, r.was)
  BY RefLeaves, MmuLeaves, CtxLeaves, CoreLeaves DEF MapWriters, MapsInv, CoreWriters
<1>2. prog = "rompatch" => m.out = {} \/ m.faults = {}
  BY DEF MapsInv, RomInv
<1> QED BY <1>1, <1>2 DEF RestLeftAsFound, RestKept, Slots

\* Whatever the hardware has wrong with it, however many faults at once, and
\* whatever the driver's interrupt does between two steps, a program that
\* writes the maps leaves them, beyond the entries and the segment listed as
\* its own, as the monitor set them, in both contexts; and rompatch writes no
\* image it could not patch.
THEOREM MapsLeftAsFound == Spec => []RestLeftAsFound
BY InitMaps, NextKeepsMaps, MapsLeft, PTL DEF Spec
=============================================================================
