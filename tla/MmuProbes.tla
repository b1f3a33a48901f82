----------------------------- MODULE MmuProbes ------------------------------
(***************************************************************************)
(* src/tools/mmuprobe: does a protection violation report itself as one?   *)
(* src/tools/refmodprobe: does the MMU maintain the accessed and modified  *)
(* bits of a page map entry?                                               *)
(* mmuprobe prints what it saw beside what it expected, and the verdict    *)
(* here is whether the two agree; refmodprobe concludes by itself.         *)
(***************************************************************************)
EXTENDS ProbeMachine

MmuFaults == {"timeout", "unchecked"}

MmuInit ==
  /\ m \in {x \in Machines(MmuFaults) : ~x.net /\ PERM_ALL = x.pmap[<<"user", "stack">>].bits}
  /\ pc = "MA"
  /\ r = [was |-> m, seg |-> SEGINV, pme |-> PME_DENY]
  /\ said = NoVerdict

\* Each denied case: the page, whether its segment is pointed at SEGINV first,
\* who writes it, whether a read in another segment comes right before, next.
MmuCase ==
  [ MA |-> [va |-> "probe", inv |-> FALSE, fc |-> "UD", far |-> FALSE, next |-> "MB"],
    MB |-> [va |-> "probe", inv |-> FALSE, fc |-> "SD", far |-> FALSE, next |-> "MC"],
    MD |-> [va |-> "probe", inv |-> TRUE,  fc |-> "UD", far |-> FALSE, next |-> "ME"],
    ME |-> [va |-> "probe", inv |-> TRUE,  fc |-> "UD", far |-> TRUE,  next |-> "MF"],
    MF |-> [va |-> "kern",  inv |-> TRUE,  fc |-> "UD", far |-> FALSE, next |-> "MG"],
    MG |-> [va |-> "kern",  inv |-> TRUE,  fc |-> "UD", far |-> TRUE,  next |-> "done"] ]

\* The write under test, behind setsegmap, setpgmap and clear_berr.
MmuDeny(mm, c) ==
  LET seg == IF c.inv THEN setsegmap(mm, c.va, SEGINV) ELSE mm
      set == Rearmed(setpgmap(seg, c.va, PME_DENY))
      far == IF c.far THEN Access(set, "SD", "r", "low").m ELSE set
  IN Access(far, c.fc, "w", c.va)

\* report_at reads the register, which re-arms it.
MmuReport(t) ==
  CASE ~t.fault -> {"no fault"}
    [] t.fault /\ getbuserr(t.m) = {"VALID", "PROTERR"} -> {"right"}
    [] OTHER -> {"timeout"}

\* What was mapped at the kernel's address, put back after F and after G.
MmuRestore_not(mm, va, seg, pme) == mm
MmuRestore(mm, va, seg, pme) ==
  IF va = "kern" THEN setpgmap(setsegmap(mm, va, seg), va, pme) ELSE mm

MmuDenied ==
  \E c \in DOMAIN MmuCase :
    /\ At("mmuprobe", c)
    /\ LET t == MmuDeny(m, MmuCase[c])
       IN /\ r' = IF c = "MF" THEN [r EXCEPT !.seg = getsegmap(m, "kern"),
                                             !.pme = getpgmap(m, "kern")] ELSE r
          /\ m' = MmuRestore(Rearmed(t.m), MmuCase[c].va, r'.seg, r'.pme)
          /\ Says(c, MmuReport(t))
    /\ Goto(MmuCase[c].next)

\* C  the control: the permissions granted, a supervisor read must complete.
MmuControl ==
  /\ At("mmuprobe", "MC")
  /\ LET t == Access(Rearmed(setpgmap(m, "probe", PME_ALLOW)), "SD", "r", "probe")
     IN /\ m' = Rearmed(t.m)
        /\ Says("MC", IF t.fault THEN {"fault"} ELSE {"right"})
  /\ Goto("MD") /\ UNCHANGED r

MmuNext == MmuDenied \/ MmuControl

MmuBlames(v) ==
  CASE v[1] \in DOMAIN MmuCase /\ v[2] = "no fault" -> {"unchecked"}
    [] v[1] \in DOMAIN MmuCase /\ v[2] = "timeout"  -> {"timeout"}
    [] OTHER                                        -> {}
-----------------------------------------------------------------------------
RefFaults == {"nostats", "nomod", "readmod", "denystat", "fc3nostat", "unchecked", "timeout"}

RefInit ==
  /\ m \in {x \in Machines(RefFaults) : x.smap[<<0, "kern">>] = "kern"}
  /\ pc = "ref start"
  /\ r = [was |-> m, pme |-> PME_ALLOW, clr |-> {}, rd |-> {}, wr |-> {}, den |-> {},
          rdf |-> FALSE, wrf |-> FALSE, denf |-> FALSE]
  /\ said = NoVerdict

RefArm(mm) == Rearmed(mm)

RefMask(mm) == [mm EXCEPT !.masked = TRUE]

\* mask_interrupts, then read the scratch page's entry.
RefStart ==
  /\ At("refmodprobe", "ref start")
  /\ \E i \in Interrupted(m) :
       /\ m' = RefMask(i.m)
       /\ r' = [r EXCEPT !.pme = getpgmap(m', "stack")]
  /\ IF "V" \in r'.pme.bits
     THEN Goto("1") /\ UNCHANGED said
     ELSE Goto("done") /\ Says("ref", {"not valid"})

\* The entry with every permission, or none, and both bits clear.
RefAll  == Entry(PERM_ALL, r.pme.bus, {})
RefNone == Entry(PERM_NONE, r.pme.bus, {})

\* 1  clear both bits and read the entry back
RefClear ==
  /\ At("refmodprobe", "1")
  /\ \E i \in Interrupted(setpgmap(m, "stack", RefAll)) :
       m' = i.m /\ r' = [r EXCEPT !.clr = getpgmap(i.m, "stack").st]
  /\ Goto("2") /\ UNCHANGED said

\* 2  a granted user read
RefRead ==
  /\ At("refmodprobe", "2")
  /\ \E i \in Interrupted(RefArm(m)) :
       LET t == Try(i, "UD", "r", "stack")
       IN /\ m' = Rearmed(t.m)
          /\ r' = [r EXCEPT !.rd = getpgmap(t.m, "stack").st, !.rdf = t.fault]
  /\ Goto("3") /\ UNCHANGED said

\* 3  a granted user write, from clear bits
RefWrite ==
  /\ At("refmodprobe", "3")
  /\ \E i \in Interrupted(RefArm(setpgmap(m, "stack", RefAll))) :
       LET t == Try(i, "UD", "w", "stack")
       IN /\ m' = t.m
          /\ r' = [r EXCEPT !.wr = getpgmap(t.m, "stack").st, !.wrf = t.fault]
  /\ Goto("4") /\ UNCHANGED said

\* 4  a denied user read, from clear bits; then the entry is put back
RefDenied ==
  /\ At("refmodprobe", "4")
  /\ \E i \in Interrupted(RefArm(setpgmap(m, "stack", RefNone))) :
       LET t == Try(i, "UD", "r", "stack")
       IN /\ m' = setpgmap(t.m, "stack", r.pme)
          /\ r' = [r EXCEPT !.den = getpgmap(t.m, "stack").st, !.denf = t.fault]
  /\ Goto("conclude") /\ UNCHANGED said

\* The chain of conclusions at the end of main.
RefVerdicts ==
  CASE r.clr # {}                 -> {"did not clear"}
    [] r.clr = {} /\ (r.rdf \/ r.wrf) -> {"granted access faulted"}
    [] r.clr = {} /\ ~r.rdf /\ ~r.wrf /\ ~r.denf -> {"no fault"}
    [] OTHER ->
       IF r.rd = {} /\ r.wr = {} THEN {"neither bit"}
       ELSE IF r.rd = {REFMOD_ACC} /\ r.wr = REFMOD /\ r.den = {} THEN {"right"}
       ELSE {v \in {"read without accessed", "read set modified", "write not both",
                    "denied updated"} :
               \/ v = "read without accessed" /\ REFMOD_ACC \notin r.rd
               \/ v = "read set modified"     /\ "mod" \in r.rd
               \/ v = "write not both"        /\ r.wr # REFMOD
               \/ v = "denied updated"        /\ r.den # {} }

RefConclude ==
  /\ At("refmodprobe", "conclude")
  /\ Says("ref", RefVerdicts)
  /\ Goto("done") /\ UNCHANGED <<m, r>>

RefNext == RefStart \/ RefClear \/ RefRead \/ RefWrite \/ RefDenied \/ RefConclude

\* A clear through FC 3 that does not land goes unseen when the bits were
\* clear to begin with, and then shows as an updated denied entry.
RefBlames(v) ==
  CASE v = <<"ref", "did not clear">>        -> {"fc3nostat"}
    [] v = <<"ref", "no fault">>             -> {"unchecked"}
    [] v = <<"ref", "neither bit">>          -> {"nostats"}
    [] v = <<"ref", "read without accessed">> -> {"nostats"}
    [] v = <<"ref", "read set modified">>    -> {"readmod"}
    [] v = <<"ref", "write not both">>       -> {"nomod"}
    [] v = <<"ref", "denied updated">>       -> {"denystat", "fc3nostat"}
    [] v = <<"ref", "granted access faulted">> -> {}
    [] OTHER                                 -> {}
=============================================================================
