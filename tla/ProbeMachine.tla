---------------------------- MODULE ProbeMachine ----------------------------
(***************************************************************************)
(* The machine as a bare-metal boot block under src/tools meets it.  The   *)
(* monitor loads one boot block and jumps to it in supervisor mode; the    *)
(* block changes the maps through FC 3, makes an access that may fault,    *)
(* and says what it concludes about the hardware.                          *)
(*                                                                         *)
(* The machine is a record m: the two context registers, the segment and   *)
(* page maps, the bus error register, and the set of faults of the         *)
(* hardware, which the block cannot see and is there to find.  Every       *)
(* helper the blocks share (setpgmap, getbuserr, a `moves' to user data,   *)
(* the handler that fixes the map and reruns) is an operator on m.         *)
(*                                                                         *)
(* The maps keep the pages the blocks use, not the 4096 there are.         *)
(***************************************************************************)
EXTENDS Naturals, Sequences, FiniteSets

CONSTANT MaxFaults      \* how many faults the hardware may have at once

VARIABLES
  prog,     \* the boot block that was loaded
  pc,       \* the place it has reached
  m,        \* the machine
  r,        \* what the block saved: entries and segments it will put back; and,
            \* in a block that writes the maps, r.was, the machine it was loaded
            \* on, which the block does not have and the properties look back to
  said      \* its verdicts so far, as pairs <<case, verdict>>

vars == <<prog, pc, m, r, said>>

ASSUME MaxFaultsAssumption == MaxFaults \in Nat
-----------------------------------------------------------------------------
Pages    == {"low", "user", "stack", "probe", "kern"}
Segments == {"low", "user", "probe", "kern"}
Contexts == {0, 1}
SEGINV   == "inv"
Pmegs    == Segments \cup {SEGINV}

\* USER_VA and STACK_VA are neighbouring pages of one segment.
SegOf(va) == IF va = "stack" THEN "user" ELSE va

\* The permission field, entry bits 31..25.
PERM_ALL       == {"V", "SR", "SW", "SX", "UR", "UW", "UX"}
PERM_NONE      == {"V"}
PERM_KERNTEXT  == {"V", "SR", "SX"}
PERM_NO_USRW   == PERM_ALL \ {"UW"}
\* The statistics bits, entry bits 21 and 20.
REFMOD_ACC     == "acc"
REFMOD         == {"acc", "mod"}

\* A page map entry: permissions, whether its type is the system bus (where
\* nothing answers), statistics.
Entry(bits, bus, st) == [bits |-> bits, bus |-> bus, st |-> st]
PME_DENY  == Entry(PERM_NONE, FALSE, {})
PME_ALLOW == Entry(PERM_ALL, FALSE, {})
PROBE_PME == Entry({"V", "SR", "SW", "SX"}, TRUE, {})

\* (pme & ~PERM_MASK) | bits
WithPerm(e, bits) == [e EXCEPT !.bits = bits]
-----------------------------------------------------------------------------
(* Control space, FC 3.                                                    *)

Has(mm, f) == f \in mm.faults

\* The context FC 3 accesses go through: the user one.
MapContext(mm) == IF Has(mm, "fc3sup") THEN mm.sx ELSE mm.ux

Slot(mm, c, va) == <<mm.smap[<<c, SegOf(va)>>], va>>

getpgmap(mm, va)  == mm.pmap[Slot(mm, MapContext(mm), va)]
getsegmap(mm, va) == mm.smap[<<MapContext(mm), SegOf(va)>>]

setpgmap(mm, va, e) ==
  LET s == Slot(mm, MapContext(mm), va)
  IN [mm EXCEPT !.pmap[s] = IF Has(mm, "fc3nostat") THEN [e EXCEPT !.st = mm.pmap[s].st] ELSE e]

setsegmap(mm, va, p) ==
  LET hit == IF Has(mm, "segall") THEN Contexts ELSE {MapContext(mm)}
  IN [mm EXCEPT !.smap = [k \in DOMAIN @ |->
        IF k[1] \in hit /\ k[2] = SegOf(va) THEN p ELSE @[k]]]

\* A byte write to one half of the context word.
setusercontext(mm, c) ==
  [mm EXCEPT !.ux = c, !.sx = IF Has(mm, "bothctx") THEN c ELSE @]

\* Reading the bus error register re-arms it, and so does writing it.
getbuserr(mm)  == mm.latch
Rearmed(mm)    == [mm EXCEPT !.latch = {}]
-----------------------------------------------------------------------------
(* A translated access.                                                    *)

\* The bit the permission selector picks for a function code and direction.
PermBit(fc, rw) ==
  CASE fc = "SP" -> "SX"
    [] fc = "UP" -> "UX"
    [] fc = "SD" -> IF rw = "w" THEN "SW" ELSE "SR"
    [] fc = "UD" -> IF rw = "w" THEN "UW" ELSE "UR"

OneHigh == [SR |-> "V", SW |-> "SR", SX |-> "SW", UR |-> "SX", UW |-> "UR", UX |-> "UW"]

Checked(mm, fc, rw) ==
  IF Has(mm, "bithigh") THEN OneHigh[PermBit(fc, rw)] ELSE PermBit(fc, rw)

AccessContext(mm, fc) ==
  IF fc \in {"SP", "SD"} \/ Has(mm, "usersup") THEN mm.sx ELSE mm.ux

Granted(mm, e, fc, rw) ==
  /\ "V" \in e.bits
  /\ Has(mm, "unchecked") \/ Checked(mm, fc, rw) \in e.bits

\* What the register latches for a refused access, and for one nobody answers.
Refusal(mm, e) ==
  (IF "V" \in e.bits THEN {"VALID"} ELSE {}) \cup
  (IF Has(mm, "timeout") THEN {"TIMEOUT"} ELSE {"PROTERR"})
NoAnswer == {"VALID", "TIMEOUT"}

Statistics(mm, st, granted, rw) ==
  IF Has(mm, "nostats") \/ (~granted /\ ~Has(mm, "denystat")) THEN st
  ELSE st \cup {"acc"} \cup
       (IF (rw = "w" /\ ~Has(mm, "nomod")) \/ Has(mm, "readmod") THEN {"mod"} ELSE {})

Access(mm, fc, rw, va) ==
  LET s       == Slot(mm, AccessContext(mm, fc), va)
      e       == mm.pmap[s]
      granted == Granted(mm, e, fc, rw)
      berr    == ~granted \/ e.bus
  IN [ m |-> [mm EXCEPT
                !.pmap[s].st = Statistics(mm, @, granted, rw),
                !.latch = IF @ = {} /\ berr
                          THEN IF granted THEN NoAnswer ELSE Refusal(mm, e)
                          ELSE @],
       fault |-> berr ]

\* The PROM's Ethernet driver, when the block was delivered over the network
\* and interrupts are not masked, stores to its own data: in one of the two
\* pages the block rewrites.  A set, because it may come or not.
Interrupted(mm) ==
  {[m |-> mm, fault |-> FALSE]} \cup
  (IF mm.net /\ ~mm.masked
   THEN {Access(mm, "SD", "w", va) : va \in {"user", "stack"}} ELSE {})

\* The access under test with a handler that records and abandons it: the
\* block resumes at the saved PC whatever it was that faulted.
Try(i, fc, rw, va) == IF i.fault THEN i ELSE Access(i.m, fc, rw, va)
-----------------------------------------------------------------------------
(* The handler that fixes the map and reruns the access (berr_fixup).      *)

FIXUP_CAP == 1

\* fixup_record: read the register, install the entry, count.
Fixup(mm, va, e) == setpgmap(Rearmed(mm), va, e)

\* How the core takes up an instruction of this kind after RTE.
Restarts(mm, kind) ==
  CASE Has(mm, kind \o "Stuck") -> "never"
    [] Has(mm, kind \o "Wrong") -> "elsewhere"
    [] Has(mm, kind \o "Crash") -> "lost"
    [] OTHER                    -> "right"

\* How many faults are taken before the handler gives up on an access that
\* never succeeds.
GaveUp == FIXUP_CAP + 1

\* Run the instruction under test with berr_fixup installed: the machine
\* afterwards, the faults taken, and where it completed ("nowhere" when the
\* cap was exceeded).  i is the machine after a possible interrupt.
Rerun(i, fc, rw, va, e, kind) ==
  LET before == IF i.fault THEN Fixup(i.m, va, e) ELSE i.m
      first  == Access(before, fc, rw, va)
      early  == IF i.fault THEN 1 ELSE 0
      fixed  == Fixup(first.m, va, e)
      again  == Access(fixed, fc, rw, va)
      how    == Restarts(first.m, kind)
  IN CASE ~first.fault   -> [m |-> first.m, took |-> early, at |-> "right"]
       [] first.fault /\ (i.fault \/ how = "never" \/ again.fault)
                         -> [m |-> Fixup(again.m, va, e), took |-> GaveUp, at |-> "nowhere"]
       [] OTHER          -> [m |-> again.m, took |-> early + 1, at |-> how]
-----------------------------------------------------------------------------
(* Writing a boot block as a sequence of steps.                            *)

At(p, place) == prog = p /\ pc = place
Goto(place)  == pc' = place /\ UNCHANGED prog
Says(c, verdicts) == said' = said \cup ({c} \X verdicts)

NoVerdict == {}
Finished  == pc \in {"done", "lost"}

\* The machine as the monitor leaves it: both contexts 0, everything mapped
\* but the segments it has no use for, the bus error register holding the
\* first error of the boot (a device probe's timeout) unless something read it.
MonitorMaps(st, stackbits, kernseg) ==
  [ smap |-> [k \in Contexts \X Segments |-> IF k[2] = "kern" THEN kernseg ELSE k[2]],
    pmap |-> [k \in Pmegs \X Pages |->
       IF k[1] = SEGINV THEN Entry({}, FALSE, {})
       ELSE Entry(IF k[2] = "stack" THEN stackbits ELSE PERM_ALL, FALSE,
                  IF k[2] = "stack" THEN st ELSE {})] ]

FaultSets(catalogue) == {s \in SUBSET catalogue : Cardinality(s) <= MaxFaults}

Machines(catalogue) ==
  {[ faults |-> f, sx |-> 0, ux |-> 0, smap |-> maps.smap, pmap |-> maps.pmap,
     latch |-> first, net |-> net, masked |-> FALSE ] :
     f \in FaultSets(catalogue), first \in {{}, NoAnswer}, net \in BOOLEAN,
     maps \in {MonitorMaps(st, b, k) : st \in SUBSET REFMOD, b \in {PERM_ALL, {}},
                                       k \in {"kern", SEGINV}} }
=============================================================================
