----------------------------- MODULE CoreProbes -----------------------------
(***************************************************************************)
(* The boot blocks that ask the 68010 rather than the MMU:                 *)
(*   usrprobe   which stack does a user-mode exception frame go on?        *)
(*   beprobe    what is in the frame of a bus error nobody answered?       *)
(*   dogprobe   does a double bus fault reach the watchdog?                *)
(*   strprobe   does a byte move with an odd operand fault?                *)
(*   rteprobe   ... when the instruction is entered by RTE?                *)
(***************************************************************************)
EXTENDS ProbeMachine, Integers

CONSTANTS StrLengths, RteLengths    \* the lengths copied: 1..16 and 1..13

ASSUME CopyLengthsAssumption == StrLengths \subseteq Nat /\ RteLengths \subseteq Nat

CoreMachines(catalogue) ==
  {x \in Machines(catalogue) :
     /\ ~x.net /\ x.latch = NoAnswer /\ x.smap[<<0, "kern">>] = "kern"
     /\ x.pmap[<<"user", "stack">>].bits = PERM_ALL}
-----------------------------------------------------------------------------
(* usrprobe.  Stack pointers are offsets from where each was before.       *)

UsrFaults == {"frameUser", "frameSpill", "noTrap", "unchecked"}
UsrInit ==
  /\ m \in CoreMachines(UsrFaults)
  /\ pc = "usr trap" /\ said = NoVerdict
  /\ r = [was |-> m, paint |-> TRUE]

\* go_user's return address is on the supervisor stack when the user program
\* runs: main read its pointer before the call.
UsrReturn == -4

TrapFrame == 8
BusErrorFrame == 58

\* Where a frame goes, and whether it covers the word under the user stack.
UsrPush(mm, size) ==
  IF Has(mm, "frameUser")
  THEN [ssp |-> UsrReturn, usp |-> -size, spill |-> TRUE]
  ELSE [ssp |-> UsrReturn - size, usp |-> 0,
        spill |-> Has(mm, "frameSpill") /\ size = BusErrorFrame]

\* A  trap #0 from user mode.  A trap that is not taken leaves the user
\* program in its loop for good.
UsrTrap ==
  /\ At("usrprobe", "usr trap")
  /\ LET f == UsrPush(m, TrapFrame)
     IN IF Has(m, "noTrap")
        THEN Goto("lost") /\ UNCHANGED said
        ELSE /\ Says("trap", IF f.ssp # 0 /\ f.usp = 0 THEN {"right"}
                             ELSE IF f.usp # 0 /\ f.ssp = 0 THEN {"user stack"}
                             ELSE {"neither or both"})
             /\ Goto("usr berr")
  /\ UNCHANGED <<m, r>>

\* B  a bus error from user mode, with the word under the user stack painted
\* first.  An access that is allowed leaves the user program in its loop.
UsrBusError ==
  /\ At("usrprobe", "usr berr")
  /\ LET t == Access(setpgmap(m, "user", PME_DENY), "UD", "w", "user")
         f == UsrPush(m, BusErrorFrame)
     IN /\ m' = t.m
        /\ r' = [r EXCEPT !.paint = t.fault => ~f.spill]
        /\ IF ~t.fault
           THEN Goto("lost") /\ UNCHANGED said
           ELSE /\ Says("berr", IF f.spill THEN {"part on user stack"}
                                ELSE IF f.usp # 0 /\ f.ssp = 0 THEN {"user stack"}
                                ELSE IF f.ssp # 0 /\ f.usp = 0 THEN {"right"}
                                ELSE {"neither or both"})
                /\ Goto("done")

UsrBlames(v) ==
  CASE v = <<"trap", "user stack">>         -> {"frameUser"}
    [] v = <<"trap", "neither or both">>    -> {"frameUser"}
    [] v = <<"berr", "part on user stack">> -> {"frameUser", "frameSpill"}
    [] v = <<"berr", "user stack">>         -> {"frameUser"}
    [] OTHER                                -> {}
-----------------------------------------------------------------------------
(* beprobe and dogprobe: a page of the system bus nothing answers on.      *)

BusFaults == {"vec3", "sswFalse", "answered", "noWatchdog"}
BusInit ==
  /\ m \in CoreMachines(BusFaults)
  /\ pc = "dead page" /\ said = NoVerdict
  /\ r = [was |-> m, paint |-> TRUE]

DeadPage(mm) == setpgmap(mm, "probe", PROBE_PME)

DeadStore(mm) ==
  LET t == Access(mm, "SD", "w", "probe")
  IN [t EXCEPT !.fault = @ /\ ~Has(mm, "answered")]

\* One store; the handler copies the frame and goes to the saved PC.  Which
\* vector was raised, and does the status word describe the cycle?
BeProbe ==
  /\ At("beprobe", "dead page")
  /\ LET t == DeadStore(DeadPage(m))
     IN /\ m' = t.m
        /\ Says("be", IF ~t.fault THEN {"completed"}
                      ELSE {IF Has(m, "vec3") THEN "vector 3" ELSE "vector 2",
                            IF Has(m, "sswFalse") THEN "mismatch" ELSE "agrees"})
  /\ Goto("done") /\ UNCHANGED r

\* Everything is said before the stack pointer goes into the dead page.
DogArm ==
  /\ At("dogprobe", "dead page")
  /\ m' = DeadPage(m)
  /\ Says("dog", {"armed"})
  /\ Goto("armed") /\ UNCHANGED r

\* The store faults and so does the push of its frame: the CPU halts, and the
\* watchdog resets the machine, or nothing does.
DogStore ==
  /\ At("dogprobe", "armed")
  /\ LET store == DeadStore(m)
         push  == DeadStore(store.m)
     IN IF ~store.fault
        THEN m' = store.m /\ Says("dog", {"no fault"}) /\ Goto("done")
        ELSE /\ m' = push.m
             /\ IF push.fault /\ ~Has(m, "noWatchdog")
                THEN Says("dog", {"banner"}) /\ Goto("done")
                ELSE Goto("lost") /\ UNCHANGED said
  /\ UNCHANGED r

BusBlames(v) ==
  CASE v = <<"be", "completed">> -> {"answered"}
    [] v = <<"be", "vector 3">>  -> {"vec3"}
    [] v = <<"be", "mismatch">>  -> {"sswFalse"}
    [] v = <<"dog", "no fault">> -> {"answered"}
    [] OTHER                     -> {}
-----------------------------------------------------------------------------
(* strprobe and rteprobe.                                                  *)

CopyFaults == {"oddAlways", "oddBoth", "oddResumed", "wordBus", "wordNone", "noTrace"}
CopyInit ==
  /\ m \in CoreMachines(CopyFaults)
  /\ pc = "control a" /\ said = NoVerdict
  /\ r = [failures |-> 0, traced |-> 0]

Odd(a) == a % 2 = 1

\* Does the core refuse one byte move from s to d?
RefusesByte(mm, d, s, resumed) ==
  \/ Has(mm, "oddAlways")  /\ (Odd(d) \/ Odd(s))
  \/ Has(mm, "oddBoth")    /\ Odd(d) /\ Odd(s)
  \/ Has(mm, "oddResumed") /\ resumed /\ (Odd(d) \/ Odd(s))

\* strncpy's loop: n byte moves, both pointers stepping.  Entered by RTE at
\* every instruction when the trace bit is set and the core honours it.
CopyRefused(mm, d, s, n, traced) ==
  \E k \in 0..(n - 1) : RefusesByte(mm, d + k, s + k, traced /\ ~Has(mm, "noTrace"))

\* one(): the copies of a sweep that did not pass.
Failing(mm, lengths, traced) ==
  Cardinality({x \in {0, 1} \X {0, 1} \X lengths : CopyRefused(mm, x[1], x[2], x[3], traced)})

\* a  a word read at an odd address must raise vector 3.  strprobe tells a bus
\* error from silence, rteprobe does not.
CopyControlA ==
  /\ prog \in {"strprobe", "rteprobe"} /\ pc = "control a"
  /\ LET silent == Has(m, "wordNone")
         bus    == ~silent /\ Has(m, "wordBus")
     IN /\ Says("a", CASE silent \/ (bus /\ prog = "rteprobe") -> {"did not fault"}
                       [] bus /\ prog = "strprobe" -> {"bus error"}
                       [] OTHER -> {"right"})
        /\ r' = [r EXCEPT !.failures = @ + (IF silent \/ bus THEN 1 ELSE 0)]
  /\ Goto("control b") /\ UNCHANGED m

\* b  a byte read at an odd address must not
CopyControlB ==
  /\ prog \in {"strprobe", "rteprobe"} /\ pc = "control b"
  /\ LET refused == RefusesByte(m, 0, 1, FALSE)
     IN /\ Says("b", IF refused THEN {"faulted"} ELSE {"right"})
        /\ r' = [r EXCEPT !.failures = @ + (IF refused THEN 1 ELSE 0)]
  /\ Goto("sweep") /\ UNCHANGED m

\* All four alignments and every length, then the case of the three cores.
StrSweep ==
  /\ At("strprobe", "sweep")
  /\ LET cores == IF CopyRefused(m, 0, 0, 12, FALSE) THEN 1 ELSE 0
     IN r' = [r EXCEPT !.failures = @ + Failing(m, StrLengths, FALSE) + cores]
  /\ Says("str", IF r'.failures = 0 THEN {"pass"} ELSE {"fail"})
  /\ Goto("done") /\ UNCHANGED m

\* c  the sweep untraced, then the same sweep with the trace bit set.
RteSweep ==
  /\ At("rteprobe", "sweep")
  /\ r' = [failures |-> r.failures + Failing(m, RteLengths, FALSE),
           traced   |-> Failing(m, RteLengths, TRUE)]
  /\ Says("rte", CASE Has(m, "noTrace") -> {"inconclusive"}
                   [] ~Has(m, "noTrace") /\ r'.failures > 0 -> {"fail"}
                   [] OTHER -> IF r'.traced > 0 THEN {"reproduced"} ELSE {"pass"})
  /\ Goto("done") /\ UNCHANGED m

CopyBlames(v) ==
  CASE v = <<"a", "did not fault">>    -> {"wordNone", "wordBus"}
    [] v = <<"a", "bus error">>        -> {"wordBus"}
    [] v = <<"b", "faulted">>          -> {"oddAlways"}
    [] v[1] \in {"str", "rte"} /\ v[2] = "fail" ->
          {"wordNone", "wordBus", "oddAlways", "oddBoth"}
    [] v = <<"rte", "reproduced">>     -> {"oddResumed"}
    [] v = <<"rte", "inconclusive">>   -> {"noTrace"}
    [] OTHER                           -> {}

CoreNext == UsrTrap \/ UsrBusError \/ BeProbe \/ DogArm \/ DogStore
              \/ CopyControlA \/ CopyControlB \/ StrSweep \/ RteSweep
=============================================================================
