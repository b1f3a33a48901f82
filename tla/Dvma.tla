-------------------------------- MODULE Dvma --------------------------------
(***************************************************************************)
(* The bus masters beside the 68010: one sun2_dvma.v for each, the two of a *)
(* 2/50 behind sun2_bus_arb.v, and the CPU's side of the two-wire BR/BG     *)
(* handshake (MC68000UM 5.2), which the CPU core implements.                *)
(*                                                                          *)
(* A Wishbone access of a master becomes at most two word cycles on the     *)
(* 68010 bus.  PosEdge and NegEdge are the edges of C100; everything the    *)
(* CPU does happens between them, in its own time.                          *)
(***************************************************************************)
EXTENDS Integers, FiniteSets

CONSTANTS
  Masters,      \* {"eth"}, or {"eth", "scsi"} behind the arbiter
  Hold,         \* clocks the CPU may take to give up a grant it has ended
  Selects       \* which halves of a longword an access may select

Halves == {"lo", "hi"}

ASSUME DvmaAssumption ==
  /\ Masters \subseteq {"eth", "scsi"} /\ Masters # {} /\ Hold \in Nat \ {0}
  /\ Selects \subseteq SUBSET Halves

VARIABLES
  clk,          \* "high" after a positive edge, "low" after a negative one
  EN_DVMA,      \* the system enable register's bit
  req,          \* each master's Wishbone request: [want, halves]
  fsm,          \* each sun2_dvma's registers
  as_ext,       \* each one's half clock of AS after S_LATCH
  lock, owner,  \* sun2_bus_arb's registers
  cpu,          \* where the CPU is in the handshake
  P_BG, BUS_EN, \* its grant, and whether it drives the bus
  cpu_as,       \* it has a cycle in progress
  held          \* clocks it has been giving up the grant

arb  == <<lock, owner>>
core == <<cpu, P_BG, BUS_EN, cpu_as, held>>
vars == <<clk, EN_DVMA, req, fsm, as_ext, arb, core>>
-----------------------------------------------------------------------------
(* The wires. *)

Requesting(m) == fsm[m].state \notin {"IDLE", "ACK"}      \* ~br_n
P_BR          == \E m \in Masters : Requesting(m)

bg(m)     == P_BG /\ (Cardinality(Masters) > 1 => lock /\ owner = m)

dvma_active == \E m \in Masters : fsm[m].own
strobing(m) == fsm[m].state \in {"STROBE", "LATCH"}

\* sun2_dvma's own AS, and the one the machine sees: scsi's mux leg wins.
dvma_as(m) == strobing(m) \/ as_ext[m]
P_AS ==
  IF ~dvma_active THEN cpu_as
  ELSE dvma_as(IF "scsi" \in Masters /\ fsm["scsi"].own THEN "scsi"
               ELSE CHOOSE m \in Masters : fsm[m].own)
-----------------------------------------------------------------------------
(* One positive edge of one sun2_dvma, in each of its states.  ans is what   *)
(* DTACK and BERR say at that edge.                                          *)

Refused_enabled(m) == ~EN_DVMA

Refused(m) == ~EN_DVMA \/ fsm[m].dvma_err

Begin(m, r) ==
  [r EXCEPT !.err_cyc = FALSE, !.half = IF "lo" \in req[m].halves THEN "lo" ELSE "hi",
            !.hi_todo = req[m].halves = Halves, !.state = "REQ"]

\* A new bus request waits until the last grant is seen withdrawn.
Idle(m, r) ==
  IF ~req[m].want \/ r.answer # "" THEN r
  ELSE IF Refused(m) THEN [r EXCEPT !.err_cyc = TRUE, !.state = "ACK"]
  ELSE IF req[m].halves = {} THEN [r EXCEPT !.err_cyc = FALSE, !.state = "ACK"]
  ELSE IF bg(m) THEN r ELSE Begin(m, r)

Req_early(m, r) == IF bg(m) /\ ~cpu_as THEN [r EXCEPT !.own = TRUE, !.state = "ADDR"] ELSE r

Req(m, r) == IF bg(m) /\ ~cpu_as /\ ~BUS_EN THEN [r EXCEPT !.own = TRUE, !.state = "ADDR"] ELSE r

Strobe(r, ans) ==
  CASE ans = "berr"  -> [r EXCEPT !.err_cyc = TRUE, !.hi_todo = FALSE, !.state = "LATCH"]
    [] ans = "dtack" -> [r EXCEPT !.state = "LATCH"]
    [] ans = ""      -> r

Done(r) ==
  IF r.hi_todo THEN [r EXCEPT !.half = "hi", !.hi_todo = FALSE, !.state = "ADDR"]
               ELSE [r EXCEPT !.own = FALSE, !.state = "ACK"]

\* got is rd_lo and rd_hi: the halves latched for this access.
Step(m, r, ans) ==
  CASE r.state = "IDLE"   -> Idle(m, r)
    [] r.state = "REQ"    -> Req(m, r)
    [] r.state = "ADDR"   -> [r EXCEPT !.state = "STROBE"]
    [] r.state = "STROBE" -> Strobe(r, ans)
    [] r.state = "LATCH"  -> [r EXCEPT !.got = @ \cup {r.half}, !.state = "DONE"]
    [] r.state = "DONE"   -> Done(r)
    [] r.state = "ACK"    -> [r EXCEPT !.got = {}, !.state = "IDLE"]

\* The answer is a pulse.  An Ethernet reset clears the error latch, unless a
\* bus error sets it at the same edge.
Registers(m, ans, ether_reset) ==
  LET r == fsm[m] IN
    [Step(m, r, ans) EXCEPT
       !.answer   = IF r.state # "ACK" THEN "" ELSE IF r.err_cyc THEN "err" ELSE "ack",
       !.dvma_err = (r.dvma_err /\ ~ether_reset) \/ (r.state = "STROBE" /\ ans = "berr")]
-----------------------------------------------------------------------------
(* The arbiter: a grant is locked to whoever wins until its request drops.   *)

First == IF "eth" \in Masters /\ Requesting("eth") THEN "eth" ELSE "scsi"

Arb_favourite ==
  IF ~lock
  THEN /\ lock' = P_BR
       /\ owner' = IF P_BR /\ ~req["eth"].want THEN "scsi" ELSE "eth"
  ELSE lock' = Requesting(owner) /\ owner' = owner

Arb ==
  IF ~lock
  THEN lock' = P_BR /\ owner' = IF P_BR THEN First ELSE owner
  ELSE lock' = Requesting(owner) /\ owner' = owner
-----------------------------------------------------------------------------
(* The edges. *)

PosEdge(ans) ==
  /\ clk = "low" /\ clk' = "high"
  /\ cpu = "resuming" => held < Hold
  /\ held' = IF cpu = "resuming" THEN held + 1 ELSE 0
  /\ \E ether_reset \in SUBSET Masters :
       fsm' = [m \in Masters |-> Registers(m, ans, m \in ether_reset)]
  /\ req' = [m \in Masters |-> IF fsm[m].answer = "" THEN req[m] ELSE [req[m] EXCEPT !.want = FALSE]]
  /\ IF Cardinality(Masters) > 1 THEN Arb ELSE UNCHANGED arb
  /\ UNCHANGED <<EN_DVMA, as_ext, cpu, P_BG, BUS_EN, cpu_as>>

NegEdge ==
  /\ clk = "high" /\ clk' = "low"
  /\ as_ext' = [m \in Masters |-> strobing(m)]
  /\ UNCHANGED <<EN_DVMA, req, fsm, arb, core>>
-----------------------------------------------------------------------------
(* A master begins an access, and holds it until it is answered.             *)

Ask(m) ==
  /\ ~req[m].want
  /\ \E h \in Selects : req' = [req EXCEPT ![m] = [want |-> TRUE, halves |-> h]]
  /\ UNCHANGED <<clk, EN_DVMA, fsm, as_ext, arb, core>>

(* The CPU: cycles of its own, among them writes of the system enable        *)
(* register; a grant, which takes effect when its cycle is over; and, when   *)
(* the request has gone, the grant and its drivers back in either order.     *)

CpuCycle ==
  /\ IF cpu_as THEN cpu_as' = FALSE ELSE cpu = "owns" /\ cpu_as' = TRUE
  /\ EN_DVMA' \in IF cpu_as THEN BOOLEAN ELSE {EN_DVMA}
  /\ UNCHANGED <<clk, req, fsm, as_ext, arb, cpu, P_BG, BUS_EN, held>>

CpuGrants ==
  /\ cpu = "owns" /\ P_BR
  /\ cpu' = "granting" /\ P_BG' = TRUE
  /\ UNCHANGED <<clk, EN_DVMA, req, fsm, as_ext, arb, BUS_EN, cpu_as, held>>

CpuLetsGo ==
  /\ cpu = "granting" /\ ~cpu_as
  /\ cpu' = "granted" /\ BUS_EN' = FALSE
  /\ UNCHANGED <<clk, EN_DVMA, req, fsm, as_ext, arb, P_BG, cpu_as, held>>

CpuSeesRelease ==
  /\ cpu = "granted" /\ ~P_BR
  /\ cpu' = "resuming"
  /\ UNCHANGED <<clk, EN_DVMA, req, fsm, as_ext, arb, P_BG, BUS_EN, cpu_as, held>>

CpuWithdrawsGrant ==
  /\ cpu = "resuming" /\ P_BG
  /\ P_BG' = FALSE /\ cpu' = IF BUS_EN THEN "owns" ELSE cpu
  /\ UNCHANGED <<clk, EN_DVMA, req, fsm, as_ext, arb, BUS_EN, cpu_as, held>>

CpuDrives ==
  /\ cpu = "resuming" /\ ~BUS_EN
  /\ BUS_EN' = TRUE /\ cpu' = IF P_BG THEN cpu ELSE "owns"
  /\ UNCHANGED <<clk, EN_DVMA, req, fsm, as_ext, arb, P_BG, cpu_as, held>>
-----------------------------------------------------------------------------
Init ==
  /\ clk = "low" /\ EN_DVMA = FALSE
  /\ req = [m \in Masters |-> [want |-> FALSE, halves |-> {}]]
  /\ fsm = [m \in Masters |->
              [state |-> "IDLE", half |-> "lo", hi_todo |-> FALSE, err_cyc |-> FALSE, own |-> FALSE,
               got |-> {}, answer |-> "", dvma_err |-> FALSE]]
  /\ as_ext = [m \in Masters |-> FALSE]
  /\ lock = FALSE /\ owner = "eth"
  /\ cpu = "owns" /\ P_BG = FALSE /\ BUS_EN = TRUE /\ cpu_as = FALSE /\ held = 0

Answers == {"", "dtack", "berr"}

Next ==
  \/ \E ans \in Answers : PosEdge(ans)
  \/ NegEdge
  \/ \E m \in Masters : Ask(m)
  \/ CpuCycle \/ CpuGrants \/ CpuLetsGo
  \/ CpuSeesRelease \/ CpuWithdrawsGrant \/ CpuDrives

Spec == Init /\ [][Next]_vars

\* The clock runs; every cycle on the bus is ended by DTACK or BERR; a CPU
\* cycle ends, and the CPU takes part in the handshake.
Fairness ==
  /\ WF_vars(\E ans \in Answers : PosEdge(ans)) /\ WF_vars(NegEdge)
  /\ SF_vars(\E ans \in {"dtack", "berr"} : PosEdge(ans))
  /\ WF_vars(cpu_as /\ CpuCycle) /\ SF_vars(CpuGrants) /\ WF_vars(CpuLetsGo)
  /\ SF_vars(CpuSeesRelease) /\ WF_vars(CpuWithdrawsGrant) /\ WF_vars(CpuDrives)

FairSpec == Spec /\ Fairness
-----------------------------------------------------------------------------
TypeOK ==
  /\ clk \in {"high", "low"} /\ EN_DVMA \in BOOLEAN
  /\ req \in [Masters -> [want : BOOLEAN, halves : SUBSET Halves]]
  /\ fsm \in [Masters -> [state : {"IDLE", "REQ", "ADDR", "STROBE", "LATCH", "DONE", "ACK"},
                          half : Halves, hi_todo : BOOLEAN, err_cyc : BOOLEAN, own : BOOLEAN,
                          got : SUBSET Halves, answer : {"", "ack", "err"}, dvma_err : BOOLEAN]]
  /\ \A m \in Masters : fsm[m].own <=> fsm[m].state \in {"ADDR", "STROBE", "LATCH", "DONE"}
  /\ held \in 0 .. Hold

\* "dvma_active is only ever asserted after the CPU core has granted the bus
\* and dropped BUS_EN, so the two never drive together" (top_fpga.v 342-343).
NeverTogether == dvma_active => ~BUS_EN /\ ~cpu_as

\* A bus error "stops the channel dead until the Ethernet reset bit is
\* asserted": AS never goes out while it is latched (sun2_dvma.v 91-100).
StoppedDead ==
  [][ \A m \in Masters : fsm[m].dvma_err /\ ~dvma_as(m) => ~dvma_as(m)' ]_vars

\* Every access is answered: neither master starves the other, though one has
\* priority (sun2_bus_arb.v 15-24).
Answered == \A m \in Masters : req[m].want ~> fsm[m].answer # ""
=============================================================================
