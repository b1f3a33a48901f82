------------------------------ MODULE BusCycle ------------------------------
(***************************************************************************)
(* One bus cycle after another on the 68010 bus of                          *)
(* rtl/sun2-common/sun2_fpga.v: the C_S timing chain, the maps' lookup and  *)
(* the MMU's verdict (sun2_mmu.v), the MATCH decode, DTACK, bus error, the  *)
(* bus error register, the accessed and modified bits the MMU keeps, and    *)
(* how an interrupt is acknowledged.                                        *)
(*                                                                          *)
(* PosEdge and NegEdge are the two edges of C100, and alternate.  The       *)
(* master (the 68010 or DVMA, which drive the same wires) raises AS after   *)
(* either edge and drops it after a negative one; the address may move at   *)
(* any time AS is up.  A page stands for the address; the map entry of a    *)
(* page says whether it is valid, what it allows, and what it leads to.     *)
(* Of an entry software here rewrites the statistics bits only.  The boot   *)
(* state is software's, so any program fetch may be a boot fetch.           *)
(***************************************************************************)
EXTENDS Integers

CONSTANTS
  Pages,
  Entry,        \* page -> [valid, rd, wr : BOOLEAN, to : Targets]
  Rewritten,    \* the pages whose entries software may write while the machine runs
  CardLatest    \* how far a cycle may have run when a card answers it

Targets == {"memory",   \* installed memory or frame buffer, answered by the Wishbone bridge
            "hole",     \* memory space with no memory, answered by sun2_fpga itself
            "device",   \* an on-board device, answered by sun2_fpga itself
            "bus"}      \* system bus space: a card may answer, or there is none

\* The chain's registers on the positive edge, C_S4 to C_S24.
Last == 11
S4(n)  == n >= 1
S6(n)  == n >= 2
S8(n)  == n >= 3
S24(n) == n >= Last

ASSUME BusAssumption ==
  /\ Pages # {} /\ Entry \in [Pages -> [valid : BOOLEAN, rd : BOOLEAN, wr : BOOLEAN, to : Targets]]
  /\ Rewritten \subseteq Pages /\ CardLatest \in 2 .. Last - 2

VARIABLES
  clk,            \* "high" after a positive edge, "low" after a negative one
  as, strobe,     \* ~P_AS_n, and whether a data strobe is out
  space,          \* "general"; "boot", a program fetch in boot state; of control
                  \* space "pmap", "berr" or "quick"; or "iack"
  page, rw,       \* the address; "r" or "w"
  rmw,            \* the cycle is the first half of a read-modify-write
  c3, n,          \* C_S3; how many of C_S4 .. C_S24 are set
  TIMEOUT, MMU_REFUSED,
  seg,            \* the page whose segment map entry is out
  out,            \* the page map's output register: whose entry, ACC, MOD
  pm,             \* the page map: what each page's entry holds
  w_ack, mb_ack,  \* the bridge's and a card's answer
  vec,            \* a vectored request at the level being acknowledged: "none",
                  \* "stands" since the level was driven, or came "late"
  iack_lat,       \* there was one, at the last positive edge with AS up
  seen,           \* what the master has sampled: "ack", "err" or nothing yet
  berr, berr_latched,
  was             \* the page and access of the cycle the chain belongs to

bus   == <<as, strobe, space, page, rw, rmw, seen, was>>
chain == <<c3, n, TIMEOUT, MMU_REFUSED>>
maps  == <<seg, out, pm>>
acks  == <<w_ack, mb_ack>>
irq   == <<vec, iack_lat>>
regs  == <<berr, berr_latched>>
vars  == <<clk, bus, chain, maps, acks, irq, regs>>
-----------------------------------------------------------------------------
(* The MMU's verdict. *)

Allows(e, how) == IF how = "r" THEN e.rd ELSE e.wr

FC_GENERAL      == space \in {"general", "boot"}
MATCH_PROM_BOOT == space = "boot"
VALID      == Entry[out.of].valid
PROTERR_raw == ~Allows(Entry[out.of], rw)

MMU_REFUSE == (PROTERR_raw \/ ~VALID) /\ S6(n) /\ FC_GENERAL /\ as

PROTERR_any == MMU_REFUSE
PROTERR     == PROTERR_raw /\ S6(n) /\ FC_GENERAL /\ as

MMU_OK_now == ~MMU_REFUSE
MMU_OK     == ~MMU_REFUSE /\ ~MMU_REFUSED

MATCH(to) == FC_GENERAL /\ MMU_OK /\ S6(n) /\ Entry[out.of].to = to

ERR == (MMU_REFUSE \/ TIMEOUT) /\ S8(n)

\* An acknowledge cycle gives a vector or is autovectored: the request of the
\* moment decides until AS falls, and what it was then from there on.
iack_now     == space = "iack" /\ vec # "none"
IACK_VEC_now == iack_now
IACK_VEC     == space = "iack" /\ IF as THEN iack_lat ELSE iack_now
VPA          == space = "iack" /\ ~IACK_VEC

DTACK ==
  \/ space \in {"berr", "quick"} /\ S4(n)
  \/ MATCH_PROM_BOOT /\ S4(n)
  \/ space = "pmap" /\ S6(n)
  \/ IACK_VEC /\ S4(n)
  \/ MATCH("device") /\ S8(n)
  \/ MATCH("hole") /\ S8(n)
  \/ MATCH("memory") /\ w_ack
  \/ MATCH("bus") /\ mb_ack

\* The 68010 looks at VPA where it looks at DTACK, from S4 on.
Answered == DTACK \/ (VPA /\ S4(n))

REFMOD_oneshot ==
  /\ FC_GENERAL /\ ~MATCH_PROM_BOOT /\ as /\ S6(n) /\ ~S8(n) /\ VALID /\ ~PROTERR_raw
  /\ ~out.acc \/ (~out.mod /\ rw = "w")

REFMOD_unchecked ==
  /\ FC_GENERAL /\ ~MATCH_PROM_BOOT /\ as /\ S6(n) /\ VALID
  /\ ~out.acc \/ (~out.mod /\ rw = "w")

REFMOD_WR ==
  /\ FC_GENERAL /\ ~MATCH_PROM_BOOT /\ as /\ S6(n) /\ VALID /\ ~PROTERR_raw
  /\ ~out.acc \/ (~out.mod /\ rw = "w")

ps_refmod == [out EXCEPT !.acc = TRUE, !.mod = @ \/ rw = "w"]

\* Software writing the protection half of the entry, statistics bits and all.
ps_sw_wr == space = "pmap" /\ rw = "w" /\ as /\ strobe /\ S6(n)

berr_read == space = "berr" /\ S4(n) /\ as
-----------------------------------------------------------------------------
(* The edges. *)

ChainPos_all_time_out ==
  IF as THEN /\ n' = IF n = 0 THEN (IF c3 THEN 1 ELSE 0) ELSE IF n = Last THEN Last ELSE n + 1
             /\ TIMEOUT' = (TIMEOUT \/ S24(n))
             /\ MMU_REFUSED' = (MMU_REFUSED \/ MMU_REFUSE)
        ELSE n' = 0 /\ TIMEOUT' = FALSE /\ MMU_REFUSED' = FALSE

ChainPos_none_times_out ==
  IF as THEN /\ n' = IF n = 0 THEN (IF c3 THEN 1 ELSE 0) ELSE IF n = Last THEN Last ELSE n + 1
             /\ TIMEOUT' = FALSE
             /\ MMU_REFUSED' = (MMU_REFUSED \/ MMU_REFUSE)
        ELSE n' = 0 /\ TIMEOUT' = FALSE /\ MMU_REFUSED' = FALSE

\* The chain clears on the first positive edge that finds AS up.
ChainPos ==
  IF as THEN /\ n' = IF n = 0 THEN (IF c3 THEN 1 ELSE 0) ELSE IF n = Last THEN Last ELSE n + 1
             /\ TIMEOUT' = (TIMEOUT \/ (S24(n) /\ ~MATCH("memory")))
             /\ MMU_REFUSED' = (MMU_REFUSED \/ MMU_REFUSE)
        ELSE n' = 0 /\ TIMEOUT' = FALSE /\ MMU_REFUSED' = FALSE

\* The segment map answers for the address a clock later, and the page map for
\* that answer a clock after: with the segment map's output of another page,
\* the entry looked up -- and written -- may be anybody's.
MapsPos ==
  /\ seg' = page
  /\ \E idx \in (IF seg = page THEN {page} ELSE Pages) :
       /\ out' = pm[idx]
       /\ \E ps_in \in [of : {idx}, acc : BOOLEAN, mod : BOOLEAN] :
            pm' = IF ps_sw_wr THEN [pm EXCEPT ![idx] = ps_in]
                  ELSE IF REFMOD_WR THEN [pm EXCEPT ![idx] = ps_refmod] ELSE pm

\* Only the first error is kept; reading or writing the register re-arms it.
RegsPos ==
  /\ berr_latched' = (ERR \/ (berr_latched /\ ~berr_read))
  /\ berr' = IF ERR /\ ~berr_latched THEN [valid |-> VALID, proterr |-> PROTERR, timeout |-> TIMEOUT]
             ELSE IF berr_read /\ rw = "w" THEN [valid |-> FALSE, proterr |-> FALSE, timeout |-> FALSE]
             ELSE berr

PosEdge ==
  /\ clk = "low" /\ clk' = "high"
  /\ ChainPos /\ MapsPos /\ RegsPos
  /\ iack_lat' = IF as THEN iack_lat ELSE iack_now
  /\ UNCHANGED <<c3, bus, acks, vec>>

\* The master samples DTACK and bus error on one negative edge and ends the
\* cycle, or the half of one, on the next.
Sample ==
  /\ seen = "none" /\ strobe
  /\ seen' = IF ERR THEN "err" ELSE IF Answered THEN "ack" ELSE "none"
  /\ UNCHANGED <<as, strobe, space, page, rw, rmw, was, acks>>

EndCycle ==
  /\ seen # "none" /\ ~(rmw /\ seen = "ack")
  /\ as' = FALSE /\ strobe' = FALSE /\ seen' = "none" /\ rmw' = FALSE
  /\ w_ack' = FALSE /\ mb_ack' = FALSE
  /\ UNCHANGED <<space, page, rw, was>>

\* The read half of a read-modify-write: only the strobes go, and R/W turns.
TurnAround ==
  /\ seen = "ack" /\ rmw
  /\ strobe' = FALSE /\ seen' = "none" /\ rmw' = FALSE /\ rw' = "w"
  /\ was' = [was EXCEPT !.rw = "w"]
  /\ w_ack' = FALSE /\ mb_ack' = FALSE
  /\ UNCHANGED <<as, space, page>>

NegEdge ==
  /\ clk = "high" /\ clk' = "low"
  /\ c3' = as
  /\ Sample \/ EndCycle \/ TurnAround \/ (~strobe /\ UNCHANGED <<bus, acks>>)
  /\ UNCHANGED <<n, TIMEOUT, MMU_REFUSED, maps, irq, regs>>
-----------------------------------------------------------------------------
(* The masters. *)

MoveAddress ==
  /\ ~as /\ space # "iack"
  /\ page' \in Pages \ {page}
  /\ UNCHANGED <<clk, as, strobe, space, rw, rmw, seen, was, chain, maps, acks, irq, regs>>

\* Between two cycles AS is up over a positive edge at least, and the function
\* codes of the next are out by then, which the 68010 and sun2_dvma both grant.
\* A read-modify-write is a memory cycle here: anywhere else its two halves share
\* one timeout, which may cut the second.
BeginCycle ==
  /\ ~as /\ n = 0
  /\ as' = TRUE /\ strobe' = TRUE /\ seen' = "none"
  /\ \/ space # "iack" /\ ~iack_lat /\ rw' \in {"r", "w"}
        /\ space' \in {"general", "berr", "quick", "pmap"} \cup (IF rw' = "r" THEN {"boot"} ELSE {})
     \/ space = "iack" /\ clk = "high" /\ rw' = "r" /\ UNCHANGED space
  /\ space' = "pmap" /\ rw' = "w" => page \in Rewritten
  /\ rmw' \in IF space' = "general" /\ rw' = "r" /\ Entry[page].to = "memory" THEN BOOLEAN ELSE {FALSE}
  /\ was' = [page |-> page, rw |-> rw', general |-> space' = "general"]
  /\ UNCHANGED <<clk, page, chain, maps, acks, irq, regs>>

\* An acknowledge: the 68010 drives FC 7 in S1, with the level for an address,
\* and AS falls after the next positive edge.  The S1 after it brings another
\* cycle's address and function codes.
LevelPage == CHOOSE q \in Pages : TRUE

DriveLevel ==
  /\ ~as /\ n = 0 /\ clk = "low"
  /\ space' = "iack" /\ page' = LevelPage /\ vec' \in {"none", "stands"}
  /\ UNCHANGED <<clk, as, strobe, rw, rmw, seen, was, chain, maps, acks, iack_lat, regs>>

DropLevel ==
  /\ ~as /\ n = 0 /\ clk = "low" /\ space = "iack"
  /\ space' = "general" /\ page' \in Pages /\ vec' = "none"
  /\ UNCHANGED <<clk, as, strobe, rw, rmw, seen, was, chain, maps, acks, iack_lat, regs>>

\* The SCSI card's request is a level, which comes and goes at any time.
RequestMoves ==
  /\ space = "iack"
  /\ vec' = IF vec = "none" THEN "late" ELSE "none"
  /\ UNCHANGED <<clk, bus, chain, maps, acks, iack_lat, regs>>

StrobeAgain ==
  /\ as /\ ~strobe
  /\ strobe' = TRUE
  /\ UNCHANGED <<clk, as, space, page, rw, rmw, seen, was, chain, maps, acks, irq, regs>>

\* A boot fetch is over half a clock after its page could match: an answer to that
\* would come too late or beside the PROM's own, and is left out.
MemoryAnswers ==
  /\ MATCH("memory") /\ ~MATCH_PROM_BOOT /\ strobe /\ ~w_ack
  /\ w_ack' = TRUE
  /\ UNCHANGED <<clk, bus, chain, maps, mb_ack, irq, regs>>

\* A card answers by C_S20, or not at all: a later answer and the timeout would
\* both end the cycle.
CardAnswers ==
  /\ MATCH("bus") /\ ~MATCH_PROM_BOOT /\ strobe /\ ~mb_ack /\ n <= CardLatest
  /\ mb_ack' = TRUE
  /\ UNCHANGED <<clk, bus, chain, maps, w_ack, irq, regs>>
-----------------------------------------------------------------------------
Init ==
  /\ clk = "low" /\ as = FALSE /\ strobe = FALSE /\ space = "general" /\ seen = "none"
  /\ page \in Pages /\ rw = "r" /\ rmw = FALSE
  /\ c3 = FALSE /\ n = 0 /\ TIMEOUT = FALSE /\ MMU_REFUSED = FALSE
  /\ pm = [q \in Pages |-> [of |-> q, acc |-> FALSE, mod |-> FALSE]]
  /\ seg \in Pages /\ \E q \in Pages : out = pm[q]
  /\ w_ack = FALSE /\ mb_ack = FALSE /\ vec = "none" /\ iack_lat = FALSE
  /\ berr = [valid |-> FALSE, proterr |-> FALSE, timeout |-> FALSE] /\ berr_latched = FALSE
  /\ was = [page |-> page, rw |-> "r", general |-> FALSE]

Next ==
  \/ PosEdge \/ NegEdge
  \/ MoveAddress \/ DriveLevel \/ DropLevel \/ BeginCycle \/ StrobeAgain
  \/ MemoryAnswers \/ CardAnswers \/ RequestMoves

Spec == Init /\ [][Next]_vars

\* The clock runs, a master brings a read-modify-write to its end, and memory
\* answers.
Fairness ==
  /\ WF_vars(PosEdge) /\ WF_vars(NegEdge)
  /\ WF_vars(StrobeAgain) /\ WF_vars(MemoryAnswers)

FairSpec == Spec /\ Fairness
-----------------------------------------------------------------------------
TypeOK ==
  /\ clk \in {"high", "low"} /\ as \in BOOLEAN /\ strobe \in BOOLEAN
  /\ space \in {"general", "boot", "pmap", "berr", "quick", "iack"} /\ rw \in {"r", "w"} /\ rmw \in BOOLEAN
  /\ vec \in {"none", "stands", "late"} /\ iack_lat \in BOOLEAN
  /\ seen \in {"none", "ack", "err"} /\ (seen # "none" => as)
  /\ n \in 0 .. Last /\ seg \in Pages /\ page \in Pages
  /\ (strobe => as) /\ (S6(n) => c3)

Granted == Entry[was.page].valid /\ Allows(Entry[was.page], was.rw)

\* "Nothing behind the MMU may see a cycle the MMU is rejecting"
\* (sun2_fpga.v 601-685): from its first clock to the clock after AS has gone,
\* a refused cycle matches nothing, and a granted one matches only what its
\* own page leads to.  (A boot fetch comes from the PROM whatever its entry says.)
RefusedReachesNothing ==
  \A to \in Targets : MATCH(to) /\ ~MATCH_PROM_BOOT =>
    was.general /\ Granted /\ Entry[was.page].to = to

\* A cycle is answered or in error, never both: the timeout never fires on
\* a cycle that is being answered, nor is a refused one answered
\* (sun2_fpga.v 393-410, 865, 1652-1693).
AckOrError == as => ~(Answered /\ ERR)

\* An acknowledge is ended by what it was promised.  A request withdrawn while
\* AS is down does not turn a vector into an autovector, a late one does not put
\* a vector under a VPA, and one that has stood since the level was driven is
\* given its vector (sun2_fpga.v 321-346).
VectorOrAutovector ==
  [][ as /\ as' /\ space = "iack" =>
        /\ IACK_VEC' <=> IACK_VEC
        /\ vec = "stands" => IACK_VEC ]_vars

\* A page's entry changes only in its own statistics bits, and unless software
\* writes them only upward; a refused access and a boot fetch leave them alone
\* (sun2_fpga.v 691-761, sun2_mmu.v 64-80).
OnlyOwnStatistics ==
  [][\A q \in Pages : pm'[q] # pm[q] =>
       /\ q = was.page /\ pm'[q].of = q
       /\ \/ space = "pmap" /\ rw = "w"
          \/ /\ space = "general" /\ Granted
             /\ pm[q].acc => pm'[q].acc
             /\ pm[q].mod => pm'[q].mod ]_vars

\* "The statistics bits will be updated on all other cycles, including cycles
\* that terminate due to timeout", and on both halves of a read-modify-write.
StatisticsKept ==
  [][ seen # "none" /\ seen' = "none" /\ was.general /\ Granted =>
        pm[was.page].acc /\ (was.rw = "w" => pm[was.page].mod) ]_vars

\* The register tells of the cycle that failed: a permission refusal, an
\* invalid entry, or a timeout on a page the MMU was satisfied with
\* (sun2_fpga.v 832-865).
ReportTrue ==
  [][ ERR /\ ~berr_latched /\ clk = "low" /\ clk' = "high" /\ as =>
        /\ berr'.valid = Entry[was.page].valid
        /\ berr'.proterr = ~Allows(Entry[was.page], was.rw)
        /\ berr'.timeout = Granted ]_vars

\* Every cycle ends, answered or not.
CycleEnds == as ~> ~as
=============================================================================
