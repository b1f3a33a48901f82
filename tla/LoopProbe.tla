------------------------------ MODULE LoopProbe -----------------------------
(***************************************************************************)
(* src/tools/loopprobe: does a write survive the 68010's loop mode, where  *)
(* no instruction fetch comes between two writes?  Memory is the buffer,   *)
(* NLong longwords in blocks of Blk that are filled with one value each.   *)
(***************************************************************************)
EXTENDS ProbeMachine, FiniteSetsExt

CONSTANTS NLong, Blk    \* NLONG and BLK: 256 and 16

ASSUME LoopAssumption == {NLong, Blk} \subseteq Nat \ {0} /\ NLong % Blk = 0

LoopFaults == {"loopDrops", "allDrops", "wrongTx", "wordDrops", "staleReads"}
Cells      == 0..(NLong - 1)
DEADBEEF   == 0

LoopInit ==
  /\ m \in [faults : FaultSets(LoopFaults), buf : {[i \in Cells |-> DEADBEEF]}]
  /\ pc = "LA" /\ said = NoVerdict
  /\ r = [a |-> FALSE, b |-> FALSE]

\* 0x5A000000 | pass << 16 | block
Value(pass, i) == pass * NLong + i \div Blk + 1

\* Cells one fault may hit: some, or none when the fault is not there.
Hit(f) == IF Has(m, f) THEN (SUBSET Cells) \ {{}} ELSE {{}}

\* fill_blocks over the poison, then check(): the cells that came out wrong.
\* A write answered by the transaction of the cell before it carries that one's value.
Filled(pass, dropped, mixed) ==
  [i \in Cells |-> IF i \in dropped THEN DEADBEEF
                   ELSE Value(pass, IF i \in mixed /\ i > 0 THEN i - 1 ELSE i)]
Wrong(buf, pass) == {i \in Cells : buf[i] # Value(pass, i)}

\* A  loop mode
LoopCaseA ==
  /\ At("loopprobe", "LA")
  /\ \E loop \in Hit("loopDrops"), all \in Hit("allDrops"), mixed \in Hit("wrongTx") :
       /\ m' = [m EXCEPT !.buf = Filled(1, loop \cup all, mixed)]
       /\ r' = [r EXCEPT !.a = Wrong(m'.buf, 1) # {}]
  /\ Says("A", IF r'.a THEN {"wrong"} ELSE {"right"})
  /\ Goto("LB")

\* B  the control: the same writes with a nop between them
LoopCaseB ==
  /\ At("loopprobe", "LB")
  /\ \E all \in Hit("allDrops") :
       /\ m' = [m EXCEPT !.buf = Filled(2, all, {})]
       /\ r' = [r EXCEPT !.b = Wrong(m'.buf, 2) # {}]
  /\ Says("B", IF r'.b THEN {"wrong"} ELSE {"right"})
  /\ Goto("LC")

\* C  loop-mode reads, summed, against the sum by ordinary reads
LoopCaseC ==
  /\ At("loopprobe", "LC")
  /\ \E stale \in Hit("staleReads") :
       LET got(i) == m.buf[IF i \in stale /\ i > 0 THEN i - 1 ELSE i]
       IN Says("C", IF MapThenSumSet(got, Cells) # MapThenSumSet(LAMBDA i : m.buf[i], Cells)
                    THEN {"mismatch"} ELSE {"right"})
  /\ Goto("LD") /\ UNCHANGED <<m, r>>

\* D  loop mode, word writes over 0xFFFF
LoopCaseD ==
  /\ At("loopprobe", "LD")
  /\ \E words \in Hit("wordDrops"), all \in Hit("allDrops") :
       Says("D", IF words \cup all # {} THEN {"wrong"} ELSE {"right"})
  /\ Goto("LE") /\ UNCHANGED <<m, r>>

\* The conclusion, from A and B.
LoopConclude ==
  /\ At("loopprobe", "LE")
  /\ Says("loop", CASE r.a /\ ~r.b  -> {"loop mode is the variable"}
                    [] r.a /\ r.b   -> {"both fail"}
                    [] ~r.a /\ ~r.b -> {"both pass"}
                    [] OTHER        -> {"no sense"})
  /\ Goto("done") /\ UNCHANGED <<m, r>>

LoopNext == LoopCaseA \/ LoopCaseB \/ LoopCaseC \/ LoopCaseD \/ LoopConclude

LoopBlames(v) ==
  CASE v = <<"A", "wrong">>    -> {"loopDrops", "allDrops", "wrongTx"}
    [] v = <<"B", "wrong">>    -> {"allDrops"}
    [] v = <<"C", "mismatch">> -> {"staleReads"}
    [] v = <<"D", "wrong">>    -> {"wordDrops", "allDrops"}
    [] v = <<"loop", "loop mode is the variable">> -> {"loopDrops", "wrongTx"}
    [] v = <<"loop", "both fail">>                 -> {"allDrops"}
    [] OTHER                   -> {}
=============================================================================
