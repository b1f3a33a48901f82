----------------------------- MODULE AsyncFifo -----------------------------
(***************************************************************************)
(* rtl/sun2-common/sun2_async_fifo.v, register by register: binary and gray *)
(* pointers, two synchroniser flops each way, storage read without a clock. *)
(*                                                                          *)
(* The two clocks are unrelated: one action is one edge of one of them.  A  *)
(* synchroniser's first flop that samples a word on the very edge the word  *)
(* changes resolves EACH BIT to its old or its new value, on its own; the   *)
(* first sample after a change may do so (`was` keeps the old word until    *)
(* then).  That is what a simulator cannot show and what the gray code is   *)
(* for.  Both sides start out of their resets.                              *)
(*                                                                          *)
(* PointerFifo's variables are carried along: storage and binary pointers    *)
(* are registers here too, and the crossing positions are what the gray      *)
(* words here stand for.                                                    *)
(***************************************************************************)
EXTENDS PointerFifo

CONSTANT ADDR

\* "ADDR must be at least 2: the full comparison inverts the top two bits"
ASSUME AddrAssumption == ADDR \in Nat \ {0, 1} /\ Depth = 2 ^ ADDR

VARIABLES wgray, rgray_w1, rgray_w2, rgray_was,
          rgray, wgray_r1, wgray_r2, wgray_was

wregs == <<mem, wbin, wgray, rgray_w1, rgray_w2>>
rregs == <<rbin, rgray, wgray_r1, wgray_r2>>
words == <<wgray, rgray_w1, rgray_w2, rgray_was, rgray, wgray_r1, wgray_r2, wgray_was>>

Bits    == 0 .. ADDR
Words   == [Bits -> {0, 1}]
Count   == 2 ^ (ADDR + 1)
LowBits(n) == n % 2 ^ ADDR
Bit(n, i)  == (n \div 2 ^ i) % 2

Zero == [i \in Bits |-> 0]

\* n ^ (n >> 1)
Gray(n) == [i \in Bits |-> (Bit(n, i) + Bit(n, i + 1)) % 2]

\* The position a word stands for.
Position(g) == CHOOSE n \in 0 .. Count - 1 : Gray(n) = g

\* What a flop can capture of a word that may be changing under it.
Sample(old, new) == {x \in Words : \A i \in Bits : x[i] \in {old[i], new[i]}}

full_top_bit == wgray = [i \in Bits |-> IF i = ADDR THEN 1 - rgray_w2[i] ELSE rgray_w2[i]]

\* wfull: the words agree except in the two most significant bits.
gray_full == wgray = [i \in Bits |-> IF i >= ADDR - 1 THEN 1 - rgray_w2[i] ELSE rgray_w2[i]]

never_empty == FALSE

\* rempty
gray_empty == rgray = wgray_r2
-----------------------------------------------------------------------------
RegInit ==
  /\ Init
  /\ wgray = Zero /\ rgray_w1 = Zero /\ rgray_w2 = Zero /\ rgray_was = Zero
  /\ rgray = Zero /\ wgray_r1 = Zero /\ wgray_r2 = Zero /\ wgray_was = Zero

\* The positions follow the words.
Positions ==
  /\ rbin_w1' = Position(rgray_w1') /\ rbin_w2' = Position(rgray_w2')
  /\ wbin_r1' = Position(wgray_r1') /\ wbin_r2' = Position(wgray_r2')
  /\ wbin_was' = Position(wgray_was') /\ rbin_was' = Position(rgray_was')

\* The write clock's edge, with wr_en (and wr_data) or without.
WClk(do_wr, wr_data) ==
  /\ do_wr => ~gray_full
  /\ mem' = IF do_wr THEN [mem EXCEPT ![LowBits(wbin)] = wr_data] ELSE mem
  /\ wbin' = IF do_wr THEN (wbin + 1) % Count ELSE wbin
  /\ wgray' = Gray(wbin')
  /\ rgray_w1' \in Sample(rgray_was, rgray)
  /\ rgray_w2' = rgray_w1
  /\ rgray_was' = rgray
  /\ wgray_was' = wgray
  /\ UNCHANGED rregs
  /\ Positions

\* The read clock's edge, with rd_en or without.
RClk(do_rd) ==
  /\ do_rd => ~gray_empty
  /\ rbin' = IF do_rd THEN (rbin + 1) % Count ELSE rbin
  /\ rgray' = Gray(rbin')
  /\ wgray_r1' \in Sample(wgray_was, wgray)
  /\ wgray_r2' = wgray_r1
  /\ wgray_was' = wgray
  /\ rgray_was' = rgray
  /\ UNCHANGED wregs
  /\ Positions

WRegs == \E en \in BOOLEAN, d \in Data : WClk(en, d)
RRegs == \E en \in BOOLEAN : RClk(en)

RegNext == WRegs \/ RRegs

RegSpec == RegInit /\ [][RegNext]_<<vars, words>>

\* Both clocks run for ever; nothing is assumed about their ratio.
RegFairSpec == RegSpec /\ WF_<<vars, words>>(WRegs) /\ WF_<<vars, words>>(RRegs)
-----------------------------------------------------------------------------
\* The gray words and the comparisons on them do what positions would do:
\* the full test on two inverted bits is "exactly one lap ahead"
\* (sun2_async_fifo.v 100-102), and a torn sample is still a position,
\* "either the old pointer or the new one and never a mixture" (30-33).
PointersSpec == Spec
=============================================================================
