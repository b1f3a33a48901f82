------------------------------ MODULE ByteLanes ------------------------------
(***************************************************************************)
(* Where a byte lives: the lane arithmetic between the 68010's D[15:0], the *)
(* 32-bit Wishbone of the bridges and of sun2_dvma, the 128-bit beat of the *)
(* memory controller, and the picture.                                      *)
(*                                                                          *)
(* One beat of memory is enough: everything above it is the beat's address. *)
(* The content of a byte is the address software gave it, so that a byte    *)
(* found anywhere tells where it belongs.                                   *)
(***************************************************************************)
EXTENDS Integers

CONSTANT Longs          \* the longwords of the beat that are written

ASSUME LanesAssumption == Longs \subseteq 0 .. 3 /\ Longs # {}

Places   == 0 .. 15     \* byte k of the beat is bits 8k+7 .. 8k
Blank    == 16          \* what a place holds before anything is written
Floating == 17          \* what the wires hold where nobody drives a byte

VARIABLES
  beat,                 \* what each place of the beat holds
  written               \* the byte addresses software has written

lanes == <<beat, written>>
-----------------------------------------------------------------------------
(* The bridge: the word of an access is on both halves of the Wishbone, and  *)
(* the selects choose by A1 and by the strobes.  d is [upper, lower].        *)

q_dat(d) == [i \in 0 .. 3 |-> IF i \in {1, 3} THEN d.upper ELSE d.lower]

q_sel(a, uds, lds) ==
  {i \in 0 .. 3 : /\ i \div 2 = (a \div 2) % 2
                  /\ IF i \in {1, 3} THEN uds ELSE lds}

\* wb_to_mig_ui: the longword in all four lanes of the beat, and a mask.
mask_for(l, sel) == {k \in Places : ~(k \div 4 = l /\ k % 4 \in sel)}

Store(b, a, d, uds, lds) ==
  [k \in Places |-> IF k \in mask_for(a \div 4, q_sel(a, uds, lds)) THEN b[k] ELSE q_dat(d)[k % 4]]

rd_lane(b, a) == [i \in 0 .. 3 |-> b[4 * (a \div 4) + i]]

\* The word at a, as the plain bridges return it, and as the cached one does.
Load(b, a) ==
  LET dat == rd_lane(b, a) IN
    IF (a \div 2) % 2 = 1 THEN [upper |-> dat[3], lower |-> dat[2]]
                          ELSE [upper |-> dat[1], lower |-> dat[0]]

LineLoad(b, a) == LET hw == a \div 2 IN [upper |-> b[2 * hw + 1], lower |-> b[2 * hw]]
-----------------------------------------------------------------------------
(* DVMA: a longword in at most two word cycles, the bytes crossed both ways. *)

dvma_dout_straight(dat, half) == [upper |-> dat[2 * half + 1], lower |-> dat[2 * half]]
dvma_dout(dat, half) == [upper |-> dat[2 * half], lower |-> dat[2 * half + 1]]

StoreHalf(b, l, half, dat, sel) ==
  Store(b, 4 * l + 2 * half, dvma_dout(dat, half), 2 * half \in sel, 2 * half + 1 \in sel)

StoreLong(b, l, dat, sel) == StoreHalf(StoreHalf(b, l, 0, dat, sel), l, 1, dat, sel)

\* Byte i of the longword a DVMA master reads.
dvma_din(b, l, i) ==
  LET d == Load(b, 4 * l + 2 * (i \div 2)) IN IF i % 2 = 0 THEN d.upper ELSE d.lower
-----------------------------------------------------------------------------
(* The picture: the bit of the beat that is pixel p, [place, bit].           *)

Pixel(p) ==
  LET bit == 16 * (p \div 16) + 15 - (p % 16) IN [place |-> bit \div 8, bit |-> bit % 8]
-----------------------------------------------------------------------------
LanesInit == beat = [k \in Places |-> Blank] /\ written = {}

\* A byte or word write of the 68010.
CpuWrite(a, uds, lds) ==
  /\ uds \/ lds
  /\ beat' = Store(beat, a, [upper |-> IF uds THEN a ELSE Floating,
                             lower |-> IF lds THEN a + 1 ELSE Floating], uds, lds)
  /\ written' = written \cup (IF uds THEN {a} ELSE {}) \cup (IF lds THEN {a + 1} ELSE {})

\* A write of a DVMA master: byte i of longword l is byte address 4l+i.
DvmaWrite(l, sel) ==
  LET dat == [i \in 0 .. 3 |-> IF i \in sel THEN 4 * l + i ELSE Floating] IN
    /\ beat' = StoreLong(beat, l, dat, sel)
    /\ written' = written \cup {4 * l + i : i \in sel}

-----------------------------------------------------------------------------
Found(a) == IF a \in written THEN a ELSE Blank

LanesTypeOK == beat \in [Places -> Places \cup {Blank}] /\ written \subseteq Places

\* "The 82586's byte address N reaches the same memory byte the 68010 calls
\* byte address N" (sun2_dvma.v 103-141), by every path there is: the plain
\* bridges, the cached one, DVMA -- and no other byte is disturbed.  The picture
\* runs through the same bytes in address order, each byte's top bit first
\* (fb_scanout.sv 27-33).
PathsAgree ==
  \A a \in Places :
    /\ Found(a) = (IF a % 2 = 0 THEN Load(beat, a).upper ELSE Load(beat, a - 1).lower)
    /\ Found(a) = (IF a % 2 = 0 THEN LineLoad(beat, a).upper ELSE LineLoad(beat, a - 1).lower)
    /\ Found(a) = dvma_din(beat, a \div 4, a % 4)
    /\ \A p \in 8 * a .. 8 * a + 7 : beat[Pixel(p).place] = Found(a) /\ Pixel(p).bit = 7 - (p % 8)
=============================================================================
