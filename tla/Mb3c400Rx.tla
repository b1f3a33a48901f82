------------------------------ MODULE Mb3c400Rx ------------------------------
(***************************************************************************)
(* The receive half of sun2_mb_3c400.sv: the sequencer that writes a frame   *)
(* into whichever of the buffers A and B the card owns, the ownership bits    *)
(* in MECSR, and the host that polls them and gives buffers back.             *)
(*                                                                          *)
(* Edge is one edge of CLK.  A host access is a level: what it writes is      *)
(* written again on every clock it lasts.  The wire puts the words of frames  *)
(* into a FIFO (mii_rx and async_fifo, which are outside this repository).    *)
(* Lengths and offsets are the code's, scaled down by the constants.          *)
(***************************************************************************)
EXTENDS Integers, Sequences

CONSTANTS
  Traffic,    \* what may come along the wire as the first frame, the second, ...
  MinLen, MaxLen,  \* 60 and 1514: outside them the frame is a range error
  Limit,      \* 2046, the largest first free offset that is written up to
  FcsBytes,   \* 4, the filler where the FCS would be
  DstBytes,   \* 6, the destination address
  Modes,      \* the values of PA the host uses
  Apart,      \* clocks from one word to the next, at least
  Pace,       \* and, within a frame, at most: at 10 Mb/s a byte takes ten clocks
  HeldFor,    \* clocks a host access lasts
  Gap         \* clocks between two host accesses, at least

\* The error bits an end word may carry, and whom a frame may be for.
Kinds   == {"none", "fcs", "fr", "ovr"}
Classes == {"mine", "bcast", "multi", "other"}

\* A frame: its length without the FCS, its destination, its damage.
Frames == [len : Nat \ {0}, cls : Classes, err : Kinds]

ASSUME Mb3c400Assumption ==
  /\ {MinLen, MaxLen, FcsBytes, DstBytes, Apart, Pace, HeldFor, Gap} \subseteq Nat
  /\ Limit \in Nat /\ Limit > 2 /\ Modes \subseteq 0..15
  /\ Traffic \in Seq(SUBSET Frames)
  /\ Apart \in 1..Pace /\ FcsBytes > 0 /\ HeldFor > 0
  /\ MinLen <= Limit /\ MaxLen <= Limit /\ DstBytes \in 1..Limit

VARIABLES
  sent,       \* the frames so far: the last perhaps under way
  at,         \* words of the last frame already in the FIFO
  late,       \* clocks since the last word, up to Pace
  fifo,       \* what the receive sequencer has not taken yet
  sw,         \* ABSW and BBSW: TRUE while the card owns the buffer
  rbba, pa,   \* the other bits of MECSR that matter here
  rx,         \* the sequencer's registers
  rxw,        \* its registered write into a buffer, or None
  buf,        \* the buffers, byte by byte
  host,       \* the host's access under way, or None
  since,      \* clocks it has lasted, or since the last one ended
  filled      \* which frame a buffer was last handed to the host with, or 0

wire == <<sent, at, late>>
vars == <<wire, fifo, sw, rbba, pa, rx, rxw, buf, host, since, filled>>

None  == [kind |-> "none"]
Bufs  == {"A", "B"}
Sat   == Limit + 1
Cells == 0..Sat
UpTo(n, top) == IF n < top THEN n + 1 ELSE n
-----------------------------------------------------------------------------
(* The wire.  A frame's words are its bytes and one end word. *)

UnderWay == sent # <<>> /\ at <= sent[Len(sent)].len

NextWord ==
  LET f == Len(sent)
  IN IF at < sent[f].len THEN [end |-> FALSE, f |-> f, i |-> at]
     ELSE [end |-> TRUE, f |-> f, i |-> at]

\* What arrives at this edge, after the sequencer has left rest in the FIFO.
Arrives(rest) ==
  \/ /\ UnderWay /\ late >= Apart
     /\ fifo' = Append(rest, NextWord) /\ at' = at + 1 /\ late' = 1
     /\ UNCHANGED sent
  \/ /\ ~UnderWay /\ Len(sent) < Len(Traffic) /\ late >= Apart
     /\ \E fr \in Traffic[Len(sent) + 1] : sent' = Append(sent, fr)
     /\ fifo' = rest /\ at' = 0 /\ UNCHANGED late
  \/ /\ UnderWay => late < Pace
     /\ fifo' = rest /\ late' = UpTo(late, Pace)
     /\ UNCHANGED <<sent, at>>
-----------------------------------------------------------------------------
(* The host. *)

CsrWrite(h) == h.kind = "csr"
soft_reset  == CsrWrite(host) /\ host.reset
HostSets(b) == CsrWrite(host) /\ ~host.reset /\ b \in host.give

\* It sets only the bits of buffers it owns, as the drivers do, and it may
\* write into a buffer that is the card's: the card must ignore that.
Accesses ==
       [kind : {"csr"}, reset : {TRUE}, give : {{}}, pa : Modes]
  \cup [kind : {"csr"}, reset : {FALSE}, pa : {pa},
        give : (SUBSET {b \in Bufs : ~sw[b]}) \ {{}}]
  \cup [kind : {"poke"}, b : Bufs]

HostMoves ==
  \/ /\ host = None
     /\ host' = None /\ since' = UpTo(since, Gap)
  \/ /\ host = None /\ since = Gap
     /\ host' \in Accesses /\ since' = 1
  \/ /\ host # None /\ since < HeldFor
     /\ host' = host /\ since' = since + 1
  \/ /\ host # None /\ since = HeldFor
     /\ host' = None /\ since' = 0

PokesInto_blind(b) == host.kind = "poke" /\ host.b = b
PokesInto(b) == host.kind = "poke" /\ host.b = b /\ ~sw[b]
-----------------------------------------------------------------------------
(* Acceptance, decided once the whole frame is in. *)

pick_b_turns == ~rx.last_b
pick_b == sw["B"] /\ (~sw["A"] \/ ~rx.last_b)
pick_a == sw["A"] /\ ~pick_b

rx_rg == rx.n < MinLen \/ rx.n > MaxLen

class_ok ==
  CASE pa <= 2 -> TRUE
    [] pa \in 3..5 -> rx.dst \in {"mine", "multi", "bcast"}
    [] pa \in 6..8 -> rx.dst \in {"mine", "bcast"}
    [] OTHER -> rx.dst = "mine"

err_ok ==
  CASE pa \in {0, 3, 6} -> TRUE
    [] pa \in {1, 4, 7} -> ~rx_rg /\ rx.e \notin {"fcs", "fr"}
    [] OTHER -> rx.e \notin {"fcs", "fr"}

rx_accept == rx.active /\ class_ok /\ err_ok /\ rx.e # "ovr"

Status == [w |-> "status", e |-> rx.e, rg |-> rx_rg, dst |-> rx.dst, doff |-> rx.off]
-----------------------------------------------------------------------------
(* One edge.  In every branch NewRx, the write it starts and the word it      *)
(* takes; a soft reset overrides the registers but not the word being taken.  *)

Here(cell, what) ==
  IF rx.active THEN [kind |-> "write", b |-> rx.b, at |-> cell, v |-> what] ELSE None

Byte(f, i) == [w |-> "byte", f |-> f, i |-> i]

Takes    == fifo # <<>> /\ (rx.state = "DATA" \/ (rx.state = "IDLE" /\ fifo[1].end))
Rest     == IF Takes THEN Tail(fifo) ELSE fifo

ResetRx == [rx EXCEPT !.state = "IDLE", !.active = FALSE, !.last_b = TRUE,
                      !.off = 2, !.n = 0, !.e = "none"]

NewRbba_empty(fills) == IF "B" \in fills THEN ~sw["A"] ELSE rbba /\ ~soft_reset
NewRbba(fills) == IF "B" \in fills THEN sw["A"] ELSE rbba /\ ~soft_reset

Engine(newRx, write, fills) ==
  /\ rx'  = IF soft_reset THEN ResetRx ELSE newRx
  /\ rxw' = IF soft_reset THEN None ELSE write
  /\ sw' = [b \in Bufs |-> IF b \in fills THEN FALSE
                            ELSE IF soft_reset THEN FALSE ELSE sw[b] \/ HostSets(b)]
  /\ rbba' = NewRbba(fills)
  /\ pa'   = IF CsrWrite(host) THEN host.pa ELSE pa
  /\ buf' = [b \in Bufs |-> [c \in Cells |->
               IF rxw # None /\ rxw.b = b /\ rxw.at = c THEN rxw.v
               ELSE IF /\ c = 2 /\ PokesInto(b)
                       /\ ~(rxw # None /\ rxw.b = b /\ rxw.at % 2 = 0)
                    THEN [w |-> "host"] ELSE buf[b][c]]]
  /\ filled' = [b \in Bufs |->
                 IF b \in fills /\ ~soft_reset THEN rx.f
                 ELSE IF PokesInto(b) \/ soft_reset \/ HostSets(b) THEN 0 ELSE filled[b]]
  /\ Arrives(Rest)
  /\ HostMoves

Waits(r) == Engine(r, None, {})

Idle ==
  /\ rx.state = "IDLE"
  /\ IF fifo = <<>> \/ fifo[1].end THEN Waits(rx)
     ELSE Waits([rx EXCEPT !.state = "DATA", !.b = IF pick_b THEN "B" ELSE "A",
                           !.active = pick_a \/ pick_b, !.off = 2, !.n = 0,
                           !.e = "none", !.dst = "other"])

\* The destination is made of the first DstBytes words: those of a frame taken
\* from its middle spell any address.
Destination(w) ==
  IF rx.n + 1 # DstBytes THEN {rx.dst}
  ELSE IF w.i + 1 = DstBytes THEN {sent[w.f].cls}
  ELSE Classes

Data ==
  /\ rx.state = "DATA"
  /\ IF fifo = <<>> THEN Waits(rx)
     ELSE LET w == fifo[1]
          IN IF w.end
             THEN Waits([rx EXCEPT !.state = "FCS", !.cnt = 0, !.e = sent[w.f].err,
                                   !.f = w.f])
             ELSE \E d \in Destination(w) :
                    Engine([rx EXCEPT !.off = UpTo(rx.off, Sat), !.n = UpTo(rx.n, Sat),
                                      !.dst = d],
                           IF rx.off < Limit THEN Here(rx.off, Byte(w.f, w.i)) ELSE None, {})

Fcs ==
  /\ rx.state = "FCS"
  /\ Engine([rx EXCEPT !.off = UpTo(rx.off, Sat), !.cnt = rx.cnt + 1,
                       !.state = IF rx.cnt = FcsBytes - 1 THEN "ST0" ELSE "FCS"],
            IF rx.off < Limit THEN Here(rx.off, [w |-> "filler"]) ELSE None, {})

St0 ==
  /\ rx.state = "ST0"
  /\ Engine([rx EXCEPT !.state = "ST1"], Here(0, Status), {})

St1 ==
  /\ rx.state = "ST1"
  /\ Engine([rx EXCEPT !.state = "IDLE", !.last_b = IF rx_accept THEN rx.b = "B" ELSE @],
            Here(1, Status), IF rx_accept THEN {rx.b} ELSE {})

Init ==
  /\ sent = <<>> /\ at = 0 /\ late = Pace /\ fifo = <<>>
  /\ sw = [b \in Bufs |-> FALSE] /\ rbba = FALSE /\ pa \in Modes
  /\ rx = [state |-> "IDLE", active |-> FALSE, last_b |-> TRUE, off |-> 2, n |-> 0,
           e |-> "none", b |-> "A", dst |-> "other", cnt |-> 0, f |-> 0]
  /\ rxw = None /\ buf = [b \in Bufs |-> [c \in Cells |-> [w |-> "old"]]]
  /\ host = None /\ since = 0 /\ filled = [b \in Bufs |-> 0]

Edge == Idle \/ Data \/ Fcs \/ St0 \/ St1
Spec == Init /\ [][Edge]_vars
-----------------------------------------------------------------------------
(* Properties. *)

\* Every register within its range; offsets and counts saturate.
TypeOK ==
  /\ sw \in [Bufs -> BOOLEAN] /\ rbba \in BOOLEAN /\ pa \in 0..15
  /\ rx.state \in {"IDLE", "DATA", "FCS", "ST0", "ST1"} /\ rx.b \in Bufs
  /\ rx.off \in 2..Sat /\ rx.n \in 0..Sat /\ rx.cnt \in 0..FcsBytes
  /\ rx.dst \in Classes /\ rx.e \in Kinds /\ filled \in [Bufs -> 0..Len(Traffic)]
  /\ Len(fifo) <= FcsBytes + 3

Handed(b)  == filled[b] # 0 /\ ~sw[b]
Landing(b) == rxw # None /\ rxw.b = b
Least(m, n) == IF m < n THEN m ELSE n

\* What the host must find in a buffer that was handed to it with frame f.
Holds(b, f) ==
  LET fr     == sent[f]
      status == [w |-> "status", e |-> fr.err, doff |-> Least(2 + fr.len + FcsBytes, Sat),
                 rg |-> fr.len < MinLen \/ fr.len > MaxLen,
                 dst |-> IF fr.len < DstBytes THEN "other" ELSE fr.cls]
  IN /\ buf[b][0] = status /\ buf[b][1] = status
     /\ \A i \in 0..fr.len - 1 : 2 + i < Limit => buf[b][2 + i] = Byte(f, i)

\* A buffer the host owns, once the last write into it has landed, holds one
\* whole frame, from its first byte on, and the status of that very frame; the
\* length in it is the true one, or Sat for a frame too long to store.  Neither
\* the host's writes into a buffer that was the card's nor a reset in the
\* middle of a frame can make it anything else.
WholeFrame == \A b \in Bufs : Handed(b) /\ ~Landing(b) => Holds(b, filled[b])

\* RBBA set means, when both buffers wait, that B holds the older frame.
RbbaMeansBOlder ==
  Handed("A") /\ Handed("B") /\ rbba => filled["B"] < filled["A"]

\* The card never writes into a buffer of the host's, but for the last byte of
\* the status of the frame it has just handed over.
KeepsOut ==
  [][\A b \in Bufs : (~sw[b] /\ buf'[b] # buf[b]) =>
       \/ PokesInto(b)
       \/ Landing(b) /\ rxw.at = 1 /\ filled[b] = rx.f]_vars
=============================================================================
