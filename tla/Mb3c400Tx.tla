------------------------------ MODULE Mb3c400Tx ------------------------------
(***************************************************************************)
(* The transmit half of sun2_mb_3c400.sv: the host fills the one transmit     *)
(* buffer and sets TBSW, the sequencer hands the frame to mii_tx on another    *)
(* clock by a four phase handshake and gives the buffer back.                 *)
(*                                                                          *)
(* mii_tx is outside this repository: it starts when it sees go, reads the     *)
(* frame out of the buffer byte by byte, raises done, and lowers it once it    *)
(* sees go lowered.                                                          *)
(***************************************************************************)
EXTENDS Integers

CONSTANTS
  Texts,      \* what the host may put into the buffer
  Offsets,    \* MEXHDR, where in the buffer the frame begins
  Top,        \* 2048, where every frame ends
  HeldFor     \* clocks a host access lasts

VARIABLES
  tbuf, mexhdr,   \* the buffer's text and the offset
  tbsw,           \* the card owns the buffer
  tstate, tx_go, tx_len, dn1, dn2,     \* the sequencer, on CLK
  go1, go2, mii,  \* the crossing and mii_tx, on mii_tx_clk
  host, since,    \* the host's access under way and the clocks it has lasted
  seen,           \* the frame on the wire: every <<text, offset, length>> in it
  disturbed       \* history: RESET has come upon the exchange now under way

buffer == <<tbuf, mexhdr>>
seq    == <<tbsw, tstate, tx_go, tx_len, dn1, dn2>>
phy    == <<go1, go2, mii, seen>>
vars   == <<buffer, seq, phy, host, since, disturbed>>
-----------------------------------------------------------------------------
(* The host: its access is a level that lasts HeldFor clocks. *)

None == [kind |-> "none"]

Accesses ==
       {[kind |-> "give"]}
  \cup [kind : {"write"}, text : Texts]
  \cup [kind : {"header"}, off : Offsets]
  \cup {[kind |-> "reset"]}

soft_reset == host.kind = "reset"

HostMoves ==
  IF host # None /\ since < HeldFor
  THEN host' = host /\ since' = since + 1
  ELSE /\ host' \in (IF host = None THEN Accesses ELSE {}) \cup {None}
       /\ since' = 1

\* The buffer ignores what the host writes while the card owns it.
buffer_write ==
  /\ tbuf'   = IF host.kind = "write" /\ ~tbsw THEN host.text ELSE tbuf
  /\ mexhdr' = IF soft_reset THEN 0
               ELSE IF host.kind = "header" /\ ~tbsw THEN host.off ELSE mexhdr
-----------------------------------------------------------------------------
(* One edge of CLK. *)

\* One clock, where done is first seen.
tx_take == tstate = "GO" /\ dn2

tx_length == Top - mexhdr

HandedBack_stuck == tstate = "WAIT" /\ tstate' = (IF dn2 THEN "IDLE" ELSE "WAIT")
                                    /\ UNCHANGED <<tx_go, tx_len>>
HandedBack_hasty == tstate = "WAIT" /\ tstate' = "IDLE" /\ UNCHANGED <<tx_go, tx_len>>
HandedBack == tstate = "WAIT" /\ tstate' = (IF dn2 THEN "WAIT" ELSE "IDLE")
                              /\ UNCHANGED <<tx_go, tx_len>>

Sequencer ==
  \/ /\ soft_reset
     /\ tstate' = "IDLE" /\ tx_go' = FALSE /\ tx_len' = 0
  \/ /\ ~soft_reset /\ tstate = "IDLE" /\ ~tbsw
     /\ UNCHANGED <<tstate, tx_go, tx_len>>
  \/ /\ ~soft_reset /\ tstate = "IDLE" /\ tbsw
     /\ tx_len' = tx_length /\ tx_go' = TRUE /\ tstate' = "GO"
  \/ /\ ~soft_reset /\ tstate = "GO"
     /\ tx_go' = ~dn2 /\ tstate' = (IF dn2 THEN "WAIT" ELSE "GO")
     /\ UNCHANGED tx_len
  \/ ~soft_reset /\ HandedBack

\* Nothing of an exchange is left on either side.
Quiet == mii = "IDLE" /\ ~(tx_go \/ go1 \/ go2 \/ dn1 \/ dn2)

Clk ==
  /\ Sequencer
  /\ tbsw' = (~tx_take /\ ~soft_reset /\ (tbsw \/ host.kind = "give"))
  /\ dn1' = (mii = "DONE") /\ dn2' = dn1
  /\ buffer_write
  /\ HostMoves
  /\ disturbed' = (~Quiet /\ (disturbed \/ soft_reset))
  /\ UNCHANGED phy
-----------------------------------------------------------------------------
(* One edge of mii_tx_clk.  A frame takes any number of edges to send. *)

Reading == <<tbuf, mexhdr, tx_len>>

\* What a disturbed exchange sends is nobody's frame.
Watched(before) == IF disturbed THEN {} ELSE before \cup {Reading}

Mii ==
  /\ go1' = tx_go /\ go2' = go1
  /\ \/ mii = "IDLE" /\ ~go2 /\ UNCHANGED <<mii, seen>>
     \/ mii = "IDLE" /\ go2 /\ mii' = "SENDING" /\ seen' = Watched({})
     \/ mii = "SENDING" /\ mii' \in {"SENDING", "DONE"} /\ seen' = Watched(seen)
     \/ mii = "DONE" /\ mii' = (IF go2 THEN "DONE" ELSE "IDLE") /\ UNCHANGED seen
  /\ UNCHANGED <<buffer, seq, host, since, disturbed>>

Init ==
  /\ tbuf \in Texts /\ mexhdr = 0 /\ tbsw = FALSE
  /\ tstate = "IDLE" /\ tx_go = FALSE /\ tx_len = 0 /\ dn1 = FALSE /\ dn2 = FALSE
  /\ go1 = FALSE /\ go2 = FALSE /\ mii = "IDLE" /\ seen = {}
  /\ disturbed = FALSE
  /\ host = None /\ since = 1

Next == Clk \/ Mii
Spec == Init /\ [][Next]_vars
-----------------------------------------------------------------------------
(* Properties. *)

\* Types of all registers.
TypeOK ==
  /\ tbuf \in Texts /\ mexhdr \in Offsets \cup {0} /\ tbsw \in BOOLEAN
  /\ tstate \in {"IDLE", "GO", "WAIT"} /\ tx_len \in 0..Top
  /\ {tx_go, dn1, dn2, go1, go2} \subseteq BOOLEAN
  /\ mii \in {"IDLE", "SENDING", "DONE"} /\ since \in 1..HeldFor /\ disturbed \in BOOLEAN

\* When the card gives the buffer back, the frame that has been on the wire is
\* the one that is in the buffer, all of it and nothing else: no frame is given
\* back unsent, and none is sent with another's text, offset or length.  Only a
\* RESET in the course of the exchange may break that (lines 302, 457).
SentIsTaken ==
  [][tx_take /\ ~soft_reset /\ ~disturbed => seen = {<<tbuf, mexhdr, Top - mexhdr>>}]_vars

\* A buffer given to the card comes back, whatever RESET did in between: the
\* sequencer and mii_tx never end up waiting for each other.
ComesBack == tbsw ~> ~tbsw
=============================================================================
