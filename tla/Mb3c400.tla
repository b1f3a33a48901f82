------------------------------- MODULE Mb3c400 ------------------------------
(***************************************************************************)
(* The whole card, sun2_mb_3c400.sv.  Its receive half (Mb3c400Rx) and its  *)
(* transmit half (Mb3c400Tx) have a buffer, a sequencer and a link clock of *)
(* their own, and neither looks at a register of the other; the RESET bit   *)
(* that reaches both is an access of the host in each.  So a behaviour of   *)
(* the card is a behaviour of each half, and one half moves here at a time: *)
(* the one this behaviour is about.                                         *)
(***************************************************************************)
EXTENDS Mb3c400Rx

CONSTANTS Texts, Offsets, Top, TxHeldFor    \* those of Mb3c400Tx

ASSUME Mb3c400TxAssumption ==
  Top \in Nat /\ Offsets \subseteq 0..Top - 1 /\ TxHeldFor \in Nat \ {0}

VARIABLES
  half,                                     \* the half that moves
  tbuf, mexhdr, tbsw, tstate, tx_go, tx_len, dn1, dn2,
  go1, go2, mii, txhost, txsince, seen, disturbed

T == INSTANCE Mb3c400Tx WITH host <- txhost, since <- txsince, HeldFor <- TxHeldFor

txvars == <<tbuf, mexhdr, tbsw, tstate, tx_go, tx_len, dn1, dn2,
            go1, go2, mii, txhost, txsince, seen, disturbed>>
cardvars == <<half, vars, txvars>>

Receive  == half = "receive" /\ UNCHANGED <<half, txvars>>
Transmit == half = "transmit" /\ UNCHANGED <<half, vars>>

CardInit ==
  /\ half \in {"receive", "transmit"}
  /\ Init /\ T!Init
  /\ half = "receive" => tbuf = CHOOSE text \in Texts : TRUE

CardNext ==
  \/ Receive /\ Idle
  \/ Receive /\ Data
  \/ Receive /\ Fcs
  \/ Receive /\ St0
  \/ Receive /\ St1
  \/ Transmit /\ T!Clk
  \/ Transmit /\ T!Mii

\* Both transmit clocks run, and mii_tx ends every frame: retries and carrier
\* sense are bounded in it ("what is reachable is mii_tx giving up").
CardSpec ==
  /\ CardInit /\ [][CardNext]_cardvars
  /\ WF_cardvars(Transmit /\ T!Clk) /\ WF_cardvars(Transmit /\ T!Mii)
  /\ WF_cardvars(Transmit /\ T!Mii /\ mii' = "DONE")
-----------------------------------------------------------------------------
\* The two properties of the transmit half, see Mb3c400Tx.
SentIsTaken == T!SentIsTaken
ComesBack   == T!ComesBack
=============================================================================
