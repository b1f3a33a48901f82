------------------------------ MODULE CardPaths ------------------------------
(***************************************************************************)
(* How a card's bytes come to the machine's memory: the lanes they take,    *)
(* beside the CPU's own and the picture's (ByteLanes), and the SCSI channel *)
(* that gathers them into longwords and moves them by those lanes           *)
(* (ScsiDma).  Either the lanes are driven in every way there is, or the    *)
(* channel drives them; use chooses.                                        *)
(***************************************************************************)
EXTENDS ScsiDma

VARIABLE use

pathvars == <<lanes, channel, use>>

EveryWay == use = "every way" /\ UNCHANGED <<channel, use>>
ByScsi   == use = "scsi" /\ UNCHANGED use

PathsInit == use \in {"every way", "scsi"} /\ LanesInit /\ ChannelInit

PathsNext ==
  \/ \E l \in Longs, uds \in BOOLEAN, lds \in BOOLEAN :
       \E a \in {4 * l, 4 * l + 2} : EveryWay /\ CpuWrite(a, uds, lds)
  \/ \E l \in Longs, sel \in SUBSET (0 .. 3) : EveryWay /\ DvmaWrite(l, sel)
  \/ ByScsi /\ Clk

\* CLK runs; a grant is withdrawn, and the DVMA master gets the bus and is done
\* with it, as Dvma shows.
PathsFairness ==
  WF_pathvars(ByScsi /\ Clk) /\ WF_pathvars(ByScsi /\ Clk /\ dvma'.st # dvma.st)

FairPaths == PathsInit /\ [][PathsNext]_pathvars /\ PathsFairness
=============================================================================
