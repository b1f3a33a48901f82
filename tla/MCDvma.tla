------------------------------- MODULE MCDvma -------------------------------
(* Dvma with the Ethernet and the SCSI board behind one arbiter. *)
EXTENDS Dvma

Two == {"eth", "scsi"}
LongOrHigh == {Halves, {"hi"}}
HighOnly   == {{"hi"}}
=============================================================================
