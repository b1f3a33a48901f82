---------------------------- MODULE MCFbScanout ----------------------------
(* FbScanout on a picture of three rows of two beats of two pixels. *)
EXTENDS FbScanout
=============================================================================
