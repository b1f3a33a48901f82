------------------------------ MODULE MCMb3c400 -----------------------------
(* The card with lengths and offsets scaled down: receive buffers of six    *)
(* bytes; two texts and two offsets in a transmit buffer of four.           *)
EXTENDS Mb3c400

Plain == [len |-> 2, cls |-> "mine", err |-> "none"]
Long  == [Plain EXCEPT !.len = 5]

\* First perhaps one too long to store or one whose check sum fails, so that
\* what is wrong with it can show in the two that follow.
MCTraffic == <<{Plain, Long, [Plain EXCEPT !.err = "fcs"]}, {Plain}, {Plain}>>

\* Frames for this station and broadcasts, without errors.
Normal == {7}

TwoTexts   == {"one", "two"}
TwoOffsets == {1, 2}
=============================================================================
