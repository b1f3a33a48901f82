----------------------------- MODULE MCCardPaths -----------------------------
(* Three of a beat's four longwords; transfers that start and end inside a  *)
(* longword, of even and odd length, in word and byte mode, with a target   *)
(* that moves nothing, too little, what was asked for, or wants more.       *)
EXTENDS CardPaths

WrittenLongs == {0, 1, 3}

Transfer(a, l, d, w) == [at |-> a, len |-> l, dir |-> d, word |-> w]

MCTransfers ==
  {Transfer(3, 6, "in", TRUE), Transfer(2, 3, "in", TRUE),
   Transfer(3, 3, "in", FALSE), Transfer(3, 6, "out", TRUE)}
MCMoved == {0, 3, 6, 7}
=============================================================================
