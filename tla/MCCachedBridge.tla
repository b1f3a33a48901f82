--------------------------- MODULE MCCachedBridge ---------------------------
(* Two lines of main memory that collide in the cache, and a frame buffer     *)
(* whose physical address aliases the first of them.                         *)
EXTENDS CachedBridge, TLC

MCAlias == [l \in Locations |-> IF l \in Fb THEN CHOOSE k \in MemLines : TRUE ELSE l]

\* All lines share one entry of the cache, their tags tell them apart.
OneSet  == [l \in MemLines |-> 0]
OwnTags == [l \in MemLines |-> l]

OneByte  == {0}

\* What a byte holds is stored and compared, nothing else.
ByteSymmetry == Permutations(Byte)
=============================================================================
