---------------------------- MODULE MCAsyncFifo ----------------------------
(* AsyncFifo with the smallest depth the source allows, for TLC. *)
EXTENDS AsyncFifo

\* Entries differ only in being told apart.
MCData == {"a", "b"}
=============================================================================
