----------------------------- MODULE MCBusCycle -----------------------------
(* BusCycle with one page of each kind that an access can tell apart. *)
EXTENDS BusCycle

Full(to) == [valid |-> TRUE, rd |-> TRUE, wr |-> TRUE, to |-> to]

\* Memory, read-only memory (the read half of a read-modify-write passes and the
\* write half does not), an invalid page that would lead to a device, and a slot
\* of the system bus, which may be empty.  What sun2_fpga answers itself is there
\* as control space.
MCPages == {"m", "r", "i", "c"}
MCEntry == [q \in MCPages |->
  CASE q = "m" -> Full("memory")
    [] q = "r" -> [Full("memory") EXCEPT !.wr = FALSE]
    [] q = "i" -> [Full("device") EXCEPT !.valid = FALSE]
    [] q = "c" -> Full("bus")]
=============================================================================
