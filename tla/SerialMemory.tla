---------------------------- MODULE SerialMemory ----------------------------
(***************************************************************************)
(* What the machine is promised by the path to its main memory: one data    *)
(* phase at a time, a write takes effect once, a read answers with what the *)
(* memory holds at some moment of the phase, and the answer stays on the    *)
(* data register until another read replaces it.  A phase the master walks  *)
(* away from may or may not have been taken.                                *)
(*                                                                          *)
(* A phase touches some bytes of one line; a bridge that knows only whole   *)
(* entries has lines of a single byte.                                      *)
(***************************************************************************)
EXTENDS Integers

CONSTANTS Lines, Bytes, Byte

Line == [Bytes -> Byte]

\* A read names the bytes it wants, a write the bytes it drives and with what.
Reads   == [rd : {TRUE}, a : Lines, b : (SUBSET Bytes) \ {{}}]
Writes  == [rd : {FALSE}, a : Lines, b : (SUBSET Bytes) \ {{}}, d : Byte]
Phases  == Reads \cup Writes
NoPhase == [rd |-> FALSE]

Merge(line, bytes, d) == [i \in Bytes |-> IF i \in bytes THEN d ELSE line[i]]

VARIABLES
  m,       \* the memory, as the machine may count on it
  bus,     \* the data phase on the bus, or NoPhase
  taken,   \* that phase has had its effect
  dout     \* the last read's answer: the bytes it asked for

mvars == <<m, bus, taken, dout>>

Begin(ph) ==
  /\ bus = NoPhase
  /\ bus' = ph
  /\ UNCHANGED <<m, taken, dout>>

TakeWrite ==
  /\ bus # NoPhase /\ ~bus.rd /\ ~taken
  /\ m' = [m EXCEPT ![bus.a] = Merge(@, bus.b, bus.d)]
  /\ taken' = TRUE
  /\ UNCHANGED <<bus, dout>>

TakeRead ==
  /\ bus # NoPhase /\ bus.rd /\ ~taken
  /\ dout' = [i \in bus.b |-> m[bus.a][i]]
  /\ taken' = TRUE
  /\ UNCHANGED <<m, bus>>

\* The strobes release, the phase served or not.
Release ==
  /\ bus # NoPhase
  /\ bus' = NoPhase /\ taken' = FALSE
  /\ UNCHANGED <<m, dout>>

Init ==
  /\ m \in [Lines -> Line]
  /\ bus = NoPhase /\ ~taken
  /\ dout = <<>>

Next == TakeWrite \/ TakeRead \/ Release \/ \E ph \in Phases : Begin(ph)

Spec == Init /\ [][Next]_mvars
=============================================================================
