----------------------------- MODULE MemoryPaths ----------------------------
(***************************************************************************)
(* A machine is built with one of two paths from its bus to its memory:     *)
(* the queued bridge (FifoBridge) or the synchronous one (SyncBridge).      *)
(* Both sit between the same strobes and the same memory, so they share     *)
(* those variables and the promise: one serial memory, that answers.        *)
(***************************************************************************)
EXTENDS FifoBridge

VARIABLES
  built,                                   \* the bridge this machine has
  req, req_tgl, wb_ack_o, wb_dat_o, ack_s, \* what only the synchronous path has
  req_s, waiting, ack_tgl, rd_lane,
  stray                                    \* see SyncBridge

syncregs == <<req, req_tgl, wb_ack_o, wb_dat_o, ack_s, req_s, waiting, ack_tgl, rd_lane, stray>>
pathvars == <<vars, built, syncregs>>

S == INSTANCE SyncBridge

\* A step of the bridge there is; what belongs to the other one stands still.
Queued      == built = "queued" /\ UNCHANGED <<built, syncregs>>
Synchronous == built = "synchronous" /\ UNCHANGED <<built, tag, queues, c>>

PathInit == built \in {"queued", "synchronous"} /\ Init /\ S!Init

PathNext ==
  \/ Queued /\ CpuClk
  \/ Queued /\ WbClk
  \/ Queued /\ WbAck
  \/ Queued /\ EndPhase
  \/ Queued /\ AbandonPhase
  \/ Queued /\ \E ph \in M!Phases : BeginPhase(ph)
  \/ Synchronous /\ S!CpuClk
  \/ Synchronous /\ S!UiClk
  \/ Synchronous /\ S!UiDone
  \/ Synchronous /\ S!EndPhase
  \/ Synchronous /\ S!AbandonPhase
  \/ Synchronous /\ \E ph \in M!Phases : S!BeginPhase(ph)

\* Both clocks run, the monitor reaches LED code 0x8F, the memory answers, and
\* the FIFOs' pointers get across (what PointerFifo promises).
QueuedFairness ==
  /\ WF_pathvars(Queued /\ CpuClk) /\ WF_pathvars(Queued /\ CpuClk /\ ENABLE')
  /\ WF_pathvars(Queued /\ CpuClk /\ rq_lag' < rq_lag)
  /\ WF_pathvars(Queued /\ CpuClk /\ rs_vis' - rs_vis > Len(rs') - Len(rs))
  /\ WF_pathvars(Queued /\ WbClk) /\ WF_pathvars(Queued /\ WbAck)
  /\ WF_pathvars(Queued /\ (WbClk \/ WbAck) /\ rq_vis' - rq_vis > Len(rq') - Len(rq))
  /\ WF_pathvars(Queued /\ (WbClk \/ WbAck) /\ rs_lag' < rs_lag)

\* Both clocks run, LED code 0x8F is reached, a toggle is seen in the end and
\* the arbiter serves what is asked of it.
SynchronousFairness ==
  /\ WF_pathvars(Synchronous /\ S!CpuClk) /\ WF_pathvars(Synchronous /\ S!CpuClk /\ ENABLE')
  /\ WF_pathvars(Synchronous /\ S!CpuClk /\ ack_s[1]' = ack_tgl)
  /\ WF_pathvars(Synchronous /\ S!UiClk) /\ WF_pathvars(Synchronous /\ S!UiDone)
  /\ WF_pathvars(Synchronous /\ (S!UiClk \/ S!UiDone) /\ req_s[1]' = req_tgl)

FairPaths ==
  PathInit /\ [][PathNext]_pathvars /\ QueuedFairness /\ SynchronousFairness
-----------------------------------------------------------------------------
Memory == IF built = "queued" THEN View ELSE S!View

Serial == INSTANCE SerialMemory WITH
  m     <- Memory,
  taken <- IF built = "queued" THEN Taken ELSE S!Taken,
  dout  <- P_DATA_OUT

\* Acknowledging a write before it is performed is invisible: every read sees
\* every write taken before it, every write is performed exactly once, and no
\* answer reaches a phase it is not for (sun2_fifo_bridge.v 18-35, 44-47).  The
\* synchronous path, which acknowledges what it has performed, keeps the same
\* promise but for what the queued bridge's tags are there for: the
\* acknowledgement of a phase that was walked away from is taken by the next
\* phase, if that one's request has been out for a clock, and spoils that phase
\* and no other.
SerialMemorySpec ==
  /\ Serial!Init
  /\ [][Serial!Next \/ (built = "synchronous" /\ S!OrphanTaken)]_(Serial!mvars)

\* What crosses between the two clocks of the synchronous path without a
\* synchroniser is stable while it is looked at (wb_to_mig_ui.sv 76-80).
HeldAcross == S!HeldAcross

\* Once the masters stop, everything that was acknowledged gets performed.
Settles == <>[](~PHASE) => <>[](Memory = mem)
=============================================================================
