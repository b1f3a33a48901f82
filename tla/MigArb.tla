------------------------------- MODULE MigArb -------------------------------
(***************************************************************************)
(* boards/Wukong/mig_arb.sv: the machine (client 0, reads and writes) and   *)
(* the scan-out (client 1, reads) share the one user port of the memory     *)
(* controller, one transaction at a time, in turn.                          *)
(*                                                                          *)
(* Everything runs on ui_clk: UiClk is one edge of it, with what the        *)
(* controller's ready and valid pins show on that edge.  Client 0 is what   *)
(* wb_mig_sync and wb_to_mig_ui make of a bridge: a request held until its  *)
(* done, and dropped on the edge that sees it.  Client 1 is fb_scanout,     *)
(* which may move its address or drop its request at any time.              *)
(***************************************************************************)
EXTENDS Integers, Sequences, SequencesExt

CONSTANTS
  Lines, Byte,       \* addresses, and what one holds
  MigDepth           \* how many commands the controller takes in at most

ASSUME ArbAssumption == Lines # {} /\ MigDepth \in Nat \ {0}

VARIABLES
  state, owner, last_owner,
  cmd_done, dat_done, app_en, app_wdf_wren,
  app,                 \* app_cmd, app_addr, app_wdf_data, app_wdf_mask
  done, rdata,         \* c0_done and c1_done; c0_rdata and c1_rdata
  calib,               \* init_calib_complete
  bus,                 \* client 0's request, or NoPhase
  scan,                \* client 1's address, or Off
  cmds, wdata,         \* what the controller has taken and not performed
  mem,
  waited               \* how many of the other's transactions a client has sat out

arbregs == <<state, owner, last_owner, cmd_done, dat_done, app_en, app_wdf_wren, app, done, rdata>>
clients == <<bus, scan>>
mig     == <<cmds, wdata, mem>>
vars    == <<arbregs, clients, calib, mig, waited>>

Clients == {0, 1}
Bytes   == {0}
Off     == "off"
M == INSTANCE SerialMemory WITH m <- mem, taken <- FALSE, dout <- <<>>
NoPhase == M!NoPhase
-----------------------------------------------------------------------------
cmd_ok(rdy)     == cmd_done \/ (app_en /\ rdy)
dat_ok(wdf_rdy) == dat_done \/ (app_wdf_wren /\ wdf_rdy)

req(c) == IF c = 0 THEN bus # NoPhase ELSE scan # Off

ask_unmasked(c) == req(c)
\* A client still shows its request on the edge that shows it its done.
ask(c) == req(c) /\ ~done[c]

any_req == ask(0) \/ ask(1)

\* Round robin: when both ask, the one that did not go last.
pick == IF ask(0) /\ ask(1) THEN 1 - last_owner ELSE IF ask(0) THEN 0 ELSE 1

pick_request ==
  IF pick = 0 /\ ~bus.rd THEN [we |-> TRUE, a |-> bus.a, d |-> bus.d]
                         ELSE [we |-> FALSE, a |-> IF pick = 0 THEN bus.a ELSE scan]

NoDone == done' = [c \in Clients |-> FALSE] /\ rdata' = rdata

S_IDLE ==
  /\ state = "idle"
  /\ cmd_done' = FALSE /\ dat_done' = FALSE
  /\ NoDone
  /\ IF any_req /\ calib
     THEN /\ owner' = pick /\ last_owner' = pick
          /\ app_en' = TRUE
          /\ app' = pick_request
          /\ app_wdf_wren' = pick_request.we
          /\ state' = IF pick_request.we THEN "write" ELSE "read"
     ELSE /\ app_en' = FALSE /\ app_wdf_wren' = FALSE
          /\ UNCHANGED <<owner, last_owner, app, state>>

write_ends_together(rdy, wdf_rdy) == app_en /\ rdy /\ app_wdf_wren /\ wdf_rdy
\* Both handshakes of a write are over, in whichever order they came.
write_ends(rdy, wdf_rdy) == cmd_ok(rdy) /\ dat_ok(wdf_rdy)

S_WRITE(rdy, wdf_rdy) ==
  /\ state = "write"
  /\ app_en' = (app_en /\ ~rdy)
  /\ cmd_done' = cmd_ok(rdy)
  /\ app_wdf_wren' = (app_wdf_wren /\ ~wdf_rdy)
  /\ dat_done' = dat_ok(wdf_rdy)
  /\ done' = [c \in Clients |-> c = 0 /\ write_ends(rdy, wdf_rdy)]
  /\ state' = IF write_ends(rdy, wdf_rdy) THEN "idle" ELSE "write"
  /\ UNCHANGED <<owner, last_owner, app, rdata>>

S_READ(rdy) ==
  /\ state = "read"
  /\ app_en' = (app_en /\ ~rdy)
  /\ state' = IF rdy THEN "read_wait" ELSE "read"
  /\ NoDone
  /\ UNCHANGED <<owner, last_owner, app, cmd_done, dat_done, app_wdf_wren>>

S_READ_WAIT_burst(valid) ==
  /\ state = "read_wait"
  /\ IF valid THEN /\ done' = [c \in Clients |-> c = owner]
                   /\ rdata' = [rdata EXCEPT ![owner] = mem[cmds[1].a]]
                   /\ state' = IF owner = 1 /\ req(1) THEN "read" ELSE "idle"
                   /\ app_en' = (owner = 1 /\ req(1))
              ELSE NoDone /\ UNCHANGED <<state, app_en>>
  /\ UNCHANGED <<owner, last_owner, app, cmd_done, dat_done, app_wdf_wren>>

\* The controller's answer is what memory holds at the head of its queue.
S_READ_WAIT(valid) ==
  /\ state = "read_wait"
  /\ IF valid THEN /\ done' = [c \in Clients |-> c = owner]
                   /\ rdata' = [rdata EXCEPT ![owner] = mem[cmds[1].a]]
                   /\ state' = "idle"
              ELSE NoDone /\ UNCHANGED state
  /\ UNCHANGED <<owner, last_owner, app, cmd_done, dat_done, app_en, app_wdf_wren>>

Arbiter(rdy, wdf_rdy, valid) == S_IDLE \/ S_WRITE(rdy, wdf_rdy) \/ S_READ(rdy) \/ S_READ_WAIT(valid)
-----------------------------------------------------------------------------
(* The clients. *)

Client0 ==
  IF bus = NoPhase THEN bus' \in M!Phases \cup {NoPhase}
                   ELSE bus' = IF done[0] THEN NoPhase ELSE bus

Client1 == scan' \in Lines \cup {Off}

(* The controller takes commands and write data when it likes, and performs *)
(* them in order.                                                           *)

MigTakes(rdy, wdf_rdy, valid) ==
  /\ rdy => Len(cmds) < MigDepth
  /\ wdf_rdy => Len(wdata) < MigDepth
  /\ valid => cmds # <<>> /\ ~cmds[1].we
  /\ cmds' = (IF valid THEN Tail(cmds) ELSE cmds)
               \o (IF app_en /\ rdy THEN <<[we |-> app.we, a |-> app.a]>> ELSE <<>>)
  /\ wdata' = IF app_wdf_wren /\ wdf_rdy THEN Append(wdata, app.d) ELSE wdata

Cell(d) == [i \in Bytes |-> d]

MigPerform ==
  /\ cmds # <<>> /\ cmds[1].we /\ wdata # <<>>
  /\ mem' = [mem EXCEPT ![cmds[1].a] = Cell(wdata[1])]
  /\ cmds' = Tail(cmds) /\ wdata' = Tail(wdata)
  /\ UNCHANGED <<arbregs, clients, calib, waited>>

\* The other's transactions that a client's wait overlaps.
Waiting ==
  waited' = [c \in Clients |->
    LET others == state' # "idle" /\ owner' # c
        fresh  == others /\ (state = "idle" \/ ~ask(c) \/ done'[1 - c])
    IN  IF ~ask(c)' THEN 0 ELSE waited[c] + (IF fresh THEN 1 ELSE 0)]

\* An edge of ui_clk.
UiClk(rdy, wdf_rdy, valid) ==
  /\ Arbiter(rdy, wdf_rdy, valid)
  /\ Client0 /\ Client1
  /\ MigTakes(rdy, wdf_rdy, valid)
  /\ calib' \in {calib, TRUE}
  /\ Waiting
  /\ UNCHANGED mem
-----------------------------------------------------------------------------
Init ==
  /\ state = "idle" /\ owner = 0 /\ last_owner = 1
  /\ cmd_done = FALSE /\ dat_done = FALSE /\ app_en = FALSE /\ app_wdf_wren = FALSE
  /\ app = [we |-> FALSE]
  /\ done = [c \in Clients |-> FALSE] /\ rdata = [c \in Clients |-> <<>>]
  /\ calib = FALSE
  /\ bus = NoPhase /\ scan = Off
  /\ cmds = <<>> /\ wdata = <<>>
  /\ mem \in [Lines -> [Bytes -> Byte]]
  /\ waited = [c \in Clients |-> 0]

Next == MigPerform \/ \E rdy, wdf_rdy, valid \in BOOLEAN : UiClk(rdy, wdf_rdy, valid)

Spec == Init /\ [][Next]_vars

\* The controller calibrates, takes what it is offered in the end, and answers.
Fairness ==
  /\ WF_vars(\E rdy, wdf_rdy, valid \in BOOLEAN : UiClk(rdy, wdf_rdy, valid) /\ calib')
  /\ WF_vars(\E wdf_rdy, valid \in BOOLEAN : UiClk(TRUE, wdf_rdy, valid))
  /\ WF_vars(\E rdy, valid \in BOOLEAN : UiClk(rdy, TRUE, valid))
  /\ WF_vars(\E rdy, wdf_rdy \in BOOLEAN : UiClk(rdy, wdf_rdy, TRUE))
  /\ WF_vars(MigPerform)

FairSpec == Spec /\ Fairness
-----------------------------------------------------------------------------
TypeOK ==
  /\ state \in {"idle", "write", "read", "read_wait"}
  /\ owner \in Clients /\ last_owner \in Clients
  /\ cmd_done \in BOOLEAN /\ dat_done \in BOOLEAN
  /\ app_en \in BOOLEAN /\ app_wdf_wren \in BOOLEAN /\ calib \in BOOLEAN
  /\ app \in [we : {TRUE}, a : Lines, d : Byte] \cup [we : {FALSE}, a : Lines] \cup {[we |-> FALSE]}
  /\ done \in [Clients -> BOOLEAN]
  /\ rdata \in [Clients -> [Bytes -> Byte] \cup {<<>>}]
  /\ bus \in M!Phases \cup {NoPhase} /\ scan \in Lines \cup {Off}
  /\ mem \in [Lines -> [Bytes -> Byte]]

\* "The CPU waits at most one scan-out transaction, and the scan-out waits at
\* most one CPU transaction" (mig_arb.sv 19-22), one already running included.
WaitsForOneAtMost == \A c \in Clients : waited[c] <= 1

\* The memory as it will be once everything taken has been performed, and the
\* write that the arbiter is handing over.  A read is only ever the last command
\* taken, so the writes and their data pair off in place.
PostedTo(l) == {k \in DOMAIN cmds \cap DOMAIN wdata : cmds[k].we /\ cmds[k].a = l}
View ==
  [l \in Lines |-> IF state = "write" /\ app.a = l THEN Cell(app.d)
                   ELSE IF PostedTo(l) = {} THEN mem[l] ELSE Cell(wdata[Max(PostedTo(l))])]

Serial == INSTANCE SerialMemory WITH
  m <- View, dout <- rdata[0],
  taken <- bus # NoPhase /\ (done[0] \/ (~bus.rd /\ state = "write"))

\* Behind the arbiter the machine has a serial memory: every request of its own
\* performed once, with its own data, whatever the scan-out asks in between
\* and in whatever order the controller takes a write's two halves.
SerialMemorySpec == Serial!Spec

\* Neither client can be starved.
Served == \A c \in Clients : ask(c) ~> (done[c] \/ ~req(c))
=============================================================================
