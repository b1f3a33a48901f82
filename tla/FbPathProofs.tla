---------------------------- MODULE FbPathProofs ----------------------------
(***************************************************************************)
(* The picture's way out of the memory.  Behind the arbiter, whatever the  *)
(* controller does and however the scan-out changes its mind, neither      *)
(* client sits out more than one transaction of the other's, and the       *)
(* machine has a serial memory.  Before it, the picture on the screen is   *)
(* the frame buffer's for every geometry: any number of lines, beats and   *)
(* pixels, any place on any screen with a line of blanking above it and    *)
(* three columns to its left.                                              *)
(***************************************************************************)
EXTENDS MigArb, FbScanout, NaturalsInduction, WellFoundedInduction, TLAPS

(* The arbiter (boards/Wukong/mig_arb.sv). *)

\* What the turns depend on.
TurnsTypeOK ==
  /\ state \in {"idle", "write", "read", "read_wait"}
  /\ owner \in Clients /\ last_owner \in Clients
  /\ done \in [Clients -> BOOLEAN]
  /\ waited \in [Clients -> Nat]

\* A transaction is its owner's, who went last; only the machine writes.
OneAtATime ==
  /\ state # "idle" => last_owner = owner
  /\ state = "write" => owner = 0

\* Who has sat out the other's transaction is next, or is being served.
NextInTurn(c) ==
  /\ waited[c] <= 1
  /\ ~ask(c) => waited[c] = 0
  /\ waited[c] = 1 => last_owner = 1 - c \/ (state # "idle" /\ owner = c)

IInv == TurnsTypeOK /\ OneAtATime /\ \A c \in Clients : NextInTurn(c)

\* Out of reset nobody has waited.
LEMMA InitIInv == Init => IInv
BY DEF Init, IInv, TurnsTypeOK, OneAtATime, NextInTurn, Clients

\* A request that is not shown is not one that waits.
LEMMA WaitingStep ==
  ASSUME NEW c \in Clients, waited \in [Clients -> Nat], Waiting
  PROVE  /\ waited' \in [Clients -> Nat]
         /\ ~ask(c)' => waited'[c] = 0
         /\ waited'[c] > 0 => waited'[c] \in {waited[c], waited[c] + 1}
         /\ waited'[c] > waited[c] =>
              /\ state' # "idle" /\ owner' # c
              /\ state = "idle" \/ ~ask(c) \/ done'[1 - c]
BY DEF Waiting, Clients, ask

\* An edge of ui_clk keeps the turns.
LEMMA ArbiterStep ==
  ASSUME TurnsTypeOK, OneAtATime,
         NEW rdy \in BOOLEAN, NEW wdf_rdy \in BOOLEAN, NEW valid \in BOOLEAN,
         Arbiter(rdy, wdf_rdy, valid)
  PROVE  /\ state' \in {"idle", "write", "read", "read_wait"}
         /\ owner' \in Clients /\ last_owner' \in Clients
         /\ done' \in [Clients -> BOOLEAN]
         /\ OneAtATime'
         /\ state' # "idle" => \A c \in Clients : ~done'[c]
         /\ state # "idle" => owner' = owner /\ last_owner' = last_owner
         /\ state # "idle" /\ state' = "idle" => done'[owner]
         /\ state = "idle" /\ state' # "idle" => owner' = pick /\ any_req
         /\ state = "idle" /\ state' = "idle" => owner' = owner /\ last_owner' = last_owner
<1> USE DEF TurnsTypeOK, OneAtATime, Clients
<1>1. CASE S_IDLE
  <2>1. pick \in Clients
    BY DEF pick
  <2>2. pick_request.we \in BOOLEAN /\ (pick_request.we => pick = 0)
    BY <2>1 DEF pick_request
  <2>3. QED
    BY <1>1, <2>1, <2>2 DEF S_IDLE, NoDone
<1>2. CASE S_WRITE(rdy, wdf_rdy)
  BY <1>2 DEF S_WRITE
<1>3. CASE S_READ(rdy)
  BY <1>3 DEF S_READ, NoDone
<1>4. CASE S_READ_WAIT(valid)
  BY <1>4 DEF S_READ_WAIT, NoDone
<1>5. QED
  BY <1>1, <1>2, <1>3, <1>4 DEF Arbiter

\* Who asks and is not picked has just been served.
LEMMA PickIsFair ==
  ASSUME TurnsTypeOK, NEW c \in Clients, ask(c), pick # c
  PROVE  last_owner = c
BY DEF pick, TurnsTypeOK, Clients

\* Every step keeps the turns.
LEMMA StepIInv == IInv /\ [Next]_vars => IInv'
<1> SUFFICES ASSUME IInv, [Next]_vars PROVE IInv'
  OBVIOUS
<1>1. ASSUME NEW rdy \in BOOLEAN, NEW wdf_rdy \in BOOLEAN, NEW valid \in BOOLEAN,
             UiClk(rdy, wdf_rdy, valid)
      PROVE  IInv'
  <2>1. Arbiter(rdy, wdf_rdy, valid) /\ Waiting
    BY <1>1 DEF UiClk
  <2>2. TurnsTypeOK' /\ OneAtATime'
    BY <2>1, ArbiterStep, WaitingStep DEF IInv, TurnsTypeOK, Clients
  <2>3. ASSUME NEW c \in Clients PROVE NextInTurn(c)'
    <3>1. waited[c] \in Nat /\ waited'[c] \in Nat
      BY <2>2 DEF IInv, TurnsTypeOK
    <3>2. /\ ~ask(c)' => waited'[c] = 0
          /\ waited'[c] > 0 => waited'[c] \in {waited[c], waited[c] + 1}
          /\ waited'[c] > waited[c] =>
               /\ state' # "idle" /\ owner' # c
               /\ state = "idle" \/ ~ask(c) \/ done'[1 - c]
      BY <2>1, WaitingStep DEF IInv, TurnsTypeOK
    <3>3. CASE waited'[c] = 0
      BY <3>3 DEF NextInTurn
    <3>4. CASE waited'[c] > waited[c]
      \* A transaction of the other's has begun: c was served just before.
      <4>1. waited[c] = 0
        <5>1. CASE ~ask(c)
          BY <5>1 DEF IInv, NextInTurn
        <5>2. CASE ask(c)
          <6>1. ~done'[1 - c]
            BY <2>1, <3>2, <3>4, ArbiterStep DEF IInv, Clients
          <6>2. state = "idle" /\ pick # c
            BY <2>1, <3>2, <3>4, <5>2, <6>1, ArbiterStep DEF IInv
          <6>3. last_owner = c
            BY <5>2, <6>2, PickIsFair DEF IInv
          <6>4. QED
            BY <3>1, <6>2, <6>3 DEF IInv, NextInTurn, Clients
        <5>3. QED
          BY <5>1, <5>2
      <4>2. last_owner' = 1 - c
        BY <2>2, <3>2, <3>4 DEF OneAtATime, TurnsTypeOK, Clients
      <4>3. QED
        BY <3>1, <3>2, <3>4, <4>1, <4>2 DEF NextInTurn
    <3>5. CASE waited'[c] > 0 /\ waited'[c] <= waited[c]
      <4>1. waited'[c] = waited[c] /\ waited[c] = 1
        BY <3>1, <3>2, <3>5 DEF IInv, NextInTurn
      <4>2. last_owner = 1 - c \/ (state # "idle" /\ owner = c)
        BY <4>1 DEF IInv, NextInTurn
      <4>3. CASE state = "idle"
        \* It is c that goes now, or nobody does.
        <5>1. CASE state' # "idle"
          <6>1. CASE owner' = c
            BY <3>1, <3>2, <3>5, <5>1, <6>1 DEF NextInTurn, IInv
          <6>2. CASE owner' # c
            BY <2>2, <3>1, <3>2, <3>5, <4>1, <5>1, <6>2
               DEF NextInTurn, OneAtATime, TurnsTypeOK, Clients
          <6>3. QED
            BY <6>1, <6>2
        <5>2. CASE state' = "idle"
          BY <2>1, <4>1, <4>2, <4>3, <5>2, <3>2, ArbiterStep DEF IInv, NextInTurn
        <5>3. QED
          BY <5>1, <5>2
      <4>4. CASE state # "idle" /\ state' # "idle"
        BY <2>1, <4>1, <4>2, <4>4, <3>2, ArbiterStep DEF IInv, NextInTurn
      <4>5. CASE state # "idle" /\ state' = "idle"
        <5>1. done'[owner] /\ last_owner' = last_owner
          BY <2>1, <4>5, ArbiterStep DEF IInv
        <5>2. owner # c
          BY <5>1, <3>2, <3>5, <3>1 DEF ask
        <5>3. QED
          BY <4>1, <4>2, <5>1, <5>2, <3>2 DEF NextInTurn
      <4>6. QED
        BY <4>3, <4>4, <4>5
    <3>6. QED
      BY <3>1, <3>3, <3>4, <3>5
  <2>4. QED
    BY <2>2, <2>3 DEF IInv
<1>2. CASE MigPerform
  BY <1>2 DEF MigPerform, IInv, TurnsTypeOK, OneAtATime, NextInTurn, ask, req, arbregs, clients
<1>3. CASE UNCHANGED vars
  BY <1>3 DEF vars, IInv, TurnsTypeOK, OneAtATime, NextInTurn, ask, req, arbregs, clients
<1>4. QED
  BY <1>1, <1>2, <1>3 DEF Next

\* "The CPU waits at most one scan-out transaction, and the scan-out waits at
\* most one CPU transaction" (mig_arb.sv 19-22), for any memory and any depth
\* of the controller's queues.
THEOREM WaitsForOne == Spec => []WaitsForOneAtMost
<1>1. IInv => WaitsForOneAtMost
  BY DEF IInv, NextInTurn, WaitsForOneAtMost
<1>2. QED
  BY InitIInv, StepIInv, <1>1, PTL DEF Spec
-----------------------------------------------------------------------------
(* What is last among some.                                                 *)

\* The order of the naturals.
Below == {e \in Nat \X Nat : e[1] < e[2]}

\* It is well founded: among some of them one is least.
LEMMA LeastOf ==
  ASSUME NEW K \in SUBSET Nat, K # {}
  PROVE  \E m \in K : \A k \in K : m <= k
<1>1. IsWellFoundedOn(Below, Nat)
  BY NatLessThanWellFounded DEF OpToRel, Below
<1>2. PICK m \in K : \A k \in K : <<k, m>> \notin Below
  BY <1>1, WFMin
<1>3. ASSUME NEW k \in K PROVE m <= k
  <2>1. k \in Nat /\ m \in Nat /\ <<k, m>> \notin Below
    BY <1>2
  <2>2. ~(k < m)
    BY <2>1 DEF Below
  <2>3. QED
    BY <2>1, <2>2
<1>4. QED
  BY <1>3

\* Max is what its name says.
LEMMA MaxIs ==
  ASSUME NEW K \in SUBSET Int, NEW m \in K, \A k \in K : k <= m
  PROVE  Max(K) = m
<1>1. \A k \in K : m >= k
  <2> TAKE k \in K
  <2>1. k \in Int /\ m \in Int /\ k <= m
    OBVIOUS
  <2>2. QED
    BY <2>1
<1>2. Max(K) \in K /\ \A k \in K : Max(K) >= k
  BY <1>1 DEF Max
<1>3. Max(K) \in Int /\ m \in Int /\ m >= Max(K) /\ Max(K) >= m
  BY <1>1, <1>2
<1>4. QED
  BY <1>3

\* Some positions of a sequence have a last one among them.
LEMMA MaxOf ==
  ASSUME NEW n \in Nat, NEW K \in SUBSET (1 .. n), K # {}
  PROVE  Max(K) \in K /\ \A k \in K : k <= Max(K)
<1> DEFINE D == {n - k : k \in K}
<1>1. D \in SUBSET Nat /\ D # {}
  <2>1. \A k \in K : n - k \in Nat
    OBVIOUS
  <2>2. QED
    BY <2>1
<1>2. PICK d \in D : \A k \in D : d <= k
  BY <1>1, LeastOf
<1>3. PICK m \in K : d = n - m
  BY <1>2
<1>4. \A k \in K : k <= m
  <2> TAKE k \in K
  <2>1. n - m <= n - k /\ k \in 1 .. n /\ m \in 1 .. n
    BY <1>2, <1>3
  <2>2. QED
    BY <2>1
<1>5. K \in SUBSET Int /\ m \in K
  OBVIOUS
<1>6. QED
  BY <1>4, <1>5, MaxIs

\* When the first of a row leaves it the others move up by one, and the last
\* stays the last.
LEMMA LastMovesUp ==
  ASSUME NEW n \in Nat, n > 0, NEW W \in SUBSET (1 .. n), NEW V \in SUBSET (1 .. n - 1),
         \A k \in 1 .. n - 1 : k \in V <=> k + 1 \in W
  PROVE  /\ V # {} => W # {} /\ Max(V) \in V /\ Max(W) = Max(V) + 1
         /\ V = {} => W = (IF 1 \in W THEN {1} ELSE {})
         /\ V = {} /\ 1 \in W => Max(W) = 1
<1>1. CASE V # {}
  <2>1. Max(V) \in V /\ \A k \in V : k <= Max(V)
    <3>1. n - 1 \in Nat
      OBVIOUS
    <3>2. QED
      BY <1>1, <3>1, MaxOf
  <2>2. Max(V) \in 1 .. n - 1 /\ Max(V) + 1 \in W
    BY <2>1
  <2>3. ASSUME NEW k \in W PROVE k <= Max(V) + 1
    <3>1. CASE k = 1
      BY <2>2, <3>1
    <3>2. CASE k # 1
      <4>1. k - 1 \in 1 .. n - 1 /\ (k - 1) + 1 = k
        BY <3>2
      <4>2. k - 1 \in V
        BY <4>1
      <4>3. k - 1 <= Max(V) /\ k \in Int /\ Max(V) \in Int
        BY <2>1, <2>2, <4>2
      <4>4. QED
        BY <4>3
    <3>3. QED
      BY <3>1, <3>2
  <2>4. W \in SUBSET Int
    OBVIOUS
  <2>5. Max(W) = Max(V) + 1
    BY <2>2, <2>3, <2>4, MaxIs
  <2>6. QED
    BY <1>1, <2>1, <2>2, <2>5
<1>2. CASE V = {}
  <2>1. \A k \in W : k = 1
    <3> TAKE k \in W
    <3>1. SUFFICES ASSUME k # 1 PROVE FALSE
      OBVIOUS
    <3>2. k - 1 \in 1 .. n - 1 /\ (k - 1) + 1 = k
      BY <3>1
    <3>3. QED
      BY <1>2, <3>2
  <2>2. 1 \in W => Max(W) = 1
    BY <2>1, MaxIs
  <2>3. W = (IF 1 \in W THEN {1} ELSE {})
    BY <2>1
  <2>4. QED
    BY <1>2, <2>2, <2>3
<1>3. QED
  BY <1>1, <1>2
-----------------------------------------------------------------------------
(* The handshakes with the controller, and what it has taken.               *)

\* The arbiter offers a command, or data, until it is taken.
Ports ==
  /\ state \in {"idle", "read_wait"} => ~app_en /\ ~app_wdf_wren
  /\ state = "read" => app_en /\ ~app_wdf_wren
  /\ state = "write" => /\ app_en <=> ~cmd_done
                        /\ app_wdf_wren <=> ~dat_done
                        /\ ~(cmd_done /\ dat_done)

\* What it offers is what its client asks for, and client 0 holds on to that.
Presented ==
  /\ done[0] => bus # NoPhase /\ state = "idle"
  /\ state = "write" =>
       bus # NoPhase /\ ~bus.rd /\ app = [we |-> TRUE, a |-> bus.a, d |-> bus.d]
  /\ state \in {"read", "read_wait"} => ~app.we /\ app.a \in Lines
  /\ state \in {"read", "read_wait"} /\ owner = 0 => bus # NoPhase /\ bus.rd /\ app.a = bus.a

Commands == [we : BOOLEAN, a : Lines]

\* A read is the last command taken, and waited for; the writes pair off with
\* their data, but for the half of one that the arbiter is handing over.
PairedOff ==
  /\ cmds \in Seq(Commands) /\ wdata \in Seq(Byte)
  /\ \A k \in 1 .. Len(cmds) : ~cmds[k].we => k = Len(cmds) /\ state = "read_wait"
  /\ state \in {"idle", "read"} => Len(cmds) = Len(wdata)
  /\ state = "read_wait" => Len(cmds) = Len(wdata) + 1
                            /\ cmds[Len(cmds)] = [we |-> FALSE, a |-> app.a]
  /\ state = "write" /\ ~cmd_done /\ ~dat_done => Len(cmds) = Len(wdata)
  /\ state = "write" /\ cmd_done => Len(cmds) = Len(wdata) + 1
                                    /\ cmds[Len(cmds)] = [we |-> TRUE, a |-> app.a]
  /\ state = "write" /\ dat_done => Len(wdata) = Len(cmds) + 1
                                    /\ wdata[Len(wdata)] = app.d

HInv == IInv /\ TypeOK /\ Ports /\ Presented /\ PairedOff

\* The bytes of a line there are in this model.
LEMMA OneByte == Bytes = {0} /\ (SUBSET Bytes) \ {{}} = {Bytes}
BY DEF Bytes

\* What a phase is made of.
LEMMA PhaseType ==
  ASSUME NEW ph \in M!Phases
  PROVE  /\ ph.rd \in BOOLEAN /\ ph.a \in Lines /\ ph.b = Bytes
         /\ ~ph.rd => ph.d \in Byte
<1>1. CASE ph \in M!Reads
  BY <1>1, OneByte DEF M!Reads
<1>2. CASE ph \in M!Writes
  BY <1>2, OneByte DEF M!Writes
<1>3. QED
  BY <1>1, <1>2 DEF M!Phases

\* Out of reset the controller has taken nothing.
LEMMA InitHInv == Init => HInv
<1> SUFFICES ASSUME Init PROVE HInv
  OBVIOUS
<1>1. TypeOK
  BY DEF Init, TypeOK, Clients
<1>2. Ports /\ Presented /\ PairedOff
  BY DEF Init, Ports, Presented, PairedOff, Clients
<1>3. QED
  BY <1>1, <1>2, InitIInv DEF HInv

\* What the controller takes joins what it has taken.
LEMMA Takes ==
  ASSUME PairedOff, TypeOK, NEW rdy \in BOOLEAN, NEW wdf_rdy \in BOOLEAN, NEW valid \in BOOLEAN,
         MigTakes(rdy, wdf_rdy, valid)
  PROVE  /\ ~valid => cmds' = IF app_en /\ rdy THEN Append(cmds, [we |-> app.we, a |-> app.a])
                                               ELSE cmds
         /\ valid /\ ~app_en => cmds' = Tail(cmds)
         /\ valid => Len(cmds) = 1 /\ state = "read_wait" /\ ~cmds[1].we
         /\ wdata' = IF app_wdf_wren /\ wdf_rdy THEN Append(wdata, app.d) ELSE wdata
<1>1. cmds \in Seq(Commands) /\ Len(cmds) \in Nat
  BY DEF PairedOff
<1>2. ~valid => cmds' = IF app_en /\ rdy THEN Append(cmds, [we |-> app.we, a |-> app.a]) ELSE cmds
  <2>1. \A s \in Seq(Commands) : \A x : s \o <<x>> = Append(s, x)
    OBVIOUS
  <2>2. \A s \in Seq(Commands) : s \o <<>> = s
    OBVIOUS
  <2>3. QED
    BY <1>1, <2>1, <2>2 DEF MigTakes
<1>3. valid /\ ~app_en => cmds' = Tail(cmds)
  <2>1. valid => cmds # <<>>
    BY DEF MigTakes
  <2>2. valid => Tail(cmds) \in Seq(Commands)
    BY <1>1, <2>1
  <2>3. \A s \in Seq(Commands) : s \o <<>> = s
    OBVIOUS
  <2>4. QED
    BY <2>2, <2>3 DEF MigTakes
<1>4. valid => Len(cmds) = 1 /\ state = "read_wait" /\ ~cmds[1].we
  BY <1>1 DEF MigTakes, PairedOff
<1>5. QED
  BY <1>2, <1>3, <1>4 DEF MigTakes

\* An edge of ui_clk keeps the types.
LEMMA TypeStep ==
  ASSUME HInv, IInv', NEW rdy \in BOOLEAN, NEW wdf_rdy \in BOOLEAN, NEW valid \in BOOLEAN,
         UiClk(rdy, wdf_rdy, valid)
  PROVE  TypeOK'
<1>0. IInv /\ TypeOK /\ Ports /\ Presented /\ PairedOff
  BY DEF HInv
<1>1. /\ state' \in {"idle", "write", "read", "read_wait"}
      /\ owner' \in Clients /\ last_owner' \in Clients /\ done' \in [Clients -> BOOLEAN]
  BY DEF IInv, TurnsTypeOK
<1>2. /\ bus' \in M!Phases \cup {NoPhase} /\ scan' \in Lines \cup {Off}
      /\ calib' \in BOOLEAN /\ mem' = mem
  BY <1>0 DEF UiClk, Client0, Client1, TypeOK
<1>3. CASE S_IDLE
  <2>1. app' \in [we : {TRUE}, a : Lines, d : Byte] \cup [we : {FALSE}, a : Lines] \cup {[we |-> FALSE]}
    <3>1. CASE any_req /\ calib
      <4>1. app' = pick_request
        BY <1>3, <3>1 DEF S_IDLE
      <4>2. pick \in {0, 1} /\ (pick = 0 => bus # NoPhase) /\ (pick = 1 => scan # Off)
        BY <1>0, <3>1 DEF pick, any_req, ask, req, IInv, TurnsTypeOK, Clients
      <4>3. bus # NoPhase => bus.a \in Lines /\ (~bus.rd => bus.d \in Byte)
        BY <1>0, PhaseType DEF TypeOK
      <4>4. scan # Off => scan \in Lines
        BY <1>0 DEF TypeOK
      <4>5. QED
        BY <4>1, <4>2, <4>3, <4>4 DEF pick_request
    <3>2. CASE ~(any_req /\ calib)
      BY <1>0, <1>3, <3>2 DEF S_IDLE, TypeOK
    <3>3. QED
      BY <3>1, <3>2
  <2>2. /\ cmd_done' \in BOOLEAN /\ dat_done' \in BOOLEAN /\ app_en' \in BOOLEAN
        /\ app_wdf_wren' \in BOOLEAN /\ rdata' = rdata
    <3>1. pick_request.we \in BOOLEAN
      BY DEF pick_request
    <3>2. QED
      BY <1>3, <3>1 DEF S_IDLE, NoDone
  <2>3. QED
    BY <1>0, <1>1, <1>2, <2>1, <2>2 DEF TypeOK
<1>4. CASE S_WRITE(rdy, wdf_rdy)
  BY <1>0, <1>1, <1>2, <1>4 DEF S_WRITE, TypeOK, cmd_ok, dat_ok
<1>5. CASE S_READ(rdy)
  BY <1>0, <1>1, <1>2, <1>5 DEF S_READ, NoDone, TypeOK
<1>6. CASE S_READ_WAIT(valid)
  <2>1. rdata' \in [Clients -> [Bytes -> Byte] \cup {<<>>}]
    <3>1. CASE valid
      <4>1. Len(cmds) = 1 /\ cmds \in Seq(Commands)
        BY <1>0, <3>1, Takes DEF UiClk, PairedOff
      <4>2. cmds[1].a \in Lines
        <5>1. cmds[1] \in Commands
          BY <4>1
        <5>2. QED
          BY <5>1 DEF Commands
      <4>3. QED
        BY <1>0, <1>6, <3>1, <4>2 DEF S_READ_WAIT, TypeOK
    <3>2. CASE ~valid
      BY <1>0, <1>6, <3>2 DEF S_READ_WAIT, NoDone, TypeOK
    <3>3. QED
      BY <3>1, <3>2
  <2>2. QED
    BY <1>0, <1>1, <1>2, <1>6, <2>1 DEF S_READ_WAIT, TypeOK
<1>7. QED
  BY <1>3, <1>4, <1>5, <1>6 DEF UiClk, Arbiter

\* Idle, the arbiter may take up a request: it offers what is asked.
LEMMA HInvOnIdle ==
  ASSUME HInv, NEW rdy \in BOOLEAN, NEW wdf_rdy \in BOOLEAN, NEW valid \in BOOLEAN,
         UiClk(rdy, wdf_rdy, valid), S_IDLE
  PROVE  /\ Ports' /\ Presented' /\ PairedOff'
         /\ cmds' = cmds /\ wdata' = wdata /\ rdata' = rdata /\ ~done'[0]
         /\ state' = "write" => ~done[0]
<1>0. IInv /\ TypeOK /\ Ports /\ Presented /\ PairedOff /\ state = "idle"
  BY DEF HInv, S_IDLE
<1>1. cmds' = cmds /\ wdata' = wdata
  <2>1. ~valid /\ ~app_en /\ ~app_wdf_wren
    BY <1>0, Takes DEF UiClk, Ports
  <2>2. QED
    BY <1>0, <2>1, Takes DEF UiClk
<1>2. ~done'[0] /\ rdata' = rdata /\ cmd_done' = FALSE /\ dat_done' = FALSE
  BY DEF S_IDLE, NoDone, Clients
<1>3. PairedOff /\ \A k \in 1 .. Len(cmds) : cmds[k].we
  BY <1>0 DEF PairedOff
<1>4. CASE any_req /\ calib
  <2>1. /\ app' = pick_request /\ owner' = pick /\ app_en' = TRUE
        /\ app_wdf_wren' = pick_request.we
        /\ state' = IF pick_request.we THEN "write" ELSE "read"
    BY <1>4 DEF S_IDLE
  <2>2. /\ pick \in {0, 1}
        /\ pick = 0 => bus # NoPhase /\ ~done[0]
        /\ pick = 1 => scan # Off
    BY <1>0, <1>4 DEF pick, any_req, ask, req, IInv, TurnsTypeOK, Clients
  <2>3. /\ bus # NoPhase => bus.a \in Lines
        /\ scan # Off => scan \in Lines
    BY <1>0, PhaseType DEF TypeOK
  <2>4. pick = 0 => bus' = bus
    BY <2>2 DEF UiClk, Client0
  <2>5. CASE pick = 0 /\ ~bus.rd
    <3>1. pick_request = [we |-> TRUE, a |-> bus.a, d |-> bus.d]
      BY <2>5 DEF pick_request
    <3>2. state' = "write" /\ app_wdf_wren' = TRUE
      BY <2>1, <3>1
    <3>3. Ports' /\ Presented'
      BY <1>2, <2>1, <2>2, <2>4, <2>5, <3>1, <3>2 DEF Ports, Presented
    <3>4. PairedOff'
      BY <1>0, <1>1, <1>2, <1>3, <3>2 DEF PairedOff
    <3>5. QED
      BY <1>1, <1>2, <2>2, <2>5, <3>3, <3>4
  <2>6. CASE ~(pick = 0 /\ ~bus.rd)
    <3>1. ~pick_request.we /\ pick_request.a = (IF pick = 0 THEN bus.a ELSE scan)
      BY <2>6 DEF pick_request
    <3>2. state' = "read" /\ app_wdf_wren' = FALSE /\ ~app'.we /\ app'.a \in Lines
      <4>1. pick_request.we = FALSE
        BY <2>6 DEF pick_request
      <4>2. QED
        BY <2>1, <2>2, <2>3, <3>1, <4>1
    <3>3. Ports' /\ Presented'
      BY <1>2, <2>1, <2>2, <2>4, <2>6, <3>1, <3>2 DEF Ports, Presented
    <3>4. PairedOff'
      BY <1>0, <1>1, <1>2, <1>3, <3>2 DEF PairedOff
    <3>5. QED
      BY <1>1, <1>2, <3>2, <3>3, <3>4
  <2>7. QED
    BY <2>5, <2>6
<1>5. CASE ~(any_req /\ calib)
  <2>1. app_en' = FALSE /\ app_wdf_wren' = FALSE /\ state' = "idle"
    BY <1>0, <1>5 DEF S_IDLE
  <2>2. Ports' /\ Presented'
    BY <1>2, <2>1 DEF Ports, Presented
  <2>3. PairedOff'
    BY <1>0, <1>1, <1>2, <1>3, <2>1 DEF PairedOff
  <2>4. QED
    BY <1>1, <1>2, <2>1, <2>2, <2>3
<1>6. QED
  BY <1>4, <1>5

\* A write is handed over in two halves, in either order or together.
LEMMA HInvOnWrite ==
  ASSUME HInv, NEW rdy \in BOOLEAN, NEW wdf_rdy \in BOOLEAN, NEW valid \in BOOLEAN,
         UiClk(rdy, wdf_rdy, valid), S_WRITE(rdy, wdf_rdy)
  PROVE  /\ Ports' /\ Presented' /\ PairedOff'
         /\ app' = app /\ bus' = bus /\ rdata' = rdata
         /\ cmds' = cmds \/ cmds' = Append(cmds, [we |-> TRUE, a |-> app.a])
         /\ wdata' = wdata \/ wdata' = Append(wdata, app.d)
         /\ state' = "idle" =>
              /\ done'[0] /\ Len(cmds') = Len(wdata') /\ Len(cmds') > 0
              /\ cmds'[Len(cmds')] = [we |-> TRUE, a |-> app.a]
              /\ wdata'[Len(cmds')] = app.d
<1>0. IInv /\ TypeOK /\ Ports /\ Presented /\ PairedOff /\ state = "write"
  BY DEF HInv, S_WRITE
<1>1. /\ app.we = TRUE /\ app.a \in Lines /\ app.d \in Byte /\ bus # NoPhase /\ ~done[0]
  BY <1>0, PhaseType DEF Presented, TypeOK
<1>2. /\ ~valid
      /\ cmds' = (IF app_en /\ rdy THEN Append(cmds, [we |-> TRUE, a |-> app.a]) ELSE cmds)
      /\ wdata' = (IF app_wdf_wren /\ wdf_rdy THEN Append(wdata, app.d) ELSE wdata)
  BY <1>0, <1>1, Takes DEF UiClk
<1>3. app' = app /\ bus' = bus /\ rdata' = rdata /\ owner' = owner
  BY <1>1 DEF S_WRITE, UiClk, Client0
<1>4. /\ cmds \in Seq(Commands) /\ wdata \in Seq(Byte)
      /\ Len(cmds) \in Nat /\ Len(wdata) \in Nat
      /\ \A k \in 1 .. Len(cmds) : cmds[k].we
      /\ [we |-> TRUE, a |-> app.a] \in Commands
  BY <1>0, <1>1 DEF PairedOff, Commands
<1>5. /\ cmds' \in Seq(Commands) /\ wdata' \in Seq(Byte)
      /\ \A k \in 1 .. Len(cmds') : cmds'[k].we
      /\ app_en /\ rdy => /\ Len(cmds') = Len(cmds) + 1
                          /\ cmds'[Len(cmds')] = [we |-> TRUE, a |-> app.a]
      /\ app_wdf_wren /\ wdf_rdy => /\ Len(wdata') = Len(wdata) + 1
                                    /\ wdata'[Len(wdata')] = app.d
      /\ ~(app_en /\ rdy) => cmds' = cmds
      /\ ~(app_wdf_wren /\ wdf_rdy) => wdata' = wdata
  BY <1>1, <1>2, <1>4
<1>6. /\ app_en' = (app_en /\ ~rdy) /\ cmd_done' = cmd_ok(rdy)
      /\ app_wdf_wren' = (app_wdf_wren /\ ~wdf_rdy) /\ dat_done' = dat_ok(wdf_rdy)
      /\ state' = (IF cmd_ok(rdy) /\ dat_ok(wdf_rdy) THEN "idle" ELSE "write")
      /\ done'[0] <=> cmd_ok(rdy) /\ dat_ok(wdf_rdy)
  BY DEF S_WRITE, write_ends, Clients
<1>7. /\ app_en <=> ~cmd_done
      /\ app_wdf_wren <=> ~dat_done
      /\ ~(cmd_done /\ dat_done)
  BY <1>0 DEF Ports
<1>8. /\ cmd_ok(rdy) <=> cmd_done \/ (app_en /\ rdy)
      /\ dat_ok(wdf_rdy) <=> dat_done \/ (app_wdf_wren /\ wdf_rdy)
  BY DEF cmd_ok, dat_ok
<1>9. Ports'
  BY <1>6, <1>7, <1>8 DEF Ports
<1>10. Presented'
  BY <1>0, <1>1, <1>3, <1>6 DEF Presented
<1>11. /\ ~cmd_done /\ ~dat_done => Len(cmds) = Len(wdata)
       /\ cmd_done => Len(cmds) = Len(wdata) + 1
                      /\ cmds[Len(cmds)] = [we |-> TRUE, a |-> app.a]
       /\ dat_done => Len(wdata) = Len(cmds) + 1 /\ wdata[Len(wdata)] = app.d
  BY <1>0 DEF PairedOff
<1>12. PairedOff'
  BY <1>3, <1>4, <1>5, <1>6, <1>7, <1>8, <1>11 DEF PairedOff
<1>13. state' = "idle" =>
         /\ done'[0] /\ Len(cmds') = Len(wdata') /\ Len(cmds') > 0
         /\ cmds'[Len(cmds')] = [we |-> TRUE, a |-> app.a]
         /\ wdata'[Len(cmds')] = app.d
  BY <1>4, <1>5, <1>6, <1>7, <1>8, <1>11
<1>14. QED
  BY <1>2, <1>3, <1>9, <1>10, <1>12, <1>13

\* A read is handed over, then waited for.
LEMMA HInvOnRead ==
  ASSUME HInv, NEW rdy \in BOOLEAN, NEW wdf_rdy \in BOOLEAN, NEW valid \in BOOLEAN,
         UiClk(rdy, wdf_rdy, valid), S_READ(rdy)
  PROVE  /\ Ports' /\ Presented' /\ PairedOff'
         /\ wdata' = wdata /\ rdata' = rdata /\ ~done'[0] /\ state' # "write"
         /\ cmds' = cmds \/ cmds' = Append(cmds, [we |-> FALSE, a |-> app.a])
<1>0. IInv /\ TypeOK /\ Ports /\ Presented /\ PairedOff /\ state = "read"
  BY DEF HInv, S_READ
<1>1. /\ app.we = FALSE /\ app.a \in Lines /\ app_en /\ ~app_wdf_wren /\ ~done[0]
      /\ owner = 0 => bus' = bus
  BY <1>0 DEF Presented, Ports, TypeOK, UiClk, Client0
<1>2. /\ ~valid /\ wdata' = wdata
      /\ cmds' = (IF rdy THEN Append(cmds, [we |-> FALSE, a |-> app.a]) ELSE cmds)
  BY <1>0, <1>1, Takes DEF UiClk
<1>3. /\ app' = app /\ rdata' = rdata /\ owner' = owner /\ ~done'[0]
      /\ app_en' = (app_en /\ ~rdy) /\ app_wdf_wren' = app_wdf_wren
      /\ state' = IF rdy THEN "read_wait" ELSE "read"
  BY DEF S_READ, NoDone, Clients
<1>4. Ports' /\ Presented'
  BY <1>0, <1>1, <1>3 DEF Ports, Presented
<1>5. PairedOff'
  <2>1. /\ cmds \in Seq(Commands) /\ wdata \in Seq(Byte) /\ Len(cmds) = Len(wdata)
        /\ \A k \in 1 .. Len(cmds) : cmds[k].we
        /\ [we |-> FALSE, a |-> app.a] \in Commands
    BY <1>0, <1>1 DEF PairedOff, Commands
  <2>2. CASE rdy
    <3>1. cmds' = Append(cmds, [we |-> FALSE, a |-> app.a])
      BY <1>2, <2>2
    <3>2. /\ cmds' \in Seq(Commands) /\ Len(cmds') = Len(wdata) + 1
          /\ cmds'[Len(cmds')] = [we |-> FALSE, a |-> app.a]
          /\ \A k \in 1 .. Len(cmds') : ~cmds'[k].we => k = Len(cmds')
      BY <2>1, <3>1
    <3>3. QED
      BY <1>2, <1>3, <2>1, <2>2, <3>2 DEF PairedOff
  <2>3. CASE ~rdy
    BY <1>2, <1>3, <2>1, <2>3 DEF PairedOff
  <2>4. QED
    BY <2>2, <2>3
<1>6. QED
  BY <1>2, <1>3, <1>4, <1>5

\* The answer comes when the read is all that is left.
LEMMA HInvOnReadWait ==
  ASSUME HInv, NEW rdy \in BOOLEAN, NEW wdf_rdy \in BOOLEAN, NEW valid \in BOOLEAN,
         UiClk(rdy, wdf_rdy, valid), S_READ_WAIT(valid)
  PROVE  /\ Ports' /\ Presented' /\ PairedOff'
         /\ wdata' = wdata /\ state' # "write"
         /\ IF valid THEN /\ Len(cmds) = 1 /\ wdata = <<>> /\ cmds' = <<>>
                          /\ cmds[1] = [we |-> FALSE, a |-> app.a]
                          /\ state' = "idle"
                          /\ rdata' = [rdata EXCEPT ![owner] = mem[app.a]]
                          /\ (done'[0] <=> owner = 0)
                     ELSE cmds' = cmds /\ rdata' = rdata /\ ~done'[0]
<1>0. IInv /\ TypeOK /\ Ports /\ Presented /\ PairedOff /\ state = "read_wait"
  BY DEF HInv, S_READ_WAIT
<1>1. /\ app.a \in Lines /\ ~app_en /\ ~app_wdf_wren /\ ~done[0]
      /\ owner = 0 => bus' = bus
  BY <1>0 DEF Presented, Ports, UiClk, Client0
<1>2. /\ wdata' = wdata
      /\ ~valid => cmds' = cmds
      /\ valid => cmds' = Tail(cmds) /\ Len(cmds) = 1
  BY <1>0, <1>1, Takes DEF UiClk
<1>3. /\ cmds \in Seq(Commands) /\ wdata \in Seq(Byte)
      /\ Len(cmds) = Len(wdata) + 1 /\ cmds[Len(cmds)] = [we |-> FALSE, a |-> app.a]
      /\ \A k \in 1 .. Len(cmds) : ~cmds[k].we => k = Len(cmds)
  BY <1>0 DEF PairedOff
<1>4. app' = app /\ owner' = owner /\ app_en' = app_en /\ app_wdf_wren' = app_wdf_wren
  BY DEF S_READ_WAIT
<1>5. CASE valid
  <2>1. cmds[1] = [we |-> FALSE, a |-> app.a] /\ wdata = <<>> /\ cmds' = <<>>
    BY <1>2, <1>3, <1>5
  <2>2. /\ state' = "idle" /\ (done'[0] <=> owner = 0)
        /\ rdata' = [rdata EXCEPT ![owner] = mem[app.a]]
    <3>1. cmds[1].a = app.a
      BY <2>1
    <3>2. /\ state' = "idle" /\ done' = [c \in Clients |-> c = owner]
          /\ rdata' = [rdata EXCEPT ![owner] = mem[cmds[1].a]]
      BY <1>5 DEF S_READ_WAIT
    <3>3. done'[0] <=> owner = 0
      <4>1. done'[0] = (0 = owner)
        BY <3>2 DEF Clients
      <4>2. QED
        BY <4>1
    <3>4. QED
      BY <3>1, <3>2, <3>3
  <2>3. Ports' /\ Presented'
    BY <1>0, <1>1, <1>4, <2>2 DEF Ports, Presented
  <2>4. PairedOff'
    BY <1>2, <2>1, <2>2 DEF PairedOff
  <2>5. QED
    BY <1>2, <1>5, <2>1, <2>2, <2>3, <2>4
<1>6. CASE ~valid
  <2>1. state' = state /\ rdata' = rdata /\ ~done'[0]
    BY <1>6 DEF S_READ_WAIT, NoDone, Clients
  <2>2. Ports' /\ Presented'
    BY <1>0, <1>1, <1>4, <2>1 DEF Ports, Presented
  <2>3. PairedOff'
    BY <1>0, <1>2, <1>3, <1>4, <1>6, <2>1 DEF PairedOff
  <2>4. QED
    BY <1>0, <1>2, <1>6, <2>1, <2>2, <2>3
<1>7. QED
  BY <1>5, <1>6

\* The controller performs the first write taken: its pair leaves both queues.
LEMMA HInvOnPerform ==
  ASSUME HInv, MigPerform
  PROVE  /\ TypeOK' /\ Ports' /\ Presented' /\ PairedOff'
         /\ Len(cmds) > 0 /\ Len(wdata) > 0 /\ cmds' = Tail(cmds) /\ wdata' = Tail(wdata)
         /\ cmds[1].a \in Lines /\ wdata[1] \in Byte
<1>0. IInv /\ TypeOK /\ Ports /\ Presented /\ PairedOff
  BY DEF HInv
<1>1. /\ cmds # <<>> /\ cmds[1].we /\ wdata # <<>>
      /\ mem' = [mem EXCEPT ![cmds[1].a] = Cell(wdata[1])]
      /\ cmds' = Tail(cmds) /\ wdata' = Tail(wdata)
      /\ UNCHANGED <<arbregs, clients, calib>>
  BY DEF MigPerform
<1>2. cmds \in Seq(Commands) /\ wdata \in Seq(Byte)
  BY <1>0 DEF PairedOff
<1>3. /\ Len(cmds) \in Nat /\ Len(cmds) > 0 /\ Len(wdata) \in Nat /\ Len(wdata) > 0
      /\ cmds[1] \in Commands /\ wdata[1] \in Byte
      /\ cmds' \in Seq(Commands) /\ wdata' \in Seq(Byte)
      /\ Len(cmds') = Len(cmds) - 1 /\ Len(wdata') = Len(wdata) - 1
      /\ \A k \in 1 .. Len(cmds') : cmds'[k] = cmds[k + 1] /\ k + 1 \in 1 .. Len(cmds)
      /\ \A k \in 1 .. Len(wdata') : wdata'[k] = wdata[k + 1]
  BY <1>1, <1>2
<1>4. cmds[1].a \in Lines
  BY <1>3 DEF Commands
<1>5. mem' \in [Lines -> [Bytes -> Byte]]
  BY <1>0, <1>1, <1>3, <1>4 DEF TypeOK, Cell
<1>6. TypeOK' /\ Ports' /\ Presented'
  BY <1>0, <1>1, <1>5 DEF TypeOK, Ports, Presented, arbregs, clients
<1>7. PairedOff'
  <2>1. UNCHANGED <<state, cmd_done, dat_done, app>>
    BY <1>1 DEF arbregs
  <2>2. \A k \in 1 .. Len(cmds') : ~cmds'[k].we => k = Len(cmds') /\ state' = "read_wait"
    <3> TAKE k \in 1 .. Len(cmds')
    <3>1. cmds'[k] = cmds[k + 1] /\ k + 1 \in 1 .. Len(cmds)
      BY <1>3
    <3>2. ~cmds[k + 1].we => k + 1 = Len(cmds) /\ state = "read_wait"
      BY <1>0, <3>1 DEF PairedOff
    <3>3. QED
      BY <1>3, <2>1, <3>1, <3>2
  <2>3. Len(cmds) > 1 => cmds'[Len(cmds')] = cmds[Len(cmds)] /\ Len(cmds') > 0
    BY <1>3
  <2>4. Len(wdata) > 1 => wdata'[Len(wdata')] = wdata[Len(wdata)]
    <3>1. Len(wdata) > 1 => Len(wdata') \in 1 .. Len(wdata') /\ Len(wdata') + 1 = Len(wdata)
      BY <1>3
    <3>2. QED
      BY <1>3, <3>1
  <2>5. state \in {"idle", "read"} => Len(cmds') = Len(wdata')
    BY <1>0, <1>3 DEF PairedOff
  <2>6. state = "read_wait" => Len(cmds') = Len(wdata') + 1
                               /\ cmds'[Len(cmds')] = [we |-> FALSE, a |-> app.a]
    BY <1>0, <1>3, <2>3 DEF PairedOff
  <2>7. state = "write" /\ ~cmd_done /\ ~dat_done => Len(cmds') = Len(wdata')
    BY <1>0, <1>3 DEF PairedOff
  <2>8. state = "write" /\ cmd_done => Len(cmds') = Len(wdata') + 1
                                       /\ cmds'[Len(cmds')] = [we |-> TRUE, a |-> app.a]
    BY <1>0, <1>3, <2>3 DEF PairedOff
  <2>9. state = "write" /\ dat_done => Len(wdata') = Len(cmds') + 1
                                       /\ wdata'[Len(wdata')] = app.d
    BY <1>0, <1>3, <2>4 DEF PairedOff
  <2>10. QED
    BY <1>3, <2>1, <2>2, <2>5, <2>6, <2>7, <2>8, <2>9 DEF PairedOff
<1>8. QED
  BY <1>1, <1>3, <1>4, <1>6, <1>7

\* Every step keeps all of it.
LEMMA StepHInv == HInv /\ [Next]_vars => HInv'
<1> SUFFICES ASSUME HInv, [Next]_vars PROVE HInv'
  OBVIOUS
<1>0. IInv /\ IInv'
  BY StepIInv DEF HInv
<1>1. ASSUME NEW rdy \in BOOLEAN, NEW wdf_rdy \in BOOLEAN, NEW valid \in BOOLEAN,
             UiClk(rdy, wdf_rdy, valid)
      PROVE  HInv'
  <2>1. TypeOK'
    BY <1>0, <1>1, TypeStep
  <2>2. Ports' /\ Presented' /\ PairedOff'
    BY <1>1, HInvOnIdle, HInvOnWrite, HInvOnRead, HInvOnReadWait DEF UiClk, Arbiter
  <2>3. QED
    BY <1>0, <2>1, <2>2 DEF HInv
<1>2. CASE MigPerform
  BY <1>0, <1>2, HInvOnPerform DEF HInv
<1>3. CASE UNCHANGED vars
  <2>1. /\ UNCHANGED <<state, owner, last_owner, cmd_done, dat_done, app_en, app_wdf_wren, app, done>>
        /\ UNCHANGED <<rdata, bus, scan, calib, cmds, wdata, mem>>
    BY <1>3 DEF vars, arbregs, clients, mig
  <2>2. TypeOK'
    BY <2>1 DEF HInv, TypeOK
  <2>3. Ports' /\ Presented'
    BY <2>1 DEF HInv, Ports, Presented
  <2>4. PairedOff'
    BY <2>1 DEF HInv, PairedOff
  <2>5. QED
    BY <1>0, <2>2, <2>3, <2>4 DEF HInv
<1>4. QED
  BY <1>1, <1>2, <1>3 DEF Next

\* The types, for any memory and any depth of the controller's queues.
THEOREM TypeCorrect == Spec => []TypeOK
<1>1. HInv => TypeOK
  BY DEF HInv
<1>2. QED
  BY InitHInv, StepHInv, <1>1, PTL DEF Spec
-----------------------------------------------------------------------------
(* The machine's memory behind the arbiter.                                 *)

\* Nothing written joins or leaves the queues, nothing is being handed over:
\* the machine's memory is what it was.
LEMMA ViewKept ==
  ASSUME HInv, mem' = mem, wdata' = wdata, state # "write", state' # "write",
         \/ cmds' = cmds
         \/ cmds' = Append(cmds, [we |-> FALSE, a |-> app.a])
         \/ /\ Len(cmds) = 1 /\ cmds' = <<>>
            /\ cmds[1] = [we |-> FALSE, a |-> app.a]
  PROVE  View' = View
<1>1. cmds \in Seq(Commands) /\ Len(cmds) \in Nat /\ wdata \in Seq(Byte) /\ Len(wdata) \in Nat
  BY DEF HInv, PairedOff
<1>2. ASSUME NEW l \in Lines PROVE PostedTo(l)' = PostedTo(l)
  <2>1. CASE cmds' = cmds
    BY <2>1 DEF PostedTo
  <2>2. CASE cmds' = Append(cmds, [we |-> FALSE, a |-> app.a])
    <3>1. /\ DOMAIN cmds' = DOMAIN cmds \cup {Len(cmds) + 1}
          /\ \A k \in DOMAIN cmds : cmds'[k] = cmds[k]
          /\ cmds'[Len(cmds) + 1].we = FALSE
      BY <1>1, <2>2
    <3>2. QED
      BY <3>1 DEF PostedTo
  <2>3. CASE Len(cmds) = 1 /\ cmds' = <<>> /\ cmds[1] = [we |-> FALSE, a |-> app.a]
    <3>1. DOMAIN cmds = {1} /\ cmds[1].we = FALSE /\ DOMAIN cmds' = {}
      BY <1>1, <2>3
    <3>2. QED
      BY <3>1 DEF PostedTo
  <2>4. QED
    BY <2>1, <2>2, <2>3
<1>3. QED
  BY <1>2 DEF View

\* The arbiter takes up the machine's write: the machine may count on it.
LEMMA ViewTakesUp ==
  ASSUME HInv, mem' = mem, wdata' = wdata, cmds' = cmds, state # "write", state' = "write",
         bus \in M!Writes, app'.a = bus.a, app'.d = bus.d
  PROVE  View' = [View EXCEPT ![bus.a] = Serial!Merge(View[bus.a], bus.b, bus.d)]
<1>1. bus.a \in Lines /\ bus.b = Bytes
  BY OneByte DEF M!Writes
<1>2. \A l \in Lines : PostedTo(l)' = PostedTo(l)
  BY DEF PostedTo
<1>3. Serial!Merge(View[bus.a], bus.b, bus.d) = Cell(bus.d)
  BY <1>1 DEF Serial!Merge, Cell
<1>4. QED
  BY <1>1, <1>2, <1>3 DEF View

\* While the write is being handed over, half by half, and when it has been,
\* the machine's memory stays as it is.
LEMMA ViewOnWrite ==
  ASSUME HInv, NEW rdy \in BOOLEAN, NEW wdf_rdy \in BOOLEAN, NEW valid \in BOOLEAN,
         UiClk(rdy, wdf_rdy, valid), S_WRITE(rdy, wdf_rdy)
  PROVE  View' = View
<1>1. /\ cmds \in Seq(Commands) /\ Len(cmds) \in Nat /\ wdata \in Seq(Byte) /\ Len(wdata) \in Nat
      /\ state = "write" /\ mem' = mem
      /\ ~cmd_done /\ ~dat_done => Len(cmds) = Len(wdata)
      /\ cmd_done => Len(cmds) = Len(wdata) + 1 /\ cmds[Len(cmds)] = [we |-> TRUE, a |-> app.a]
      /\ dat_done => Len(wdata) = Len(cmds) + 1
  BY DEF HInv, PairedOff, S_WRITE, UiClk
<1>2. /\ app' = app /\ PairedOff'
      /\ cmds' = cmds \/ cmds' = Append(cmds, [we |-> TRUE, a |-> app.a])
      /\ wdata' = wdata \/ wdata' = Append(wdata, app.d)
      /\ state' = "idle" =>
           /\ Len(cmds') = Len(wdata') /\ Len(cmds') > 0
           /\ cmds'[Len(cmds')] = [we |-> TRUE, a |-> app.a]
           /\ wdata'[Len(cmds')] = app.d
  BY HInvOnWrite
<1>3. /\ cmds' \in Seq(Commands) /\ Len(cmds') \in Nat /\ wdata' \in Seq(Byte) /\ Len(wdata') \in Nat
      /\ Len(cmds') >= Len(cmds) /\ Len(wdata') >= Len(wdata)
      /\ \A k \in 1 .. Len(cmds) : cmds'[k] = cmds[k]
      /\ \A k \in 1 .. Len(wdata) : wdata'[k] = wdata[k]
  <2>1. cmds' \in Seq(Commands) /\ Len(cmds') \in Nat /\ wdata' \in Seq(Byte) /\ Len(wdata') \in Nat
    BY <1>2 DEF PairedOff
  <2>2. Len(cmds') >= Len(cmds) /\ \A k \in 1 .. Len(cmds) : cmds'[k] = cmds[k]
    <3>1. CASE cmds' = cmds
      BY <1>1, <3>1
    <3>2. CASE cmds' = Append(cmds, [we |-> TRUE, a |-> app.a])
      <4> DEFINE c == [we |-> TRUE, a |-> app.a]
      <4>1. cmds \in Seq(Commands) /\ Len(cmds) \in Nat /\ cmds' = Append(cmds, c)
        BY <1>1, <3>2
      <4> HIDE DEF c
      <4> QED BY <4>1
    <3>3. QED
      BY <1>2, <3>1, <3>2
  <2>3. Len(wdata') >= Len(wdata) /\ \A k \in 1 .. Len(wdata) : wdata'[k] = wdata[k]
    <3>1. CASE wdata' = wdata
      BY <1>1, <3>1
    <3>2. CASE wdata' = Append(wdata, app.d)
      <4> DEFINE d == app.d
      <4>1. wdata \in Seq(Byte) /\ Len(wdata) \in Nat /\ wdata' = Append(wdata, d)
        BY <1>1, <3>2
      <4> HIDE DEF d
      <4> QED BY <4>1
    <3>3. QED
      BY <1>2, <3>1, <3>2
  <2>4. QED
    BY <2>1, <2>2, <2>3
\* The only pair the edge completes is that of the write itself.
<1>4. ASSUME NEW k \in 1 .. Len(cmds'), k \in 1 .. Len(wdata'),
             k \notin 1 .. Len(cmds) \/ k \notin 1 .. Len(wdata)
      PROVE  cmds'[k].a = app.a
  <2>1. CASE k > Len(cmds)
    <3>1. cmds' = Append(cmds, [we |-> TRUE, a |-> app.a])
      BY <1>2, <2>1
    <3>2. k = Len(cmds) + 1
      BY <1>1, <2>1, <3>1
    <3>3. cmds'[k] = [we |-> TRUE, a |-> app.a]
      BY <1>1, <3>1, <3>2
    <3>4. QED
      BY <3>3
  <2>2. CASE k <= Len(cmds)
    <3>1. k > Len(wdata) /\ Len(cmds) > Len(wdata)
      BY <1>1, <1>4, <2>2
    <3>2. cmd_done
      <4>1. ~cmd_done /\ ~dat_done => FALSE
        BY <1>1, <3>1
      <4>2. dat_done => FALSE
        BY <1>1, <3>1
      <4>3. cmd_done \/ dat_done
        BY <4>1
      <4>4. QED
        BY <4>2, <4>3
    <3>3. k = Len(cmds) /\ cmds[k] = [we |-> TRUE, a |-> app.a]
      BY <1>1, <2>2, <3>1, <3>2
    <3>4. cmds'[k] = cmds[k]
      BY <1>3, <2>2
    <3>5. QED
      BY <3>3, <3>4
  <2>3. QED
    BY <1>1, <2>1, <2>2
<1>5. ASSUME NEW l \in Lines PROVE View'[l] = View[l]
  <2>1. CASE l # app.a
    <3>1. PostedTo(l)' = PostedTo(l)
      <4>1. /\ DOMAIN cmds = 1 .. Len(cmds) /\ DOMAIN wdata = 1 .. Len(wdata)
            /\ DOMAIN cmds' = 1 .. Len(cmds') /\ DOMAIN wdata' = 1 .. Len(wdata')
        BY <1>1, <1>3
      <4>2. PostedTo(l) \subseteq PostedTo(l)'
        <5>1. \A k \in 1 .. Len(cmds) :
                k \in 1 .. Len(wdata) =>
                  k \in 1 .. Len(cmds') /\ k \in 1 .. Len(wdata') /\ cmds'[k] = cmds[k]
          BY <1>1, <1>3
        <5>2. QED
          BY <4>1, <5>1 DEF PostedTo
      <4>3. PostedTo(l)' \subseteq PostedTo(l)
        BY <1>3, <1>4, <2>1, <4>1 DEF PostedTo
      <4>4. QED
        BY <4>2, <4>3
    <3>2. PostedTo(l) # {} => wdata'[Max(PostedTo(l))] = wdata[Max(PostedTo(l))]
      <4>1. PostedTo(l) \in SUBSET (1 .. Len(wdata))
        BY <1>1 DEF PostedTo
      <4>2. PostedTo(l) # {} => Max(PostedTo(l)) \in 1 .. Len(wdata)
        BY <1>1, <4>1, MaxOf
      <4>3. QED
        BY <1>3, <4>2
    <3>3. QED
      BY <1>1, <1>2, <2>1, <3>1, <3>2 DEF View
  <2>2. CASE l = app.a
    <3>1. View[l] = Cell(app.d)
      BY <1>1, <2>2 DEF View
    <3>2. CASE state' = "write"
      BY <1>2, <2>2, <3>1, <3>2 DEF View, Cell
    <3>3. CASE state' # "write"
      <4>1. state' = "idle"
        BY <3>3 DEF S_WRITE
      <4>2. PostedTo(l)' \in SUBSET Int /\ Len(cmds') \in PostedTo(l)'
        BY <1>2, <1>3, <2>2, <4>1 DEF PostedTo
      <4>3. \A k \in PostedTo(l)' : k <= Len(cmds')
        BY <1>3 DEF PostedTo
      <4>4. Max(PostedTo(l)') = Len(cmds')
        BY <4>2, <4>3, MaxIs
      <4>5. QED
        BY <1>2, <3>1, <3>3, <4>1, <4>2, <4>4 DEF View, Cell
    <3>4. QED
      BY <3>2, <3>3
  <2>3. QED
    BY <2>1, <2>2
<1>6. QED
  BY <1>5 DEF View

\* What the controller performs the machine counted on already.
LEMMA ViewOnPerform ==
  ASSUME HInv, MigPerform
  PROVE  View' = View
<1>1. /\ cmds \in Seq(Commands) /\ Len(cmds) \in Nat /\ wdata \in Seq(Byte) /\ Len(wdata) \in Nat
      /\ Len(cmds) > 0 /\ Len(wdata) > 0 /\ cmds' = Tail(cmds) /\ wdata' = Tail(wdata)
      /\ cmds[1].we /\ cmds[1].a \in Lines
      /\ mem \in [Lines -> [Bytes -> Byte]]
      /\ mem' = [mem EXCEPT ![cmds[1].a] = Cell(wdata[1])]
      /\ state' = state /\ app' = app
  <2>1. cmds \in Seq(Commands) /\ wdata \in Seq(Byte) /\ mem \in [Lines -> [Bytes -> Byte]]
    BY DEF HInv, PairedOff, TypeOK
  <2>2. /\ Len(cmds) > 0 /\ Len(wdata) > 0 /\ cmds' = Tail(cmds) /\ wdata' = Tail(wdata)
        /\ cmds[1].a \in Lines
    BY HInvOnPerform
  <2>3. /\ cmds[1].we /\ mem' = [mem EXCEPT ![cmds[1].a] = Cell(wdata[1])]
        /\ state' = state /\ app' = app
    BY DEF MigPerform, arbregs
  <2>4. QED
    BY <2>1, <2>2, <2>3
<1>2. /\ DOMAIN cmds = 1 .. Len(cmds) /\ DOMAIN wdata = 1 .. Len(wdata)
      /\ DOMAIN cmds' = 1 .. Len(cmds) - 1 /\ DOMAIN wdata' = 1 .. Len(wdata) - 1
      /\ \A k \in 1 .. Len(cmds) - 1 : cmds'[k] = cmds[k + 1]
      /\ \A k \in 1 .. Len(wdata) - 1 : wdata'[k] = wdata[k + 1]
  BY <1>1
<1>3. ASSUME NEW l \in Lines PROVE View'[l] = View[l]
  <2> DEFINE W == PostedTo(l)
             V == PostedTo(l)'
  <2>1. W \in SUBSET (1 .. Len(cmds)) /\ V \in SUBSET (1 .. Len(cmds) - 1)
    BY <1>2 DEF PostedTo
  <2>2. ASSUME NEW k \in 1 .. Len(cmds) - 1 PROVE k \in V <=> k + 1 \in W
    <3>1. /\ k \in 1 .. Len(wdata) - 1 <=> k + 1 \in 1 .. Len(wdata)
          /\ k + 1 \in 1 .. Len(cmds) /\ cmds'[k] = cmds[k + 1]
      BY <1>1, <1>2
    <3>2. QED
      BY <1>2, <3>1 DEF PostedTo
  <2>3. 1 \in W <=> cmds[1].a = l
    BY <1>1, <1>2 DEF PostedTo
  <2>4. /\ V # {} => W # {} /\ Max(V) \in V /\ Max(W) = Max(V) + 1
        /\ V = {} => W = (IF 1 \in W THEN {1} ELSE {})
        /\ V = {} /\ 1 \in W => Max(W) = 1
    <3> HIDE DEF W, V
    <3>1. QED
      BY <1>1, <2>1, <2>2, LastMovesUp
  <2>5. V # {} => wdata'[Max(V)] = wdata[Max(W)]
    <3>1. V # {} => Max(V) \in 1 .. Len(wdata) - 1
      BY <1>2, <2>4 DEF PostedTo
    <3>2. QED
      BY <1>2, <2>4, <3>1
  <2>6. mem'[l] = IF 1 \in W THEN Cell(wdata[1]) ELSE mem[l]
    BY <1>1, <2>3
  <2>7. V = {} => IF 1 \in W THEN W # {} /\ Max(W) = 1 ELSE W = {}
    BY <2>4
  <2>8. /\ View[l] = IF state = "write" /\ app.a = l THEN Cell(app.d)
                     ELSE IF W = {} THEN mem[l] ELSE Cell(wdata[Max(W)])
        /\ View'[l] = IF state' = "write" /\ app'.a = l THEN Cell(app'.d)
                      ELSE IF V = {} THEN mem'[l] ELSE Cell(wdata'[Max(V)])
    BY DEF View, Cell
  <2>9. QED
    <3> HIDE DEF W, V
    <3>1. QED
      BY <1>1, <2>4, <2>5, <2>6, <2>7, <2>8
<1>4. QED
  BY <1>3 DEF View

\* Nothing taken, nothing asked: the memory is any the serial one may start as.
LEMMA InitSerial == Init => Serial!Init
<1> SUFFICES ASSUME Init PROVE Serial!Init
  OBVIOUS
<1>1. /\ state = "idle" /\ cmds = <<>> /\ bus = NoPhase /\ mem \in [Lines -> [Bytes -> Byte]]
      /\ rdata = [c \in Clients |-> <<>>]
  BY DEF Init
<1>2. \A l \in Lines : PostedTo(l) = {}
  BY <1>1 DEF PostedTo
<1>3. View = mem
  BY <1>1, <1>2 DEF View
<1>4. rdata[0] = <<>>
  BY <1>1 DEF Clients
<1>5. QED
  BY <1>1, <1>3, <1>4 DEF Serial!Init, Serial!Line, Serial!NoPhase, M!NoPhase, NoPhase

\* The machine's phase has had its effect.
Effected == bus # NoPhase /\ (done[0] \/ (~bus.rd /\ state = "write"))

\* An edge on which the machine may raise a strobe.
LEMMA SerialBegins ==
  ASSUME HInv, HInv', NEW rdy \in BOOLEAN, NEW wdf_rdy \in BOOLEAN, NEW valid \in BOOLEAN,
         UiClk(rdy, wdf_rdy, valid), bus = NoPhase
  PROVE  [Serial!Next]_(Serial!mvars)
<1>0. Presented /\ PairedOff /\ state \in {"idle", "read", "read_wait"} /\ Arbiter(rdy, wdf_rdy, valid)
      /\ mem' = mem /\ Client0 /\ owner \in Clients /\ (state = "read_wait" => owner = 1)
  BY DEF HInv, TypeOK, Presented, UiClk, Clients
<1>1. state' # "write" /\ ~done'[0] /\ wdata' = wdata /\ rdata'[0] = rdata[0]
      /\ \/ cmds' = cmds
         \/ cmds' = Append(cmds, [we |-> FALSE, a |-> app.a])
         \/ /\ Len(cmds) = 1 /\ cmds' = <<>>
            /\ cmds[1] = [we |-> FALSE, a |-> app.a]
  <2>1. CASE S_IDLE
    <3>1. state' # "write"
      BY <2>1 DEF S_IDLE, pick_request, pick, ask, req, any_req
    <3>2. QED
      BY <2>1, <3>1, HInvOnIdle
  <2>2. CASE S_READ(rdy)
    BY <2>2, HInvOnRead
  <2>3. CASE S_READ_WAIT(valid)
    <3>1. owner = 1
      BY <1>0, <2>3 DEF S_READ_WAIT
    <3>2. rdata' = rdata \/ rdata' = [rdata EXCEPT ![owner] = mem[app.a]]
      BY <2>3, HInvOnReadWait
    <3>3. rdata'[0] = rdata[0]
      BY <3>1, <3>2 DEF HInv, TypeOK, Clients
    <3>4. ~done'[0]
      BY <2>3, <3>1, HInvOnReadWait
    <3>5. \/ cmds' = cmds
          \/ Len(cmds) = 1 /\ cmds' = <<>> /\ cmds[1] = [we |-> FALSE, a |-> app.a]
      BY <2>3, HInvOnReadWait
    <3>6. QED
      BY <2>3, <3>3, <3>4, <3>5, HInvOnReadWait
  <2>4. QED
    BY <1>0, <2>1, <2>2, <2>3 DEF Arbiter, S_WRITE
<1>2. View' = View
  BY <1>0, <1>1, ViewKept
<1>3. Effected = FALSE /\ Effected' = FALSE
  BY <1>1 DEF Effected
<1>4. CASE bus' = NoPhase
  BY <1>1, <1>2, <1>3, <1>4 DEF Effected, Serial!mvars
<1>5. CASE bus' # NoPhase
  <2>1. bus' \in Serial!Phases
    BY <1>0, <1>5 DEF Client0, M!Phases, M!Reads, M!Writes, Serial!Phases, Serial!Reads, Serial!Writes
  <2>2. Serial!Begin(bus')
    BY <1>1, <1>2, <1>3 DEF Effected, Serial!Begin, Serial!NoPhase, M!NoPhase, NoPhase
  <2>3. QED
    BY <2>1, <2>2 DEF Serial!Next
<1>6. QED
  BY <1>4, <1>5

\* An edge on which the machine sees its done, and drops its strobe.
LEMMA SerialReleases ==
  ASSUME HInv, HInv', NEW rdy \in BOOLEAN, NEW wdf_rdy \in BOOLEAN, NEW valid \in BOOLEAN,
         UiClk(rdy, wdf_rdy, valid), done[0]
  PROVE  [Serial!Next]_(Serial!mvars)
<1>1. S_IDLE /\ bus # NoPhase /\ bus' = NoPhase /\ mem' = mem
  BY DEF HInv, Presented, UiClk, Arbiter, S_WRITE, S_READ, S_READ_WAIT, Client0
<1>2. state' # "write" /\ cmds' = cmds /\ wdata' = wdata /\ rdata' = rdata
  BY <1>1, HInvOnIdle
<1>3. View' = View
  BY <1>1, <1>2, ViewKept DEF S_IDLE
<1>4. Effected' = FALSE
  BY <1>1 DEF Effected
<1>5. Serial!Release
  BY <1>1, <1>2, <1>3, <1>4 DEF Effected, Serial!Release, Serial!NoPhase, M!NoPhase, NoPhase
<1>6. QED
  BY <1>5 DEF Serial!Next

\* An edge in the midst of a phase.
LEMMA SerialServes ==
  ASSUME HInv, HInv', NEW rdy \in BOOLEAN, NEW wdf_rdy \in BOOLEAN, NEW valid \in BOOLEAN,
         UiClk(rdy, wdf_rdy, valid), bus # NoPhase, ~done[0]
  PROVE  [Serial!Next]_(Serial!mvars)
<1>0. /\ Presented /\ Presented' /\ bus' = bus /\ mem' = mem
      /\ bus \in M!Phases /\ bus.rd \in BOOLEAN /\ bus.b = Bytes /\ bus.a \in Lines
      /\ done[0] = FALSE
  <2>1. bus \in M!Phases
    BY DEF HInv, TypeOK
  <2>2. done[0] = FALSE
    BY DEF HInv, TypeOK, Clients
  <2>3. QED
    BY <2>1, <2>2, PhaseType DEF HInv, UiClk, Client0
<1>1. CASE S_IDLE
  <2>1. cmds' = cmds /\ wdata' = wdata /\ rdata' = rdata /\ done'[0] = FALSE
    BY <1>1, HInvOnIdle
  <2>2. Effected = FALSE
    BY <1>0, <1>1 DEF Effected, S_IDLE
  <2>3. CASE state' = "write"
    <3>1. /\ bus.rd = FALSE /\ app' = [we |-> TRUE, a |-> bus.a, d |-> bus.d]
      BY <1>0, <2>3 DEF Presented
    <3>2. bus \in M!Writes
      BY <1>0, <3>1 DEF M!Phases, M!Reads
    <3>3. app'.a = bus.a /\ app'.d = bus.d
      BY <3>1
    <3>4. View' = [View EXCEPT ![bus.a] = Serial!Merge(View[bus.a], bus.b, bus.d)]
      BY <1>0, <1>1, <2>1, <2>3, <3>2, <3>3, ViewTakesUp DEF S_IDLE
    <3>5. Effected' = TRUE
      BY <1>0, <2>3, <3>1 DEF Effected
    <3>6. Serial!TakeWrite
      BY <1>0, <2>1, <2>2, <3>1, <3>4, <3>5
         DEF Effected, Serial!TakeWrite, Serial!NoPhase, M!NoPhase, NoPhase
    <3>7. QED
      BY <3>6 DEF Serial!Next
  <2>4. CASE state' # "write"
    <3>1. View' = View
      BY <1>0, <1>1, <2>1, <2>4, ViewKept DEF S_IDLE
    <3>2. Effected' = FALSE
      BY <2>1, <2>4 DEF Effected
    <3>3. QED
      BY <1>0, <2>1, <2>2, <3>1, <3>2 DEF Effected, Serial!mvars
  <2>5. QED
    BY <2>3, <2>4
<1>2. CASE S_WRITE(rdy, wdf_rdy)
  <2>1. View' = View /\ rdata' = rdata
    BY <1>2, ViewOnWrite, HInvOnWrite
  <2>2. bus.rd = FALSE /\ state = "write"
    BY <1>0, <1>2 DEF S_WRITE, Presented
  <2>3. state' = "write" \/ done'[0]
    BY <1>2, HInvOnWrite DEF S_WRITE
  <2>4. Effected = TRUE /\ Effected' = TRUE
    BY <1>0, <2>2, <2>3 DEF Effected
  <2>5. QED
    BY <1>0, <2>1, <2>4 DEF Effected, Serial!mvars
<1>3. CASE S_READ(rdy) \/ (S_READ_WAIT(valid) /\ ~(valid /\ owner = 0))
  <2>1. /\ state # "write" /\ state' # "write" /\ ~done'[0] /\ wdata' = wdata
        /\ rdata'[0] = rdata[0]
        /\ \/ cmds' = cmds
           \/ cmds' = Append(cmds, [we |-> FALSE, a |-> app.a])
           \/ /\ Len(cmds) = 1 /\ cmds' = <<>>
              /\ cmds[1] = [we |-> FALSE, a |-> app.a]
    <3>1. CASE S_READ(rdy)
      BY <3>1, HInvOnRead DEF S_READ
    <3>2. CASE S_READ_WAIT(valid) /\ ~(valid /\ owner = 0)
      <4>1. rdata' = rdata \/ (owner # 0 /\ rdata' = [rdata EXCEPT ![owner] = mem[app.a]])
        BY <3>2, HInvOnReadWait
      <4>2. rdata'[0] = rdata[0]
        BY <4>1 DEF HInv, TypeOK, Clients
      <4>3. QED
        BY <3>2, <4>2, HInvOnReadWait DEF S_READ_WAIT
    <3>3. QED
      BY <1>3, <3>1, <3>2
  <2>2. View' = View
    BY <1>0, <2>1, ViewKept
  <2>3. Effected = FALSE /\ Effected' = FALSE
    BY <1>0, <2>1 DEF Effected
  <2>4. QED
    BY <1>0, <2>1, <2>2, <2>3 DEF Effected, Serial!mvars
<1>4. CASE S_READ_WAIT(valid) /\ valid /\ owner = 0
  <2>1. /\ Len(cmds) = 1 /\ wdata = <<>> /\ cmds' = <<>> /\ wdata' = wdata
        /\ cmds[1] = [we |-> FALSE, a |-> app.a]
        /\ state' = "idle" /\ state = "read_wait" /\ done'[0]
        /\ rdata' = [rdata EXCEPT ![0] = mem[app.a]]
    BY <1>4, HInvOnReadWait DEF S_READ_WAIT
  <2>2. bus.rd = TRUE /\ app.a = bus.a
    BY <1>0, <1>4, <2>1 DEF Presented
  <2>3. View' = View
    BY <1>0, <2>1, ViewKept
  <2>4. View[bus.a] = mem[bus.a]
    <3>1. DOMAIN wdata = {}
      BY <2>1
    <3>2. PostedTo(bus.a) = {}
      BY <3>1 DEF PostedTo
    <3>3. QED
      BY <1>0, <2>1, <3>2 DEF View
  <2>5. rdata'[0] = [i \in bus.b |-> View[bus.a][i]]
    <3>1. mem[bus.a] \in [Bytes -> Byte] /\ rdata'[0] = mem[bus.a]
      BY <1>0, <2>1, <2>2 DEF HInv, TypeOK, Clients
    <3>2. QED
      BY <1>0, <2>4, <3>1
  <2>6. Effected = FALSE /\ Effected' = TRUE
    BY <1>0, <2>1 DEF Effected
  <2>7. Serial!TakeRead
    BY <1>0, <2>2, <2>3, <2>5, <2>6
       DEF Effected, Serial!TakeRead, Serial!NoPhase, M!NoPhase, NoPhase
  <2>8. QED
    BY <2>7 DEF Serial!Next
<1>5. QED
  BY <1>1, <1>2, <1>3, <1>4 DEF UiClk, Arbiter

\* Every step is one of the serial memory's, or one the machine cannot see.
LEMMA StepSerial == HInv /\ HInv' /\ [Next]_vars => [Serial!Next]_(Serial!mvars)
<1> SUFFICES ASSUME HInv, HInv', [Next]_vars PROVE [Serial!Next]_(Serial!mvars)
  OBVIOUS
<1>1. ASSUME NEW rdy \in BOOLEAN, NEW wdf_rdy \in BOOLEAN, NEW valid \in BOOLEAN,
             UiClk(rdy, wdf_rdy, valid)
      PROVE  [Serial!Next]_(Serial!mvars)
  BY <1>1, SerialBegins, SerialReleases, SerialServes
<1>2. CASE MigPerform
  <2>1. View' = View /\ UNCHANGED <<bus, done, state, rdata>>
    BY <1>2, ViewOnPerform DEF MigPerform, arbregs, clients
  <2>2. QED
    BY <2>1 DEF Serial!mvars
<1>3. CASE UNCHANGED vars
  <2>1. View' = View
    BY <1>3 DEF View, PostedTo, Cell, vars, arbregs, mig
  <2>2. QED
    BY <1>3, <2>1 DEF Serial!mvars, vars, arbregs, clients
<1>4. QED
  BY <1>1, <1>2, <1>3 DEF Next

\* Behind the arbiter the machine has a serial memory, whatever the scan-out
\* asks in between, in whatever order the controller takes the two halves of a
\* write, and however late it performs what it has taken (mig_arb.sv 145-250).
THEOREM OneMemory == Spec => SerialMemorySpec
<1>1. HInv /\ HInv' /\ [Next]_vars => [Serial!Next]_(Serial!mvars)
  BY StepSerial
<1>2. QED
  BY InitHInv, StepHInv, InitSerial, <1>1, PTL DEF Spec, SerialMemorySpec, Serial!Spec

-----------------------------------------------------------------------------
(* The scan-out (rtl/sun2-common/fb_scanout.sv). *)

\* How many of the frame's lines have begun: as many as have been asked for,
\* after the frame's own first.  The last edge of a frame belongs to it.
LinesBegun ==
  IF cy = 0 /\ cx = 0 THEN FB_H
  ELSE IF cy < Y0 THEN 0
  ELSE IF cy >= Y0 + FB_H THEN FB_H
  ELSE IF cx = 0 THEN cy - Y0 ELSE cy - Y0 + 1

\* A toggle has flipped, and its edge has not been acted on yet.
FrameAsked == vs_s[3] # vs_tgl
LineAsked  == ls_s[3] # ls_tgl

RegistersOK ==
  /\ cx \in 0 .. TotalW - 1 /\ cy \in 0 .. TotalH - 1
  /\ vs_tgl \in BOOLEAN /\ ls_tgl \in BOOLEAN /\ late \in BOOLEAN
  /\ vs_s \in BOOLEAN \X BOOLEAN \X BOOLEAN /\ ls_s \in BOOLEAN \X BOOLEAN \X BOOLEAN
  /\ fetch_row \in Nat /\ fetch_beat \in Beats
  /\ fetching \in BOOLEAN /\ c_done \in BOOLEAN
  /\ DOMAIN linebuf = {0, 1} \X Beats

\* A toggle passes through the flops in order, one flip at a time.
Passing(s, tgl) == (s[3] = tgl => s[2] = tgl) /\ (s[2] = tgl => s[1] = tgl)
CrossingOK == Passing(vs_s, vs_tgl) /\ Passing(ls_s, ls_tgl)

\* The fetcher is where the screen says it should be.
FetcherOK ==
  /\ FrameAsked => ~LineAsked /\ LinesBegun = 0
  /\ LineAsked => fetch_row + 1 = LinesBegun
  /\ ~FrameAsked /\ ~LineAsked => fetch_row = LinesBegun
  /\ FrameAsked \/ LineAsked => ~fetching /\ flight = None /\ ~c_done
  /\ fetching => fetch_row < FB_H

\* What is on its way from memory is the beat that is waited for.
PortOK ==
  /\ flight # None => fetching /\ ~c_done /\ flight = <<fetch_row, fetch_beat>>
  /\ c_done => fetching /\ c_rdata = <<fetch_row, fetch_beat>>

\* The row being fetched is in its half of the buffer as far as it has come, and
\* the row being shown is in the other, complete.
Holds(row, b) == linebuf[<<row % 2, b>>] = <<row, b>>
BufferOK ==
  /\ ~FrameAsked /\ fetch_row < FB_H =>
       \A b \in Beats : ~fetching \/ b < fetch_beat => Holds(fetch_row, b)
  /\ ~FrameAsked /\ LinesBegun >= 1 => \A b \in Beats : Holds(LinesBegun - 1, b)

\* The pixel side's registers, from the clock that aims the read port on.
PixelsOK ==
  in_y =>
    /\ cx = X0 - 2 => bidx = 0
    /\ cx = X0 - 1 => bidx = 0 /\ nextbuf = <<fb_row, 0>>
    /\ in_x => /\ p \in 0 .. BEAT - 1 /\ bidx \in 1 .. BEATS_PER_LINE
               /\ cx = X0 + (bidx - 1) * BEAT + p
               /\ pixbuf = <<fb_row, bidx - 1>>
               /\ p >= 1 /\ bidx < BEATS_PER_LINE => nextbuf = <<fb_row, bidx>>

ScanInv == RegistersOK /\ CrossingOK /\ (~late => FetcherOK /\ PortOK /\ BufferOK /\ PixelsOK)
-----------------------------------------------------------------------------
(* The screen's geometry. *)

\* Counting around a circle.
LEMMA ModNext ==
  ASSUME NEW m \in Nat \ {0}, NEW x \in 0 .. m - 1
  PROVE  /\ (x + 1) % m = IF x = m - 1 THEN 0 ELSE x + 1
         /\ (x + 1) % m \in 0 .. m - 1
         /\ x % m = x
OBVIOUS

\* The two halves of the line buffer take turns.
LEMMA Halves == ASSUME NEW x \in Nat PROVE x % 2 # (x + 1) % 2 /\ x % 2 \in {0, 1}
OBVIOUS

\* Where in the picture a pixel is.
LEMMA BeatAndPixel ==
  ASSUME NEW m \in Nat \ {0}, NEW q \in Nat, NEW r \in 0 .. m - 1
  PROVE  (q * m + r) \div m = q /\ (q * m + r) % m = r
OBVIOUS

\* The constants, as the proofs use them.
LEMMA Geometry ==
  /\ BEATS_PER_LINE \in Nat \ {0} /\ BEAT \in Nat \ {0, 1} /\ FB_H \in Nat \ {0}
  /\ X0 \in Nat /\ X0 >= 3 /\ Y0 \in Nat \ {0}
  /\ FB_W \in Nat \ {0} /\ TotalW \in Nat \ {0} /\ TotalW >= X0 + FB_W
  /\ TotalH \in Nat \ {0} /\ TotalH >= Y0 + FB_H
  /\ 0 \in Beats /\ FetchRows \in Nat /\ FetchRows > FB_H
<1>1. BEATS_PER_LINE * BEAT \in Nat \ {0}
  BY ScanAssumption
<1>2. QED
  BY <1>1, ScanAssumption DEF FB_W, Beats

\* The lines begun are no more than the picture has.
LEMMA BegunType == ASSUME RegistersOK PROVE LinesBegun \in 0 .. FB_H
BY Geometry DEF RegistersOK, LinesBegun

\* Where the screen counters go.
LEMMA CountersNext ==
  ASSUME RegistersOK, PixClk
  PROVE  /\ cx' \in 0 .. TotalW - 1 /\ cy' \in 0 .. TotalH - 1
         /\ cx' = IF cx = TotalW - 1 THEN 0 ELSE cx + 1
         /\ cx' # 0 => cy' = cy
         /\ cx' = 0 => cy' = IF cy = TotalH - 1 THEN 0 ELSE cy + 1
<1>1. cx' = (cx + 1) % TotalW /\ cy' = IF cx' = 0 THEN (cy + 1) % TotalH ELSE cy
  BY DEF PixClk
<1>2. cx \in 0 .. TotalW - 1 /\ cy \in 0 .. TotalH - 1
  BY DEF RegistersOK
<1>3. cx' = (IF cx = TotalW - 1 THEN 0 ELSE cx + 1) /\ cx' \in 0 .. TotalW - 1
  BY <1>1, <1>2, ModNext, Geometry
<1>4. (cy + 1) % TotalH = (IF cy = TotalH - 1 THEN 0 ELSE cy + 1) /\ (cy + 1) % TotalH \in 0 .. TotalH - 1
  BY <1>2, ModNext, Geometry
<1>5. QED
  BY <1>1, <1>2, <1>3, <1>4

\* When a line begins, and when none does.
LEMMA BegunNext ==
  ASSUME RegistersOK, PixClk
  PROVE  /\ frame_starts => cx' = 1 /\ cy' = 0 /\ LinesBegun' = 0 /\ ~line_starts
         /\ line_starts => /\ cx' = 1 /\ cy' = cy
                           /\ LinesBegun = cy - Y0 /\ LinesBegun' = LinesBegun + 1
                           /\ LinesBegun < FB_H
         /\ ~frame_starts /\ ~line_starts => LinesBegun' = LinesBegun
BY CountersNext, Geometry DEF RegistersOK, LinesBegun, frame_starts, line_starts, in_y
-----------------------------------------------------------------------------
(* The two sides' steps, as cases. *)

\* The pixel side leaves the memory side alone.
LEMMA PixKeeps ==
  ASSUME PixClk
  PROVE  /\ vs_s' = vs_s /\ ls_s' = ls_s /\ fetch_row' = fetch_row /\ fetch_beat' = fetch_beat
         /\ fetching' = fetching /\ linebuf' = linebuf /\ flight' = flight
         /\ c_done' = c_done /\ c_rdata' = c_rdata
BY DEF PixClk, ui

\* What it does to the toggles and to late.
LEMMA PixToggles ==
  ASSUME RegistersOK, PixClk
  PROVE  /\ vs_tgl' \in BOOLEAN /\ ls_tgl' \in BOOLEAN /\ late' \in BOOLEAN
         /\ frame_starts => Crossed /\ vs_tgl' # vs_tgl /\ (~late' => Settled)
         /\ line_starts => Crossed /\ ls_tgl' # ls_tgl
         /\ ~frame_starts => vs_tgl' = vs_tgl /\ (~late' => ~late)
         /\ ~line_starts => ls_tgl' = ls_tgl
         /\ ~frame_starts /\ line_starts => (~late' => Settled)
<1>1. /\ frame_starts \/ line_starts => Crossed
      /\ vs_tgl' = (vs_tgl # frame_starts) /\ ls_tgl' = (ls_tgl # line_starts)
      /\ late' = IF frame_starts THEN ~Settled ELSE late \/ (line_starts /\ ~Settled)
  BY DEF PixClk
<1>2. vs_tgl \in BOOLEAN /\ ls_tgl \in BOOLEAN /\ late \in BOOLEAN
  BY DEF RegistersOK
<1>3. frame_starts \in BOOLEAN /\ line_starts \in BOOLEAN /\ Settled \in BOOLEAN
  BY DEF frame_starts, line_starts, Settled
<1>4. QED
  BY <1>1, <1>2, <1>3

\* What it does to the pixels.
LEMMA PixPixels ==
  ASSUME RegistersOK, PixClk
  PROVE  /\ nextbuf' = IF bidx \in Beats THEN linebuf[<<IF in_y THEN rdbuf ELSE 0, bidx>>] ELSE Junk
         /\ prime /\ in_y => bidx' = 0
         /\ ~prime /\ cx = X0 - 1 /\ in_y => pixbuf' = nextbuf /\ bidx' = 1 /\ p' = 0
         /\ ~prime /\ cx # X0 - 1 /\ in_x /\ in_y /\ p = BEAT - 1 =>
              pixbuf' = nextbuf /\ bidx' = bidx + 1 /\ p' = 0
         /\ ~prime /\ cx # X0 - 1 /\ in_x /\ in_y /\ p # BEAT - 1 /\ p < BEAT - 1 =>
              p' = p + 1 /\ pixbuf' = pixbuf /\ bidx' = bidx
         /\ ~prime /\ cx # X0 - 1 /\ ~in_x => bidx' = bidx
<1> DEFINE Pixel ==
      CASE prime /\ in_y ->
            bidx' = 0 /\ UNCHANGED <<pixbuf, p>>
       [] ~prime /\ cx = X0 - 1 /\ in_y ->
            pixbuf' = nextbuf /\ bidx' = 1 /\ p' = 0
       [] in_x /\ in_y /\ p = BEAT - 1 ->
            pixbuf' = nextbuf /\ bidx' = bidx + 1 /\ p' = 0
       [] in_x /\ in_y /\ p < BEAT - 1 ->
            p' = p + 1 /\ UNCHANGED <<pixbuf, bidx>>
       [] OTHER -> UNCHANGED <<pixbuf, bidx, p>>
<1>0. (in_x => ~prime /\ cx # X0 - 1) /\ BEAT \in Nat
  BY Geometry DEF RegistersOK, in_x, prime
<1>1. Pixel /\ nextbuf' = IF bidx \in Beats THEN linebuf[<<IF in_y THEN rdbuf ELSE 0, bidx>>] ELSE Junk
  BY DEF PixClk
<1>2. ASSUME prime, in_y PROVE bidx' = 0
  BY <1>0, <1>1, <1>2
<1>3. ASSUME ~prime, cx = X0 - 1, in_y PROVE pixbuf' = nextbuf /\ bidx' = 1 /\ p' = 0
  BY <1>0, <1>1, <1>3
<1>4. ASSUME ~prime, cx # X0 - 1, in_x, in_y, p = BEAT - 1
      PROVE  pixbuf' = nextbuf /\ bidx' = bidx + 1 /\ p' = 0
  <2>1. ~(p < BEAT - 1)
    BY <1>0, <1>4
  <2>2. QED
    BY <1>1, <1>4, <2>1
<1>5. ASSUME ~prime, cx # X0 - 1, in_x, in_y, p # BEAT - 1, p < BEAT - 1
      PROVE  p' = p + 1 /\ pixbuf' = pixbuf /\ bidx' = bidx
  BY <1>0, <1>1, <1>5
<1>6. ASSUME ~prime, cx # X0 - 1, ~in_x PROVE bidx' = bidx
  BY <1>0, <1>1, <1>6
<1>7. QED
  BY <1>1, <1>2, <1>3, <1>4, <1>5, <1>6

\* The memory side leaves the screen alone.
LEMMA UiKeeps ==
  ASSUME FetchClk
  PROVE  /\ cx' = cx /\ cy' = cy /\ vs_tgl' = vs_tgl /\ ls_tgl' = ls_tgl /\ pixbuf' = pixbuf
         /\ nextbuf' = nextbuf /\ p' = p /\ bidx' = bidx /\ late' = late
BY DEF FetchClk, pixel

\* What the fetcher does.
LEMMA FetchCases ==
  ASSUME Fetch
  PROVE  /\ vs_pulse => fetch_row' = 0 /\ fetch_beat' = 0 /\ fetching' = TRUE
         /\ ~vs_pulse /\ ls_pulse =>
              fetch_row' = fetch_row_next /\ fetch_beat' = 0 /\ fetching' = (fetch_row_next < FB_H)
         /\ ~vs_pulse /\ ~ls_pulse /\ fetching /\ c_done =>
              /\ fetching' = ~last_beat /\ fetch_row' = fetch_row
              /\ fetch_beat' = IF last_beat THEN fetch_beat ELSE fetch_beat + 1
         /\ ~vs_pulse /\ ~ls_pulse /\ ~(fetching /\ c_done) =>
              fetch_row' = fetch_row /\ fetch_beat' = fetch_beat /\ fetching' = fetching
BY DEF Fetch

\* A toggle's way through the flops: the pulse is there when it leaves.
LEMMA CrossStep ==
  ASSUME NEW s \in BOOLEAN \X BOOLEAN \X BOOLEAN, NEW t \in BOOLEAN, NEW u \in Cross(s, t),
         Passing(s, t)
  PROVE  /\ u \in BOOLEAN \X BOOLEAN \X BOOLEAN /\ Passing(u, t)
         /\ s[2] # s[3] => s[3] # t /\ u[3] = t
         /\ s[2] = s[3] => (u[3] # t <=> s[3] # t)
BY DEF Cross, Passing
-----------------------------------------------------------------------------
(* The start, and an edge of the pixel clock. *)

\* The machine comes up late: what is on the screen before the first frame is
\* nobody's picture.
LEMMA InitScanInv == ScanInit => ScanInv
<1> SUFFICES ASSUME ScanInit PROVE ScanInv
  OBVIOUS
<1>1. RegistersOK
  <2>1. DOMAIN linebuf = {0, 1} \X Beats
    BY Zenon DEF ScanInit
  <2>2. vs_s \in BOOLEAN \X BOOLEAN \X BOOLEAN /\ ls_s \in BOOLEAN \X BOOLEAN \X BOOLEAN
    BY DEF ScanInit
  <2>3. /\ cx = 0 /\ cy = 0 /\ fetch_row = 0 /\ fetch_beat = 0 /\ vs_tgl = FALSE /\ ls_tgl = FALSE
        /\ late = TRUE /\ fetching = FALSE /\ c_done = FALSE
    BY Zenon DEF ScanInit
  <2>4. /\ cx \in 0 .. TotalW - 1 /\ cy \in 0 .. TotalH - 1
        /\ fetch_row \in Nat /\ fetch_beat \in Beats
    BY <2>3, Geometry
  <2>5. QED
    BY <2>1, <2>2, <2>3, <2>4, Zenon DEF RegistersOK
<1>2. CrossingOK
  BY DEF ScanInit, CrossingOK, Passing
<1>3. QED
  BY <1>1, <1>2 DEF ScanInit, ScanInv

\* What ScanInv says of a frame in time.
LEMMA InTime ==
  ASSUME ScanInv, ~late
  PROVE  RegistersOK /\ CrossingOK /\ FetcherOK /\ PortOK /\ BufferOK /\ PixelsOK
BY DEF ScanInv

\* A toggle flips only when the last flip has come through.
LEMMA PixCrossing == ASSUME ScanInv, PixClk PROVE RegistersOK' /\ CrossingOK'
<1>1. RegistersOK /\ CrossingOK
  BY DEF ScanInv
<1>2. RegistersOK'
  BY <1>1, PixKeeps, PixToggles, CountersNext DEF RegistersOK
<1>3. Passing(vs_s', vs_tgl')
  <2>1. CASE frame_starts
    <3>1. vs_s[1] = vs_tgl /\ vs_s[2] = vs_tgl /\ vs_s[3] = vs_tgl /\ vs_tgl' # vs_tgl
      BY <1>1, <2>1, PixToggles DEF Crossed
    <3>2. QED
      BY <3>1, PixKeeps DEF Passing
  <2>2. CASE ~frame_starts
    BY <1>1, <2>2, PixToggles, PixKeeps DEF CrossingOK
  <2>3. QED
    BY <2>1, <2>2
<1>4. Passing(ls_s', ls_tgl')
  <2>1. CASE line_starts
    <3>1. ls_s[1] = ls_tgl /\ ls_s[2] = ls_tgl /\ ls_s[3] = ls_tgl /\ ls_tgl' # ls_tgl
      BY <1>1, <2>1, PixToggles DEF Crossed
    <3>2. QED
      BY <3>1, PixKeeps DEF Passing
  <2>2. CASE ~line_starts
    BY <1>1, <2>2, PixToggles, PixKeeps DEF CrossingOK
  <2>3. QED
    BY <2>1, <2>2
<1>5. QED
  BY <1>2, <1>3, <1>4 DEF CrossingOK

\* A frame that begins settled asks for its first line.
LEMMA PixFrame ==
  ASSUME ScanInv, PixClk, frame_starts, ~late'
  PROVE  FetcherOK' /\ PortOK' /\ BufferOK' /\ PixelsOK'
<1>1. RegistersOK /\ Settled /\ Crossed /\ vs_tgl' # vs_tgl /\ ls_tgl' = ls_tgl
  BY PixToggles, BegunNext DEF ScanInv
<1>2. FrameAsked' /\ ~LineAsked'
  BY <1>1, PixKeeps DEF Crossed, FrameAsked, LineAsked
<1>3. ~fetching' /\ flight' = None /\ ~c_done'
  BY <1>1, PixKeeps DEF Settled
<1>4. LinesBegun' = 0 /\ cy' = 0
  BY <1>1, BegunNext
<1>5. FetcherOK'
  BY <1>2, <1>3, <1>4 DEF FetcherOK
<1>6. PortOK' /\ BufferOK'
  BY <1>2, <1>3 DEF PortOK, BufferOK
<1>7. PixelsOK'
  BY <1>4, Geometry DEF PixelsOK, in_y
<1>8. QED
  BY <1>5, <1>6, <1>7

\* A line that begins settled shows what was fetched last, and asks for the next.
LEMMA PixLine ==
  ASSUME ScanInv, PixClk, line_starts, ~late'
  PROVE  FetcherOK' /\ PortOK' /\ BufferOK' /\ PixelsOK'
<1>0. RegistersOK
  BY DEF ScanInv
<1>1. ~frame_starts
  BY <1>0, BegunNext
<1>2. Settled /\ Crossed /\ ls_tgl' # ls_tgl /\ vs_tgl' = vs_tgl /\ ~late
  BY <1>0, <1>1, PixToggles
<1>3. FetcherOK /\ BufferOK
  BY <1>2, InTime
<1>4. ~FrameAsked /\ ~LineAsked /\ ~FrameAsked' /\ LineAsked'
  BY <1>2, PixKeeps DEF Crossed, FrameAsked, LineAsked
<1>5. ~fetching' /\ flight' = None /\ ~c_done' /\ ~fetching
  BY <1>2, PixKeeps DEF Settled
<1>6. /\ cx' = 1 /\ cy' = cy /\ cx = 0 /\ in_y
      /\ LinesBegun' = LinesBegun + 1 /\ LinesBegun < FB_H
      /\ fetch_row = LinesBegun /\ fetch_row' = fetch_row /\ LinesBegun \in Nat
  BY <1>0, <1>3, <1>4, BegunNext, BegunType, PixKeeps, Geometry DEF FetcherOK, line_starts
<1>7. FetcherOK'
  BY <1>4, <1>5, <1>6 DEF FetcherOK
<1>8. PortOK'
  BY <1>5 DEF PortOK
<1>9. BufferOK'
  <2>1. \A b \in Beats : Holds(fetch_row, b)
    BY <1>3, <1>4, <1>5, <1>6 DEF BufferOK
  <2>2. \A b \in Beats : Holds(fetch_row, b)'
    BY <2>1, <1>6, PixKeeps DEF Holds
  <2>3. LinesBegun' - 1 = fetch_row /\ fetch_row' = fetch_row
    BY <1>6
  <2>4. /\ \A b \in Beats : Holds(fetch_row, b)'
        /\ \A b \in Beats : Holds(LinesBegun - 1, b)'
    BY <2>2, <2>3 DEF Holds
  <2>5. QED
    BY <2>4 DEF BufferOK
<1>10. PixelsOK'
  <2>1. cx' = X0 - 2 => bidx' = 0
    BY <1>0, <1>6, PixPixels, Geometry DEF prime
  <2>2. cx' # X0 - 1 /\ ~in_x'
    BY <1>6, Geometry DEF in_x
  <2>3. QED
    BY <2>1, <2>2 DEF PixelsOK
<1>11. QED
  BY <1>7, <1>8, <1>9, <1>10

\* Any other edge moves along the line.
LEMMA PixAlong ==
  ASSUME ScanInv, PixClk, ~frame_starts, ~line_starts, ~late'
  PROVE  FetcherOK' /\ PortOK' /\ BufferOK' /\ PixelsOK'
<1>0. RegistersOK /\ ~late
  BY PixToggles DEF ScanInv
<1>1. FetcherOK /\ PortOK /\ BufferOK /\ PixelsOK
  BY <1>0, InTime
<1>2. (FrameAsked' <=> FrameAsked) /\ (LineAsked' <=> LineAsked) /\ LinesBegun' = LinesBegun
  BY <1>0, PixToggles, PixKeeps, BegunNext DEF FrameAsked, LineAsked
<1>3. FetcherOK' /\ PortOK'
  BY <1>1, <1>2, PixKeeps DEF FetcherOK, PortOK
<1>4. BufferOK'
  BY <1>1, <1>2, PixKeeps DEF BufferOK, Holds
<1>5. ASSUME in_y' PROVE PixelsOK'
  <2>1. CASE cx' = 0
    BY <2>1, Geometry DEF PixelsOK, in_x
  <2>2. CASE cx' # 0
    <3>1. cx' = cx + 1 /\ cy' = cy /\ in_y /\ fb_row' = fb_row /\ cx \in Nat
      BY <1>0, <1>5, <2>2, CountersNext, Geometry DEF in_y, fb_row, RegistersOK
    <3>2. cx' = X0 - 2 => bidx' = 0
      BY <1>0, <3>1, PixPixels, Geometry DEF prime
    <3>3. ASSUME cx > 0, bidx \in Beats PROVE nextbuf' = <<fb_row, bidx>>
      <4>1. LinesBegun = fb_row + 1 /\ fb_row \in Nat
        BY <1>0, <3>1, <3>3, Geometry DEF LinesBegun, fb_row, in_y, RegistersOK
      <4>2. ~FrameAsked
        BY <1>1, <4>1 DEF FetcherOK
      <4>3. Holds(fb_row, bidx)
        BY <1>1, <3>3, <4>1, <4>2 DEF BufferOK
      <4>4. nextbuf' = linebuf[<<fb_row % 2, bidx>>]
        BY <1>0, <3>1, <3>3, PixPixels DEF rdbuf
      <4>5. QED
        BY <4>3, <4>4 DEF Holds
    <3>4. cx' = X0 - 1 => bidx' = 0 /\ nextbuf' = <<fb_row, 0>>
      <4>1. SUFFICES ASSUME cx' = X0 - 1 PROVE bidx' = 0 /\ nextbuf' = <<fb_row, 0>>
        OBVIOUS
      <4>2. cx = X0 - 2 /\ cx > 0 /\ ~prime /\ cx # X0 - 1 /\ ~in_x
        BY <3>1, <4>1, Geometry DEF prime, in_x
      <4>3. bidx = 0 /\ bidx' = bidx
        BY <1>0, <1>1, <3>1, <4>2, PixPixels DEF PixelsOK
      <4>4. QED
        BY <3>3, <4>2, <4>3, Geometry
    <3>5. ASSUME in_x'
          PROVE  /\ p' \in 0 .. BEAT - 1 /\ bidx' \in 1 .. BEATS_PER_LINE
                 /\ cx' = X0 + (bidx' - 1) * BEAT + p'
                 /\ pixbuf' = <<fb_row, bidx' - 1>>
                 /\ p' >= 1 /\ bidx' < BEATS_PER_LINE => nextbuf' = <<fb_row, bidx'>>
      <4>1. CASE cx = X0 - 1
        <5>1. pixbuf' = nextbuf /\ bidx' = 1 /\ p' = 0 /\ nextbuf = <<fb_row, 0>>
          BY <1>0, <1>1, <3>1, <4>1, PixPixels, Geometry DEF PixelsOK, prime
        <5>2. QED
          BY <3>1, <4>1, <5>1, Geometry
      <4>2. CASE cx # X0 - 1
        <5>1. in_x /\ ~prime /\ cx > 0
          BY <3>1, <3>5, <4>2, Geometry DEF in_x, prime
        <5>2. /\ p \in 0 .. BEAT - 1 /\ bidx \in 1 .. BEATS_PER_LINE
              /\ cx = X0 + (bidx - 1) * BEAT + p
              /\ pixbuf = <<fb_row, bidx - 1>>
              /\ p >= 1 /\ bidx < BEATS_PER_LINE => nextbuf = <<fb_row, bidx>>
          BY <1>1, <3>1, <5>1 DEF PixelsOK
        <5>3. CASE p = BEAT - 1
          <6>1. pixbuf' = nextbuf /\ bidx' = bidx + 1 /\ p' = 0
            BY <1>0, <3>1, <4>2, <5>1, <5>3, PixPixels
          <6>2. cx' = X0 + bidx * BEAT /\ cx' < X0 + BEATS_PER_LINE * BEAT
            <7>1. (bidx - 1) * BEAT + BEAT = bidx * BEAT
              BY <5>2, Geometry
            <7>2. cx' = X0 + ((bidx - 1) * BEAT + BEAT)
              BY <3>1, <5>2, <5>3, Geometry
            <7>3. cx' < X0 + BEATS_PER_LINE * BEAT
              BY <3>5 DEF in_x, FB_W
            <7>4. QED
              BY <7>1, <7>2, <7>3
          <6>3. bidx < BEATS_PER_LINE
            <7>1. bidx = BEATS_PER_LINE => FALSE
              BY <6>2, Geometry DEF FB_W
            <7>2. QED
              BY <5>2, <7>1, Geometry
          <6>4. nextbuf = <<fb_row, bidx>>
            BY <5>2, <5>3, <6>3, Geometry
          <6>5. bidx' - 1 = bidx /\ (bidx' - 1) * BEAT = bidx * BEAT
            BY <5>2, <6>1
          <6>6. cx' = X0 + (bidx' - 1) * BEAT + p'
            BY <6>1, <6>2, <6>5, Geometry, <5>2
          <6>7. QED
            BY <5>2, <6>1, <6>3, <6>4, <6>5, <6>6, Geometry
        <5>4. CASE p # BEAT - 1
          <6>1. p' = p + 1 /\ pixbuf' = pixbuf /\ bidx' = bidx
            BY <1>0, <3>1, <4>2, <5>1, <5>2, <5>4, PixPixels, Geometry
          <6>2. bidx < BEATS_PER_LINE => nextbuf' = <<fb_row, bidx>>
            BY <3>3, <5>1, <5>2, Geometry DEF Beats
          <6>3. cx' = X0 + (bidx - 1) * BEAT + p'
            BY <3>1, <5>2, <6>1, Geometry
          <6>4. QED
            BY <5>2, <5>4, <6>1, <6>2, <6>3, Geometry
        <5>5. QED
          BY <5>3, <5>4
      <4>3. QED
        BY <4>1, <4>2
    <3>6. QED
      BY <3>1, <3>2, <3>4, <3>5 DEF PixelsOK
  <2>3. QED
    BY <2>1, <2>2
<1>6. PixelsOK'
  BY <1>5 DEF PixelsOK
<1>7. QED
  BY <1>3, <1>4, <1>6

\* An edge of the pixel clock preserves the invariant.
LEMMA PixIInv == ASSUME ScanInv, PixClk PROVE ScanInv'
<1>1. RegistersOK' /\ CrossingOK'
  BY PixCrossing
<1>2. ~late' => FetcherOK' /\ PortOK' /\ BufferOK' /\ PixelsOK'
  BY PixFrame, PixLine, PixAlong
<1>3. QED
  BY <1>1, <1>2 DEF ScanInv
-----------------------------------------------------------------------------
(* An edge of the memory clock. *)

\* The registers stay in range, and the toggles move on through the flops.
LEMMA UiCrossing == ASSUME ScanInv, FetchClk PROVE RegistersOK' /\ CrossingOK'
<1>1. RegistersOK /\ CrossingOK
  BY DEF ScanInv
<1>2. vs_s' \in Cross(vs_s, vs_tgl) /\ ls_s' \in Cross(ls_s, ls_tgl) /\ Fetch /\ FillLineBuffer /\ Port
  BY DEF FetchClk
<1>3. /\ vs_s' \in BOOLEAN \X BOOLEAN \X BOOLEAN /\ Passing(vs_s', vs_tgl)
      /\ ls_s' \in BOOLEAN \X BOOLEAN \X BOOLEAN /\ Passing(ls_s', ls_tgl)
  BY <1>1, <1>2, CrossStep DEF RegistersOK, CrossingOK
<1>4. fetch_row' \in Nat /\ fetch_beat' \in Beats /\ fetching' \in BOOLEAN
  <2>1. fetch_row_next \in Nat
    BY <1>1, Geometry DEF RegistersOK, fetch_row_next
  <2>2. fetch_row' \in Nat
    <3>1. fetch_row \in Nat /\ 0 \in Nat
      BY <1>1 DEF RegistersOK
    <3>2. fetch_row' = 0 \/ fetch_row' = fetch_row_next \/ fetch_row' = fetch_row
      BY <1>2, FetchCases, Zenon
    <3>3. QED
      BY <2>1, <3>1, <3>2
  <2>3. fetch_beat \in Beats /\ (~last_beat => fetch_beat + 1 \in Beats)
    BY <1>1, Geometry DEF RegistersOK, last_beat, Beats
  <2>4. fetch_beat' \in Beats
    BY <1>2, <2>3, FetchCases, Geometry
  <2>5. (fetch_row_next < FB_H) \in BOOLEAN /\ (~last_beat) \in BOOLEAN
    OBVIOUS
  <2>6. fetching' \in BOOLEAN
    BY <1>1, <1>2, <2>5, FetchCases DEF RegistersOK
  <2>7. QED
    BY <2>2, <2>4, <2>6
<1>5. c_done' \in BOOLEAN
  BY <1>2 DEF Port
<1>6. DOMAIN linebuf' = {0, 1} \X Beats
  BY <1>1, <1>2 DEF FillLineBuffer, RegistersOK
<1>7. RegistersOK'
  BY <1>1, <1>3, <1>4, <1>5, <1>6, UiKeeps DEF RegistersOK
<1>8. CrossingOK'
  BY <1>3, UiKeeps DEF CrossingOK
<1>9. QED
  BY <1>7, <1>8

\* Which toggle is acted on.
LEMMA Pulses ==
  ASSUME ScanInv, FetchClk
  PROVE  /\ LinesBegun' = LinesBegun
         /\ vs_pulse => FrameAsked /\ ~FrameAsked'
         /\ ~vs_pulse => (FrameAsked' <=> FrameAsked)
         /\ ls_pulse => LineAsked /\ ~LineAsked'
         /\ ~ls_pulse => (LineAsked' <=> LineAsked)
<1>1. RegistersOK /\ CrossingOK
  BY DEF ScanInv
<1>2. vs_s' \in Cross(vs_s, vs_tgl) /\ ls_s' \in Cross(ls_s, ls_tgl)
  BY DEF FetchClk
<1>3. LinesBegun' = LinesBegun
  BY UiKeeps DEF LinesBegun
<1>4. /\ vs_s[2] # vs_s[3] => vs_s[3] # vs_tgl /\ vs_s'[3] = vs_tgl
      /\ vs_s[2] = vs_s[3] => (vs_s'[3] # vs_tgl <=> vs_s[3] # vs_tgl)
      /\ ls_s[2] # ls_s[3] => ls_s[3] # ls_tgl /\ ls_s'[3] = ls_tgl
      /\ ls_s[2] = ls_s[3] => (ls_s'[3] # ls_tgl <=> ls_s[3] # ls_tgl)
  BY <1>1, <1>2, CrossStep DEF RegistersOK, CrossingOK
<1>5. QED
  BY <1>3, <1>4, UiKeeps DEF vs_pulse, ls_pulse, FrameAsked, LineAsked

\* A quiet port stays quiet.
LEMMA PortQuiet ==
  ASSUME Port, ~fetching, flight = None PROVE flight' = None /\ ~c_done'
BY DEF Port

\* The frame's own pulse starts its first line.
LEMMA UiFrame ==
  ASSUME ScanInv, FetchClk, ~late, vs_pulse PROVE FetcherOK' /\ PortOK' /\ BufferOK'
<1>1. RegistersOK /\ FetcherOK /\ BufferOK /\ Fetch /\ Port
  BY InTime DEF FetchClk
<1>2. FrameAsked /\ ~FrameAsked' /\ LinesBegun = 0 /\ LinesBegun' = 0 /\ ~LineAsked
      /\ ~fetching /\ flight = None
  BY <1>1, Pulses DEF FetcherOK
<1>3. ~LineAsked'
  BY <1>2, Pulses
<1>4. fetch_row' = 0 /\ fetch_beat' = 0 /\ fetching'
  BY <1>1, FetchCases
<1>5. flight' = None /\ ~c_done'
  BY <1>1, <1>2, PortQuiet
<1>6. FetcherOK'
  BY <1>2, <1>3, <1>4, <1>5, Geometry DEF FetcherOK
<1>7. PortOK'
  BY <1>5 DEF PortOK
<1>8. BufferOK'
  BY <1>2, <1>4 DEF BufferOK, Beats
<1>9. QED
  BY <1>6, <1>7, <1>8

\* A line's pulse starts the next, in the half that is not being shown.
LEMMA UiLine ==
  ASSUME ScanInv, FetchClk, ~late, ~vs_pulse, ls_pulse PROVE FetcherOK' /\ PortOK' /\ BufferOK'
<1>1. RegistersOK /\ FetcherOK /\ BufferOK /\ Fetch /\ Port /\ FillLineBuffer
  BY InTime DEF FetchClk
<1>2. LineAsked /\ ~LineAsked' /\ ~FrameAsked /\ ~FrameAsked' /\ LinesBegun' = LinesBegun
      /\ fetch_row + 1 = LinesBegun /\ ~fetching /\ flight = None
  BY <1>1, Pulses DEF FetcherOK
<1>3. fetch_row \in Nat /\ LinesBegun \in 1 .. FB_H
  BY <1>1, <1>2, BegunType, Geometry DEF RegistersOK
<1>4. fetch_row_next = LinesBegun
  <2>1. LinesBegun \in 0 .. FetchRows - 1 /\ FetchRows \in Nat \ {0}
    BY <1>3, Geometry
  <2>2. LinesBegun % FetchRows = LinesBegun
    BY <2>1, ModNext
  <2>3. QED
    BY <1>2, <2>2 DEF fetch_row_next
<1>5. fetch_row' = LinesBegun /\ fetch_beat' = 0 /\ (fetching' <=> LinesBegun < FB_H)
  BY <1>1, <1>4, FetchCases
<1>6. flight' = None /\ ~c_done' /\ linebuf' = linebuf
  BY <1>1, <1>2, PortQuiet DEF FillLineBuffer
<1>7. FetcherOK'
  BY <1>2, <1>5, <1>6 DEF FetcherOK
<1>8. PortOK'
  BY <1>6 DEF PortOK
<1>9. BufferOK'
  <2>1. \A b \in Beats : Holds(LinesBegun - 1, b)
    BY <1>1, <1>2, <1>3 DEF BufferOK
  <2>2. \A b \in Beats : Holds(LinesBegun - 1, b)'
    BY <1>2, <1>6, <2>1 DEF Holds
  <2>3. fetch_row' < FB_H => \A b \in Beats : fetching' /\ ~(b < fetch_beat')
    BY <1>5, Geometry DEF Beats
  <2>4. QED
    BY <2>2, <2>3 DEF BufferOK
<1>10. QED
  BY <1>7, <1>8, <1>9

\* A beat comes back, into its own place.
LEMMA UiBeat ==
  ASSUME ScanInv, FetchClk, ~late, ~vs_pulse, ~ls_pulse, fetching, c_done
  PROVE  FetcherOK' /\ PortOK' /\ BufferOK'
<1>1. RegistersOK /\ FetcherOK /\ PortOK /\ BufferOK /\ Fetch /\ Port /\ FillLineBuffer
  BY InTime DEF FetchClk
<1>2. ~FrameAsked /\ ~LineAsked /\ ~FrameAsked' /\ ~LineAsked' /\ LinesBegun' = LinesBegun
      /\ fetch_row = LinesBegun /\ fetch_row < FB_H
  BY <1>1, Pulses DEF FetcherOK
<1>3. flight = None /\ c_rdata = <<fetch_row, fetch_beat>>
  BY <1>1 DEF PortOK
<1>4. flight' = None /\ ~c_done'
  BY <1>1, <1>3 DEF Port
<1>5. /\ fetch_row' = fetch_row /\ (fetching' <=> ~last_beat)
      /\ fetch_beat' = IF last_beat THEN fetch_beat ELSE fetch_beat + 1
  BY <1>1, FetchCases
<1>6. FetcherOK'
  BY <1>2, <1>4, <1>5 DEF FetcherOK
<1>7. PortOK'
  BY <1>4 DEF PortOK
<1>8. BufferOK'
  <2>1. /\ fetch_row \in Nat /\ fetch_beat \in Beats /\ DOMAIN linebuf = {0, 1} \X Beats
        /\ <<fetch_row % 2, fetch_beat>> \in {0, 1} \X Beats
    BY <1>1, Halves DEF RegistersOK
  <2>2. linebuf' = [linebuf EXCEPT ![<<fetch_row % 2, fetch_beat>>] = <<fetch_row, fetch_beat>>]
    BY <1>1, <1>3 DEF FillLineBuffer
  <2>3. linebuf'[<<fetch_row % 2, fetch_beat>>] = <<fetch_row, fetch_beat>>
    BY <2>1, <2>2
  <2>4. ASSUME NEW b \in Beats, ~fetching' \/ b < fetch_beat'
        PROVE  linebuf'[<<fetch_row % 2, b>>] = <<fetch_row, b>>
    <3>1. b = fetch_beat \/ b < fetch_beat
      <4>1. CASE last_beat
        BY <2>1, <4>1, Geometry DEF Beats, last_beat
      <4>2. CASE ~last_beat
        <5>1. b < fetch_beat + 1
          BY <1>5, <2>4, <4>2
        <5>2. QED
          BY <2>1, <5>1, Geometry DEF Beats
      <4>3. QED
        BY <4>1, <4>2
    <3>2. CASE b = fetch_beat
      BY <2>3, <3>2
    <3>3. CASE b < fetch_beat
      <4>1. linebuf[<<fetch_row % 2, b>>] = <<fetch_row, b>>
        BY <1>1, <1>2, <3>3 DEF BufferOK, Holds
      <4>2. b # fetch_beat
        BY <2>1, <3>3 DEF Beats
      <4>3. <<fetch_row % 2, b>> # <<fetch_row % 2, fetch_beat>> /\ <<fetch_row % 2, b>> \in {0, 1} \X Beats
        BY <2>1, <4>2
      <4>4. linebuf'[<<fetch_row % 2, b>>] = linebuf[<<fetch_row % 2, b>>]
        BY <2>1, <2>2, <4>3
      <4>5. QED
        BY <4>1, <4>4
    <3>4. QED
      BY <3>1, <3>2, <3>3
  <2>5. ASSUME LinesBegun >= 1, NEW b \in Beats
        PROVE  linebuf'[<<(LinesBegun - 1) % 2, b>>] = <<LinesBegun - 1, b>>
    <3>1. linebuf[<<(LinesBegun - 1) % 2, b>>] = <<LinesBegun - 1, b>>
      BY <1>1, <1>2, <2>5 DEF BufferOK, Holds
    <3>2. (LinesBegun - 1) % 2 # fetch_row % 2 /\ (LinesBegun - 1) % 2 \in {0, 1}
      <4>1. LinesBegun - 1 \in Nat /\ (LinesBegun - 1) + 1 = fetch_row
        BY <1>2, <2>1, <2>5
      <4>2. QED
        BY <4>1, Halves
    <3>3. <<(LinesBegun - 1) % 2, b>> # <<fetch_row % 2, fetch_beat>>
          /\ <<(LinesBegun - 1) % 2, b>> \in {0, 1} \X Beats
      BY <3>2
    <3>4. linebuf'[<<(LinesBegun - 1) % 2, b>>] = linebuf[<<(LinesBegun - 1) % 2, b>>]
      BY <2>1, <2>2, <3>3
    <3>5. QED
      BY <3>1, <3>4
  <2>6. \A b \in Beats : ~fetching' \/ b < fetch_beat' => linebuf'[<<fetch_row' % 2, b>>] = <<fetch_row', b>>
    BY <1>5, <2>4
  <2>7. LinesBegun' >= 1 =>
          \A b \in Beats : linebuf'[<<(LinesBegun' - 1) % 2, b>>] = <<LinesBegun' - 1, b>>
    BY <1>2, <2>5
  <2>8. QED
    BY <2>6, <2>7, Zenon DEF BufferOK, Holds
<1>9. QED
  BY <1>6, <1>7, <1>8

\* Otherwise the port works on the request it has, or takes the one it sees.
LEMMA UiWaits ==
  ASSUME ScanInv, FetchClk, ~late, ~vs_pulse, ~ls_pulse, ~(fetching /\ c_done)
  PROVE  FetcherOK' /\ PortOK' /\ BufferOK'
<1>1. RegistersOK /\ FetcherOK /\ PortOK /\ BufferOK /\ Fetch /\ Port /\ FillLineBuffer
  BY InTime DEF FetchClk
<1>2. (FrameAsked' <=> FrameAsked) /\ (LineAsked' <=> LineAsked) /\ LinesBegun' = LinesBegun
  BY Pulses
<1>3. fetch_row' = fetch_row /\ fetch_beat' = fetch_beat /\ (fetching' <=> fetching)
      /\ linebuf' = linebuf
  BY <1>1, FetchCases DEF FillLineBuffer
<1>4. ~c_done
  BY <1>1 DEF PortOK
<1>5. ~fetching => flight' = None /\ ~c_done'
  BY <1>1, PortQuiet DEF PortOK
<1>6. FetcherOK'
  BY <1>1, <1>2, <1>3, <1>5 DEF FetcherOK
<1>7. PortOK'
  BY <1>1, <1>3, <1>4, <1>5 DEF PortOK, Port
<1>8. BufferOK'
  BY <1>1, <1>2, <1>3 DEF BufferOK, Holds
<1>9. QED
  BY <1>6, <1>7, <1>8

\* An edge of the memory clock preserves the invariant.
LEMMA UiIInv == ASSUME ScanInv, FetchClk PROVE ScanInv'
<1>1. RegistersOK' /\ CrossingOK'
  BY UiCrossing
<1>2. ASSUME ~late' PROVE FetcherOK' /\ PortOK' /\ BufferOK' /\ PixelsOK'
  <2>1. ~late
    BY <1>2, UiKeeps
  <2>2. FetcherOK' /\ PortOK' /\ BufferOK'
    BY <2>1, UiFrame, UiLine, UiBeat, UiWaits
  <2>3. PixelsOK'
    BY <2>1, InTime, UiKeeps DEF PixelsOK, in_x, in_y, fb_row
  <2>4. QED
    BY <2>2, <2>3
<1>3. QED
  BY <1>1, <1>2 DEF ScanInv
-----------------------------------------------------------------------------
(* The theorems. *)

\* The two clocks' sides keep in step, as long as fetches end in time.
THEOREM InStep == ScanSpec => []ScanInv
<1>1. ASSUME ScanInv, [ScanNext]_scanvars PROVE ScanInv'
  <2>1. CASE UNCHANGED scanvars
    <3>1. /\ cx' = cx /\ cy' = cy /\ vs_tgl' = vs_tgl /\ ls_tgl' = ls_tgl /\ pixbuf' = pixbuf
          /\ nextbuf' = nextbuf /\ p' = p /\ bidx' = bidx /\ late' = late
          /\ vs_s' = vs_s /\ ls_s' = ls_s /\ fetch_row' = fetch_row /\ fetch_beat' = fetch_beat
          /\ fetching' = fetching /\ linebuf' = linebuf /\ flight' = flight
          /\ c_done' = c_done /\ c_rdata' = c_rdata
      BY <2>1, Zenon DEF scanvars, pixel, ui
    <3>2. RegistersOK' <=> RegistersOK
      BY <3>1 DEF RegistersOK
    <3>3. CrossingOK' <=> CrossingOK
      BY <3>1, Zenon DEF CrossingOK, Passing
    <3>4. /\ LinesBegun' = LinesBegun /\ (FrameAsked' <=> FrameAsked)
          /\ (LineAsked' <=> LineAsked)
      BY <3>1, Zenon DEF LinesBegun, FrameAsked, LineAsked
    <3>5. FetcherOK' <=> FetcherOK
      BY <3>1, <3>4, Zenon DEF FetcherOK
    <3>6. PortOK' <=> PortOK
      BY <3>1, Zenon DEF PortOK
    <3>7. BufferOK' <=> BufferOK
      BY <3>1, <3>4, Zenon DEF BufferOK, Holds
    <3>8. PixelsOK' <=> PixelsOK
      BY <3>1, Zenon DEF PixelsOK, in_x, in_y, fb_row
    <3>9. QED
      BY <1>1, <3>1, <3>2, <3>3, <3>5, <3>6, <3>7, <3>8, Zenon DEF ScanInv
  <2>2. QED
    BY <1>1, <2>1, PixIInv, UiIInv DEF ScanNext
<1>2. QED
  BY InitScanInv, <1>1, PTL DEF ScanSpec

\* Every visible pixel comes from its own place in its own row.
THEOREM ThePictureIsTrue == ScanSpec => []PictureTrue
<1>1. ASSUME ScanInv, in_x, in_y, ~late
      PROVE  pixbuf = <<fb_row, (cx - X0) \div BEAT>> /\ p = (cx - X0) % BEAT
  <2>1. /\ p \in 0 .. BEAT - 1 /\ bidx \in 1 .. BEATS_PER_LINE
        /\ cx = X0 + (bidx - 1) * BEAT + p
        /\ pixbuf = <<fb_row, bidx - 1>>
    BY <1>1, InTime DEF PixelsOK
  <2>2. cx - X0 = (bidx - 1) * BEAT + p /\ bidx - 1 \in Nat
    BY <2>1, Geometry
  <2>3. (cx - X0) \div BEAT = bidx - 1 /\ (cx - X0) % BEAT = p
    BY <2>1, <2>2, BeatAndPixel, Geometry
  <2>4. QED
    BY <2>1, <2>3
<1>2. ScanInv => PictureTrue
  BY <1>1 DEF PictureTrue
<1>3. QED
  BY <1>2, InStep, PTL

\* What memory answers is always the beat that is waited for.
THEOREM BeatsInOrder == ScanSpec => []BeatForBeat
<1>1. ScanInv => BeatForBeat
  BY DEF ScanInv, PortOK, BeatForBeat
<1>2. QED
  BY <1>1, InStep, PTL
=============================================================================
