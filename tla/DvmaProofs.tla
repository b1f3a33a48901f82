----------------------------- MODULE DvmaProofs -----------------------------
(***************************************************************************)
(* A bus error stops a DVMA channel dead, whatever masters there are; no     *)
(* master drives the bus together with the CPU, if it is alone or the CPU    *)
(* gives up its grant within two clocks; and what a master moves, the SCSI   *)
(* channel's gathered longwords too, lies where the CPU and the picture look *)
(* for it; and a SCSI transfer that reads good is whole.                     *)
(***************************************************************************)
EXTENDS Dvma, CardPaths, FiniteSetTheorems, TLAPS

MasterRegisters ==
  [state : {"IDLE", "REQ", "ADDR", "STROBE", "LATCH", "DONE", "ACK"},
   half : Halves, hi_todo : BOOLEAN, err_cyc : BOOLEAN, own : BOOLEAN,
   got : SUBSET Halves, answer : {"", "ack", "err"}, dvma_err : BOOLEAN]

\* A master owns the bus from REQ's grant to the end of DONE, and once its
\* error latch is set it only ever finishes the cycle that set it.
FsmOK(r) ==
  /\ r \in MasterRegisters
  /\ r.own <=> r.state \in {"ADDR", "STROBE", "LATCH", "DONE"}
  /\ r.dvma_err => r.state \in {"IDLE", "LATCH", "DONE", "ACK"}
  /\ r.dvma_err /\ r.state \in {"LATCH", "DONE"} => ~r.hi_todo

RequestsOK ==
  /\ EN_DVMA \in BOOLEAN
  /\ req \in [Masters -> [want : BOOLEAN, halves : SUBSET Halves]]

FsmInv ==
  /\ RequestsOK
  /\ fsm \in [Masters -> MasterRegisters] /\ as_ext \in [Masters -> BOOLEAN]
  /\ \A m \in Masters : FsmOK(fsm[m])

\* The state machine's own step takes good registers to good ones; it never
\* begins to strobe with its latch set.
LEMMA StepOK ==
  ASSUME NEW m \in Masters, NEW r, FsmOK(r), r = fsm[m], RequestsOK, NEW ans \in Answers
  PROVE  LET s == Step(m, r, ans) IN
         /\ s \in MasterRegisters
         /\ s.dvma_err = r.dvma_err
         /\ s.own <=> s.state \in {"ADDR", "STROBE", "LATCH", "DONE"}
         /\ r.dvma_err => s.state \in {"IDLE", "LATCH", "DONE", "ACK"}
         /\ r.dvma_err /\ r.state \notin {"STROBE", "LATCH"} => s.state \notin {"STROBE", "LATCH"}
         /\ r.dvma_err /\ s.state \in {"LATCH", "DONE"} => ~s.hi_todo
         /\ r.state = "STROBE" /\ ans = "berr" => s.state = "LATCH" /\ ~s.hi_todo
<1> SUFFICES ASSUME NEW s, s = Step(m, r, ans)
             PROVE  /\ s \in MasterRegisters
                    /\ s.dvma_err = r.dvma_err
                    /\ s.own <=> s.state \in {"ADDR", "STROBE", "LATCH", "DONE"}
                    /\ r.dvma_err => s.state \in {"IDLE", "LATCH", "DONE", "ACK"}
                    /\ r.dvma_err /\ r.state \notin {"STROBE", "LATCH"} => s.state \notin {"STROBE", "LATCH"}
                    /\ r.dvma_err /\ s.state \in {"LATCH", "DONE"} => ~s.hi_todo
                    /\ r.state = "STROBE" /\ ans = "berr" => s.state = "LATCH" /\ ~s.hi_todo
  OBVIOUS
<1>1. r \in MasterRegisters /\ req[m] \in [want : BOOLEAN, halves : SUBSET Halves]
  BY DEF FsmOK, RequestsOK
<1>0. req[m].want \in BOOLEAN /\ req[m].halves \in SUBSET Halves /\ r.dvma_err \in BOOLEAN
  BY <1>1 DEF MasterRegisters
<1>2. CASE r.state = "IDLE"
  <2>1. s = Idle(m, r)
    BY <1>2 DEF Step
  <2>2. CASE s = r
    BY <1>1, <1>2, <2>2 DEF FsmOK
  <2>3. CASE s = [r EXCEPT !.err_cyc = TRUE, !.state = "ACK"]
    BY <1>1, <1>2, <2>3 DEF MasterRegisters, FsmOK
  <2>4. CASE s = [r EXCEPT !.err_cyc = FALSE, !.state = "ACK"]
    BY <1>1, <1>2, <2>4 DEF MasterRegisters, FsmOK
  <2>5. CASE ~r.dvma_err /\ s = Begin(m, r)
    <3>1. (IF "lo" \in req[m].halves THEN "lo" ELSE "hi") \in Halves /\ (req[m].halves = Halves) \in BOOLEAN
      BY DEF Halves
    <3>2. /\ s \in MasterRegisters /\ s.dvma_err = r.dvma_err /\ s.state = "REQ"
          /\ (s.own <=> r.own)
      BY <1>1, <2>5, <3>1 DEF Begin, MasterRegisters
    <3> QED BY <1>1, <1>2, <2>5, <3>2 DEF FsmOK
  <2> QED BY <2>1, <2>2, <2>3, <2>4, <2>5, Zenon DEF Idle, Refused
<1>3. CASE r.state = "REQ"
  BY <1>1, <1>3 DEF Step, Req, MasterRegisters, Halves, FsmOK
<1>4. CASE r.state = "ADDR"
  BY <1>1, <1>4 DEF Step, MasterRegisters, Halves, FsmOK
<1>5. CASE r.state = "STROBE"
  <2>1. s = Strobe(r, ans)
    BY <1>5 DEF Step
  <2>2. CASE ans = "berr"
    <3>1. s = [r EXCEPT !.err_cyc = TRUE, !.hi_todo = FALSE, !.state = "LATCH"]
      BY <2>1, <2>2 DEF Strobe
    <3> QED BY <1>1, <1>5, <2>2, <3>1 DEF MasterRegisters, FsmOK
  <2>3. CASE ans = "dtack"
    <3>1. s = [r EXCEPT !.state = "LATCH"]
      BY <2>1, <2>3 DEF Strobe
    <3> QED BY <1>1, <1>5, <2>3, <3>1 DEF MasterRegisters, FsmOK
  <2>4. CASE ans = ""
    <3>1. s = r
      BY <2>1, <2>4 DEF Strobe
    <3> QED BY <1>1, <1>5, <2>4, <3>1 DEF FsmOK
  <2> QED BY <2>2, <2>3, <2>4 DEF Answers
<1>6. CASE r.state = "LATCH"
  BY <1>1, <1>6 DEF Step, MasterRegisters, Halves, FsmOK
<1>7. CASE r.state = "DONE"
  BY <1>1, <1>7 DEF Step, Done, MasterRegisters, Halves, FsmOK
<1>8. CASE r.state = "ACK"
  BY <1>1, <1>8 DEF Step, MasterRegisters, Halves, FsmOK
<1>9. QED
  BY <1>1, <1>2, <1>3, <1>4, <1>5, <1>6, <1>7, <1>8 DEF MasterRegisters

\* The answer and the error latch come on top of that step, and of nothing else.
LEMMA Latches ==
  ASSUME NEW m \in Masters, NEW ans, NEW ether_reset, Step(m, fsm[m], ans) \in MasterRegisters
  PROVE  LET r == fsm[m]
             s == Step(m, r, ans)
             n == Registers(m, ans, ether_reset)
         IN  /\ n \in MasterRegisters
             /\ n.state = s.state /\ n.own = s.own /\ n.hi_todo = s.hi_todo
             /\ n.dvma_err <=> (r.dvma_err /\ ~ether_reset) \/ (r.state = "STROBE" /\ ans = "berr")
<1> DEFINE r == fsm[m]
           s == Step(m, r, ans)
           n == Registers(m, ans, ether_reset)
<1>1. PICK a \in {"", "ack", "err"}, e \in BOOLEAN :
        /\ n = [s EXCEPT !.answer = a, !.dvma_err = e]
        /\ e <=> (r.dvma_err /\ ~ether_reset) \/ (r.state = "STROBE" /\ ans = "berr")
  <2> DEFINE a0 == IF r.state # "ACK" THEN "" ELSE IF r.err_cyc THEN "err" ELSE "ack"
             e0 == (r.dvma_err /\ ~ether_reset) \/ (r.state = "STROBE" /\ ans = "berr")
  <2>1. n = [s EXCEPT !.answer = a0, !.dvma_err = e0]
    BY Zenon DEF Registers
  <2>2. a0 \in {"", "ack", "err"} /\ e0 \in BOOLEAN
    OBVIOUS
  <2>3. QED
    BY <2>1, <2>2, Zenon
<1> HIDE DEF n, s
<1>2. s \in MasterRegisters
  BY DEF s
<1>3. /\ n \in MasterRegisters
      /\ n.state = s.state /\ n.own = s.own /\ n.hi_todo = s.hi_todo
      /\ n.dvma_err <=> (r.dvma_err /\ ~ether_reset) \/ (r.state = "STROBE" /\ ans = "berr")
  BY <1>1, <1>2 DEF MasterRegisters
<1>4. QED
  BY <1>3 DEF n, s

\* One positive edge takes good registers to good ones.
LEMMA RegistersOK ==
  ASSUME NEW m \in Masters, FsmOK(fsm[m]), RequestsOK, NEW ans \in Answers, NEW ether_reset
  PROVE  /\ FsmOK(Registers(m, ans, ether_reset))
         /\ fsm[m].dvma_err /\ fsm[m].state \notin {"STROBE", "LATCH"}
              => Registers(m, ans, ether_reset).state \notin {"STROBE", "LATCH"}
<1> DEFINE r == fsm[m]
           s == Step(m, r, ans)
           n == Registers(m, ans, ether_reset)
<1>1. /\ s \in MasterRegisters
      /\ s.dvma_err = r.dvma_err
      /\ s.own <=> s.state \in {"ADDR", "STROBE", "LATCH", "DONE"}
      /\ r.dvma_err => s.state \in {"IDLE", "LATCH", "DONE", "ACK"}
      /\ r.dvma_err /\ r.state \notin {"STROBE", "LATCH"} => s.state \notin {"STROBE", "LATCH"}
      /\ r.dvma_err /\ s.state \in {"LATCH", "DONE"} => ~s.hi_todo
      /\ r.state = "STROBE" /\ ans = "berr" => s.state = "LATCH" /\ ~s.hi_todo
  BY StepOK
<1>2. /\ n \in MasterRegisters
      /\ n.state = s.state /\ n.own = s.own /\ n.hi_todo = s.hi_todo
      /\ n.dvma_err <=> (r.dvma_err /\ ~ether_reset) \/ (r.state = "STROBE" /\ ans = "berr")
  BY <1>1, Latches
<1> HIDE DEF n, s
<1>3. FsmOK(n) /\ (r.dvma_err /\ r.state \notin {"STROBE", "LATCH"} => n.state \notin {"STROBE", "LATCH"})
  BY <1>1, <1>2 DEF FsmOK
<1>4. QED
  BY <1>3 DEF n

\* What a positive edge means for the bus: a master takes it only on a grant
\* that the CPU has made good, and asks for it only while there is none.
LEMMA StepGrant ==
  ASSUME NEW m \in Masters, NEW r, FsmOK(r), r = fsm[m], RequestsOK,
         NEW ans \in Answers, NEW ether_reset
  PROVE  /\ Registers(m, ans, ether_reset).own /\ ~r.own
              => r.state = "REQ" /\ bg(m) /\ ~BUS_EN /\ ~cpu_as
         /\ Registers(m, ans, ether_reset).state \notin {"IDLE", "ACK"} /\ r.state \in {"IDLE", "ACK"}
              => ~bg(m)
<1> DEFINE s == Step(m, r, ans)
<1>1. r \in MasterRegisters
  BY DEF FsmOK
<1>2. s.own /\ ~r.own => r.state = "REQ" /\ bg(m) /\ ~BUS_EN /\ ~cpu_as
  <2>1. CASE r.state = "IDLE"
    BY <1>1, <2>1 DEF Step, Idle, Begin, Refused, MasterRegisters
  <2>2. CASE r.state = "REQ"
    BY <1>1, <2>2 DEF Step, Req, MasterRegisters
  <2>3. CASE r.state = "ADDR"
    BY <1>1, <2>3 DEF Step, MasterRegisters, FsmOK
  <2>4. CASE r.state = "STROBE"
    BY <1>1, <2>4 DEF Step, Strobe, MasterRegisters, FsmOK, Answers
  <2>5. CASE r.state = "LATCH"
    BY <1>1, <2>5 DEF Step, MasterRegisters, FsmOK
  <2>6. CASE r.state = "DONE"
    BY <1>1, <2>6 DEF Step, Done, MasterRegisters, FsmOK
  <2>7. CASE r.state = "ACK"
    BY <1>1, <2>7 DEF Step, MasterRegisters
  <2>8. QED
    BY <1>1, <2>1, <2>2, <2>3, <2>4, <2>5, <2>6, <2>7 DEF MasterRegisters
<1>3. s.state \notin {"IDLE", "ACK"} /\ r.state \in {"IDLE", "ACK"} => ~bg(m)
  <2>1. CASE r.state = "IDLE"
    BY <1>1, <2>1 DEF Step, Idle, Begin, Refused, MasterRegisters
  <2>2. CASE r.state = "ACK"
    BY <1>1, <2>2 DEF Step, MasterRegisters
  <2>3. QED
    BY <2>1, <2>2
<1>4. s \in MasterRegisters
  BY StepOK
<1>5. Registers(m, ans, ether_reset).own = s.own /\ Registers(m, ans, ether_reset).state = s.state
  BY <1>4, Latches
<1> HIDE DEF s
<1>6. QED
  BY <1>2, <1>3, <1>5
-----------------------------------------------------------------------------
\* Out of reset no master has the bus and no latch is set.
LEMMA InitFsm == Init => FsmInv
<1> DEFINE r0 == [state |-> "IDLE", half |-> "lo", hi_todo |-> FALSE, err_cyc |-> FALSE,
                  own |-> FALSE, got |-> {}, answer |-> "", dvma_err |-> FALSE]
           q0 == [want |-> FALSE, halves |-> {}]
<1>1. q0 \in [want : BOOLEAN, halves : SUBSET Halves]
  OBVIOUS
<1>2. r0 \in MasterRegisters
  BY DEF MasterRegisters, Halves
<1>3. r0.state = "IDLE" /\ r0.own = FALSE /\ r0.dvma_err = FALSE
  OBVIOUS
<1>4. ASSUME Init
      PROVE  /\ EN_DVMA = FALSE
             /\ req = [m \in Masters |-> q0] /\ fsm = [m \in Masters |-> r0]
             /\ as_ext = [m \in Masters |-> FALSE]
  BY <1>4, Zenon DEF Init
<1> HIDE DEF r0, q0
<1>5. QED
  BY <1>1, <1>2, <1>3, <1>4 DEF FsmInv, RequestsOK, FsmOK

\* What a positive edge does to all of them.
LEMMA PosEdgeFsm ==
  ASSUME FsmInv, NEW ans \in Answers, PosEdge(ans)
  PROVE  /\ FsmInv'
         /\ \A m \in Masters :
              /\ fsm[m].dvma_err /\ ~strobing(m) => ~strobing(m)'
              /\ fsm'[m].own /\ ~fsm[m].own => fsm[m].state = "REQ" /\ bg(m) /\ ~BUS_EN /\ ~cpu_as
              /\ Requesting(m)' /\ ~Requesting(m) => ~bg(m)
<1>1. PICK ether_reset \in SUBSET Masters :
        fsm' = [m \in Masters |-> Registers(m, ans, m \in ether_reset)]
  BY DEF PosEdge
<1>2. RequestsOK'
  <2>1. req' = [m \in Masters |-> IF fsm[m].answer = "" THEN req[m] ELSE [req[m] EXCEPT !.want = FALSE]]
    BY DEF PosEdge
  <2>2. \A m \in Masters : req[m] \in [want : BOOLEAN, halves : SUBSET Halves]
    BY DEF FsmInv, RequestsOK
  <2>3. \A m \in Masters : [req[m] EXCEPT !.want = FALSE] \in [want : BOOLEAN, halves : SUBSET Halves]
    BY <2>2
  <2>4. EN_DVMA' \in BOOLEAN
    BY DEF FsmInv, RequestsOK, PosEdge
  <2>5. \A m \in Masters : req'[m] \in [want : BOOLEAN, halves : SUBSET Halves]
    BY <2>1, <2>2, <2>3
  <2>6. QED
    BY <2>1, <2>4, <2>5 DEF RequestsOK
<1>3. ASSUME NEW m \in Masters
      PROVE  /\ FsmOK(fsm'[m])
             /\ fsm[m].dvma_err /\ ~strobing(m) => ~strobing(m)'
             /\ fsm'[m].own /\ ~fsm[m].own => fsm[m].state = "REQ" /\ bg(m) /\ ~BUS_EN /\ ~cpu_as
             /\ Requesting(m)' /\ ~Requesting(m) => ~bg(m)
  <2>1. fsm'[m] = Registers(m, ans, m \in ether_reset)
    BY <1>1
  <2>2. FsmOK(fsm[m]) /\ RequestsOK
    BY DEF FsmInv
  <2> DEFINE n == Registers(m, ans, m \in ether_reset)
  <2>3. /\ FsmOK(n)
        /\ fsm[m].dvma_err /\ fsm[m].state \notin {"STROBE", "LATCH"}
             => n.state \notin {"STROBE", "LATCH"}
    BY <2>2, RegistersOK
  <2>4. /\ n.own /\ ~fsm[m].own => fsm[m].state = "REQ" /\ bg(m) /\ ~BUS_EN /\ ~cpu_as
        /\ n.state \notin {"IDLE", "ACK"} /\ fsm[m].state \in {"IDLE", "ACK"} => ~bg(m)
    BY <2>2, StepGrant
  <2> HIDE DEF n
  <2>5. fsm'[m] = n
    BY <2>1 DEF n
  <2>6. QED
    BY <2>3, <2>4, <2>5 DEF strobing, Requesting
<1>4. fsm' \in [Masters -> MasterRegisters]
  BY <1>1, <1>3 DEF FsmOK
<1>5. QED
  BY <1>2, <1>3, <1>4 DEF FsmInv, PosEdge

\* Every step keeps every master's registers good, and no master whose latch
\* is set begins to strobe.
LEMMA StepFsm ==
  ASSUME FsmInv, [Next]_vars
  PROVE  /\ FsmInv'
         /\ \A m \in Masters : fsm[m].dvma_err /\ ~dvma_as(m) => ~dvma_as(m)'
<1>1. ASSUME NEW ans \in Answers, PosEdge(ans)
      PROVE  FsmInv' /\ \A m \in Masters : fsm[m].dvma_err /\ ~dvma_as(m) => ~dvma_as(m)'
  BY <1>1, PosEdgeFsm DEF dvma_as, PosEdge
<1>2. CASE NegEdge
  BY <1>2 DEF NegEdge, FsmInv, RequestsOK, dvma_as, strobing
<1>3. ASSUME NEW m \in Masters, Ask(m)
      PROVE  FsmInv' /\ \A i \in Masters : fsm[i].dvma_err /\ ~dvma_as(i) => ~dvma_as(i)'
  <2>1. RequestsOK'
    <3>1. PICK h \in Selects : req' = [req EXCEPT ![m] = [want |-> TRUE, halves |-> h]]
      BY <1>3 DEF Ask
    <3>2. [want |-> TRUE, halves |-> h] \in [want : BOOLEAN, halves : SUBSET Halves]
      BY DvmaAssumption
    <3> DEFINE q == [want |-> TRUE, halves |-> h]
    <3>3. req' = [req EXCEPT ![m] = q] /\ q \in [want : BOOLEAN, halves : SUBSET Halves]
      BY <3>1, <3>2
    <3> HIDE DEF q
    <3>4. QED
      BY <1>3, <3>3 DEF Ask, FsmInv, RequestsOK
  <2>2. QED
    BY <1>3, <2>1 DEF Ask, FsmInv, dvma_as, strobing
<1>4. CASE \/ CpuCycle \/ CpuGrants \/ CpuLetsGo \/ CpuSeesRelease \/ CpuWithdrawsGrant \/ CpuDrives
           \/ UNCHANGED vars
  <2>1. UNCHANGED <<req, fsm, as_ext>> /\ EN_DVMA' \in BOOLEAN
    BY <1>4 DEF CpuCycle, CpuGrants, CpuLetsGo, CpuSeesRelease, CpuWithdrawsGrant, CpuDrives,
                vars, FsmInv, RequestsOK
  <2>2. QED
    BY <2>1 DEF FsmInv, RequestsOK, dvma_as, strobing
<1>5. QED
  BY <1>1, <1>2, <1>3, <1>4 DEF Next

\* A bus error "stops the channel dead until the Ethernet reset bit is
\* asserted" (sun2_dvma.v 91-100): for any masters, any selects, and any time
\* the CPU takes in the handshake.
THEOREM LatchStopsTheChannel == Spec => StoppedDead
<1>1. FsmInv /\ [Next]_vars => FsmInv'
  BY StepFsm
<1>2. FsmInv /\ [Next]_vars
        => [\A m \in Masters : fsm[m].dvma_err /\ ~dvma_as(m) => ~dvma_as(m)']_vars
  BY StepFsm
<1>3. QED
  BY InitFsm, <1>1, <1>2, PTL DEF Spec, StoppedDead
-----------------------------------------------------------------------------
\* The handshake: where the CPU is in it says what it drives, and what the
\* masters may be doing.
HandshakeInv ==
  /\ cpu \in {"owns", "granting", "granted", "resuming"}
  /\ cpu = "owns" => ~P_BG
  /\ cpu = "granting" => P_BG
  /\ cpu = "granted" => P_BG
  /\ cpu \in {"owns", "granting"} => BUS_EN
  /\ cpu = "granted" => ~BUS_EN
  /\ cpu \in {"granted", "resuming"} => ~cpu_as
  /\ cpu = "resuming" => P_BG \/ ~BUS_EN
  /\ \A m \in Masters : fsm[m].own => cpu = "granted"

\* While the CPU resumes, nobody can take a grant it has not yet withdrawn.
NobodyTakes ==
  cpu = "resuming" =>
    \A m \in Masters : fsm[m].state = "REQ" /\ bg(m) => held >= Hold

\* Out of reset the CPU has the bus.
LEMMA InitHandshake == Init => HandshakeInv
<1> SUFFICES ASSUME Init PROVE HandshakeInv
  OBVIOUS
<1>1. \A m \in Masters : fsm[m].own = FALSE
  BY DEF Init
<1>2. cpu = "owns" /\ P_BG = FALSE /\ BUS_EN = TRUE
  BY DEF Init
<1>3. QED
  BY <1>1, <1>2 DEF HandshakeInv

\* As long as nobody takes such a grant, every step keeps the handshake.
LEMMA StepHandshake ==
  ASSUME FsmInv, HandshakeInv, NobodyTakes, held \in Nat, [Next]_vars
  PROVE  HandshakeInv'
<1>1. ASSUME NEW ans \in Answers, PosEdge(ans) PROVE HandshakeInv'
  <2>1. UNCHANGED <<cpu, P_BG, BUS_EN, cpu_as>> /\ (cpu = "resuming" => held < Hold)
    BY <1>1 DEF PosEdge
  <2>2. ASSUME NEW m \in Masters, fsm'[m].own PROVE cpu = "granted"
    <3>1. CASE fsm[m].own
      BY <3>1 DEF HandshakeInv
    <3>2. CASE ~fsm[m].own
      <4>1. fsm[m].state = "REQ" /\ bg(m) /\ ~BUS_EN
        BY <1>1, <2>2, <3>2, PosEdgeFsm
      <4>2. P_BG /\ cpu # "owns" /\ cpu # "granting"
        BY <4>1 DEF bg, HandshakeInv
      <4>3. cpu # "resuming"
        BY <2>1, <4>1, DvmaAssumption DEF NobodyTakes
      <4>4. QED
        BY <4>2, <4>3 DEF HandshakeInv
    <3>3. QED
      BY <3>1, <3>2
  <2>3. QED
    BY <2>1, <2>2 DEF HandshakeInv
<1>2. CASE NegEdge
  BY <1>2 DEF NegEdge, core, HandshakeInv
<1>3. ASSUME NEW m \in Masters, Ask(m) PROVE HandshakeInv'
  BY <1>3 DEF Ask, core, HandshakeInv
<1>4. CASE CpuCycle
  BY <1>4 DEF CpuCycle, HandshakeInv
<1>5. CASE CpuGrants
  BY <1>5 DEF CpuGrants, HandshakeInv
<1>6. CASE CpuLetsGo
  BY <1>6 DEF CpuLetsGo, HandshakeInv
<1>7. CASE CpuSeesRelease
  <2>1. \A m \in Masters : ~fsm[m].own
    BY <1>7 DEF CpuSeesRelease, P_BR, FsmInv, FsmOK, Requesting
  <2>2. QED
    BY <1>7, <2>1 DEF CpuSeesRelease, HandshakeInv
<1>8. CASE CpuWithdrawsGrant
  BY <1>8 DEF CpuWithdrawsGrant, HandshakeInv
<1>9. CASE CpuDrives
  BY <1>9 DEF CpuDrives, HandshakeInv
<1>10. CASE UNCHANGED vars
  BY <1>10 DEF vars, core, HandshakeInv
<1>11. QED
  BY <1>1, <1>2, <1>3, <1>4, <1>5, <1>6, <1>7, <1>8, <1>9, <1>10 DEF Next

\* The clocks since the CPU saw the request go.  At the first edge nobody asks,
\* at the second no grant is locked to anybody, and there is no third.
Counted ==
  /\ held \in 0 .. Hold /\ owner \in {"eth", "scsi"}
  /\ cpu \in {"granting", "granted"} => P_BR \/ held = 0
  /\ cpu = "resuming" /\ held = 0 => ~P_BR
  /\ Cardinality(Masters) > 1 /\ cpu = "resuming" /\ held = 1 => ~lock
  /\ Cardinality(Masters) = 1 /\ cpu = "resuming" /\ P_BG => ~P_BR

\* The hypothesis under which a grant is never met late.
InTime == Cardinality(Masters) = 1 \/ Hold <= 2

\* A master that is alone needs no lock to hold a grant; two are eth and scsi.
LEMMA OneOrTwo ==
  /\ Cardinality(Masters) = 1 => \A m \in Masters : bg(m) <=> P_BG
  /\ Cardinality(Masters) = 1 \/ (Cardinality(Masters) > 1 /\ Masters = {"eth", "scsi"})
<1>1. Cardinality(Masters) = 1 => ~(Cardinality(Masters) > 1)
  OBVIOUS
<1>2. Masters = {"eth"} \/ Masters = {"scsi"} \/ Masters = {"eth", "scsi"}
  BY DvmaAssumption
<1>3. Cardinality({"eth"}) = 1 /\ Cardinality({"scsi"}) = 1
  BY FS_Singleton
<1>4. Cardinality({"eth", "scsi"}) = 2
  <2>1. IsFiniteSet({"eth"}) /\ "scsi" \notin {"eth"}
    BY FS_Singleton
  <2>2. {"eth"} \cup {"scsi"} = {"eth", "scsi"}
    OBVIOUS
  <2>3. QED
    BY <1>3, <2>1, <2>2, FS_AddElement
<1>5. Cardinality(Masters) = 1 => \A m \in Masters : bg(m) <=> P_BG
  BY <1>1, Zenon DEF bg
<1>6. Cardinality(Masters) = 1 \/ (Cardinality(Masters) > 1 /\ Masters = {"eth", "scsi"})
  <2>1. CASE Masters = {"eth", "scsi"}
    <3>1. Cardinality(Masters) = 2
      BY <1>4, <2>1
    <3>2. QED
      BY <2>1, <3>1
  <2>2. QED
    BY <1>2, <1>3, <2>1
<1>7. QED
  BY <1>5, <1>6

\* So the counting is what keeps everybody off.
LEMMA NobodyTakesIt == ASSUME InTime, Counted PROVE NobodyTakes
<1>1. SUFFICES ASSUME cpu = "resuming", NEW m \in Masters, fsm[m].state = "REQ", bg(m), held < Hold
               PROVE  FALSE
  BY DvmaAssumption DEF NobodyTakes, Counted
<1>2. P_BR /\ P_BG
  BY <1>1 DEF P_BR, Requesting, bg
<1>3. CASE Cardinality(Masters) = 1
  BY <1>1, <1>2, <1>3 DEF Counted
<1>4. CASE Cardinality(Masters) > 1 /\ Hold <= 2
  <2>1. lock
    BY <1>1, <1>4 DEF bg
  <2>2. held = 0 \/ held = 1
    BY <1>1, <1>4, DvmaAssumption DEF Counted
  <2>3. QED
    BY <1>1, <1>2, <1>4, <2>1, <2>2 DEF Counted
<1>5. QED
  BY <1>3, <1>4, OneOrTwo DEF InTime

\* And every step keeps the count.
LEMMA StepCounted ==
  ASSUME FsmInv, HandshakeInv, Counted, [Next]_vars
  PROVE  Counted'
<1>1. ASSUME NEW ans \in Answers, PosEdge(ans) PROVE Counted'
  <2>1. /\ UNCHANGED <<cpu, P_BG>> /\ (cpu = "resuming" => held < Hold)
        /\ held' = IF cpu = "resuming" THEN held + 1 ELSE 0
        /\ IF Cardinality(Masters) > 1 THEN Arb ELSE UNCHANGED arb
    BY <1>1 DEF PosEdge
  <2>2. held' \in 0 .. Hold
    BY <2>1, DvmaAssumption DEF Counted
  <2>3. owner' \in {"eth", "scsi"}
    BY <2>1 DEF Counted, Arb, arb, First
  <2>4. cpu' = "resuming" => held' # 0
    BY <2>1, DvmaAssumption DEF Counted
  <2>5. ASSUME Cardinality(Masters) > 1, cpu' = "resuming", held' = 1 PROVE ~lock'
    <3>1. cpu = "resuming" /\ held = 0
      BY <2>1, <2>5, DvmaAssumption DEF Counted
    <3>2. ~P_BR /\ owner \in Masters
      BY <2>5, <3>1, OneOrTwo DEF Counted
    <3>3. ~Requesting(owner)
      BY <3>2 DEF P_BR
    <3>4. Arb
      BY <2>1, <2>5
    <3>5. QED
      BY <3>2, <3>3, <3>4 DEF Arb
  <2>6. ASSUME Cardinality(Masters) = 1, cpu' = "resuming", P_BG' PROVE ~P_BR'
    <3>1. P_BG /\ ~P_BR
      BY <2>1, <2>6 DEF Counted
    <3>2. \A m \in Masters : ~Requesting(m) /\ bg(m)
      BY <2>6, <3>1, OneOrTwo DEF P_BR
    <3>3. QED
      BY <1>1, <3>2, PosEdgeFsm DEF P_BR
  <2>7. cpu' \in {"granting", "granted"} => held' = 0
    BY <2>1
  <2>8. QED
    BY <2>2, <2>3, <2>4, <2>5, <2>6, <2>7 DEF Counted
<1>2. CASE NegEdge
  BY <1>2 DEF NegEdge, core, arb, Counted, P_BR, Requesting
<1>3. ASSUME NEW m \in Masters, Ask(m) PROVE Counted'
  BY <1>3 DEF Ask, core, arb, Counted, P_BR, Requesting
<1>4. CASE CpuCycle
  BY <1>4 DEF CpuCycle, arb, Counted, P_BR, Requesting
<1>5. CASE CpuGrants
  BY <1>5 DEF CpuGrants, arb, Counted, P_BR, Requesting
<1>6. CASE CpuLetsGo
  BY <1>6 DEF CpuLetsGo, arb, Counted, P_BR, Requesting
<1>7. CASE CpuSeesRelease
  BY <1>7, DvmaAssumption DEF CpuSeesRelease, arb, Counted, P_BR, Requesting
<1>8. CASE CpuWithdrawsGrant
  BY <1>8 DEF CpuWithdrawsGrant, arb, Counted, P_BR, Requesting
<1>9. CASE CpuDrives
  BY <1>9 DEF CpuDrives, arb, Counted, P_BR, Requesting
<1>10. CASE UNCHANGED vars
  BY <1>10 DEF vars, core, arb, Counted, P_BR, Requesting
<1>11. QED
  BY <1>1, <1>2, <1>3, <1>4, <1>5, <1>6, <1>7, <1>8, <1>9, <1>10 DEF Next

\* No master ever drives the bus together with the CPU, as the machine's comment
\* promises (top_fpga.v 342-343): a master that is alone never, whatever order
\* and however long the CPU takes to give its grant up; two behind the arbiter
\* when it takes no more than two clocks.
THEOREM ApartFromTheCpu ==
  Cardinality(Masters) = 1 \/ Hold <= 2 => (Spec => []NeverTogether)
<1> SUFFICES ASSUME InTime PROVE Spec => []NeverTogether
  BY DEF InTime
<1> DEFINE IInv == FsmInv /\ HandshakeInv /\ Counted
<1>1. Init => IInv
  <2>1. Init => Counted
    <3>1. 0 \in 0 .. Hold
      BY DvmaAssumption
    <3>2. Init => held = 0 /\ owner = "eth" /\ cpu = "owns"
      BY DEF Init
    <3>3. QED
      BY <3>1, <3>2 DEF Counted
  <2>2. QED
    BY <2>1, InitFsm, InitHandshake
<1>2. IInv /\ [Next]_vars => IInv'
  <2>1. Counted => held \in Nat
    BY DvmaAssumption DEF Counted
  <2>2. QED
    BY <2>1, StepFsm, StepHandshake, StepCounted, NobodyTakesIt
<1>3. IInv => NeverTogether
  BY DEF HandshakeInv, NeverTogether, dvma_active
<1> HIDE DEF IInv
<1>4. QED
  BY <1>1, <1>2, <1>3, PTL DEF Spec

-----------------------------------------------------------------------------
(* Where a byte is: the lanes of CardPaths, one write after another.        *)

\* Byte k of the beat is the byte address software calls Cross(k).
Cross(k) == IF k % 2 = 0 THEN k + 1 ELSE k - 1

\* What has been written stands across from its address; nothing else is there.
Agreed ==
  /\ written \subseteq Places
  /\ beat = [k \in Places |-> IF Cross(k) \in written THEN Cross(k) ELSE Blank]

\* Then every path finds a byte where the CPU does, and the picture shows it there.
LEMMA AgreedIsEnough == Agreed => PathsAgree
<1>1. SUFFICES ASSUME Agreed, NEW a \in Places
               PROVE  /\ Found(a) = (IF a % 2 = 0 THEN Load(beat, a).upper ELSE Load(beat, a - 1).lower)
                      /\ Found(a) = (IF a % 2 = 0 THEN LineLoad(beat, a).upper ELSE LineLoad(beat, a - 1).lower)
                      /\ Found(a) = dvma_din(beat, a \div 4, a % 4)
                      /\ \A p \in 8 * a .. 8 * a + 7 : beat[Pixel(p).place] = Found(a) /\ Pixel(p).bit = 7 - (p % 8)
  BY DEF PathsAgree
<1>2. /\ Cross(a) \in Places /\ Cross(Cross(a)) = a
  BY DEF Places, Cross
<1>3. beat[Cross(a)] = Found(a)
  BY <1>1, <1>2 DEF Agreed, Found
<1>4. Found(a) = (IF a % 2 = 0 THEN Load(beat, a).upper ELSE Load(beat, a - 1).lower)
  <2>1. CASE a % 2 = 0
    <3>1. Cross(a) = a + 1 /\ 4 * (a \div 4) + (IF (a \div 2) % 2 = 1 THEN 3 ELSE 1) = a + 1
      BY <2>1 DEF Cross, Places
    <3> QED BY <1>3, <2>1, <3>1 DEF Load, rd_lane
  <2>2. CASE a % 2 # 0
    <3>1. Cross(a) = a - 1 /\ 4 * ((a - 1) \div 4) + (IF ((a - 1) \div 2) % 2 = 1 THEN 2 ELSE 0) = a - 1
      BY <2>2 DEF Cross, Places
    <3> QED BY <1>3, <2>2, <3>1 DEF Load, rd_lane
  <2> QED BY <2>1, <2>2
<1>5. Found(a) = (IF a % 2 = 0 THEN LineLoad(beat, a).upper ELSE LineLoad(beat, a - 1).lower)
  <2>1. /\ a % 2 = 0 => Cross(a) = 2 * (a \div 2) + 1
        /\ a % 2 # 0 => Cross(a) = 2 * ((a - 1) \div 2)
    BY DEF Cross, Places
  <2> QED BY <1>3, <2>1 DEF LineLoad
<1>6. Found(a) = dvma_din(beat, a \div 4, a % 4)
  <2> DEFINE w == 4 * (a \div 4) + 2 * ((a % 4) \div 2)
  <2>1. /\ w \in Places /\ (a % 4) % 2 = a % 2 /\ w \div 4 = a \div 4
        /\ (a % 2 = 0) => Cross(a) = 4 * (w \div 4) + (IF (w \div 2) % 2 = 1 THEN 3 ELSE 1)
        /\ (a % 2 # 0) => Cross(a) = 4 * (w \div 4) + (IF (w \div 2) % 2 = 1 THEN 2 ELSE 0)
    BY DEF Cross, Places
  <2>2. dvma_din(beat, a \div 4, a % 4) = IF a % 2 = 0 THEN Load(beat, w).upper ELSE Load(beat, w).lower
    BY <2>1 DEF dvma_din
  <2> HIDE DEF w
  <2>3. dvma_din(beat, a \div 4, a % 4) = beat[Cross(a)]
    BY <2>1, <2>2 DEF Load, rd_lane
  <2> QED BY <1>3, <2>3
<1>7. ASSUME NEW p \in 8 * a .. 8 * a + 7
      PROVE  beat[Pixel(p).place] = Found(a) /\ Pixel(p).bit = 7 - (p % 8)
  <2> DEFINE bit == 16 * (p \div 16) + 15 - (p % 16)
  <2>1. bit \div 8 = Cross(a) /\ bit % 8 = 7 - (p % 8)
    <3>1. PICK i \in 0 .. 7 : p = 8 * a + i
      <4>1. p - 8 * a \in 0 .. 7 /\ p = 8 * a + (p - 8 * a)
        BY DEF Places
      <4> QED BY <4>1
    <3>2. p % 8 = i
      BY <3>1 DEF Places
    <3>3. CASE a % 2 = 0
      <4>1. p \div 16 = a \div 2 /\ p % 16 = i
        BY <3>1, <3>3 DEF Places
      <4>2. bit = 8 * (a + 1) + (7 - i)
        BY <3>3, <4>1 DEF Places
      <4> QED BY <3>2, <3>3, <4>2 DEF Places, Cross
    <3>4. CASE a % 2 # 0
      <4>1. p \div 16 = (a - 1) \div 2 /\ p % 16 = 8 + i
        BY <3>1, <3>4 DEF Places
      <4>2. bit = 8 * (a - 1) + (7 - i)
        BY <3>4, <4>1 DEF Places
      <4> QED BY <3>2, <3>4, <4>2 DEF Places, Cross
    <3> QED BY <3>3, <3>4
  <2> QED BY <1>3, <2>1 DEF Pixel
<1> QED BY <1>4, <1>5, <1>6, <1>7

\* The two places of the word at a are lanes 0 and 1, or 2 and 3, of its longword.
LEMMA LanesOfAWord ==
  ASSUME NEW a \in Places, a % 2 = 0, NEW k \in Places
  PROVE  /\ k % 4 \in 0 .. 3
         /\ (k = a + 1) <=> (k \div 4 = a \div 4 /\ (k % 4) \div 2 = (a \div 2) % 2 /\ k % 4 \in {1, 3})
         /\ (k = a) <=> (k \div 4 = a \div 4 /\ (k % 4) \div 2 = (a \div 2) % 2 /\ k % 4 \notin {1, 3})
<1>1. k % 4 \in 0 .. 3 /\ k \in Int /\ k = 4 * (k \div 4) + (k % 4) /\ k \div 4 \in Int
  BY DEF Places
<1>2. (k = a + 1) <=> (k \div 4 = a \div 4 /\ (k % 4) \div 2 = (a \div 2) % 2 /\ k % 4 \in {1, 3})
  BY <1>1 DEF Places
<1>3. (k = a) <=> (k \div 4 = a \div 4 /\ (k % 4) \div 2 = (a \div 2) % 2 /\ k % 4 \notin {1, 3})
  BY <1>1 DEF Places
<1> QED BY <1>1, <1>2, <1>3

\* A byte or word of the 68010 is stored where it belongs.
LEMMA CpuWriteAgrees ==
  ASSUME Agreed, NEW a \in Places, a % 2 = 0, NEW uds \in BOOLEAN, NEW lds \in BOOLEAN,
         CpuWrite(a, uds, lds)
  PROVE  Agreed'
<1>1. /\ beat' = [k \in Places |-> beat'[k]]
      /\ written' = written \cup (IF uds THEN {a} ELSE {}) \cup (IF lds THEN {a + 1} ELSE {})
  BY DEF CpuWrite, Store
<1>2. a \in Places /\ a + 1 \in Places
  BY DEF Places
<1>3. written' \subseteq Places
  BY <1>1, <1>2 DEF Agreed
<1>4. ASSUME NEW k \in Places PROVE beat'[k] = IF Cross(k) \in written' THEN Cross(k) ELSE Blank
  <2>1. (Cross(k) = a <=> k = a + 1) /\ (Cross(k) = a + 1 <=> k = a)
    BY DEF Cross, Places
  <2>2. beat[k] = IF Cross(k) \in written THEN Cross(k) ELSE Blank
    BY DEF Agreed
  <2>3. beat'[k] = IF k = a + 1 /\ uds THEN a ELSE IF k = a /\ lds THEN a + 1 ELSE beat[k]
    BY LanesOfAWord DEF CpuWrite, Store, mask_for, q_sel, q_dat
  <2> QED BY <1>1, <2>1, <2>2, <2>3
<1> QED BY <1>1, <1>3, <1>4 DEF Agreed

\* Byte k of the memory is one of those selected of longword l, on its crossed lane.
Hit(k, l, sel) == \E i \in sel : Cross(k) = 4 * l + i

\* Of a longword whose bytes hold their own addresses, the bytes selected.
LEMMA LongStored ==
  ASSUME NEW b, NEW l \in 0 .. 3, NEW sel \in SUBSET (0 .. 3), NEW dat,
         \A i \in sel : dat[i] = 4 * l + i, NEW k \in Places
  PROVE  StoreLong(b, l, dat, sel)[k] = IF Hit(k, l, sel) THEN Cross(k) ELSE b[k]
<1> DEFINE a0 == 4 * l
           a1 == 4 * l + 2
           x0 == StoreHalf(b, l, 0, dat, sel)
<1>1. a0 \in Places /\ a0 % 2 = 0 /\ a1 \in Places /\ a1 % 2 = 0
  BY DEF Places
<1>2. /\ 0 \in sel => dat[0] = a0
      /\ 1 \in sel => dat[1] = a0 + 1
      /\ 2 \in sel => dat[2] = a1
      /\ 3 \in sel => dat[3] = a1 + 1
  OBVIOUS
<1>3. x0 = Store(b, a0, [upper |-> dat[0], lower |-> dat[1]], 0 \in sel, 1 \in sel)
  <2>1. 4 * l + 2 * 0 = a0 /\ 2 * 0 = 0 /\ 2 * 0 + 1 = 1
    OBVIOUS
  <2> QED BY <2>1 DEF StoreHalf, dvma_dout
<1>4. StoreLong(b, l, dat, sel) = Store(x0, a1, [upper |-> dat[2], lower |-> dat[3]], 2 \in sel, 3 \in sel)
  <2>1. 4 * l + 2 * 1 = a1 /\ 2 * 1 = 2 /\ 2 * 1 + 1 = 3
    OBVIOUS
  <2> QED BY <2>1 DEF StoreLong, StoreHalf, dvma_dout
<1> HIDE DEF x0, a0, a1
<1>5. x0[k] = IF k = a0 + 1 /\ 0 \in sel THEN a0 ELSE IF k = a0 /\ 1 \in sel THEN a0 + 1 ELSE b[k]
  BY <1>1, <1>2, <1>3, LanesOfAWord DEF Store, mask_for, q_sel, q_dat
<1>6. StoreLong(b, l, dat, sel)[k] =
        IF k = a1 + 1 /\ 2 \in sel THEN a1 ELSE IF k = a1 /\ 3 \in sel THEN a1 + 1 ELSE x0[k]
  BY <1>1, <1>2, <1>4, LanesOfAWord DEF Store, mask_for, q_sel, q_dat
<1>7. k \in Int /\ Cross(k) = (IF k % 2 = 0 THEN k + 1 ELSE k - 1) /\ Cross(k) \in Int
  BY DEF Places, Cross
<1>8. Hit(k, l, sel) <=>
        \/ k = a0 + 1 /\ 0 \in sel
        \/ k = a0     /\ 1 \in sel
        \/ k = a1 + 1 /\ 2 \in sel
        \/ k = a1     /\ 3 \in sel
  BY <1>7 DEF a0, a1, Hit
<1> QED BY <1>1, <1>5, <1>6, <1>7, <1>8 DEF Places

\* A longword whose bytes hold their own addresses is stored where it belongs.
LEMMA LongAgrees ==
  ASSUME Agreed, NEW l \in 0 .. 3, NEW sel \in SUBSET (0 .. 3), NEW dat,
         \A i \in sel : dat[i] = 4 * l + i,
         beat' = StoreLong(beat, l, dat, sel), written' = written \cup {4 * l + i : i \in sel}
  PROVE  Agreed'
<1>1. beat' = [k \in Places |-> beat'[k]]
  BY DEF StoreLong, StoreHalf, Store
<1>2. written' \subseteq Places
  <2>1. {4 * l + i : i \in sel} \subseteq Places
    BY DEF Places
  <2> QED BY <2>1 DEF Agreed
<1>3. ASSUME NEW k \in Places PROVE beat'[k] = IF Cross(k) \in written' THEN Cross(k) ELSE Blank
  <2>1. beat'[k] = IF Hit(k, l, sel) THEN Cross(k) ELSE beat[k]
    BY LongStored
  <2>2. beat[k] = IF Cross(k) \in written THEN Cross(k) ELSE Blank
    BY DEF Agreed
  <2>3. Cross(k) \in written' <=> Cross(k) \in written \/ Hit(k, l, sel)
    BY Zenon DEF Hit
  <2> QED BY <2>1, <2>2, <2>3
<1> QED BY <1>1, <1>2, <1>3 DEF Agreed

-----------------------------------------------------------------------------
(* The SCSI engine, one clock in each of its states.                         *)

\* What the engine's registers may be.
EngineOK ==
  /\ DOMAIN eng = {"dst", "stage", "stage_sel", "chunk_adr", "out_lane", "nbytes_odd", "ack", "wb_req",
                   "wb_we", "adv", "err", "hold", "odd_byte"}
  /\ eng.dst \in {"IDLE", "IN", "INACK", "FLUSH", "FETCH", "OUT", "OUTACK"}
  /\ eng.stage_sel \in SUBSET (0 .. 3)
  /\ eng.ack \in BOOLEAN /\ eng.adv \in BOOLEAN /\ eng.wb_req \in BOOLEAN /\ eng.wb_we \in BOOLEAN
  /\ eng.nbytes_odd \in BOOLEAN /\ eng.err \in BOOLEAN /\ eng.hold \in BOOLEAN

\* The master is busy with, and answers, only what is asked, once.
Asked ==
  /\ dvma.ans \in {"", "ack", "err"} /\ (dvma.ans # "" => eng.wb_req /\ dvma.st = "IDLE")
  /\ dvma.st \in {"IDLE", "BUS", "ACK", "ERR"} /\ (dvma.st # "IDLE" => eng.wb_req /\ dvma.ans = "")

Offered == dma_armed /\ T.req

SameLong == eng'.stage = eng.stage /\ eng'.stage_sel = eng.stage_sel /\ eng'.chunk_adr = eng.chunk_adr
SameAsk  == eng'.wb_req = eng.wb_req /\ eng'.wb_we = eng.wb_we
NoTake   == eng'.adv = FALSE /\ eng'.ack = eng.ack

\* The engine's registers with the pulses of one clock down, as each state finds them.
Lowered == [eng EXCEPT !.adv = FALSE, !.err = FALSE, !.hold = FALSE, !.odd_byte = Blank]

\* What they are then: every other register is left alone.
LoweredOK ==
  /\ DOMAIN Lowered = DOMAIN eng
  /\ Lowered.adv = FALSE /\ Lowered.err = FALSE /\ Lowered.hold = FALSE
  /\ Lowered.dst = eng.dst /\ Lowered.stage = eng.stage /\ Lowered.stage_sel = eng.stage_sel
  /\ Lowered.chunk_adr = eng.chunk_adr /\ Lowered.out_lane = eng.out_lane
  /\ Lowered.nbytes_odd = eng.nbytes_odd /\ Lowered.ack = eng.ack
  /\ Lowered.wb_req = eng.wb_req /\ Lowered.wb_we = eng.wb_we

\* Nothing but the pulses differs.
LEMMA LoweredRegisters == ASSUME EngineOK PROVE LoweredOK
BY DEF EngineOK, Lowered, LoweredOK

\* One clock of the engine is the state's own step from there.
LEMMA EngineByState ==
  ASSUME EngineOK, Engine
  PROVE  /\ eng.dst = "IDLE"   => eng' = D_IDLE(Lowered)
         /\ eng.dst = "IN"     => eng' = D_IN(Lowered)
         /\ eng.dst = "INACK"  => eng' = D_INACK(Lowered)
         /\ eng.dst = "FLUSH"  => eng' = D_FLUSH(Lowered)
         /\ eng.dst = "FETCH"  => eng' = D_FETCH(Lowered)
         /\ eng.dst = "OUT"    => eng' = D_OUT(Lowered)
         /\ eng.dst = "OUTACK" => eng' = D_OUTACK(Lowered)
<1>1. eng' = CASE Lowered.dst = "IDLE"   -> D_IDLE(Lowered)
               [] Lowered.dst = "IN"     -> D_IN(Lowered)
               [] Lowered.dst = "INACK"  -> D_INACK(Lowered)
               [] Lowered.dst = "FLUSH"  -> D_FLUSH(Lowered)
               [] Lowered.dst = "FETCH"  -> D_FETCH(Lowered)
               [] Lowered.dst = "OUT"    -> D_OUT(Lowered)
               [] Lowered.dst = "OUTACK" -> D_OUTACK(Lowered)
  BY Zenon DEF Engine, Lowered
<1>2. Lowered.dst = eng.dst
  BY LoweredRegisters DEF LoweredOK
<1> QED BY <1>1, <1>2

\* IDLE waits for a byte, in either direction, with nothing staged.
LEMMA EngineInIdle ==
  ASSUME EngineOK, Engine, eng.dst = "IDLE"
  PROVE  /\ EngineOK' /\ NoTake
         /\ eng'.stage_sel = {} /\ eng'.stage = NoLong
         /\ eng'.wb_req = eng.wb_req
         /\ eng'.wb_we => eng.wb_req /\ eng.wb_we
         /\ eng'.dst \in {"IDLE", "IN", "FETCH"}
         /\ eng'.dst # "IDLE" => Offered /\ left # 0
         /\ eng'.dst # "IDLE" => eng'.dst = IF io THEN "IN" ELSE "FETCH"
<1>0. LoweredOK
  BY LoweredRegisters
<1>1. eng' = D_IDLE(Lowered)
  BY EngineByState
<1>2. /\ DOMAIN eng' = DOMAIN eng /\ NoTake
      /\ eng'.stage_sel = {} /\ eng'.stage = NoLong /\ eng'.nbytes_odd = FALSE
      /\ eng'.err = FALSE /\ eng'.hold = FALSE
      /\ eng'.wb_req = eng.wb_req /\ (eng'.wb_we <=> eng.wb_req /\ eng.wb_we)
      /\ eng'.wb_we \in BOOLEAN
      /\ eng'.dst = IF ~(dma_armed /\ ~dma_done /\ T.req) THEN "IDLE" ELSE IF io THEN "IN" ELSE "FETCH"
  <2> QED BY <1>1, <1>0 DEF LoweredOK, EngineOK, D_IDLE, Forget, NoTake
<1>3. EngineOK'
  BY <1>2 DEF EngineOK, NoTake
<1> QED BY <1>2, <1>3 DEF Offered, dma_done

\* IN takes the byte offered, into the longword or alone, or leaves.
LEMMA EngineInIn ==
  ASSUME EngineOK, Engine, eng.dst = "IN", dma_addr \in Nat
  PROVE  /\ EngineOK' /\ SameAsk
         /\ \/ /\ Offered /\ left # 0 /\ eng'.adv = TRUE /\ eng'.ack = TRUE /\ eng'.dst = "INACK"
               /\ \/ SameLong
                  \/ /\ eng'.chunk_adr = IF eng.stage_sel = {} THEN dma_addr \div 4 ELSE eng.chunk_adr
                     /\ eng'.stage = [eng.stage EXCEPT ![cur_lane] = data]
                     /\ eng'.stage_sel = eng.stage_sel \cup {cur_lane}
            \/ /\ NoTake /\ SameLong /\ eng'.dst \in {"IN", "IDLE", "FLUSH"}
               /\ eng'.dst = "FLUSH" => eng.stage_sel # {}
               /\ eng'.dst = "IDLE" => eng.stage_sel = {}
               /\ eng'.dst = "IN" => dma_armed
<1>0. LoweredOK
  BY LoweredRegisters
<1>1. dma_addr % 4 \in 0 .. 3
  OBVIOUS
<1>2. CASE Offered /\ left # 0 /\ odd_tail
  <2>e. eng' = D_IN(Lowered)
    BY <1>1, <1>2, EngineByState
  <2> QED BY <1>1, <1>2, <2>e, <1>0 DEF LoweredOK, EngineOK, D_IN, TakeByte, Offered, dma_done, odd_tail, SameLong, SameAsk, dma_last
<1>3. CASE Offered /\ left # 0 /\ ~odd_tail
  <2>1. eng' = [Gather(Lowered) EXCEPT !.adv = TRUE, !.nbytes_odd = ~@, !.ack = TRUE, !.dst = "INACK"]
    <3>e. eng' = D_IN(Lowered)
      BY <1>3, EngineByState
    <3> QED BY <1>3, <3>e, <1>0 DEF LoweredOK, EngineOK, D_IN, TakeByte, Offered, dma_done, odd_tail, dma_last
  <2>2. /\ DOMAIN eng' = DOMAIN eng
        /\ eng'.chunk_adr = IF eng.stage_sel = {} THEN dma_addr \div 4 ELSE eng.chunk_adr
        /\ eng'.stage = [eng.stage EXCEPT ![cur_lane] = data]
        /\ eng'.stage_sel = eng.stage_sel \cup {cur_lane}
        /\ SameAsk /\ eng'.adv = TRUE /\ eng'.ack = TRUE /\ eng'.dst = "INACK"
    <3> QED BY <2>1, <1>0 DEF LoweredOK, EngineOK, Gather, SameAsk
  <2>3. eng'.nbytes_odd \in BOOLEAN /\ eng'.err \in BOOLEAN /\ eng'.hold \in BOOLEAN
    BY <2>1, <1>0 DEF LoweredOK, EngineOK, Gather
  <2>4. EngineOK'
    BY <1>1, <2>2, <2>3 DEF EngineOK, SameAsk, cur_lane
  <2> QED BY <1>3, <2>2, <2>4
<1>4. CASE ~(Offered /\ left # 0)
  <2>e. eng' = D_IN(Lowered)
    BY <1>4, EngineByState
  <2> QED BY <1>4, <2>e, <1>0 DEF LoweredOK, EngineOK, D_IN, Settled, Offered, dma_done, SameLong, SameAsk, NoTake
<1> QED BY <1>2, <1>3, <1>4

\* INACK holds ACK until REQ has gone.
LEMMA EngineInInAck ==
  ASSUME EngineOK, Engine, eng.dst = "INACK"
  PROVE  /\ EngineOK' /\ SameAsk /\ SameLong /\ eng'.adv = FALSE
         /\ T.req => eng'.ack = eng.ack /\ eng'.dst = "INACK"
         /\ ~T.req => /\ eng'.ack = FALSE /\ eng'.dst \in {"IN", "FLUSH"}
                      /\ eng'.dst = "IN" => cur_lane # 0 \/ eng.stage_sel = {}
                      /\ eng'.dst = "FLUSH" => eng.stage_sel # {}
<1>0. LoweredOK
  BY LoweredRegisters
<1>e. eng' = D_INACK(Lowered)
  BY EngineByState
<1> QED BY <1>e, <1>0 DEF LoweredOK, EngineOK, D_INACK, SameLong, SameAsk

\* FLUSH asks for the bus, and waits for the answer.
LEMMA EngineInFlush ==
  ASSUME EngineOK, Asked, Engine, eng.dst = "FLUSH"
  PROVE  /\ EngineOK' /\ NoTake /\ eng'.chunk_adr = eng.chunk_adr
         /\ \/ ~eng.wb_req /\ eng'.wb_req = TRUE /\ SameLong /\ eng'.dst = "FLUSH"
            \/ /\ dvma.ans # "" /\ eng'.wb_req = FALSE
               /\ eng'.stage_sel = {} /\ eng'.stage = NoLong
               /\ eng'.dst \in {"IN", "IDLE"}
            \/ eng.wb_req /\ dvma.ans = "" /\ SameAsk /\ SameLong /\ eng'.dst = "FLUSH"
<1>0. LoweredOK
  BY LoweredRegisters
<1>1. CASE eng.wb_req = FALSE
  <2>e. eng' = D_FLUSH(Lowered)
    BY <1>1, EngineByState
  <2> QED BY <1>1, <2>e, <1>0 DEF LoweredOK, EngineOK, Asked, D_FLUSH, SameLong, NoTake
<1>2. CASE eng.wb_req /\ dvma.ans = "ack"
  <2>e. eng' = D_FLUSH(Lowered)
    BY <1>2, EngineByState
  <2> QED BY <1>2, <2>e, <1>0 DEF LoweredOK, EngineOK, D_FLUSH, Flushed, NoTake
<1>3. CASE eng.wb_req /\ dvma.ans = "err"
  <2>e. eng' = D_FLUSH(Lowered)
    BY <1>3, EngineByState
  <2> QED BY <1>3, <2>e, <1>0 DEF LoweredOK, EngineOK, D_FLUSH, Flushed, NoTake
<1>4. CASE eng.wb_req /\ dvma.ans = ""
  <2>e. eng' = D_FLUSH(Lowered)
    BY <1>4, EngineByState
  <2> QED BY <1>4, <2>e, <1>0 DEF LoweredOK, EngineOK, Asked, D_FLUSH, SameLong, SameAsk, NoTake
<1> QED BY <1>1, <1>2, <1>3, <1>4 DEF EngineOK, Asked

\* What FLUSH asks for is a write, and one that is told done leaves nothing staged.
LEMMA FlushOutcome ==
  ASSUME EngineOK, Asked, Engine, eng.dst = "FLUSH"
  PROVE  \/ ~eng.wb_req /\ eng'.wb_req = TRUE /\ eng'.wb_we = TRUE
         \/ dvma.ans = "ack" /\ eng'.wb_req = FALSE /\ eng'.dst = "IN"
         \/ dvma.ans = "err" /\ eng'.wb_req = FALSE /\ eng'.err /\ eng'.dst = "IDLE"
         \/ eng.wb_req /\ dvma.ans = "" /\ SameAsk
<1>0. LoweredOK
  BY LoweredRegisters
<1>1. eng' = D_FLUSH(Lowered)
  BY EngineByState
<1>2. CASE eng.wb_req = FALSE
  <2>1. eng' = [Lowered EXCEPT !.wb_req = TRUE, !.wb_we = TRUE]
    <3>1. ~Lowered.wb_req
      BY <1>2, <1>0 DEF LoweredOK
    <3> QED BY <1>1, <3>1, <1>0 DEF LoweredOK, D_FLUSH, Asked
  <2> QED BY <1>2, <1>0, <2>1 DEF LoweredOK, EngineOK
<1>3. CASE eng.wb_req /\ dvma.ans = "ack"
  BY <1>1, <1>3, <1>0 DEF LoweredOK, EngineOK, D_FLUSH, Flushed
<1>4. CASE eng.wb_req /\ dvma.ans = "err"
  BY <1>1, <1>4, <1>0 DEF LoweredOK, EngineOK, D_FLUSH, Flushed
<1>5. CASE eng.wb_req /\ dvma.ans = ""
  BY <1>1, <1>5, <1>0 DEF LoweredOK, EngineOK, D_FLUSH, SameAsk
<1> QED BY <1>2, <1>3, <1>4, <1>5 DEF EngineOK, Asked

\* FETCH asks for the longword, and leaves when the phase is given up.
LEMMA EngineInFetch ==
  ASSUME EngineOK, Asked, Engine, eng.dst = "FETCH"
  PROVE  /\ EngineOK' /\ NoTake
         /\ eng'.wb_req /\ eng'.wb_we => eng.wb_req /\ eng.wb_we
         /\ eng.wb_req /\ dvma.ans = "" => eng'.wb_req
         /\ eng'.dst \in {"IDLE", "FETCH", "OUT"}
         /\ ~dma_armed => eng'.dst = "IDLE"
<1>0. LoweredOK
  BY LoweredRegisters
<1>1. eng' = D_FETCH(Lowered)
  BY EngineByState
<1>2. CASE ~dma_armed \/ dma_done
  BY <1>1, <1>2, <1>0 DEF LoweredOK, EngineOK, D_FETCH, NoTake
<1>3. CASE dma_armed /\ ~dma_done /\ eng.wb_req = FALSE
  BY <1>1, <1>3, <1>0 DEF LoweredOK, EngineOK, Asked, D_FETCH, NoTake
<1>4. CASE dma_armed /\ ~dma_done /\ eng.wb_req /\ dvma.ans # ""
  BY <1>1, <1>4, <1>0 DEF LoweredOK, EngineOK, D_FETCH, NoTake
<1>5. CASE dma_armed /\ ~dma_done /\ eng.wb_req /\ dvma.ans = ""
  BY <1>1, <1>5, <1>0 DEF LoweredOK, EngineOK, D_FETCH, NoTake
<1> QED BY <1>2, <1>3, <1>4, <1>5 DEF EngineOK

\* OUT hands a byte over when the target asks.
LEMMA EngineInOut ==
  ASSUME EngineOK, Engine, eng.dst = "OUT"
  PROVE  /\ EngineOK' /\ SameAsk
         /\ \/ Offered /\ left # 0 /\ eng'.adv = TRUE /\ eng'.ack = TRUE /\ eng'.dst = "OUTACK"
            \/ /\ NoTake /\ eng'.dst \in {"IDLE", "OUT"}
               /\ eng'.dst = "OUT" => dma_armed
<1>0. LoweredOK
  BY LoweredRegisters
<1>e. eng' = D_OUT(Lowered)
  BY EngineByState
<1> QED BY <1>e, <1>0 DEF LoweredOK, EngineOK, D_OUT, NoTake, SameAsk, Offered, dma_done

\* OUTACK holds ACK until REQ has gone.
LEMMA EngineInOutAck ==
  ASSUME EngineOK, Engine, eng.dst = "OUTACK"
  PROVE  /\ EngineOK' /\ SameAsk /\ eng'.adv = FALSE
         /\ T.req => eng'.ack = eng.ack /\ eng'.dst = "OUTACK"
         /\ ~T.req => eng'.ack = FALSE /\ eng'.dst \in {"FETCH", "OUT"}
<1>0. LoweredOK
  BY LoweredRegisters
<1>e. eng' = D_OUTACK(Lowered)
  BY EngineByState
<1> QED BY <1>e, <1>0 DEF LoweredOK, EngineOK, D_OUTACK, SameAsk

-----------------------------------------------------------------------------
(* The invariant of the channel that gathers the bytes.                      *)

Acking == eng.dst \in {"INACK", "OUTACK"}
Moving == T.ph \in {"in", "out"}

ChannelOK ==
  /\ drv \in Driver /\ job \in Transfers
  /\ mpu.last \in {"fetch", "access"} /\ mpu.busy \in 0 .. 3
  /\ dma_addr \in Nat /\ left \in Nat
  /\ icr.sel \in BOOLEAN /\ icr.rst \in BOOLEAN /\ icr.dma \in BOOLEAN
  /\ ack_q \in BOOLEAN
  /\ DOMAIN T = {"ph", "req", "n", "want"}
  /\ T.ph \in {"free", "selected", "command", "in", "out", "status"} /\ T.req \in BOOLEAN
  /\ T.n \in Nat /\ T.want \in Nat
  /\ DOMAIN dvma = {"st", "ans", "rd", "latched"}

\* What the control register says of the driver.
Controlled ==
  /\ icr.rst <=> drv = "reset"
  /\ icr.sel <=> drv = "select"
  /\ drv \in {"select", "reset"} => icr.dma = FALSE
  /\ drv \in {"setup", "command", "wait", "status", "fail"} => icr.dma = TRUE

\* Where the target is while the driver is somewhere.
InStep ==
  /\ T.ph \in {"free", "selected"} => T.req = FALSE
  /\ drv = "start" => T.ph \in {"free", "status"}
  /\ drv = "select" => T.ph \in {"free", "selected"}
  /\ drv \in {"setup", "command"} => T.ph = "selected" \/ (T.ph = "command" /\ T.n = 0)
  /\ drv \in {"wait", "fail"} => T.ph \in {"command", "in", "out", "status"}
  /\ drv = "status" => T.ph = "status"
  /\ drv \notin {"start", "reset"} /\ T.ph = "status" => T.n = 0
  /\ drv = "reset" => T.ph = "free" \/ (mpu.last = "access" /\ mpu.busy = 3)

\* An ACK stands in the phase it was given in, or for the clocks a reset needs.
Acknowledged ==
  /\ ack_q => \/ T.ph = "command" /\ drv \in {"wait", "fail"}
              \/ T.ph = "status" /\ drv = "start"
              \/ drv = "reset" /\ mpu.last = "access" /\ mpu.busy \in {2, 3}
  /\ eng.ack <=> Acking
  /\ Acking => \/ Moving /\ drv \in {"wait", "fail"}
               \/ drv = "reset" /\ mpu.last = "access" /\ mpu.busy \in {2, 3}
  /\ eng.adv => Acking /\ left # 0 /\ (T.req \/ drv = "reset")

\* The engine is done with a transfer before the CPU can read the status byte of
\* it, and before it can begin the next.
WoundUp ==
  drv \in {"start", "status"} =>
    \/ eng.dst = "IDLE"
    \/ eng.dst = "IN" /\ eng.stage_sel = {} /\ (mpu.last = "access" \/ mpu.busy \in {1, 2, 3})
    \/ eng.dst = "FLUSH" /\ eng.wb_req /\ (mpu.ran \/ mpu.last = "access")
    \/ eng.dst = "FLUSH" /\ mpu.last = "access" /\ mpu.busy \in {1, 2, 3}
    \/ ~Acking /\ mpu.last = "access" /\ mpu.busy \in {2, 3}

\* The CPU has not ended a cycle since the master handed the bus back, nor, while a
\* write is refused, a second one since it was asked for.
HandedBack ==
  /\ dvma.st = "ACK" /\ (eng.dst = "FLUSH" \/ (eng.dst \in {"IN", "INACK"} /\ ~eng.adv /\ eng.stage_sel # {})) =>
       mpu.busy = 3
  /\ dvma.ans = "ack" /\ eng.dst = "FLUSH" /\ drv # "reset" => mpu.busy \in {2, 3}
  /\ eng.wb_req /\ eng.wb_we =>
       /\ dvma.st = "ERR" /\ mpu.ran => mpu.busy = 3
       /\ dvma.ans = "err" /\ mpu.ran => mpu.busy \in {2, 3}
       /\ dvma.st = "IDLE" /\ dvma.ans = "" /\ (~dvma_on \/ dvma.latched) => ~mpu.ran

AtRest ==
  /\ drv \in {"select", "setup", "command"} => eng.dst = "IDLE"
  /\ T.ph = "command" /\ drv # "reset" => eng.dst = "IDLE"

\* The DMA address follows the bytes the target has moved.
Tracks ==
  drv \in {"command", "wait", "status", "fail"} =>
    /\ dma_addr + left = job.at + job.len
    /\ T.ph \in {"selected", "command"} => dma_addr = job.at
    /\ Moving => dma_addr + (IF eng.adv THEN 1 ELSE 0) = job.at + T.n + (IF Acking /\ T.req THEN 1 ELSE 0)

\* What is staged for the longword at chunk_adr, byte i of it is address 4*chunk_adr+i.
StagedAt(e) ==
  /\ e.stage = [i \in 0 .. 3 |-> e.stage[i]]
  /\ \A i \in e.stage_sel : e.stage[i] = 4 * e.chunk_adr + i
  /\ e.stage_sel # {} => e.chunk_adr \in 0 .. 3

Staged ==
  /\ eng.dst \in {"IN", "INACK", "FLUSH"} => StagedAt(eng)
  /\ eng.dst = "FLUSH" => eng.stage_sel # {}
  /\ drv \in {"wait", "fail"} /\ Moving /\ eng.stage_sel # {} =>
       /\ eng.dst = "IN" => dma_addr \div 4 = eng.chunk_adr
       /\ eng.dst = "INACK" => (dma_addr + (IF eng.adv THEN 1 ELSE 0) - 1) \div 4 = eng.chunk_adr
  /\ eng.wb_req /\ eng.wb_we => eng.dst = "FLUSH"

ChannelInv ==
  /\ EngineOK /\ Asked /\ ChannelOK /\ Controlled /\ InStep /\ Acknowledged /\ WoundUp /\ AtRest
  /\ HandedBack /\ Tracks /\ Staged

Cycles == Accesses \cup {"none", "fetch"}
-----------------------------------------------------------------------------
\* A bus cycle takes the CPU four clocks, and the bus from it while one is asked.
LEMMA CpuClock ==
  ASSUME ChannelOK, NEW cyc \in Cycles, Mpu(cyc)
  PROVE  /\ mpu'.last \in {"fetch", "access"} /\ mpu'.busy \in 0 .. 3
         /\ cyc = "none" => mpu'.last = mpu.last
         /\ cyc # "none" => /\ mpu.busy = 0 /\ mpu.busy \notin {1, 2, 3} /\ mpu'.busy = 3
                            /\ eng.wb_req => ~mpu.ran
         /\ cyc = "fetch" => mpu.last = "access"
         /\ cyc \in Accesses => mpu.last = "fetch" /\ mpu'.last = "access"
         /\ BusBack => mpu'.busy = 3
         /\ mpu.busy \in {2, 3} => mpu'.busy \in {1, 2, 3}
         /\ mpu.busy = 3 => mpu'.busy \in {2, 3}
         /\ mpu'.ran <=> eng.wb_req /\ dvma.ans = "" /\ (mpu.ran \/ cyc # "none")
<1> DEFINE ran == eng.wb_req /\ dvma.ans = "" /\ (mpu.ran \/ cyc # "none")
           busy == IF cyc # "none" \/ BusBack THEN CycleClocks - 1
                   ELSE IF mpu.busy = 0 THEN 0 ELSE mpu.busy - 1
<1>1. mpu' = [last |-> CASE cyc = "none" -> mpu.last [] cyc = "fetch" -> "fetch" [] OTHER -> "access",
              ran |-> ran, busy |-> busy]
  BY DEF Mpu
<1>2. /\ busy \in 0 .. 3
      /\ mpu.busy \in {2, 3} => busy \in {1, 2, 3}
      /\ mpu.busy = 3 => busy \in {2, 3}
      /\ cyc # "none" \/ BusBack => busy = 3
  <2>1. mpu.busy = 0 \/ mpu.busy = 1 \/ mpu.busy = 2 \/ mpu.busy = 3
    BY DEF ChannelOK
  <2>2. CycleClocks - 1 = 3
    BY DEF CycleClocks
  <2>3. busy = IF cyc # "none" \/ BusBack THEN 3 ELSE IF mpu.busy = 0 THEN 0 ELSE mpu.busy - 1
    BY <2>2
  <2> HIDE DEF busy
  <2>4. cyc # "none" \/ BusBack => busy = 3
    BY <2>3
  <2>5. busy = 3 \/ busy = IF mpu.busy = 0 THEN 0 ELSE mpu.busy - 1
    BY <2>3
  <2>6. busy \in 0 .. 3 /\ (mpu.busy \in {2, 3} => busy \in {1, 2, 3}) /\ (mpu.busy = 3 => busy \in {2, 3})
    BY <2>1, <2>5
  <2> QED BY <2>4, <2>5, <2>6
<1>7. mpu.busy = 0 => mpu.busy \notin {1, 2, 3}
  OBVIOUS
<1> HIDE DEF busy
<1>3. mpu'.busy = busy /\ (mpu'.ran <=> ran)
  BY <1>1
<1> HIDE DEF ran
<1>4. CASE cyc = "none"
  BY <1>1, <1>2, <1>3, <1>4 DEF ChannelOK, Accesses, ran
<1>5. CASE cyc = "fetch"
  <2>1. OnBus /\ mpu.last = "access"
    BY <1>5 DEF Mpu
  <2> QED BY <1>1, <1>2, <1>7, <1>3, <1>5, <2>1 DEF OnBus, Accesses, ran
<1>6. CASE cyc \in Accesses
  <2>1. OnBus /\ mpu.last = "fetch" /\ cyc # "none" /\ cyc # "fetch"
    BY <1>6 DEF Mpu, Accesses
  <2> QED BY <1>1, <1>2, <1>7, <1>3, <1>6, <2>1 DEF OnBus, ran
<1> QED BY <1>4, <1>5, <1>6 DEF Cycles

\* What each cycle of the driver finds, and leaves.
LEMMA DriverMoves ==
  ASSUME ChannelOK, NEW cyc \in Cycles, Mpu(cyc)
  PROVE  /\ drv' \in Driver /\ job' \in Transfers
         /\ cyc # "select" => job' = job /\ dvma_on' = dvma_on
         /\ cyc \in {"none", "fetch"} => drv' = drv
         /\ cyc = "select"  => drv = "start" /\ drv' = "select" /\ ~bsy
         /\ cyc = "arm"     => drv = "select" /\ drv' = "setup" /\ bsy
         /\ cyc = "setup"   => drv = "setup" /\ drv' = "command"
         /\ cyc = "cdb"     => drv = "command" /\ drv' = "wait" /\ cmd_phase
         /\ cyc = "poll"    => /\ drv = "wait" /\ drv' \in {"status", "fail"}
                               /\ drv' = "status" => ~cmd_phase /\ ~(data_phase /\ icr.dma)
         /\ cyc = "status"  => drv = "status" /\ drv' = "start" /\ T.ph = "status"
         /\ cyc = "reset"   => drv \notin {"start", "reset"} /\ drv' = "reset"
         /\ cyc = "release" => drv = "reset" /\ drv' = "start"
<1>1. CASE cyc \in {"none", "fetch"}
  BY <1>1 DEF Mpu, ChannelOK
<1>2. CASE cyc \in Accesses
  <2>1. Access(cyc)
    BY <1>2 DEF Mpu, Accesses
  <2>2. CASE cyc = "select"
    BY <2>1, <2>2 DEF Access, Moves, Driver
  <2>3. CASE cyc = "arm"
    BY <2>1, <2>3 DEF Access, Moves, ChannelOK, Driver
  <2>4. CASE cyc = "setup"
    BY <2>1, <2>4 DEF Access, Moves, ChannelOK, Driver
  <2>5. CASE cyc = "cdb"
    BY <2>1, <2>5 DEF Access, Moves, ChannelOK, Driver
  <2>6. CASE cyc = "poll"
    BY <2>1, <2>6 DEF Access, Moves, ChannelOK, Driver, st_int
  <2>7. CASE cyc = "status"
    BY <2>1, <2>7 DEF Access, Moves, ChannelOK, Driver
  <2>8. CASE cyc = "reset"
    <3>1. PICK at \in Driver \ {"start", "reset"} : Moves(cyc, at, "reset")
      BY <2>1, <2>8 DEF Access
    <3> QED BY <3>1, <2>8 DEF Moves, ChannelOK, Driver
  <2>9. CASE cyc = "release"
    <3>1. Moves(cyc, "reset", "start")
      BY <2>1, <2>9 DEF Access
    <3> QED BY <3>1, <2>9 DEF Moves, ChannelOK, Driver
  <2> QED BY <1>2, <2>2, <2>3, <2>4, <2>5, <2>6, <2>7, <2>8, <2>9 DEF Accesses
<1> QED BY <1>1, <1>2 DEF Cycles

-----------------------------------------------------------------------------
(* One clock of all of it.                                                   *)

ChannelStep(cyc) ==
  Engine /\ RegisterFile(cyc) /\ Pio(cyc) /\ RequestLatch /\ Mpu(cyc) /\ Target /\ Master(cyc)

\* What the target may do in a clock.
LEMMA TargetMoves ==
  ASSUME ChannelOK, Target
  PROVE  /\ DOMAIN T' = {"ph", "req", "n", "want"} /\ T'.n \in Nat /\ T'.want \in Nat
         /\ T'.ph \in {"free", "selected", "command", "in", "out", "status"} /\ T'.req \in BOOLEAN
         /\ \/ icr.rst /\ T'.ph = "free" /\ T'.req = FALSE
            \/ ~icr.rst /\ T' = T
            \/ ~icr.rst /\ T.ph = "free" /\ icr.sel /\ T'.ph = "selected" /\ T'.req = FALSE
            \/ ~icr.rst /\ T.ph = "selected" /\ ~icr.sel /\ T'.ph = "command" /\ T'.req = FALSE /\ T'.n = 0
            \/ /\ ~icr.rst /\ T.req /\ ack /\ T'.ph = T.ph /\ T'.req = FALSE
               /\ T'.n = T.n + 1 /\ T'.want = T.want
            \/ /\ ~icr.rst /\ T.ph \notin {"free", "selected"} /\ T.req = FALSE /\ ~ack
               /\ T'.ph = T.ph /\ T'.req = TRUE /\ T'.n = T.n /\ T'.want = T.want
            \/ /\ ~icr.rst /\ T.ph = "command" /\ T.n = 1 /\ T.req = FALSE /\ ~ack
               /\ T'.ph \in {"status", "in", "out"} /\ T'.req = FALSE /\ T'.n = 0
               /\ (T'.ph = "status" /\ T'.want = 0) \/ T'.ph = job.dir
            \/ /\ ~icr.rst /\ Moving /\ T.req = FALSE /\ ~ack
               /\ T'.ph = "status" /\ T'.req = FALSE /\ T'.n = 0 /\ T'.want = T.want /\ T.n = T.want
            \/ ~icr.rst /\ T.ph = "status" /\ T.n = 1 /\ T.req = FALSE /\ ~ack /\ T'.ph = "free" /\ T'.req = FALSE
<1>1. job.dir \in {"in", "out"} /\ Moved \subseteq Nat
  BY ScsiAssumption DEF ChannelOK
<1>2. CASE icr.rst
  <2>1. T' = Phase("free", 0)
    BY <1>2 DEF Target
  <2> QED BY <1>2, <2>1 DEF Phase
<1>3. CASE ~icr.rst
  <2>1. CASE UNCHANGED T
    BY <1>3, <2>1 DEF ChannelOK
  <2>2. CASE T.ph = "free" /\ icr.sel /\ T' = Phase("selected", 0)
    BY <1>3, <2>2 DEF ChannelOK, Phase
  <2>3. CASE T.ph = "selected" /\ ~icr.sel /\ T' = Phase("command", 0)
    BY <1>3, <2>3 DEF ChannelOK, Phase
  <2>4. CASE T.req /\ ack /\ T' = [T EXCEPT !.req = FALSE, !.n = @ + 1]
    BY <1>3, <2>4 DEF ChannelOK
  <2>5. CASE /\ T.ph \notin {"free", "selected"} /\ ~T.req /\ ~ack
             /\ ~MoveDone /\ T' = [T EXCEPT !.req = TRUE]
    BY <1>3, <2>5 DEF ChannelOK
  <2>6. CASE /\ ~T.req /\ ~ack /\ MoveDone /\ T.ph = "command"
             /\ \E w \in Moved : T' = Phase(IF w = 0 THEN "status" ELSE job.dir, w)
    <3>1. PICK w \in Moved : T' = Phase(IF w = 0 THEN "status" ELSE job.dir, w)
      BY <2>6
    <3> QED BY <1>1, <1>3, <2>6, <3>1 DEF ChannelOK, Phase, MoveDone
  <2>7. CASE ~T.req /\ ~ack /\ MoveDone /\ T.ph \in {"in", "out"} /\ T' = Phase("status", T.want)
    BY <1>3, <2>7 DEF ChannelOK, Phase, Moving, MoveDone
  <2>8. CASE ~T.req /\ ~ack /\ MoveDone /\ T.ph = "status" /\ T' = Phase("free", 0)
    BY <1>3, <2>8 DEF ChannelOK, Phase, MoveDone
  <2> QED BY <1>3, <2>1, <2>2, <2>3, <2>4, <2>5, <2>6, <2>7, <2>8 DEF Target
<1> QED BY <1>2, <1>3

\* What the engine does to its acknowledge and to the address.
LEMMA EngineSteps ==
  ASSUME EngineOK, Asked, dma_addr \in Nat, eng.ack <=> Acking, Engine
  PROVE  /\ EngineOK' /\ (eng'.ack <=> Acking')
         /\ Acking /\ T.req => eng'.dst = eng.dst
         /\ Acking' => (Acking /\ T.req) \/ eng'.adv
         /\ eng'.adv => Acking' /\ ~Acking /\ Offered /\ left # 0
         /\ eng.wb_req /\ dvma.ans = "" => eng'.wb_req
         /\ eng.dst = "IDLE" /\ ~Offered => eng'.dst = "IDLE"
<1>1. CASE eng.dst = "IDLE"
  BY <1>1, EngineInIdle DEF NoTake, Acking, EngineOK
<1>2. CASE eng.dst = "IN"
  BY <1>2, EngineInIn DEF NoTake, Acking, EngineOK, SameAsk
<1>3. CASE eng.dst = "INACK"
  BY <1>3, EngineInInAck DEF Acking, EngineOK, SameAsk
<1>4. CASE eng.dst = "FLUSH"
  BY <1>4, EngineInFlush DEF NoTake, Acking, EngineOK, SameAsk
<1>5. CASE eng.dst = "FETCH"
  BY <1>5, EngineInFetch DEF NoTake, Acking, EngineOK
<1>6. CASE eng.dst = "OUT"
  BY <1>6, EngineInOut DEF NoTake, Acking, EngineOK, SameAsk
<1>7. CASE eng.dst = "OUTACK"
  BY <1>7, EngineInOutAck DEF Acking, EngineOK, SameAsk
<1> QED BY <1>1, <1>2, <1>3, <1>4, <1>5, <1>6, <1>7 DEF EngineOK

\* The control register, cycle by cycle.
LEMMA ControlledKept ==
  ASSUME ChannelOK, Controlled, NEW cyc \in Cycles, RegisterFile(cyc), Mpu(cyc)
  PROVE  Controlled' /\ icr'.sel \in BOOLEAN /\ icr'.rst \in BOOLEAN /\ icr'.dma \in BOOLEAN
<1>1. CASE cyc \in {"none", "fetch", "setup", "cdb", "poll", "status"}
  <2>1. icr' = icr
    BY <1>1 DEF RegisterFile
  <2> QED BY <1>1, <2>1, DriverMoves DEF Controlled, ChannelOK, Accesses
<1>2. CASE cyc = "select"
  BY <1>2, DriverMoves DEF Controlled, RegisterFile, Control
<1>3. CASE cyc = "arm"
  BY <1>3, DriverMoves DEF Controlled, RegisterFile, Control
<1>4. CASE cyc = "reset"
  BY <1>4, DriverMoves DEF Controlled, RegisterFile, Control
<1>5. CASE cyc = "release"
  BY <1>5, DriverMoves DEF Controlled, RegisterFile, Control
<1> QED BY <1>1, <1>2, <1>3, <1>4, <1>5 DEF Cycles, Accesses

\* What a step of the master leaves.
LEMMA SteppedTo ==
  ASSUME NEW st, NEW ans, NEW rd, NEW berr, dvma' = Stepped(st, ans, rd, berr)
  PROVE  /\ DOMAIN dvma' = {"st", "ans", "rd", "latched"}
         /\ dvma'.st = st /\ dvma'.ans = ans /\ dvma'.rd = rd
BY DEF Stepped

\* The master answers a request that stands, and nothing else.
LEMMA AskedKept ==
  ASSUME Asked, NEW cyc \in Cycles, Master(cyc), eng.wb_req /\ dvma.ans = "" => eng'.wb_req
  PROVE  Asked' /\ DOMAIN dvma' = {"st", "ans", "rd", "latched"}
<1>1. CASE S_IDLE(cyc)
  <2>1. PICK st \in Decided : dvma' = Stepped(st, "", NoLong, FALSE)
    BY <1>1 DEF S_IDLE
  <2>2. st \in {"IDLE", "BUS", "ACK", "ERR"} /\ (st # "IDLE" => eng.wb_req /\ dvma.ans = "")
    BY <2>1 DEF Decided
  <2> QED BY <2>1, <2>2 DEF Asked, Stepped
<1>2. CASE S_BUS(cyc)
  <2>1. \/ dvma' = Stepped("BUS", "", NoLong, FALSE)
        \/ dvma' = Stepped("ACK", "", IF eng.wb_we THEN NoLong ELSE ReadLong, FALSE)
        \/ dvma' = Stepped("ERR", "", NoLong, TRUE)
    BY <1>2 DEF S_BUS
  <2>2. eng'.wb_req
    BY <1>2 DEF S_BUS, Asked
  <2>3. dvma'.ans = "" /\ dvma'.st \in {"BUS", "ACK", "ERR"} /\ DOMAIN dvma' = {"st", "ans", "rd", "latched"}
    BY <2>1, SteppedTo
  <2> QED BY <2>2, <2>3 DEF Asked
<1>3. CASE S_ACK(cyc)
  BY <1>3 DEF S_ACK, Asked, Stepped
<1> QED BY <1>1, <1>2, <1>3 DEF Master

\* The kinds of all registers, and what the control register says.
LEMMA TypesKept ==
  ASSUME ChannelInv, NEW cyc \in Cycles, ChannelStep(cyc)
  PROVE  EngineOK' /\ Asked' /\ ChannelOK' /\ Controlled'
<1> USE DEF ChannelInv, ChannelStep
<1>1. EngineOK' /\ (eng.wb_req /\ dvma.ans = "" => eng'.wb_req)
  BY EngineSteps DEF Acknowledged, ChannelOK
<1>2. Asked' /\ DOMAIN dvma' = {"st", "ans", "rd", "latched"}
  BY <1>1, AskedKept
<1>3. drv' \in Driver /\ job' \in Transfers
  BY DriverMoves
<1>4. mpu'.last \in {"fetch", "access"} /\ mpu'.busy \in 0 .. 3
  BY CpuClock
<1>5. Controlled' /\ icr'.sel \in BOOLEAN /\ icr'.rst \in BOOLEAN /\ icr'.dma \in BOOLEAN
  BY ControlledKept
<1>6. dma_addr' \in Nat /\ left' \in Nat
  <2>1. job.at \in Nat /\ job.len \in Nat
    BY ScsiAssumption DEF ChannelOK, Places
  <2>2. eng.adv => left # 0
    BY DEF Acknowledged
  <2> QED BY <2>1, <2>2 DEF RegisterFile, ChannelOK
<1>7. ack_q' \in BOOLEAN
  BY DEF Pio, ChannelOK
<1> QED BY <1>1, <1>2, <1>3, <1>4, <1>5, <1>6, <1>7, TargetMoves DEF ChannelOK

\* In no phase but the one it was given in is there an acknowledge.
LEMMA NoStrayAck ==
  ASSUME ChannelInv
  PROVE  /\ drv \notin {"start", "reset"} /\ T.ph \in {"free", "selected", "status"} => ~ack
         /\ drv \in {"setup", "command"} => ~ack
         /\ Moving /\ drv \in {"wait", "fail"} => (ack <=> Acking)
BY DEF ChannelInv, Acknowledged, ack, InStep, Moving, Acking

\* The driver and the target never part: the driver goes on only in the phase it
\* waits for, and a target leaves a phase only when its bytes are acknowledged.
LEMMA InStepKept ==
  ASSUME ChannelInv, NEW cyc \in Cycles, ChannelStep(cyc)
  PROVE  InStep'
<1> USE DEF ChannelInv, ChannelStep
<1>0. T.n = 0 => T.n # 1
  OBVIOUS
<1>1. CASE cyc = "none" \/ cyc = "fetch"
  <2>1. drv' = drv /\ (cyc = "fetch" => mpu.busy = 0)
    BY <1>1, DriverMoves, CpuClock
  <2> QED BY <1>0, <1>1, <2>1, TargetMoves, NoStrayAck DEF InStep, Controlled, Moving, ChannelOK
<1>2. CASE cyc = "select"
  <2>1. drv = "start" /\ drv' = "select" /\ T.ph = "free"
    BY <1>2, DriverMoves DEF bsy
  <2> QED BY <1>0, <2>1, TargetMoves DEF InStep, Controlled, Moving
<1>3. CASE cyc = "arm"
  <2>1. drv = "select" /\ drv' = "setup" /\ T.ph = "selected"
    BY <1>3, DriverMoves DEF bsy, InStep
  <2> QED BY <1>0, <2>1, TargetMoves DEF InStep, Controlled, Moving
<1>4. CASE cyc = "setup"
  <2>1. drv = "setup" /\ drv' = "command"
    BY <1>4, DriverMoves
  <2> QED BY <1>0, <2>1, TargetMoves, NoStrayAck DEF InStep, Controlled, Moving
<1>5. CASE cyc = "cdb"
  <2>1. drv = "command" /\ drv' = "wait" /\ T.ph = "command"
    BY <1>5, DriverMoves DEF InStep, cmd_phase, cd
  <2> QED BY <1>0, <2>1, TargetMoves, NoStrayAck DEF InStep, Controlled, Moving
<1>6. CASE cyc = "poll"
  <2>1. drv = "wait" /\ drv' \in {"status", "fail"}
    BY <1>6, DriverMoves
  <2>2. drv' = "status" => T.ph = "status"
    BY <1>6, <2>1, DriverMoves DEF InStep, Controlled, cmd_phase, data_phase, cd, io
  <2> QED BY <1>0, <2>1, <2>2, TargetMoves, NoStrayAck DEF InStep, Controlled, Moving
<1>7. CASE cyc = "status"
  <2>1. drv = "status" /\ drv' = "start" /\ T.ph = "status"
    BY <1>7, DriverMoves
  <2> QED BY <1>0, <2>1, TargetMoves DEF InStep, Controlled, Moving
<1>8. CASE cyc = "reset"
  <2>1. drv # "reset" /\ drv' = "reset" /\ mpu'.last = "access" /\ mpu'.busy = 3
    BY <1>8, DriverMoves, CpuClock DEF Accesses
  <2> QED BY <1>0, <2>1, TargetMoves DEF InStep, Controlled, Moving
<1>9. CASE cyc = "release"
  <2>1. drv = "reset" /\ drv' = "start"
    BY <1>9, DriverMoves
  <2> QED BY <1>0, <2>1, TargetMoves DEF InStep, Controlled, Moving
<1> QED BY <1>1, <1>2, <1>3, <1>4, <1>5, <1>6, <1>7, <1>8, <1>9 DEF Cycles, Accesses

\* A byte is offered to the engine in a data phase of a command under way.
LEMMA OfferedWhen ==
  ASSUME ChannelInv, Offered
  PROVE  Moving /\ drv \in {"wait", "fail"} /\ T.req
<1>1. icr.dma /\ T.req /\ T.ph \in {"in", "out"}
  BY DEF ChannelInv, Offered, dma_armed, bsy, data_phase, cd, InStep, ChannelOK
<1> QED BY <1>1 DEF ChannelInv, Controlled, InStep, ChannelOK, Driver, Moving

\* No acknowledge outlives the byte it was given for, but in the clocks of a reset.
LEMMA AcknowledgedKept ==
  ASSUME ChannelInv, NEW cyc \in Cycles, ChannelStep(cyc)
  PROVE  Acknowledged'
<1> USE DEF ChannelInv, ChannelStep
<1>1. /\ eng'.ack <=> Acking'
      /\ Acking /\ T.req => eng'.dst = eng.dst
      /\ Acking' => (Acking /\ T.req) \/ eng'.adv
      /\ eng'.adv => Acking' /\ ~Acking /\ Offered /\ left # 0
  BY EngineSteps DEF ChannelOK, Acknowledged
\* While a byte is being moved the target stays, and the driver stays or gives up.
<1>2. ASSUME Moving, T.req, drv \in {"wait", "fail"}
      PROVE  /\ Moving' /\ (~Acking => T'.req)
             /\ drv' \in {"wait", "fail"} \/ (drv' = "reset" /\ mpu'.last = "access" /\ mpu'.busy = 3)
  <2>1. Moving' /\ (~Acking => T'.req)
    BY <1>2, TargetMoves, NoStrayAck DEF Moving, Controlled
  <2>2. ~(cyc = "poll" /\ drv' = "status")
    BY <1>2, DriverMoves DEF Moving, Controlled, data_phase, cd
  <2>3. cyc \notin {"select", "arm", "setup", "cdb", "status", "release"}
    BY <1>2, DriverMoves
  <2>4. CASE cyc \in {"none", "fetch"}
    BY <1>2, <2>1, <2>4, DriverMoves
  <2>5. CASE cyc = "poll"
    BY <1>2, <2>1, <2>2, <2>5, DriverMoves
  <2>6. CASE cyc = "reset"
    BY <1>2, <2>1, <2>6, DriverMoves, CpuClock DEF Accesses
  <2> QED BY <2>3, <2>4, <2>5, <2>6 DEF Cycles, Accesses
\* A reset takes the target off the bus, in the first of the clocks it has.
<1>3. ASSUME drv = "reset", T.req
      PROVE  drv' = "reset" /\ mpu'.last = "access" /\ mpu'.busy \in {2, 3}
  <2>1. mpu.last = "access" /\ mpu.busy = 3 /\ mpu.busy # 0
    BY <1>3 DEF InStep
  <2>2. cyc = "none"
    BY <2>1, CpuClock
  <2> QED BY <1>3, <2>1, <2>2, DriverMoves, CpuClock
<1>4. Acking' => \/ Moving' /\ drv' \in {"wait", "fail"}
                 \/ drv' = "reset" /\ mpu'.last = "access" /\ mpu'.busy \in {2, 3}
  <2>1. CASE eng'.adv
    BY <1>1, <1>2, <2>1, OfferedWhen
  <2>2. CASE Acking /\ T.req /\ drv = "reset"
    BY <1>3, <2>2
  <2>3. CASE Acking /\ T.req /\ drv # "reset"
    BY <1>2, <2>3 DEF Acknowledged
  <2> QED BY <1>1, <2>1, <2>2, <2>3
<1>5. eng'.adv => Acking' /\ left' # 0 /\ (T'.req \/ drv' = "reset")
  <2>1. SUFFICES ASSUME eng'.adv PROVE left' # 0 /\ (T'.req \/ drv' = "reset")
    BY <1>1
  <2>2. ~Acking /\ ~eng.adv /\ left # 0 /\ Moving /\ T.req /\ drv \in {"wait", "fail"}
    BY <1>1, <2>1, OfferedWhen DEF Acknowledged
  <2>3. cyc # "setup"
    BY <2>2, DriverMoves
  <2> QED BY <1>2, <2>2, <2>3 DEF RegisterFile
<1>6. ack_q' => \/ T'.ph = "command" /\ drv' \in {"wait", "fail"}
                \/ T'.ph = "status" /\ drv' = "start"
                \/ drv' = "reset" /\ mpu'.last = "access" /\ mpu'.busy \in {2, 3}
  <2>1. CASE cyc = "cdb"
    <3>1. drv = "command" /\ drv' = "wait" /\ T.ph = "command" /\ T.n = 0 /\ T.n # 1
      BY <2>1, DriverMoves DEF cmd_phase, cd, InStep
    <3> QED BY <3>1, TargetMoves DEF Controlled, Moving
  <2>2. CASE cyc = "status"
    <3>1. drv = "status" /\ drv' = "start" /\ T.ph = "status" /\ T.n = 0 /\ T.n # 1
      BY <2>2, DriverMoves DEF InStep
    <3> QED BY <3>1, TargetMoves DEF Controlled, Moving
  <2>3. CASE cyc \notin {"cdb", "status"} /\ ack_q /\ T.req
    <3>1. CASE T.ph = "command" /\ drv \in {"wait", "fail"}
      <4>1. T'.ph = "command"
        BY <2>3, <3>1, TargetMoves DEF Controlled, Moving
      <4>2. ~(cyc = "poll" /\ drv' = "status")
        BY <3>1, DriverMoves DEF cmd_phase, cd, io
      <4>3. cyc \notin {"select", "arm", "setup", "release"}
        BY <3>1, DriverMoves
      <4>4. drv' \in {"wait", "fail"} \/ (drv' = "reset" /\ mpu'.last = "access" /\ mpu'.busy = 3)
        <5>1. CASE cyc \in {"none", "fetch"}
          BY <3>1, <5>1, DriverMoves
        <5>2. CASE cyc = "poll"
          BY <4>2, <5>2, DriverMoves
        <5>3. CASE cyc = "reset"
          BY <5>3, DriverMoves, CpuClock DEF Accesses
        <5> QED BY <2>3, <4>3, <5>1, <5>2, <5>3 DEF Cycles, Accesses
      <4> QED BY <4>1, <4>4
    <3>2. CASE T.ph = "status" /\ drv = "start"
      <4>1. T'.ph = "status"
        BY <2>3, <3>2, TargetMoves DEF Controlled, Moving
      <4>2. cyc \in {"none", "fetch"}
        BY <2>3, <3>2, DriverMoves DEF Cycles, Accesses, bsy
      <4> QED BY <3>2, <4>1, <4>2, DriverMoves
    <3>3. CASE drv = "reset"
      BY <1>3, <2>3, <3>3
    <3> QED BY <2>3, <3>1, <3>2, <3>3 DEF Acknowledged
  <2> QED BY <2>1, <2>2, <2>3 DEF Pio
<1> QED BY <1>1, <1>4, <1>5, <1>6 DEF Acknowledged

-----------------------------------------------------------------------------
(* Between two transfers, and where a transfer has got to.                   *)

\* Between transfers nothing is offered to the engine, and it winds up.
LEMMA WoundUpKept ==
  ASSUME ChannelInv, NEW cyc \in Cycles, ChannelStep(cyc)
  PROVE  WoundUp'
<1> USE DEF ChannelInv, ChannelStep
<1>1. CASE cyc \in {"poll", "status", "release"}
  <2>1. SUFFICES ASSUME drv' \in {"start", "status"} PROVE WoundUp'
    BY DEF WoundUp
  <2>2. ~Acking'
    <3>1. Acking' => (Acking /\ T.req) \/ Offered
      BY EngineSteps DEF ChannelOK, Acknowledged
    <3>2. mpu.busy \notin {2, 3} /\ mpu.busy # 3
      BY <1>1, CpuClock
    <3>3. \/ drv \in {"status", "reset"}
          \/ drv = "wait" /\ ~Moving
      BY <1>1, <2>1, DriverMoves DEF Moving, Controlled, data_phase, cd
    <3> QED BY <3>1, <3>2, <3>3, OfferedWhen DEF Acknowledged
  <2>3. mpu'.last = "access" /\ mpu'.busy = 3
    BY <1>1, CpuClock DEF Accesses
  <2> QED BY <2>2, <2>3 DEF WoundUp
<1>2. CASE cyc \in Accesses \ {"poll", "status", "release"}
  <2>1. drv' \notin {"start", "status"}
    BY <1>2, DriverMoves DEF Accesses
  <2> QED BY <2>1 DEF WoundUp
<1>3. CASE cyc \in {"none", "fetch"}
  <2>1. SUFFICES ASSUME drv \in {"start", "status"} PROVE WoundUp'
    BY <1>3, DriverMoves DEF WoundUp
  <2>2. ~Offered /\ ~dma_armed /\ ~Acking
    BY <2>1 DEF Offered, dma_armed, bsy, data_phase, cd, InStep, Acknowledged, Acking
  <2>3. cyc = "fetch" => mpu.busy = 0 /\ mpu'.busy = 3
    BY CpuClock
  <2>4. /\ cyc = "none" => mpu'.last = mpu.last
        /\ mpu.busy \in {2, 3} => mpu'.busy \in {1, 2, 3} /\ cyc = "none"
        /\ mpu.busy = 3 => mpu'.busy \in {2, 3}
        /\ mpu.busy \in {1, 2, 3} => cyc = "none"
    BY <1>3, CpuClock
  <2>5. eng.wb_req /\ dvma.ans = "" /\ (mpu.ran \/ cyc # "none") => mpu'.ran
    BY CpuClock
  <2>6. CASE eng.dst \in {"IDLE", "FETCH", "OUT"}
    <3>1. eng'.dst = "IDLE"
      <4>1. CASE eng.dst = "IDLE"
        BY <2>2, <4>1, EngineInIdle
      <4>2. CASE eng.dst = "FETCH"
        BY <2>2, <4>2, EngineInFetch
      <4>3. CASE eng.dst = "OUT"
        BY <2>2, <4>3, EngineInOut
      <4> QED BY <2>6, <4>1, <4>2, <4>3
    <3> QED BY <3>1 DEF WoundUp
  <2>7. CASE eng.dst = "IN"
    <3>1. /\ eng'.dst \in {"IDLE", "FLUSH"}
          /\ eng'.dst = "FLUSH" => eng.stage_sel # {}
      BY <2>2, <2>7, EngineInIn DEF ChannelOK
    <3>2. eng.stage_sel # {} => mpu.last = "access" /\ mpu.busy \in {2, 3}
      BY <2>1, <2>7 DEF WoundUp
    <3> QED BY <2>4, <3>1, <3>2 DEF WoundUp
  <2>8. CASE eng.dst = "FLUSH"
    <3>1. \/ eng'.wb_req = TRUE /\ eng'.dst = "FLUSH" /\ ~eng.wb_req
          \/ dvma.ans = "ack" /\ eng'.stage_sel = {} /\ eng'.dst = "IN"
          \/ eng'.dst = "IDLE"
          \/ eng.wb_req /\ dvma.ans = "" /\ eng'.wb_req = eng.wb_req /\ eng'.dst = "FLUSH"
      BY <2>8, EngineInFlush, FlushOutcome DEF SameAsk
    <3>2. \/ eng.wb_req /\ (mpu.ran \/ mpu.last = "access")
          \/ mpu.last = "access" /\ mpu.busy \in {1, 2, 3}
      BY <2>1, <2>8 DEF WoundUp, ChannelOK
    <3>3. CASE eng'.wb_req = TRUE /\ eng'.dst = "FLUSH" /\ ~eng.wb_req
      BY <2>4, <3>2, <3>3 DEF WoundUp
    <3>4. CASE dvma.ans = "ack" /\ eng'.stage_sel = {} /\ eng'.dst = "IN"
      BY <2>1, <2>4, <2>8, <3>4 DEF HandedBack, WoundUp
    <3>6. CASE eng'.dst = "IDLE"
      BY <3>6 DEF WoundUp
    <3>5. CASE eng.wb_req /\ dvma.ans = "" /\ eng'.wb_req = eng.wb_req /\ eng'.dst = "FLUSH"
      BY <1>3, <2>4, <2>5, <3>2, <3>5 DEF WoundUp
    <3> QED BY <3>1, <3>3, <3>4, <3>5, <3>6
  <2> QED BY <2>2, <2>6, <2>7, <2>8 DEF EngineOK, Acking
<1> QED BY <1>1, <1>2, <1>3 DEF Cycles

\* A write that stands was asked for in FLUSH, in this clock or before.
LEMMA WriteAsked ==
  ASSUME ChannelInv, Engine, eng'.wb_req, eng'.wb_we
  PROVE  /\ eng.dst = "FLUSH"
         /\ \/ ~eng.wb_req
            \/ eng.wb_req /\ eng.wb_we /\ dvma.ans = ""
<1> USE DEF ChannelInv
<1>1. eng.wb_req /\ eng.wb_we => eng.dst = "FLUSH"
  BY DEF Staged
<1>2. eng.dst = "FLUSH"
  BY <1>1, EngineInIdle, EngineInIn, EngineInInAck, EngineInFetch, EngineInOut, EngineInOutAck
     DEF EngineOK, SameAsk, ChannelOK
<1> QED BY <1>2, EngineInFlush DEF SameAsk

\* After a bus cycle of the master the CPU begins a cycle; a refusal comes at once.
LEMMA HandedBackKept ==
  ASSUME ChannelInv, NEW cyc \in Cycles, ChannelStep(cyc)
  PROVE  HandedBack'
<1> USE DEF ChannelInv, ChannelStep
<1>1. /\ BusBack => mpu'.busy = 3
      /\ mpu'.ran <=> eng.wb_req /\ dvma.ans = "" /\ (mpu.ran \/ cyc # "none")
      /\ cyc # "none" => mpu'.busy = 3
      /\ mpu.busy = 3 => mpu'.busy \in {2, 3} /\ cyc = "none"
  BY CpuClock
\* How the master comes to its states.
<1>2. /\ dvma'.st = "ACK" => BusBack \/ (dvma.st = "IDLE" /\ eng.stage_sel = {})
      /\ dvma'.st = "ERR" => BusBack \/ (dvma.st = "IDLE" /\ dvma.ans = "" /\ (~dvma_on \/ dvma.latched))
      /\ dvma'.ans = "ack" => dvma.st = "ACK"
      /\ dvma'.ans = "err" => dvma.st = "ERR"
      /\ dvma'.st = "IDLE" /\ dvma'.ans = "" /\ dvma'.latched => dvma.latched
      /\ dvma'.st = "IDLE" /\ dvma'.ans = "" =>
           dvma.st = "IDLE" /\ (eng.wb_req /\ dvma.ans = "" => dvma_on /\ ~dvma.latched)
  <2>1. CASE S_IDLE(cyc)
    <3>1. PICK st \in Decided : dvma' = Stepped(st, "", NoLong, FALSE)
      BY <2>1 DEF S_IDLE
    <3>2. /\ st = "ACK" => eng.stage_sel = {}
          /\ st = "ERR" => dvma.ans = "" /\ (~dvma_on \/ dvma.latched)
          /\ st = "IDLE" /\ eng.wb_req /\ dvma.ans = "" => dvma_on /\ ~dvma.latched
      BY <3>1 DEF Decided
    <3>3. dvma'.st = st /\ dvma'.ans = "" /\ (dvma'.latched => dvma.latched)
      BY <3>1 DEF Stepped
    <3> QED BY <2>1, <3>2, <3>3 DEF S_IDLE
  <2>2. CASE S_BUS(cyc)
    <3>1. \/ dvma' = Stepped("BUS", "", NoLong, FALSE)
          \/ dvma' = Stepped("ACK", "", IF eng.wb_we THEN NoLong ELSE ReadLong, FALSE)
          \/ dvma' = Stepped("ERR", "", NoLong, TRUE)
      BY <2>2 DEF S_BUS
    <3>2. dvma'.ans = "" /\ dvma'.st \in {"BUS", "ACK", "ERR"} /\ dvma.st = "BUS"
      BY <2>2, <3>1, SteppedTo DEF S_BUS
    <3> QED BY <3>2 DEF BusBack
  <2>3. CASE S_ACK(cyc)
    BY <2>3 DEF S_ACK, Stepped
  <2> QED BY <2>1, <2>2, <2>3 DEF Master
<1> HIDE DEF ChannelStep
<1>3. ASSUME dvma'.st = "ACK",
             eng'.dst = "FLUSH" \/ (eng'.dst \in {"IN", "INACK"} /\ ~eng'.adv /\ eng'.stage_sel # {})
      PROVE  mpu'.busy = 3
  <2>1. eng.stage_sel # {}
    BY <1>3, EngineInIdle, EngineInIn, EngineInInAck, EngineInFlush, EngineInFetch, EngineInOut, EngineInOutAck
       DEF ChannelStep, EngineOK, ChannelOK, SameLong, Staged
  <2> QED BY <1>1, <1>2, <1>3, <2>1
<1>4. ASSUME dvma'.ans = "ack", eng'.dst = "FLUSH", drv' # "reset"
      PROVE  mpu'.busy \in {2, 3}
  <2>1. \/ eng.dst = "FLUSH"
        \/ eng.dst = "IN" /\ eng.stage_sel # {} /\ ~eng.adv
        \/ eng.dst = "INACK" /\ eng.stage_sel # {} /\ ~T.req
    BY <1>4, EngineInIdle, EngineInIn, EngineInInAck, EngineInFetch, EngineInOut, EngineInOutAck
       DEF ChannelStep, EngineOK, ChannelOK, Acknowledged, Acking
  <2>2. CASE eng.dst = "INACK" /\ eng.stage_sel # {} /\ eng.adv /\ ~T.req
    <3>1. drv = "reset" /\ mpu.busy # 0
      BY <2>2 DEF Acknowledged, Acking
    <3> QED BY <1>4, <3>1, DriverMoves, CpuClock DEF ChannelStep, Cycles
  <2>3. mpu.busy = 3 \/ (eng.dst = "INACK" /\ eng.adv)
    BY <1>2, <1>4, <2>1 DEF HandedBack
  <2> QED BY <1>1, <2>1, <2>2, <2>3
<1>5. ASSUME eng'.wb_req, eng'.wb_we
      PROVE  /\ dvma'.st = "ERR" /\ mpu'.ran => mpu'.busy = 3
             /\ dvma'.ans = "err" /\ mpu'.ran => mpu'.busy \in {2, 3}
             /\ dvma'.st = "IDLE" /\ dvma'.ans = "" /\ (~dvma_on' \/ dvma'.latched) => ~mpu'.ran
  <2>1. eng.dst = "FLUSH" /\ (~eng.wb_req \/ (eng.wb_req /\ eng.wb_we /\ dvma.ans = ""))
    BY <1>5, WriteAsked DEF ChannelStep
  <2>2. CASE ~eng.wb_req
    BY <1>1, <2>2
  <2>3. CASE eng.wb_req /\ eng.wb_we /\ dvma.ans = ""
    <3>1. dvma'.st = "ERR" /\ mpu'.ran => mpu'.busy = 3
      BY <1>1, <1>2, <2>3 DEF HandedBack
    <3>2. dvma'.ans = "err" /\ mpu'.ran => mpu'.busy \in {2, 3}
      BY <1>1, <1>2, <2>3 DEF HandedBack
    <3>3. cyc # "select"
      <4>1. cyc = "select" => drv = "start" /\ mpu.last = "fetch" /\ ~mpu.ran
        BY <2>3, DriverMoves, CpuClock DEF ChannelStep, Accesses
      <4> QED BY <2>1, <4>1 DEF WoundUp
    <3>4. dvma_on' = dvma_on
      BY <3>3, DriverMoves DEF ChannelStep
    <3> QED BY <1>2, <2>3, <3>1, <3>2, <3>4
  <2> QED BY <2>1, <2>2, <2>3
<1> QED BY <1>3, <1>4, <1>5 DEF HandedBack

\* A command never begins with the engine still at the one before.
LEMMA AtRestKept ==
  ASSUME ChannelInv, NEW cyc \in Cycles, ChannelStep(cyc)
  PROVE  AtRest'
<1> USE DEF ChannelInv, ChannelStep
<1>1. eng.dst = "IDLE" /\ ~Offered => eng'.dst = "IDLE"
  BY EngineSteps DEF ChannelOK, Acknowledged
<1>2. ASSUME drv' \in {"select", "setup", "command"}
      PROVE  eng'.dst = "IDLE"
  <2>1. CASE drv \in {"select", "setup", "command"}
    BY <1>1, <2>1, OfferedWhen DEF AtRest
  <2>2. CASE cyc = "select"
    <3>1. /\ drv = "start" /\ mpu.last = "fetch" /\ mpu.busy \notin {1, 2, 3}
          /\ eng.wb_req => ~mpu.ran
      BY <2>2, DriverMoves, CpuClock DEF Accesses
    <3>2. eng.dst = "IDLE"
      BY <3>1 DEF WoundUp
    <3> QED BY <1>1, <3>1, <3>2, OfferedWhen
  <2> QED BY <1>2, <2>1, <2>2, DriverMoves DEF Cycles, Accesses
<1>3. ASSUME T'.ph = "command", drv' # "reset"
      PROVE  eng'.dst = "IDLE"
  <2>1. ~icr.rst /\ drv # "reset"
    BY <1>3, TargetMoves DEF Controlled
  <2>2. T.ph = "command" \/ (T.ph = "selected" /\ ~icr.sel)
    BY <1>3, <2>1, TargetMoves DEF Moving
  <2>3. eng.dst = "IDLE"
    BY <2>1, <2>2 DEF AtRest, InStep, ChannelOK, Driver
  <2>4. ~Offered
    BY <2>2, OfferedWhen DEF Moving
  <2> QED BY <1>1, <2>3, <2>4
<1> QED BY <1>2, <1>3 DEF AtRest

\* A transfer lies in the beat.
LEMMA Inside ==
  ASSUME ChannelInv
  PROVE  job.at \in Nat /\ job.len \in Nat /\ job.at + job.len <= 16
BY ScsiAssumption DEF ChannelInv, ChannelOK, Places

\* Each byte acknowledged moves the address once.
LEMMA TracksKept ==
  ASSUME ChannelInv, NEW cyc \in Cycles, ChannelStep(cyc)
  PROVE  Tracks'
<1> USE DEF ChannelInv, ChannelStep
<1>1. SUFFICES ASSUME drv' \in {"command", "wait", "status", "fail"}
               PROVE  /\ dma_addr' + left' = job'.at + job'.len
                      /\ T'.ph \in {"selected", "command"} => dma_addr' = job'.at
                      /\ Moving' => dma_addr' + (IF eng'.adv THEN 1 ELSE 0) =
                                      job'.at + T'.n + (IF Acking' /\ T'.req THEN 1 ELSE 0)
  BY DEF Tracks
<1>2. job.at \in Nat /\ job.len \in Nat /\ dma_addr \in Nat /\ left \in Nat /\ T.n \in Nat
  BY Inside DEF ChannelOK
<1>3. job' = job
  BY <1>1, DriverMoves
<1>4. CASE cyc = "setup"
  <2>1. dma_addr' = job.at /\ left' = job.len
    BY <1>4 DEF RegisterFile
  <2>2. drv' = "command"
    BY <1>4, DriverMoves
  <2>3. ~Moving'
    BY <2>2, InStepKept DEF InStep, Moving
  <2> QED BY <1>2, <1>3, <2>1, <2>3
<1>5. CASE cyc # "setup"
  <2>1. drv \in {"command", "wait", "status", "fail"}
    BY <1>1, <1>5, DriverMoves DEF Cycles, Accesses
  <2>2. /\ dma_addr' = IF eng.adv THEN dma_addr + 1 ELSE dma_addr
        /\ left' = IF eng.adv THEN left - 1 ELSE left
    BY <1>5 DEF RegisterFile
  <2>3. dma_addr + left = job.at + job.len
    BY <2>1 DEF Tracks
  <2>4. eng.adv => Acking /\ left # 0 /\ Moving /\ T.req
    BY <2>1 DEF Acknowledged
  <2>5. ~icr.rst /\ ~icr.sel
    BY <2>1 DEF Controlled
  <2>6. /\ Acking /\ T.req => eng'.dst = eng.dst
        /\ Acking' => (Acking /\ T.req) \/ eng'.adv
        /\ eng'.adv => Acking' /\ ~Acking /\ Offered /\ left # 0
    BY EngineSteps DEF ChannelOK, Acknowledged
  <2>7. dma_addr' + left' = job'.at + job'.len
    BY <1>2, <1>3, <2>2, <2>3, <2>4
  <2>8. ASSUME T'.ph \in {"selected", "command"} PROVE dma_addr' = job'.at
    <3>1. T.ph \in {"selected", "command"}
      BY <2>5, <2>8, TargetMoves DEF Moving
    <3>2. ~eng.adv /\ dma_addr = job.at
      BY <2>1, <2>4, <3>1 DEF Tracks, Moving
    <3> QED BY <1>3, <2>2, <3>2
  <2>9. ASSUME Moving'
        PROVE  dma_addr' + (IF eng'.adv THEN 1 ELSE 0) = job'.at + T'.n + (IF Acking' /\ T'.req THEN 1 ELSE 0)
    <3>1. CASE ~Moving
      <4>1. T.ph = "command" /\ T'.n = 0 /\ T'.req = FALSE
        BY <2>5, <2>9, <3>1, TargetMoves DEF Moving
      <4>2. ~eng.adv /\ dma_addr = job.at
        BY <2>1, <2>4, <3>1, <4>1 DEF Tracks
      <4>3. ~eng'.adv
        BY <2>6, <3>1, OfferedWhen
      <4> QED BY <1>2, <1>3, <2>2, <4>1, <4>2, <4>3
    <3>2. CASE Moving
      <4>1. drv \in {"wait", "fail"} /\ (ack <=> Acking)
        BY <2>1, <3>2, NoStrayAck DEF InStep, Moving
      <4>2. dma_addr' = job.at + T.n + (IF Acking /\ T.req THEN 1 ELSE 0)
        BY <1>2, <2>1, <2>2, <3>2 DEF Tracks
      <4>3. T' = T \/ (T.req /\ Acking /\ T'.req = FALSE /\ T'.n = T.n + 1)
                   \/ (T.req = FALSE /\ ~Acking /\ T'.req = TRUE /\ T'.n = T.n)
        BY <2>5, <2>9, <3>2, <4>1, TargetMoves DEF Moving
      <4>4. CASE eng'.adv
        <5>1. ~Acking /\ T.req /\ Acking'
          BY <2>6, <4>4, OfferedWhen
        <5>2. T' = T
          BY <4>3, <5>1
        <5> QED BY <1>2, <1>3, <4>2, <4>4, <5>1, <5>2
      <4>5. CASE ~eng'.adv
        <5>1. Acking' <=> (Acking /\ T.req)
          BY <2>6, <4>5 DEF Acking
        <5> QED BY <1>2, <1>3, <4>2, <4>3, <4>5, <5>1
      <4> QED BY <4>4, <4>5
    <3> QED BY <3>1, <3>2
  <2> QED BY <2>7, <2>8, <2>9
<1> QED BY <1>4, <1>5

\* The byte the engine gathers goes to the place its address names.
LEMMA GatheredWell ==
  ASSUME ChannelInv, Offered, left # 0, eng.dst = "IN"
  PROVE  data = dma_addr /\ dma_addr \in 0 .. 15 /\ ~eng.adv
<1> USE DEF ChannelInv
<1>1. Moving /\ drv \in {"wait", "fail"} /\ ~Acking /\ ~eng.adv
  BY OfferedWhen DEF Acking, Acknowledged
<1>2. dma_addr + left = job.at + job.len
  BY <1>1 DEF Tracks
<1>3. dma_addr + 0 = job.at + T.n + 0
  BY <1>1 DEF Tracks
<1> QED BY <1>1, <1>2, <1>3, Inside DEF data, ChannelOK

\* Each byte staged stands in the lane of its own address, and no write is asked
\* for outside of FLUSH.
LEMMA StagedKept ==
  ASSUME ChannelInv, NEW cyc \in Cycles, ChannelStep(cyc)
  PROVE  Staged'
<1> USE DEF ChannelInv, ChannelStep
<1> DEFINE Next1 == eng'.dst \in {"IN", "INACK", "FLUSH"} => StagedAt(eng')
           Next2 == eng'.dst = "FLUSH" => eng'.stage_sel # {}
           Near == drv' \in {"wait", "fail"} /\ Moving' /\ eng'.stage_sel # {}
           Next3 == Near =>
                      /\ eng'.dst = "IN" => dma_addr' \div 4 = eng'.chunk_adr
                      /\ eng'.dst = "INACK" => (dma_addr' + (IF eng'.adv THEN 1 ELSE 0) - 1) \div 4 = eng'.chunk_adr
           Next4 == eng'.wb_req /\ eng'.wb_we => eng'.dst = "FLUSH"
<1>1. dma_addr \in Nat /\ dma_addr' = (IF cyc = "setup" THEN job.at ELSE IF eng.adv THEN dma_addr + 1 ELSE dma_addr)
  BY DEF RegisterFile, ChannelOK
<1>2. ASSUME Near, eng.dst # "IDLE" PROVE drv \in {"wait", "fail"} /\ Moving /\ cyc # "setup"
  <2>1. Moving
    BY <1>2, TargetMoves DEF Moving, AtRest, Controlled
  <2> QED BY <1>2, <2>1, DriverMoves DEF InStep, Moving, Cycles, Accesses
<1>3. CASE eng.dst = "IDLE"
  BY <1>3, EngineInIdle DEF Staged, StagedAt, NoLong
<1>4. CASE eng.dst = "IN"
  <2>1. StagedAt(eng) /\ ~(eng.wb_req /\ eng.wb_we) /\ ~eng.adv
    BY <1>4 DEF Staged, Acknowledged, Acking
  <2>2. Near /\ eng.stage_sel # {} => dma_addr' = dma_addr /\ dma_addr \div 4 = eng.chunk_adr
    BY <1>1, <1>2, <1>4, <2>1 DEF Staged
  <2>3. Near => dma_addr' = dma_addr
    BY <1>1, <1>2, <1>4, <2>1
  <2>4. Next4
    BY <1>4, <2>1, EngineInIn DEF SameAsk, ChannelOK
  <2>5. CASE SameLong
    <3>1. StagedAt(eng')
      BY <2>1, <2>5 DEF StagedAt, SameLong
    <3>2. Next2
      BY <1>4, <2>5, EngineInIn DEF SameLong, ChannelOK
    <3>3. eng'.dst = "INACK" => eng'.adv = TRUE
      BY <1>4, EngineInIn DEF ChannelOK
    <3>4. Next3
      BY <1>1, <2>2, <2>5, <3>3 DEF SameLong
    <3> QED BY <2>4, <3>1, <3>2, <3>4 DEF Staged
  <2>6. CASE /\ Offered /\ left # 0 /\ eng'.adv = TRUE /\ eng'.dst = "INACK"
             /\ eng'.chunk_adr = IF eng.stage_sel = {} THEN dma_addr \div 4 ELSE eng.chunk_adr
             /\ eng'.stage = [eng.stage EXCEPT ![cur_lane] = data]
             /\ eng'.stage_sel = eng.stage_sel \cup {cur_lane}
    <3>1. data = dma_addr /\ dma_addr \in 0 .. 15
      BY <1>4, <2>6, GatheredWell
    <3>2. eng.stage_sel # {} => dma_addr \div 4 = eng.chunk_adr
      BY <1>4, <2>6, OfferedWhen DEF Staged
    <3>3. eng'.chunk_adr = dma_addr \div 4
      BY <2>6, <3>2
    <3>4. dma_addr \div 4 \in 0 .. 3 /\ cur_lane \in 0 .. 3 /\ dma_addr = 4 * (dma_addr \div 4) + cur_lane
      BY <3>1 DEF cur_lane
    <3>5. StagedAt(eng')
      <4>1. eng'.stage = [i \in 0 .. 3 |-> eng'.stage[i]]
        BY <2>1, <2>6 DEF StagedAt
      <4>2. ASSUME NEW i \in eng'.stage_sel PROVE eng'.stage[i] = 4 * eng'.chunk_adr + i
        <5>1. CASE i = cur_lane
          BY <2>1, <2>6, <3>1, <3>3, <3>4, <5>1 DEF StagedAt
        <5>2. CASE i # cur_lane
          <6>1. i \in eng.stage_sel /\ i \in 0 .. 3
            BY <2>6, <4>2, <5>2 DEF EngineOK
          <6>2. eng.stage[i] = 4 * eng.chunk_adr + i /\ eng'.chunk_adr = eng.chunk_adr
            BY <2>1, <3>2, <3>3, <6>1 DEF StagedAt
          <6>3. eng'.stage[i] = eng.stage[i]
            BY <2>1, <2>6, <5>2, <6>1 DEF StagedAt
          <6> QED BY <6>2, <6>3
        <5> QED BY <5>1, <5>2
      <4> QED BY <3>3, <3>4, <4>1, <4>2 DEF StagedAt
    <3>6. Near => (dma_addr' + 1 - 1) \div 4 = eng'.chunk_adr
      <4>1. dma_addr + 1 - 1 = dma_addr
        BY <1>1
      <4> QED BY <2>3, <3>3, <4>1
    <3> QED BY <2>4, <2>6, <3>5, <3>6 DEF Staged
  <2> QED BY <1>4, <2>5, <2>6, EngineInIn DEF ChannelOK
<1>5. CASE eng.dst = "INACK"
  <2>1. StagedAt(eng) /\ ~(eng.wb_req /\ eng.wb_we)
    BY <1>5 DEF Staged
  <2>2. SameLong /\ SameAsk /\ eng'.adv = FALSE
    BY <1>5, EngineInInAck
  <2>3. StagedAt(eng')
    BY <2>1, <2>2 DEF StagedAt, SameLong
  <2>4. Next2
    BY <1>5, <2>2, EngineInInAck DEF SameLong
  <2>5. ASSUME Near
        PROVE  /\ eng'.dst = "IN" => dma_addr' \div 4 = eng'.chunk_adr
               /\ eng'.dst = "INACK" => (dma_addr' - 1) \div 4 = eng'.chunk_adr
    <3>1. drv \in {"wait", "fail"} /\ Moving /\ cyc # "setup"
      BY <1>2, <1>5, <2>5
    <3>2. (dma_addr + (IF eng.adv THEN 1 ELSE 0) - 1) \div 4 = eng'.chunk_adr
      BY <1>5, <2>2, <2>5, <3>1 DEF Staged, SameLong
    <3>3. dma_addr' = dma_addr + (IF eng.adv THEN 1 ELSE 0) /\ dma_addr' \in Nat
      BY <1>1, <3>1
    <3>4. (dma_addr' - 1) \div 4 = eng'.chunk_adr
      <4>1. dma_addr' - 1 = dma_addr + (IF eng.adv THEN 1 ELSE 0) - 1
        BY <1>1, <3>3
      <4> QED BY <3>2, <4>1
    <3>5. ASSUME eng'.dst = "IN" PROVE dma_addr' \div 4 = eng'.chunk_adr
      <4>1. ~T.req /\ cur_lane # 0
        BY <1>5, <2>2, <2>5, <3>5, EngineInInAck DEF SameLong
      <4>2. ~eng.adv
        BY <3>1, <4>1 DEF Acknowledged
      <4>3. dma_addr' % 4 # 0
        BY <1>1, <3>1, <4>1, <4>2 DEF cur_lane
      <4> QED BY <3>3, <3>4, <4>3
    <3> QED BY <3>4, <3>5
  <2>6. Next3
    <3>1. Near => dma_addr' + 0 - 1 = dma_addr' - 1
      BY <1>1, <1>2, <1>5
    <3> QED BY <2>2, <2>5, <3>1
  <2> QED BY <2>1, <2>2, <2>3, <2>4, <2>6 DEF Staged, SameAsk
<1>6. CASE eng.dst = "FLUSH"
  BY <1>6, EngineInFlush DEF Staged, StagedAt, NoLong, SameLong
<1>7. CASE eng.dst = "FETCH"
  BY <1>7, EngineInFetch DEF Staged
<1>8. CASE eng.dst = "OUT"
  BY <1>8, EngineInOut DEF Staged, SameAsk
<1>9. CASE eng.dst = "OUTACK"
  BY <1>9, EngineInOutAck DEF Staged, SameAsk
<1> QED BY <1>3, <1>4, <1>5, <1>6, <1>7, <1>8, <1>9 DEF EngineOK

-----------------------------------------------------------------------------
(* The channel and the lanes together.                                       *)


\* What the master stores: nothing, or bytes selected of the longword, from the bus.
LEMMA MasterLanes ==
  ASSUME NEW cyc, Master(cyc)
  PROVE  \E sel \in SUBSET eng.stage_sel : Lanes(cyc, sel) /\ (sel # {} => dvma.st = "BUS")
<1>1. LowDone \in SUBSET eng.stage_sel
  BY DEF LowDone
<1> QED BY <1>1 DEF Master, S_IDLE, S_BUS, S_ACK

\* What the master stores for the channel keeps the lanes agreed.
LEMMA AgreedKept ==
  ASSUME ChannelInv, Agreed, NEW cyc \in Cycles, Master(cyc)
  PROVE  Agreed'
<1> USE DEF ChannelInv
<1>0. PICK sel \in SUBSET eng.stage_sel : Lanes(cyc, sel) /\ (sel # {} => dvma.st = "BUS")
  BY MasterLanes
<1>1. CASE UNCHANGED lanes
  BY <1>1 DEF lanes, Agreed
<1>2. CASE beat' = Prepared /\ written' = IF job.dir = "out" THEN Places ELSE {}
  <2>1. job.dir \in {"in", "out"}
    BY ScsiAssumption DEF ChannelOK
  <2>2. \A k \in Places : Cross(k) \in Places
    BY DEF Cross, Places
  <2>3. Prepared = [k \in Places |-> IF job.dir = "in" THEN Blank ELSE Cross(k)]
    BY DEF Prepared, Cross
  <2> QED BY <1>2, <2>1, <2>2, <2>3 DEF Agreed
<1>3. CASE /\ sel # {} /\ eng.wb_we
           /\ beat' = StoreLong(beat, eng.chunk_adr, eng.stage, sel)
           /\ written' = written \cup {4 * eng.chunk_adr + i : i \in sel}
  <2>1. eng.wb_req
    BY <1>0, <1>3 DEF Asked
  <2>2. eng.chunk_adr \in 0 .. 3 /\ \A i \in sel : eng.stage[i] = 4 * eng.chunk_adr + i
    BY <1>3, <2>1 DEF Staged, StagedAt
  <2>3. sel \in SUBSET (0 .. 3)
    BY DEF EngineOK
  <2> QED BY <1>3, <2>2, <2>3, LongAgrees
<1> QED BY <1>0, <1>1, <1>2, <1>3 DEF Lanes

PathsInv == ChannelInv /\ Agreed

\* It all holds after power-on.
LEMMA ChannelStarts ==
  ASSUME PathsInit
  PROVE  PathsInv
<1> USE DEF PathsInit, ChannelInit
<1>1. Agreed
  BY DEF LanesInit, Agreed
<1>2. job \in Transfers
  BY ScsiAssumption
<1>3. EngineOK /\ Asked /\ Controlled
  BY DEF EngineOK, Asked, Controlled, Control
<1>4. ChannelOK
  <2>1. drv \in Driver /\ dma_addr \in Nat /\ left \in Nat /\ ack_q \in BOOLEAN
    BY DEF Driver
  <2>2. mpu.last \in {"fetch", "access"} /\ mpu.busy \in 0 .. 3
    <3>1. mpu.last = "fetch" /\ mpu.busy = 0
      OBVIOUS
    <3> HIDE DEF PathsInit, ChannelInit
    <3> QED BY <3>1
  <2>3. icr.sel \in BOOLEAN /\ icr.rst \in BOOLEAN /\ icr.dma \in BOOLEAN
    BY DEF Control
  <2>4. /\ DOMAIN T = {"ph", "req", "n", "want"}
        /\ T.ph \in {"free", "selected", "command", "in", "out", "status"} /\ T.req \in BOOLEAN
        /\ T.n \in Nat /\ T.want \in Nat
    BY DEF Phase
  <2>5. DOMAIN dvma = {"st", "ans", "rd", "latched"}
    OBVIOUS
  <2> QED BY <1>2, <2>1, <2>2, <2>3, <2>4, <2>5 DEF ChannelOK
<1>5. InStep /\ Acknowledged /\ WoundUp /\ AtRest /\ HandedBack /\ Tracks /\ Staged
  BY DEF HandedBack, InStep, Acknowledged, Acking, WoundUp, AtRest, Tracks, Staged, Phase
<1> QED BY <1>1, <1>3, <1>4, <1>5 DEF PathsInv, ChannelInv

\* Every write there is, and every clock of the channel, keeps it.
LEMMA PathsInvKept ==
  ASSUME PathsInv, [PathsNext]_pathvars
  PROVE  PathsInv'
<1> USE DEF PathsInv
<1>1. ASSUME UNCHANGED channel PROVE ChannelInv'
  <2>1. /\ UNCHANGED <<drv, job, dvma_on, mpu>> /\ UNCHANGED <<dma_addr, left, icr>>
        /\ UNCHANGED <<eng, ack_q, T, dvma>>
    BY <1>1 DEF channel, host, regs, pio
  <2>2. EngineOK' /\ Asked' /\ ChannelOK' /\ Controlled'
    <3>1. EngineOK' /\ Asked'
      <4>1. eng' = eng /\ dvma' = dvma
        BY <2>1
      <4>2. (EngineOK' <=> EngineOK) /\ (Asked' <=> Asked)
        BY <4>1 DEF EngineOK, Asked
      <4> QED BY <4>2 DEF ChannelInv
    <3>2. ChannelOK'
      BY <2>1 DEF ChannelInv, ChannelOK
    <3>3. Controlled'
      BY <2>1 DEF ChannelInv, Controlled
    <3> QED BY <3>1, <3>2, <3>3
  <2>3. InStep' /\ Acknowledged'
    BY <2>1 DEF ChannelInv, InStep, Acknowledged, Acking, Moving
  <2>4. WoundUp' /\ AtRest' /\ HandedBack'
    BY <2>1 DEF ChannelInv, WoundUp, Acking, AtRest, HandedBack
  <2>5. Tracks'
    BY <2>1 DEF ChannelInv, Tracks, Acking, Moving
  <2>6. Staged'
    BY <2>1 DEF ChannelInv, Staged, StagedAt, Moving
  <2> QED BY <2>2, <2>3, <2>4, <2>5, <2>6 DEF ChannelInv
<1>2. CASE UNCHANGED pathvars
  <2>1. UNCHANGED channel /\ UNCHANGED lanes
    BY <1>2 DEF pathvars
  <2> QED BY <1>1, <2>1 DEF Agreed, lanes
<1>3. ASSUME NEW l \in Longs, NEW uds \in BOOLEAN, NEW lds \in BOOLEAN, NEW a \in {4 * l, 4 * l + 2},
             EveryWay, CpuWrite(a, uds, lds)
      PROVE  PathsInv'
  <2>1. l \in 0 .. 3
    BY LanesAssumption
  <2>2. a \in Places /\ a % 2 = 0
    BY <2>1 DEF Places
  <2>3. Agreed'
    BY <1>3, <2>2, CpuWriteAgrees
  <2> QED BY <1>1, <1>3, <2>3 DEF EveryWay
<1>4. ASSUME NEW l \in Longs, NEW sel \in SUBSET (0 .. 3), EveryWay, DvmaWrite(l, sel)
      PROVE  PathsInv'
  <2> DEFINE dat == [i \in 0 .. 3 |-> IF i \in sel THEN 4 * l + i ELSE Floating]
  <2>1. l \in 0 .. 3 /\ \A i \in sel : dat[i] = 4 * l + i
    BY LanesAssumption
  <2>2. beat' = StoreLong(beat, l, dat, sel) /\ written' = written \cup {4 * l + i : i \in sel}
    BY <1>4 DEF DvmaWrite
  <2> HIDE DEF dat
  <2>3. Agreed'
    BY <2>1, <2>2, LongAgrees
  <2> QED BY <1>1, <1>4, <2>3 DEF EveryWay
<1>5. ASSUME ByScsi, Clk
      PROVE  PathsInv'
  <2>1. PICK cyc \in Cycles : ChannelStep(cyc)
    BY <1>5 DEF Clk, ChannelStep, Cycles
  <2>2. Agreed'
    BY <2>1, AgreedKept DEF ChannelStep
  <2> QED BY <2>1, <2>2, TypesKept, InStepKept, AcknowledgedKept, WoundUpKept, AtRestKept, HandedBackKept,
          TracksKept, StagedKept DEF ChannelInv
<1> QED BY <1>2, <1>3, <1>4, <1>5 DEF PathsNext

\* A byte written by the CPU, by any DVMA write or by the SCSI channel is where
\* every path looks for it, and where the picture shows it, whatever transfers
\* drivers ask for and however many bytes targets move (sun2_dvma.v 103-141).
THEOREM EveryPathAgrees == FairPaths => []PathsAgree
<1>1. PathsInit => PathsInv
  BY ChannelStarts
<1>2. PathsInv /\ [PathsNext]_pathvars => PathsInv'
  BY PathsInvKept
<1>3. PathsInv => PathsAgree
  BY AgreedIsEnough DEF PathsInv
<1> QED BY <1>1, <1>2, <1>3, PTL DEF FairPaths

-----------------------------------------------------------------------------
(* The engine again: which bytes it takes, and what it asks for.             *)

\* The registers of the engine that say which bytes it has taken.
SamePair  == eng'.nbytes_odd <=> eng.nbytes_odd
NoHold    == eng'.hold = FALSE

\* IN, while its byte is there: the byte with no partner is held, another staged.
LEMMA EngineTakes ==
  ASSUME EngineOK, Engine, eng.dst = "IN", Offered, left # 0, dma_addr \in Nat
  PROVE  /\ eng'.dst = "INACK" /\ eng'.adv = TRUE /\ (eng'.nbytes_odd <=> ~eng.nbytes_odd)
         /\ odd_tail => eng'.hold = TRUE /\ eng'.odd_byte = data /\ SameLong
         /\ ~odd_tail => /\ NoHold
                         /\ eng'.chunk_adr = IF eng.stage_sel = {} THEN dma_addr \div 4 ELSE eng.chunk_adr
                         /\ eng'.stage_sel = eng.stage_sel \cup {cur_lane}
<1>0. LoweredOK
  BY LoweredRegisters
<1>1. CASE odd_tail
  <2>e. eng' = D_IN(Lowered)
    BY <1>1, EngineByState
  <2> QED BY <1>1, <2>e, <1>0 DEF LoweredOK, EngineOK, D_IN, TakeByte, Offered, dma_done, SameLong
<1>2. CASE ~odd_tail
  <2>1. eng' = [Gather(Lowered) EXCEPT !.adv = TRUE, !.nbytes_odd = ~@, !.ack = TRUE, !.dst = "INACK"]
    <3>e. eng' = D_IN(Lowered)
      BY <1>2, EngineByState
    <3> QED BY <1>2, <3>e, <1>0 DEF LoweredOK, EngineOK, D_IN, TakeByte, Offered, dma_done, odd_tail, dma_last
  <2> QED BY <1>2, <2>1, <1>0 DEF LoweredOK, EngineOK, Gather, NoHold
<1> QED BY <1>1, <1>2

\* In every other case the pair and the held byte stay out of it.
LEMMA EngineKeeps ==
  ASSUME EngineOK, Asked, Engine, dma_addr \in Nat, ~(eng.dst = "IN" /\ Offered /\ left # 0)
  PROVE  /\ NoHold
         /\ eng.dst \in {"IN", "INACK", "FLUSH"} => SamePair
         /\ eng.dst = "IDLE" => eng'.nbytes_odd = FALSE
<1>0. LoweredOK
  BY LoweredRegisters
<1>1. CASE eng.dst = "IDLE"
  <2>e. eng' = D_IDLE(Lowered)
    BY <1>1, EngineByState
  <2> QED BY <1>1, <2>e, <1>0 DEF LoweredOK, EngineOK, D_IDLE, Forget, NoHold
<1>2. CASE eng.dst = "IN"
  <2>e. eng' = D_IN(Lowered)
    BY <1>2, EngineByState
  <2> QED BY <1>2, <2>e, <1>0 DEF LoweredOK, EngineOK, D_IN, Settled, Offered, dma_done, NoHold, SamePair
<1>3. CASE eng.dst = "INACK"
  <2>e. eng' = D_INACK(Lowered)
    BY <1>3, EngineByState
  <2> QED BY <1>3, <2>e, <1>0 DEF LoweredOK, EngineOK, D_INACK, NoHold, SamePair
<1>4. CASE eng.dst = "FLUSH"
  <2>e. eng' = D_FLUSH(Lowered)
    BY <1>4, EngineByState
  <2> QED BY <1>4, <2>e, <1>0 DEF LoweredOK, EngineOK, Asked, D_FLUSH, Flushed, NoHold, SamePair
<1>5. CASE eng.dst = "FETCH"
  <2>1. eng' = D_FETCH(Lowered)
    BY <1>5, EngineByState
  <2> QED BY <1>5, <2>1, <1>0 DEF LoweredOK, EngineOK, D_FETCH, NoHold
<1>6. CASE eng.dst = "OUT"
  <2>e. eng' = D_OUT(Lowered)
    BY <1>6, EngineByState
  <2> QED BY <1>6, <2>e, <1>0 DEF LoweredOK, EngineOK, D_OUT, NoHold
<1>7. CASE eng.dst = "OUTACK"
  <2>e. eng' = D_OUTACK(Lowered)
    BY <1>7, EngineByState
  <2> QED BY <1>7, <2>e, <1>0 DEF LoweredOK, EngineOK, D_OUTACK, NoHold
<1> QED BY <1>1, <1>2, <1>3, <1>4, <1>5, <1>6, <1>7 DEF EngineOK

\* The engine tells an error of a byte that nobody will take, or of an answer.
LEMMA EngineErrs ==
  ASSUME EngineOK, Asked, Engine, eng'.err
  PROVE  (Offered /\ eng.dst = "IN" /\ left = 0) \/ dvma.ans = "err"
<1>0. LoweredOK
  BY LoweredRegisters
<1>1. CASE eng.dst = "IDLE"
  <2>e. eng' = D_IDLE(Lowered)
    BY <1>1, EngineByState
  <2> QED BY <1>1, <2>e, <1>0 DEF LoweredOK, EngineOK, D_IDLE, Forget
<1>2. CASE eng.dst = "IN"
  <2>1. eng' = D_IN(Lowered)
    BY <1>2, EngineByState
  <2>2. CASE Offered /\ left # 0
    BY <2>1, <2>2, <1>0 DEF LoweredOK, EngineOK, D_IN, TakeByte, Gather, Offered, dma_done
  <2>3. CASE ~Offered
    BY <2>1, <2>3, <1>0 DEF LoweredOK, EngineOK, D_IN, Settled, Offered
  <2> QED BY <1>2, <2>2, <2>3
<1>3. CASE eng.dst = "INACK"
  <2>e. eng' = D_INACK(Lowered)
    BY <1>3, EngineByState
  <2> QED BY <1>3, <2>e, <1>0 DEF LoweredOK, EngineOK, D_INACK
<1>4. CASE eng.dst = "FLUSH"
  <2>e. eng' = D_FLUSH(Lowered)
    BY <1>4, EngineByState
  <2> QED BY <1>4, <2>e, <1>0 DEF LoweredOK, EngineOK, Asked, D_FLUSH, Flushed
<1>5. CASE eng.dst = "FETCH"
  <2>1. eng' = D_FETCH(Lowered)
    BY <1>5, EngineByState
  <2> QED BY <1>5, <2>1, <1>0 DEF LoweredOK, EngineOK, Asked, D_FETCH
<1>6. CASE eng.dst = "OUT"
  <2>e. eng' = D_OUT(Lowered)
    BY <1>6, EngineByState
  <2> QED BY <1>6, <2>e, <1>0 DEF LoweredOK, EngineOK, D_OUT
<1>7. CASE eng.dst = "OUTACK"
  <2>e. eng' = D_OUTACK(Lowered)
    BY <1>7, EngineByState
  <2> QED BY <1>7, <2>e, <1>0 DEF LoweredOK, EngineOK, D_OUTACK
<1> QED BY <1>1, <1>2, <1>3, <1>4, <1>5, <1>6, <1>7 DEF EngineOK

\* What FETCH asks for is the longword of the address, and hands it to OUT.
LEMMA FetchOutcome ==
  ASSUME EngineOK, Asked, Engine, eng.dst = "FETCH", dma_addr \in Nat
  PROVE  \/ eng'.dst = "IDLE" /\ (eng'.wb_req <=> eng.wb_req)
         \/ eng'.dst = "IDLE" /\ eng'.wb_req = FALSE
         \/ /\ eng'.dst = "FETCH" /\ ~eng.wb_req /\ left # 0
            /\ eng'.chunk_adr = dma_addr \div 4 /\ eng'.wb_req = TRUE /\ eng'.wb_we = FALSE
            /\ eng'.stage_sel = 0 .. 3
         \/ /\ eng'.dst = "OUT" /\ dvma.ans = "ack" /\ eng'.wb_req = FALSE
            /\ eng'.stage = dvma.rd /\ eng'.out_lane = cur_lane
         \/ /\ eng'.dst = "FETCH" /\ eng.wb_req /\ dvma.ans = "" /\ SameAsk /\ left # 0
            /\ eng'.chunk_adr = eng.chunk_adr /\ eng'.stage_sel = eng.stage_sel
<1>0. LoweredOK
  BY LoweredRegisters
<1>1. eng' = D_FETCH(Lowered)
  BY EngineByState
<1>2. CASE ~dma_armed \/ dma_done
  BY <1>1, <1>2, <1>0 DEF LoweredOK, EngineOK, D_FETCH
<1>3. CASE dma_armed /\ ~dma_done /\ eng.wb_req = FALSE
  BY <1>1, <1>3, <1>0 DEF LoweredOK, EngineOK, Asked, D_FETCH, dma_done
<1>4. CASE dma_armed /\ ~dma_done /\ eng.wb_req /\ dvma.ans = "ack"
  BY <1>1, <1>4, <1>0 DEF LoweredOK, EngineOK, D_FETCH
<1>5. CASE dma_armed /\ ~dma_done /\ eng.wb_req /\ dvma.ans = "err"
  BY <1>1, <1>5, <1>0 DEF LoweredOK, EngineOK, D_FETCH
<1>6. CASE dma_armed /\ ~dma_done /\ eng.wb_req /\ dvma.ans = ""
  BY <1>1, <1>6, <1>0 DEF LoweredOK, EngineOK, D_FETCH, SameAsk, dma_done
<1> QED BY <1>2, <1>3, <1>4, <1>5, <1>6 DEF EngineOK, Asked

\* OUT and OUTACK keep the longword, and follow the address in it.
LEMMA OutOutcome ==
  ASSUME EngineOK, Engine
  PROVE  /\ eng.dst \in {"OUT", "OUTACK"} => eng'.stage = eng.stage
         /\ eng.dst = "OUT" => eng'.out_lane = eng.out_lane
         /\ eng.dst = "OUTACK" =>
              \/ T.req /\ eng'.dst = "OUTACK" /\ eng'.out_lane = eng.out_lane
              \/ /\ ~T.req /\ eng'.out_lane = cur_lane
                 /\ eng'.dst = IF cur_lane = 0 THEN "FETCH" ELSE "OUT"
<1>0. LoweredOK
  BY LoweredRegisters
<1>1. CASE eng.dst = "OUT"
  <2>e. eng' = D_OUT(Lowered)
    BY <1>1, EngineByState
  <2> QED BY <1>1, <2>e, <1>0 DEF LoweredOK, EngineOK, D_OUT
<1>2. CASE eng.dst = "OUTACK"
  <2>e. eng' = D_OUTACK(Lowered)
    BY <1>2, EngineByState
  <2> QED BY <1>2, <2>e, <1>0 DEF LoweredOK, EngineOK, D_OUTACK
<1> QED BY <1>1, <1>2

-----------------------------------------------------------------------------
(* A transfer, from its setting up to its status byte.                       *)

UnderWay == drv \in {"command", "wait", "status", "fail"}

\* The address after the bytes the engine has taken.
Met == IF eng.adv THEN dma_addr + 1 ELSE dma_addr

\* A transfer goes one way: the phase, the word flag and the engine are the job's.
OneWay ==
  /\ Moving => T.ph = job.dir
  /\ UnderWay \/ drv = "setup" => (icr.word <=> job.word)
  /\ UnderWay /\ job.dir = "in" =>
       /\ eng.dst \in {"IDLE", "IN", "INACK", "FLUSH"}
       /\ eng.dst = "IDLE" => eng.stage_sel = {}
  /\ UnderWay /\ job.dir = "out" => eng.dst \in {"IDLE", "FETCH", "OUT", "OUTACK"}

\* A request is that of the state the engine is in.
Asking ==
  UnderWay /\ ~cut /\ eng.wb_req =>
    IF job.dir = "in" THEN eng.dst = "FLUSH" /\ eng.wb_we ELSE eng.dst = "FETCH"

\* In STATUS the address has followed every byte, and an error is told before the
\* CPU can look.
AtStatus ==
  /\ UnderWay /\ T.ph = "status" => dma_addr = job.at + T.want
  /\ eng.err /\ drv = "status" /\ ~cut => mpu.last = "access" \/ mpu.busy \in {1, 2, 3}
  /\ eng.hold => eng.adv

\* A transfer under way was so before, or is set up in this clock.
LEMMA UnderWayStep ==
  ASSUME ChannelInv, NEW cyc \in Cycles, ChannelStep(cyc), UnderWay'
  PROVE  /\ job' = job /\ T'.ph # "free" /\ dma_addr \in Nat /\ dma_addr' \in Nat /\ Met' \in Nat
         /\ \/ /\ cyc = "setup" /\ drv = "setup" /\ ~Moving' /\ T'.ph # "status"
               /\ eng.dst = "IDLE" /\ eng'.dst = "IDLE" /\ dma_addr' = job.at /\ eng'.adv = FALSE
               /\ icr' = icr
            \/ /\ cyc \notin {"setup", "reset"} /\ UnderWay /\ dma_addr' = Met /\ icr' = icr
               /\ left' = IF eng.adv THEN left - 1 ELSE left
               /\ icr.dma /\ ~icr.rst /\ ~icr.sel
<1> USE DEF ChannelInv, ChannelStep
<1>1. job' = job /\ dma_addr \in Nat /\ dma_addr' \in Nat
  BY TypesKept, DriverMoves DEF UnderWay, ChannelOK
<1>2. T'.ph # "free" /\ (drv' = "command" => ~Moving' /\ T'.ph # "status")
  BY InStepKept DEF InStep, UnderWay, Moving
<1>3. CASE cyc = "setup"
  <2>1. drv = "setup" /\ drv' = "command" /\ eng.dst = "IDLE"
    BY <1>3, DriverMoves DEF AtRest
  <2>2. eng'.dst = "IDLE" /\ eng'.adv = FALSE
    BY <2>1, EngineInIdle, OfferedWhen DEF NoTake
  <2> QED BY <1>1, <1>2, <1>3, <2>1, <2>2 DEF RegisterFile, Met
<1>4. CASE cyc # "setup"
  <2>1. UnderWay /\ cyc \in {"none", "fetch", "cdb", "poll"}
    BY <1>4, DriverMoves DEF UnderWay, Cycles, Accesses
  <2>2. icr.dma /\ ~icr.rst /\ ~icr.sel
    BY <2>1 DEF Controlled, UnderWay
  <2>3. /\ dma_addr' = Met /\ icr' = icr
        /\ left' = IF eng.adv THEN left - 1 ELSE left
    BY <1>1, <2>1 DEF RegisterFile, Met
  <2>4. Met' \in Nat
    <3>1. dma_addr' \in Nat
      BY <1>1
    <3>2. Met' = dma_addr' + 1 \/ Met' = dma_addr'
      BY DEF Met
    <3> QED BY <3>1, <3>2
  <2> QED BY <1>1, <1>2, <1>4, <2>1, <2>2, <2>3, <2>4
<1> QED BY <1>3, <1>4

\* The engine takes the way of the phase, and no phase is but the job's.
LEMMA OneWayKept ==
  ASSUME ChannelInv, OneWay, NEW cyc \in Cycles, ChannelStep(cyc)
  PROVE  OneWay'
<1> USE DEF ChannelInv, ChannelStep
<1>1. ASSUME Moving' PROVE T'.ph = job'.dir
  <2>1. drv' \in {"wait", "fail", "reset"}
    BY <1>1, InStepKept, TypesKept DEF InStep, Moving, ChannelOK, Driver
  <2>2. job' = job
    BY <2>1, DriverMoves
  <2> QED BY <1>1, <2>2, TargetMoves DEF Moving, OneWay
<1>2. ASSUME UnderWay' \/ drv' = "setup" PROVE icr'.word <=> job'.word
  <2>1. CASE cyc = "arm"
    BY <2>1, DriverMoves DEF RegisterFile, Control
  <2>2. CASE cyc # "arm"
    <3>1. (UnderWay \/ drv = "setup") /\ cyc \notin {"select", "arm", "reset", "release"}
      BY <1>2, <2>2, DriverMoves DEF UnderWay, Cycles, Accesses
    <3>2. icr' = icr /\ job' = job
      BY <3>1, DriverMoves DEF RegisterFile
    <3> QED BY <3>1, <3>2 DEF OneWay
  <2> QED BY <2>1, <2>2
<1>3. ASSUME UnderWay', job'.dir = "in"
      PROVE  /\ eng'.dst \in {"IDLE", "IN", "INACK", "FLUSH"}
             /\ eng'.dst = "IDLE" => eng'.stage_sel = {}
  <2>1. CASE eng.dst = "IDLE"
    <3>1. eng'.dst # "IDLE" => io
      BY <1>3, <2>1, EngineInIdle, OfferedWhen, UnderWayStep DEF OneWay, io
    <3> QED BY <2>1, <3>1, EngineInIdle
  <2>2. CASE eng.dst # "IDLE"
    <3>1. UnderWay /\ job.dir = "in"
      BY <1>3, <2>2, UnderWayStep
    <3>2. CASE eng.dst = "IN"
      BY <3>2, EngineInIn DEF SameLong, ChannelOK
    <3>3. CASE eng.dst = "INACK"
      BY <3>3, EngineInInAck
    <3>4. CASE eng.dst = "FLUSH"
      BY <3>4, EngineInFlush
    <3> QED BY <2>2, <3>1, <3>2, <3>3, <3>4 DEF OneWay
  <2> QED BY <2>1, <2>2
<1>4. ASSUME UnderWay', job'.dir = "out"
      PROVE  eng'.dst \in {"IDLE", "FETCH", "OUT", "OUTACK"}
  <2>1. CASE eng.dst = "IDLE"
    <3>1. eng'.dst # "IDLE" => ~io
      BY <1>4, <2>1, EngineInIdle, OfferedWhen, UnderWayStep DEF OneWay, io
    <3> QED BY <2>1, <3>1, EngineInIdle
  <2>2. CASE eng.dst # "IDLE"
    <3>1. UnderWay /\ job.dir = "out"
      BY <1>4, <2>2, UnderWayStep
    <3>2. CASE eng.dst = "FETCH"
      BY <3>2, EngineInFetch
    <3>3. CASE eng.dst = "OUT"
      BY <3>3, EngineInOut
    <3>4. CASE eng.dst = "OUTACK"
      BY <3>4, EngineInOutAck
    <3> QED BY <2>2, <3>1, <3>2, <3>3, <3>4 DEF OneWay
  <2> QED BY <2>1, <2>2
<1> QED BY <1>1, <1>2, <1>3, <1>4 DEF OneWay

\* While a transfer is under way nothing is cut unless it says so.
LEMMA NotCut ==
  ASSUME ChannelInv, NEW cyc \in Cycles, ChannelStep(cyc), UnderWay', ~cut'
  PROVE  /\ cyc = "setup" => eng.wb_req = FALSE
         /\ cyc # "setup" => ~cut
         /\ eng.dst = "FETCH" /\ eng.wb_req /\ eng'.dst = "IDLE" => ~eng'.wb_req
BY DEF ChannelInv, ChannelStep, Mpu, EngineOK

\* A request goes with the state that made it, unless the fetch is abandoned.
LEMMA AskingKept ==
  ASSUME ChannelInv, OneWay, Asking, NEW cyc \in Cycles, ChannelStep(cyc)
  PROVE  Asking'
<1> USE DEF ChannelInv, ChannelStep
<1>1. SUFFICES ASSUME UnderWay', ~cut', eng'.wb_req
               PROVE  IF job'.dir = "in" THEN eng'.dst = "FLUSH" /\ eng'.wb_we ELSE eng'.dst = "FETCH"
  BY DEF Asking
<1>2. job' = job /\ job.dir \in {"in", "out"} /\ dma_addr \in Nat
  BY <1>1, UnderWayStep, ScsiAssumption DEF ChannelOK
<1>3. eng.dst # "IDLE"
  <2>1. CASE cyc = "setup"
    BY <1>1, <2>1, NotCut, UnderWayStep, EngineInIdle
  <2>2. CASE cyc # "setup"
    BY <1>1, <2>2, NotCut, UnderWayStep, EngineInIdle DEF Asking
  <2> QED BY <2>1, <2>2
<1>4. UnderWay /\ ~cut
  BY <1>1, <1>3, UnderWayStep, NotCut
<1>5. CASE eng.dst = "FLUSH"
  <2>1. job.dir = "in"
    BY <1>2, <1>4, <1>5 DEF OneWay
  <2>2. eng'.dst = "FLUSH" /\ eng'.wb_we
    BY <1>1, <1>4, <1>5, <2>1, FlushOutcome, EngineInFlush DEF Asking, SameAsk
  <2> QED BY <1>2, <2>1, <2>2
<1>6. CASE eng.dst = "FETCH"
  <2>1. job.dir = "out"
    BY <1>2, <1>4, <1>6 DEF OneWay
  <2>2. eng'.dst = "FETCH"
    BY <1>1, <1>2, <1>6, FetchOutcome, NotCut
  <2> QED BY <1>2, <2>1, <2>2
<1>7. CASE eng.dst \in {"IN", "INACK", "OUT", "OUTACK"}
  <2>1. eng.wb_req = FALSE
    BY <1>2, <1>4, <1>7 DEF Asking, EngineOK
  <2>2. SameAsk
    BY <1>2, <1>7, EngineInIn, EngineInInAck, EngineInOut, EngineInOutAck
  <2> QED BY <1>1, <2>1, <2>2 DEF SameAsk
<1> QED BY <1>3, <1>5, <1>6, <1>7 DEF EngineOK

\* The target leaves the data phase when the address has followed its last byte.
LEMMA AtStatusKept ==
  ASSUME ChannelInv, Asking, AtStatus, NEW cyc \in Cycles, ChannelStep(cyc)
  PROVE  AtStatus'
<1> USE DEF ChannelInv, ChannelStep
<1>1. ASSUME UnderWay', T'.ph = "status" PROVE dma_addr' = job'.at + T'.want
  <2>1. job' = job /\ UnderWay /\ dma_addr' = Met /\ ~icr.rst
    BY <1>1, UnderWayStep
  <2>2. dma_addr \in Nat /\ job.at \in Nat /\ T.n \in Nat
    BY Inside DEF ChannelOK
  <2>3. T' = T \/ T.ph # "status" \/ T'.want = T.want
    BY <1>1, <2>1, TargetMoves DEF Moving
  <2>4. CASE T.ph = "status"
    <3>1. ~eng.adv
      BY <2>1, <2>4 DEF Acknowledged, Moving, UnderWay
    <3> QED BY <2>1, <2>2, <2>3, <2>4, <3>1 DEF AtStatus, Met
  <2>5. CASE T.ph = "command"
    <3>1. T'.want = 0 /\ ~eng.adv
      BY <1>1, <2>1, <2>5, TargetMoves, ScsiAssumption DEF Moving, Acknowledged, UnderWay, ChannelOK
    <3>2. dma_addr = job.at
      BY <2>1, <2>5 DEF Tracks, UnderWay
    <3> QED BY <2>1, <2>2, <3>1, <3>2 DEF Met
  <2>6. CASE Moving
    <3>1. T.req = FALSE /\ ~ack /\ T'.want = T.want /\ T.n = T.want
      BY <1>1, <2>1, <2>6, TargetMoves DEF Moving
    <3>2. Met = job.at + T.n + 0
      BY <2>1, <2>2, <2>6, <3>1 DEF Tracks, UnderWay, Met
    <3> QED BY <2>1, <2>2, <3>1, <3>2
  <2> QED BY <1>1, <2>1, <2>4, <2>5, <2>6, TargetMoves DEF Moving
<1>2. ASSUME eng'.err, drv' = "status", ~cut' PROVE mpu'.last = "access" \/ mpu'.busy \in {1, 2, 3}
  <2>1. CASE cyc \in Accesses
    BY <2>1, CpuClock DEF Accesses
  <2>2. CASE cyc = "fetch"
    BY <2>2, CpuClock
  <2>3. CASE cyc = "none"
    <3>1. drv = "status" /\ UnderWay /\ UnderWay' /\ mpu'.last = mpu.last
          /\ (mpu.busy \in {2, 3} => mpu'.busy \in {1, 2, 3})
      BY <1>2, <2>3, DriverMoves, CpuClock DEF UnderWay
    <3>2. ~cut
      BY <1>2, <2>3, <3>1, NotCut
    <3>3. ~Offered
      BY <3>1, OfferedWhen
    <3>4. dvma.ans = "err" /\ eng.wb_req
      BY <1>2, <3>3, EngineErrs DEF Asked
    <3>5. \/ eng.dst = "FLUSH" /\ eng.wb_we
          \/ eng.dst = "FETCH"
      BY <3>1, <3>2, <3>4 DEF Asking
    <3>6. mpu.last = "access" \/ (eng.wb_we /\ mpu.ran)
      BY <3>1, <3>5 DEF WoundUp
    <3> QED BY <3>1, <3>4, <3>6 DEF HandedBack
  <2> QED BY <2>1, <2>2, <2>3 DEF Cycles
<1>3. ASSUME eng'.hold PROVE eng'.adv
  <2>1. dma_addr \in Nat
    BY DEF ChannelOK
  <2> QED BY <1>3, <2>1, EngineTakes, EngineKeeps DEF NoHold
<1> QED BY <1>1, <1>2, <1>3 DEF AtStatus

-----------------------------------------------------------------------------
(* Reading: the account of the bytes.                                        *)

\* A bus error is told, or is about to be.
Erred == status.buserr \/ eng.err

\* The last byte of an odd transfer by words, which has no partner.
Lone(a) == job.word /\ job.len % 2 = 1 /\ a = job.at + job.len - 1

Waits(a) == \E i \in eng.stage_sel : a = 4 * eng.chunk_adr + i

\* Every byte the engine has taken is in memory or staged, or is the one held.
Accounted ==
  UnderWay /\ job.dir = "in" /\ ~Erred /\ ~cut =>
    /\ \A a \in Places : a \in written \/ Waits(a) <=> job.at <= a /\ a < Met /\ ~Lone(a)
    /\ eng.dst = "FLUSH" /\ (dvma.st = "ACK" \/ dvma.ans = "ack") =>
         \A a \in Places : Waits(a) => a \in written
    /\ eng.dst = "IDLE" => left = 0 \/ Met = job.at \/ T.ph = "status"
    /\ eng.dst \in {"IN", "INACK", "FLUSH"} => (eng.nbytes_odd <=> (Met - job.at) % 2 = 1)
    /\ \A a \in Places : Lone(a) /\ Met = a + 1 =>
         IF eng.hold THEN eng.odd_byte = a ELSE status.odd /\ status.data_r = a

\* What the master may do to memory, but at the setting up, and what it answers for.
LEMMA MasterStores ==
  ASSUME ChannelInv, NEW cyc \in Cycles, Master(cyc), cyc # "setup"
  PROVE  /\ \A a \in Places : a \in written' \/ Waits(a) <=> a \in written \/ Waits(a)
         /\ ~(eng.wb_req /\ eng.wb_we) => UNCHANGED lanes
         /\ dvma.ans # "" => UNCHANGED lanes
         /\ dvma'.st = "ACK" =>
              /\ eng.wb_req /\ dvma.ans = ""
              /\ \/ eng.stage_sel = {}
                 \/ eng.wb_we /\ \A a \in Places : Waits(a) => a \in written'
                 \/ ~eng.wb_we /\ dvma'.rd = ReadLong
         /\ dvma'.ans = "ack" =>
              /\ dvma.st = "ACK" /\ eng.wb_req /\ dvma.ans = ""
              /\ UNCHANGED lanes /\ dvma'.rd = dvma.rd
<1> USE DEF ChannelInv
\* What a store of some of the bytes staged does.
<1>0. ASSUME NEW sel \in SUBSET eng.stage_sel, Lanes(cyc, sel)
      PROVE  /\ \A a \in Places : a \in written' \/ Waits(a) <=> a \in written \/ Waits(a)
             /\ ~eng.wb_we \/ sel = {} => UNCHANGED lanes
             /\ eng.wb_we /\ sel = eng.stage_sel => \A a \in Places : Waits(a) => a \in written'
  <2>1. CASE ~eng.wb_we \/ sel = {}
    <3>1. UNCHANGED lanes
      BY <1>0, <2>1 DEF Lanes
    <3>2. sel = eng.stage_sel /\ eng.wb_we => \A a \in Places : ~Waits(a)
      BY <2>1 DEF Waits
    <3> QED BY <3>1, <3>2 DEF lanes
  <2>2. CASE ~(~eng.wb_we \/ sel = {})
    <3>1. written' = written \cup {4 * eng.chunk_adr + i : i \in sel}
      BY <1>0, <2>2 DEF Lanes
    <3>2. \A a : a \in written' <=> a \in written \/ \E i \in sel : a = 4 * eng.chunk_adr + i
      BY <3>1
    <3> QED BY <2>2, <3>2, Zenon DEF Waits
  <2> QED BY <2>1, <2>2
<1>1. CASE S_IDLE(cyc)
  <2>1. PICK st \in Decided : dvma' = Stepped(st, "", NoLong, FALSE)
    BY <1>1 DEF S_IDLE
  <2>2. st = "ACK" => eng.wb_req /\ dvma.ans = "" /\ eng.stage_sel = {}
    BY <2>1 DEF Decided
  <2>3. dvma'.st = st /\ dvma'.ans = ""
    BY <2>1 DEF Stepped
  <2>4. Lanes(cyc, {})
    BY <1>1 DEF S_IDLE
  <2> QED BY <1>0, <2>2, <2>3, <2>4
<1>2. CASE S_BUS(cyc)
  <2>1. eng.wb_req /\ dvma.ans = ""
    BY <1>2 DEF S_BUS, Asked
  <2>2. CASE dvma' = Stepped("BUS", "", NoLong, FALSE) /\ Lanes(cyc, {})
    BY <1>0, <2>1, <2>2 DEF Stepped
  <2>3. CASE /\ dvma' = Stepped("ACK", "", IF eng.wb_we THEN NoLong ELSE ReadLong, FALSE)
             /\ Lanes(cyc, eng.stage_sel)
    <3>1. dvma'.st = "ACK" /\ dvma'.ans = "" /\ dvma'.rd = IF eng.wb_we THEN NoLong ELSE ReadLong
      BY <2>3 DEF Stepped
    <3> QED BY <1>0, <2>1, <2>3, <3>1
  <2>4. CASE dvma' = Stepped("ERR", "", NoLong, TRUE) /\ \E sel \in {{}, LowDone} : Lanes(cyc, sel)
    <3>1. dvma'.st = "ERR" /\ dvma'.ans = ""
      BY <2>4 DEF Stepped
    <3>2. PICK sel \in {{}, LowDone} : Lanes(cyc, sel)
      BY <2>4
    <3>3. sel \in SUBSET eng.stage_sel
      BY DEF LowDone
    <3> QED BY <1>0, <2>1, <3>1, <3>2, <3>3
  <2> QED BY <1>2, <2>2, <2>3, <2>4 DEF S_BUS
<1>3. CASE S_ACK(cyc)
  <2>1. dvma'.st = "IDLE" /\ dvma'.rd = dvma.rd /\ (dvma'.ans = "ack" => dvma.st = "ACK")
    BY <1>3 DEF S_ACK, Stepped
  <2>2. eng.wb_req /\ dvma.ans = "" /\ Lanes(cyc, {})
    BY <1>3 DEF S_ACK, Asked
  <2> QED BY <1>0, <2>1, <2>2
<1> QED BY <1>1, <1>2, <1>3 DEF Master

\* A byte goes from the target to the longword staged, or is held, and from there
\* to memory when the flush is answered; none is forgotten, none comes twice.
LEMMA AccountedKept ==
  ASSUME ChannelInv, OneWay, Asking, AtStatus, Accounted, NEW cyc \in Cycles, ChannelStep(cyc)
  PROVE  Accounted'
<1> USE DEF ChannelInv, ChannelStep
<1> DEFINE All == \A a \in Places : a \in written' \/ Waits(a)' <=> job'.at <= a /\ a < Met' /\ ~Lone(a)'
           Served == dvma'.st = "ACK" \/ dvma'.ans = "ack"
           Told == eng'.dst = "FLUSH" /\ Served => \A a \in Places : Waits(a)' => a \in written'
           Begun == eng'.dst = "IDLE" => left' = 0 \/ Met' = job'.at \/ T'.ph = "status"
           Pair == eng'.dst \in {"IN", "INACK", "FLUSH"} => (eng'.nbytes_odd <=> (Met' - job'.at) % 2 = 1)
           Odd == \A a \in Places : Lone(a)' /\ Met' = a + 1 =>
                    IF eng'.hold THEN eng'.odd_byte = a ELSE status'.odd /\ status'.data_r = a
<1>1. SUFFICES ASSUME UnderWay', job'.dir = "in", ~Erred', ~cut'
               PROVE  All /\ Told /\ Begun /\ Pair /\ Odd
  BY DEF Accounted
<1>2. job' = job /\ dma_addr \in Nat /\ job.dir = "in" /\ Met' \in Nat /\ Met \in Nat
      /\ job.at \in Nat /\ job.len \in Nat /\ job.len # 0 /\ job.at + job.len <= 16
  <2>1. job' = job /\ dma_addr \in Nat /\ Met' \in Nat
    BY <1>1, UnderWayStep
  <2>2. Met \in Nat
    <3>1. Met = dma_addr \/ Met = dma_addr + 1
      BY DEF Met
    <3> QED BY <2>1, <3>1
  <2>3. job.len # 0
    BY ScsiAssumption DEF ChannelOK
  <2> QED BY <1>1, <2>1, <2>2, <2>3, Inside
<1>3. \A a : Lone(a)' <=> Lone(a)
  BY <1>2 DEF Lone
<1>4. CASE cyc = "setup"
  <2>1. /\ eng.dst = "IDLE" /\ eng'.dst = "IDLE" /\ dma_addr' = job.at /\ eng'.adv = FALSE
        /\ eng'.stage_sel = {}
    BY <1>1, <1>4, UnderWayStep, EngineInIdle
  <2>2. written' = {}
    BY <1>2, <1>4, MasterLanes DEF Lanes
  <2>3. Met' = job.at
    BY <2>1 DEF Met
  <2>4. All
    BY <1>2, <2>1, <2>2, <2>3 DEF Waits, Places
  <2>5. Odd
    BY <1>2, <1>3, <2>3 DEF Lone, Places
  <2> QED BY <1>2, <2>1, <2>3, <2>4, <2>5
<1>5. CASE cyc # "setup"
  <2>1. /\ UnderWay /\ dma_addr' = Met /\ ~icr.rst /\ icr.dma
        /\ left' = IF eng.adv THEN left - 1 ELSE left
        /\ cyc # "reset"
    BY <1>1, <1>5, UnderWayStep
  <2>2. ~Erred /\ ~cut
    <3>1. status'.buserr <=> (cyc # "reset" /\ (status.buserr \/ eng.err))
      BY DEF RegisterFile
    <3> QED BY <1>1, <1>5, <2>1, <3>1, NotCut DEF Erred
  <2>3. /\ \A a \in Places : a \in written \/ Waits(a) <=> job.at <= a /\ a < Met /\ ~Lone(a)
        /\ eng.dst = "FLUSH" /\ (dvma.st = "ACK" \/ dvma.ans = "ack") =>
             \A a \in Places : Waits(a) => a \in written
        /\ eng.dst = "IDLE" => left = 0 \/ Met = job.at \/ T.ph = "status"
        /\ eng.dst \in {"IN", "INACK", "FLUSH"} => (eng.nbytes_odd <=> (Met - job.at) % 2 = 1)
        /\ \A a \in Places : Lone(a) /\ Met = a + 1 =>
             IF eng.hold THEN eng.odd_byte = a ELSE status.odd /\ status.data_r = a
    BY <1>2, <2>1, <2>2 DEF Accounted
  <2>4. eng.dst \in {"IDLE", "IN", "INACK", "FLUSH"} /\ (eng.dst = "IDLE" => eng.stage_sel = {})
    BY <1>2, <2>1 DEF OneWay
  <2>5. eng.wb_req => eng.dst = "FLUSH" /\ eng.wb_we
    BY <1>2, <2>1, <2>2 DEF Asking
  <2>6. dma_addr + left = job.at + job.len
    BY <2>1 DEF Tracks, UnderWay
  <2>7. eng.dst # "FLUSH" => written' = written /\ ~Served
    BY <1>5, <2>5, MasterStores DEF lanes
  <2>8. status'.odd <=> status.odd \/ eng.hold
    BY DEF RegisterFile
  <2>9. status'.data_r = IF eng.hold THEN eng.odd_byte ELSE status.data_r
    BY DEF RegisterFile
\* While no byte is taken, the account is of the same bytes.
  <2>10. ASSUME ~eng'.adv PROVE Met' = Met
    BY <2>1, <2>10 DEF Met
  <2>11. ASSUME ~eng'.adv, eng'.hold = FALSE PROVE Odd
    BY <1>2, <1>3, <2>3, <2>8, <2>9, <2>10, <2>11
  <2>12. CASE eng.dst = "IN" /\ Offered /\ left # 0
    <3>1. /\ eng'.dst = "INACK" /\ eng'.adv = TRUE /\ (eng'.nbytes_odd <=> ~eng.nbytes_odd)
          /\ odd_tail => eng'.hold = TRUE /\ eng'.odd_byte = data /\ SameLong
          /\ ~odd_tail => /\ eng'.hold = FALSE
                          /\ eng'.chunk_adr = IF eng.stage_sel = {} THEN dma_addr \div 4 ELSE eng.chunk_adr
                          /\ eng'.stage_sel = eng.stage_sel \cup {cur_lane}
      BY <1>2, <2>12, EngineTakes DEF NoHold
    <3>2. data = dma_addr /\ dma_addr \in Places /\ ~eng.adv
      BY <2>12, GatheredWell DEF Places
    <3>3. Met = dma_addr /\ Met' = dma_addr + 1
      BY <2>1, <3>1, <3>2 DEF Met
    <3>4. Pair
      BY <1>2, <2>3, <2>12, <3>1, <3>3
    <3>5. odd_tail <=> Lone(dma_addr)
      <4>1. icr.word <=> job.word
        BY <2>1 DEF OneWay
      <4>2. eng.nbytes_odd <=> (dma_addr - job.at) % 2 = 1
        BY <2>3, <2>12, <3>3
      <4>3. left = 1 <=> dma_addr = job.at + job.len - 1
        BY <1>2, <2>6 DEF ChannelOK
      <4>4. dma_addr = job.at + job.len - 1 => ((dma_addr - job.at) % 2 = 1 <=> job.len % 2 # 1)
        BY <1>2
      <4> QED BY <4>1, <4>2, <4>3, <4>4 DEF odd_tail, dma_last, Lone
    <3>6. \A a \in Places : Waits(a)' <=> Waits(a) \/ (a = dma_addr /\ ~odd_tail)
      <4>1. CASE odd_tail
        BY <3>1, <4>1 DEF Waits, SameLong
      <4>2. CASE ~odd_tail
        <5>1. eng.stage_sel # {} => dma_addr \div 4 = eng.chunk_adr
          BY <2>12, OfferedWhen DEF Staged
        <5>2. eng'.chunk_adr = dma_addr \div 4 /\ eng'.stage_sel = eng.stage_sel \cup {cur_lane}
          BY <3>1, <4>2, <5>1
        <5>3. dma_addr = 4 * (dma_addr \div 4) + cur_lane
          BY <1>2 DEF cur_lane
        <5> QED BY <4>2, <5>1, <5>2, <5>3 DEF Waits
      <4> QED BY <4>1, <4>2
    <3>7. All
      <4> SUFFICES ASSUME NEW a \in Places
                   PROVE  a \in written' \/ Waits(a)' <=> job'.at <= a /\ a < Met' /\ ~Lone(a)'
        OBVIOUS
      <4>1. a \in written' \/ Waits(a)' <=> (a \in written \/ Waits(a)) \/ (a = dma_addr /\ ~odd_tail)
        BY <2>7, <2>12, <3>6
      <4>2. a \in Int /\ dma_addr >= job.at
        <5>1. Moving /\ drv \in {"wait", "fail"} /\ ~Acking
          BY <2>12, OfferedWhen DEF Acking
        <5>2. dma_addr + 0 = job.at + T.n + 0 /\ T.n \in Nat
          BY <3>2, <5>1 DEF Tracks, ChannelOK
        <5> QED BY <1>2, <5>2 DEF Places
      <4> QED BY <1>2, <1>3, <2>3, <3>3, <3>5, <4>1, <4>2
    <3>8. Odd
      BY <1>3, <3>1, <3>2, <3>3, <3>5 DEF Places
    <3> QED BY <3>1, <3>4, <3>7, <3>8
  <2>13. CASE ~(eng.dst = "IN" /\ Offered /\ left # 0)
    <3>1. /\ eng'.hold = FALSE
          /\ eng.dst \in {"IN", "INACK", "FLUSH"} => (eng'.nbytes_odd <=> eng.nbytes_odd)
          /\ eng.dst = "IDLE" => eng'.nbytes_odd = FALSE
      BY <1>2, <2>13, EngineKeeps DEF NoHold, SamePair
    <3>2. CASE eng.dst = "IDLE"
      <4>1. /\ eng'.adv = FALSE /\ eng'.stage_sel = {} /\ eng'.dst \in {"IDLE", "IN", "FETCH"}
            /\ eng'.dst # "IDLE" => Offered /\ left # 0
        BY <3>2, EngineInIdle DEF NoTake
      <4>2. All
        BY <1>2, <1>3, <2>3, <2>4, <2>7, <2>10, <3>2, <4>1 DEF Waits
      <4>3. eng'.dst # "IDLE" => Met' = job.at
        BY <2>3, <2>10, <3>2, <4>1, OfferedWhen DEF Moving
      <4>4. Pair
        BY <1>2, <3>1, <3>2, <4>1, <4>3
      <4>5. Begun
        <5>1. T.ph = "status" => T'.ph = "status"
          BY <1>1, <2>1, TargetMoves, UnderWayStep DEF Moving
        <5>2. ~eng.adv
          BY <3>2 DEF Acknowledged, Acking
        <5> QED BY <1>2, <2>1, <2>3, <2>10, <3>2, <4>1, <5>1, <5>2
      <4> QED BY <2>11, <3>1, <4>1, <4>2, <4>4, <4>5
    <3>3. CASE eng.dst = "IN"
      <4>1. /\ eng'.adv = FALSE /\ SameLong /\ eng'.dst \in {"IN", "IDLE", "FLUSH"}
            /\ eng'.dst = "IDLE" => eng.stage_sel = {}
        BY <1>2, <2>13, <3>3, EngineInIn DEF NoTake
      <4>2. All
        BY <1>2, <1>3, <2>3, <2>7, <2>10, <3>3, <4>1 DEF Waits, SameLong
      <4>3. Pair
        BY <1>2, <2>3, <2>10, <3>1, <3>3, <4>1
      <4>4. Begun
        <5>1. ~eng.adv
          BY <3>3 DEF Acknowledged, Acking
        <5>2. eng'.dst = "IDLE" => left = 0 \/ T.ph = "status"
          <6>1. eng'.dst = "IDLE" => dma_done \/ ~dma_armed
            BY <2>13, <3>3 DEF Engine, D_IN, Settled, EngineOK, Offered, dma_done
          <6>2. T.ph \in {"in", "out", "status"}
            BY <2>1, <3>3 DEF InStep, AtRest, UnderWay, ChannelOK
          <6> QED BY <2>1, <6>1, <6>2 DEF dma_armed, data_phase, cd, bsy, dma_done
        <5>3. T.ph = "status" => T'.ph = "status"
          BY <1>1, <2>1, TargetMoves, UnderWayStep DEF Moving
        <5> QED BY <2>1, <5>1, <5>2, <5>3
      <4> QED BY <2>7, <2>11, <3>1, <3>3, <4>1, <4>2, <4>3, <4>4
    <3>4. CASE eng.dst = "INACK"
      <4>1. eng'.adv = FALSE /\ SameLong /\ eng'.dst \in {"IN", "INACK", "FLUSH"}
        BY <3>4, EngineInInAck DEF EngineOK
      <4>2. All
        BY <1>2, <1>3, <2>3, <2>7, <2>10, <3>4, <4>1 DEF Waits, SameLong
      <4>3. Pair
        BY <1>2, <2>3, <2>10, <3>1, <3>4, <4>1
      <4> QED BY <2>7, <2>11, <3>1, <3>4, <4>1, <4>2, <4>3
    <3>5. CASE eng.dst = "FLUSH"
      <4>1. eng'.adv = FALSE
        BY <3>5, EngineInFlush DEF NoTake
      <4>2. Pair
        BY <1>2, <2>3, <2>10, <3>1, <3>5, <4>1
      <4>3. Odd
        BY <2>11, <3>1, <4>1
      <4>4. CASE ~eng.wb_req
        <5>1. SameLong /\ eng'.dst = "FLUSH"
          BY <3>5, <4>4, EngineInFlush DEF Asked
        <5>2. written' = written /\ ~Served
          BY <1>5, <4>4, MasterStores DEF lanes
        <5>3. All
          BY <1>2, <1>3, <2>3, <2>10, <4>1, <5>1, <5>2 DEF Waits, SameLong
        <5> QED BY <4>2, <4>3, <5>1, <5>2, <5>3
      <4>5. CASE eng.wb_req /\ dvma.ans # ""
        <5>1. dvma.ans = "ack"
          BY <1>1, <3>5, <4>5, FlushOutcome DEF Erred
        <5>2. eng'.stage_sel = {} /\ eng'.dst = "IN"
          BY <3>5, <4>5, <5>1, FlushOutcome, EngineInFlush
        <5>3. written' = written
          BY <1>5, <4>5, MasterStores DEF lanes
        <5>4. All
          BY <1>2, <1>3, <2>3, <2>10, <3>5, <4>1, <5>1, <5>2, <5>3 DEF Waits
        <5> QED BY <4>2, <4>3, <5>2, <5>4
      <4>6. CASE eng.wb_req /\ dvma.ans = ""
        <5>1. SameLong /\ eng'.dst = "FLUSH"
          BY <3>5, <4>6, EngineInFlush
        <5>2. /\ \A a \in Places : a \in written' \/ Waits(a) <=> a \in written \/ Waits(a)
              /\ Served => \A a \in Places : Waits(a) => a \in written'
          <6>1. eng.wb_we /\ eng.stage_sel # {}
            BY <2>5, <3>5, <4>6 DEF Staged
          <6>2. /\ \A a \in Places : a \in written' \/ Waits(a) <=> a \in written \/ Waits(a)
                /\ dvma'.st = "ACK" => \A a \in Places : Waits(a) => a \in written'
                /\ dvma'.ans = "ack" => dvma.st = "ACK" /\ written' = written
            BY <1>5, <6>1, MasterStores DEF lanes
          <6> QED BY <2>3, <3>5, <6>2
        <5>3. \A a \in Places : Waits(a)' <=> Waits(a)
          BY <5>1 DEF Waits, SameLong
        <5>4. All
          BY <1>2, <1>3, <2>3, <2>10, <4>1, <5>2, <5>3
        <5>5. Told
          BY <5>2, <5>3
        <5> QED BY <4>2, <4>3, <5>1, <5>4, <5>5
      <4> QED BY <4>4, <4>5, <4>6
    <3> QED BY <2>4, <3>2, <3>3, <3>4, <3>5
  <2> QED BY <2>12, <2>13
<1> QED BY <1>4, <1>5

-----------------------------------------------------------------------------
(* Writing: the longword in hand.                                            *)

\* The longword the byte at a is in.
Holds(long, a) == \A i \in 0 .. 3 : long[i] = 4 * (a \div 4) + i

\* What the engine has of the buffer is the longword of the byte it hands over.
Supplied ==
  UnderWay /\ job.dir = "out" =>
    /\ written = Places
    /\ ~cut /\ Moving =>
         /\ eng.dst = "FETCH" /\ eng.wb_req =>
              ~eng.wb_we /\ eng.chunk_adr = dma_addr \div 4 /\ eng.stage_sel # {}
         /\ eng.dst = "FETCH" /\ (dvma.st = "ACK" \/ dvma.ans = "ack") => Holds(dvma.rd, dma_addr)
         /\ eng.dst = "OUT" => Holds(eng.stage, dma_addr) /\ eng.out_lane = dma_addr % 4
         /\ eng.dst = "OUTACK" => Holds(eng.stage, Met - 1) /\ eng.out_lane = (Met - 1) % 4

\* Of a full buffer the master reads what belongs there.
LEMMA FullBufferRead ==
  ASSUME Agreed, written = Places, NEW a \in Places, eng.chunk_adr = a \div 4
  PROVE  Holds(ReadLong, a)
<1>1. SUFFICES ASSUME NEW i \in 0 .. 3 PROVE ReadLong[i] = 4 * (a \div 4) + i
  BY DEF Holds
<1> DEFINE b == 4 * (a \div 4) + i
<1>2. b \in Places /\ b \div 4 = a \div 4 /\ b % 4 = i
  BY DEF Places
<1> HIDE DEF b
<1>3. Found(b) = dvma_din(beat, b \div 4, b % 4) /\ Found(b) = b
  BY <1>2, AgreedIsEnough DEF PathsAgree, Found
<1> QED BY <1>2, <1>3 DEF ReadLong, b

\* A longword is fetched for the address, and left at its last byte.
LEMMA SuppliedKept ==
  ASSUME ChannelInv, Agreed, OneWay, Asking, Supplied, NEW cyc \in Cycles, ChannelStep(cyc)
  PROVE  Supplied'
<1> USE DEF ChannelInv, ChannelStep
<1>1. SUFFICES ASSUME UnderWay', job'.dir = "out"
               PROVE  /\ written' = Places
                      /\ ~cut' /\ Moving' =>
                           /\ eng'.dst = "FETCH" /\ eng'.wb_req =>
                                ~eng'.wb_we /\ eng'.chunk_adr = dma_addr' \div 4 /\ eng'.stage_sel # {}
                           /\ eng'.dst = "FETCH" /\ (dvma'.st = "ACK" \/ dvma'.ans = "ack") => Holds(dvma'.rd, dma_addr')
                           /\ eng'.dst = "OUT" => Holds(eng'.stage, dma_addr') /\ eng'.out_lane = dma_addr' % 4
                           /\ eng'.dst = "OUTACK" => Holds(eng'.stage, Met' - 1) /\ eng'.out_lane = (Met' - 1) % 4
  BY DEF Supplied, Holds
<1>2. job' = job /\ dma_addr \in Nat /\ job.dir = "out" /\ job.dir # "in"
  BY <1>1, UnderWayStep
<1>3. CASE cyc = "setup"
  <2>1. ~Moving'
    BY <1>1, <1>3, UnderWayStep
  <2>2. written' = Places
    BY <1>2, <1>3, MasterLanes DEF Lanes
  <2> QED BY <2>1, <2>2
<1>4. CASE cyc # "setup"
  <2>1. /\ UnderWay /\ dma_addr' = Met /\ ~icr.rst
        /\ eng.dst \in {"IDLE", "FETCH", "OUT", "OUTACK"}
    BY <1>1, <1>2, <1>4, UnderWayStep DEF OneWay
  <2>2. written = Places /\ written' = Places
    <3>1. written = Places /\ ~(eng.wb_req /\ eng.wb_we)
      BY <1>2, <2>1 DEF Supplied, Staged
    <3> QED BY <1>4, <3>1, MasterStores DEF lanes
  <2>3. SUFFICES ASSUME ~cut', Moving'
                 PROVE  /\ eng'.dst = "FETCH" /\ eng'.wb_req =>
                                ~eng'.wb_we /\ eng'.chunk_adr = dma_addr' \div 4 /\ eng'.stage_sel # {}
                        /\ eng'.dst = "FETCH" /\ (dvma'.st = "ACK" \/ dvma'.ans = "ack") => Holds(dvma'.rd, dma_addr')
                        /\ eng'.dst = "OUT" => Holds(eng'.stage, dma_addr') /\ eng'.out_lane = dma_addr' % 4
                        /\ eng'.dst = "OUTACK" => Holds(eng'.stage, Met' - 1) /\ eng'.out_lane = (Met' - 1) % 4
    BY <2>2
  <2>4. ~cut
    BY <1>1, <1>4, <2>3, NotCut
  <2>5. CASE eng.dst = "IDLE"
    <3>1. eng.wb_req = FALSE
      BY <1>2, <2>1, <2>4, <2>5 DEF Asking, EngineOK
    <3>2. eng'.wb_req = FALSE /\ eng'.dst \in {"IDLE", "IN", "FETCH"}
      BY <2>5, <3>1, EngineInIdle
    <3>3. dvma'.st # "ACK" /\ dvma'.ans # "ack"
      BY <1>4, <3>1, MasterStores
    <3> QED BY <3>2, <3>3
  <2>6. CASE eng.dst # "IDLE"
    <3>1. Moving /\ drv # "reset"
      BY <2>1, <2>3, <2>6, TargetMoves DEF Moving, AtRest, UnderWay
    <3>2. /\ eng.dst = "FETCH" /\ eng.wb_req =>
              ~eng.wb_we /\ eng.chunk_adr = dma_addr \div 4 /\ eng.stage_sel # {}
          /\ eng.dst = "FETCH" /\ (dvma.st = "ACK" \/ dvma.ans = "ack") => Holds(dvma.rd, dma_addr)
          /\ eng.dst = "OUT" => Holds(eng.stage, dma_addr) /\ eng.out_lane = dma_addr % 4
          /\ eng.dst = "OUTACK" => Holds(eng.stage, Met - 1) /\ eng.out_lane = (Met - 1) % 4
      BY <1>2, <2>1, <2>4, <3>1 DEF Supplied
    <3>3. CASE eng.dst = "FETCH"
      <4>1. dma_addr' = dma_addr /\ eng'.dst \in {"IDLE", "FETCH", "OUT"}
        BY <2>1, <3>3, EngineInFetch DEF Met, Acknowledged, Acking
      <4>2. CASE eng'.dst = "IDLE"
        BY <4>2
      <4>3. CASE eng'.dst = "OUT"
        <5>1. dvma.ans = "ack" /\ eng'.stage = dvma.rd /\ eng'.out_lane = cur_lane
          BY <1>2, <3>3, <4>3, FetchOutcome
        <5> QED BY <3>2, <3>3, <4>1, <4>3, <5>1 DEF cur_lane
      <4>4. CASE eng'.dst = "FETCH"
        <5>1. \/ /\ ~eng.wb_req /\ eng'.chunk_adr = dma_addr \div 4 /\ eng'.wb_we = FALSE
                 /\ eng'.stage_sel = 0 .. 3
              \/ /\ eng.wb_req /\ dvma.ans = "" /\ SameAsk /\ left # 0
                 /\ eng'.chunk_adr = eng.chunk_adr /\ eng'.stage_sel = eng.stage_sel
          BY <1>2, <3>3, <4>4, FetchOutcome
        <5>2. eng'.wb_req => ~eng'.wb_we /\ eng'.chunk_adr = dma_addr' \div 4 /\ eng'.stage_sel # {}
          <6>1. 0 .. 3 # {}
            BY 0 \in 0 .. 3
          <6> QED BY <3>2, <3>3, <4>1, <5>1, <6>1 DEF SameAsk
        <5>4. dvma'.ans = "ack" => Holds(dvma'.rd, dma_addr')
          BY <1>4, <3>2, <3>3, <4>1, MasterStores
        <5>3. ASSUME dvma'.st = "ACK" PROVE Holds(dvma'.rd, dma_addr')
          <6>1. eng.wb_req
            BY <1>4, <5>3, MasterStores
          <6>2. ~eng.wb_we /\ eng.chunk_adr = dma_addr \div 4 /\ left # 0 /\ eng.stage_sel # {}
            BY <3>2, <3>3, <5>1, <6>1
          <6>3. dvma'.rd = ReadLong
            BY <1>4, <5>3, <6>2, MasterStores
          <6>4. dma_addr \in Places
            BY <1>2, <2>1, <6>2, Inside DEF Tracks, UnderWay, ChannelOK, Places
          <6> QED BY <2>2, <4>1, <6>2, <6>3, <6>4, FullBufferRead
        <5> QED BY <4>4, <5>2, <5>3, <5>4
      <4> QED BY <4>1, <4>2, <4>3, <4>4
    <3>4. CASE eng.dst = "OUT"
      <4>1. dma_addr' = dma_addr /\ eng'.stage = eng.stage /\ eng'.out_lane = eng.out_lane
        BY <2>1, <3>4, OutOutcome DEF Met, Acknowledged, Acking
      <4>2. eng'.dst = "OUTACK" => Met' - 1 = dma_addr
        <5>1. eng'.dst = "OUTACK" => eng'.adv
          BY <3>4, EngineInOut
        <5>2. eng'.adv => Met' = dma_addr + 1
          BY <4>1 DEF Met
        <5> QED BY <1>2, <5>1, <5>2
      <4>3. eng'.dst \in {"IDLE", "OUT", "OUTACK"}
        BY <3>4, EngineInOut
      <4> QED BY <3>2, <3>4, <4>1, <4>2, <4>3
    <3>5. CASE eng.dst = "OUTACK"
      <4>1. eng'.stage = eng.stage /\ eng'.adv = FALSE /\ Met' = dma_addr'
        BY <3>5, OutOutcome, EngineInOutAck DEF Met
      <4>2. Holds(eng'.stage, Met' - 1)
        BY <2>1, <3>2, <3>5, <4>1
      <4>3. CASE T.req
        BY <2>1, <3>2, <3>5, <4>1, <4>2, <4>3, OutOutcome
      <4>4. CASE ~T.req
        <5>1. ~eng.adv
          BY <2>1, <4>4 DEF Acknowledged, UnderWay
        <5>2. dma_addr' = dma_addr
          BY <2>1, <5>1 DEF Met
        <5>3. eng'.out_lane = dma_addr % 4 /\ eng'.dst = IF dma_addr % 4 = 0 THEN "FETCH" ELSE "OUT"
          BY <3>5, <4>4, OutOutcome DEF cur_lane
        <5>4. CASE dma_addr % 4 = 0
          <6>1. eng.wb_req = FALSE /\ SameAsk
            BY <1>2, <2>1, <2>4, <3>5, EngineInOutAck DEF Asking, EngineOK
          <6>2. dvma'.st # "ACK" /\ dvma'.ans # "ack"
            BY <1>4, <6>1, MasterStores
          <6> QED BY <5>3, <5>4, <6>1, <6>2 DEF SameAsk
        <5>5. CASE dma_addr % 4 # 0
          <6>1. (dma_addr - 1) \div 4 = dma_addr \div 4
            BY <1>2, <5>5
          <6> QED BY <4>1, <4>2, <5>2, <5>3, <5>5, <6>1 DEF Holds
        <5> QED BY <5>4, <5>5
      <4> QED BY <4>3, <4>4
    <3> QED BY <2>1, <2>6, <3>3, <3>4, <3>5
  <2> QED BY <2>5, <2>6
<1> QED BY <1>3, <1>4

\* No transfer is under way where the lanes are driven in every way.
Apart == use = "every way" => drv = "start"

TransferInv == PathsInv /\ Apart /\ OneWay /\ Asking /\ AtStatus /\ Accounted /\ Supplied

\* It all holds after power-on.
LEMMA TransferStarts ==
  ASSUME PathsInit
  PROVE  TransferInv
<1> USE DEF PathsInit, ChannelInit
<1>1. PathsInv
  BY ChannelStarts
<1>2. OneWay /\ Asking /\ AtStatus /\ Apart
  BY DEF OneWay, Asking, AtStatus, Moving, UnderWay, Phase, Apart
<1>3. Accounted /\ Supplied
  BY DEF Accounted, Supplied, UnderWay
<1> QED BY <1>1, <1>2, <1>3 DEF TransferInv

\* Every step there is keeps it.
LEMMA TransferKept ==
  ASSUME TransferInv, [PathsNext]_pathvars
  PROVE  TransferInv'
<1>1. PathsInv'
  BY PathsInvKept DEF TransferInv
<1>2. ASSUME UNCHANGED <<channel, use>>, drv = "start" \/ UNCHANGED lanes
      PROVE  TransferInv'
  <2>1. /\ UNCHANGED <<drv, job, mpu>> /\ UNCHANGED <<dma_addr, left, icr, status>>
        /\ UNCHANGED <<eng, T, dvma, cut, use>>
    BY <1>2 DEF channel, host, regs, pio
  <2>2. OneWay' /\ Asking' /\ AtStatus' /\ Apart'
    BY <2>1 DEF TransferInv, OneWay, Asking, AtStatus, Moving, UnderWay, Apart
  <2>3. CASE drv = "start"
    BY <1>1, <2>1, <2>2, <2>3 DEF TransferInv, Accounted, Supplied, UnderWay
  <2>4. CASE UNCHANGED lanes
    <3>1. Accounted'
      BY <2>1, <2>4 DEF TransferInv, Accounted, UnderWay, Erred, Lone, Waits, Met, lanes
    <3>2. Supplied'
      BY <2>1, <2>4 DEF TransferInv, Supplied, UnderWay, Holds, Moving, Met, lanes
    <3> QED BY <1>1, <2>2, <3>1, <3>2 DEF TransferInv
  <2> QED BY <1>2, <2>3, <2>4
<1>3. CASE UNCHANGED pathvars
  BY <1>2, <1>3 DEF pathvars
<1>4. CASE EveryWay
  BY <1>2, <1>4 DEF EveryWay, TransferInv, Apart
<1>5. ASSUME ByScsi, Clk
      PROVE  TransferInv'
  <2>1. PICK cyc \in Cycles : ChannelStep(cyc)
    BY <1>5 DEF Clk, ChannelStep, Cycles
  <2>2. Apart'
    BY <1>5 DEF ByScsi, Apart
  <2> QED BY <1>1, <2>1, <2>2, OneWayKept, AskingKept, AtStatusKept, AccountedKept, SuppliedKept
          DEF TransferInv, PathsInv
<1> QED BY <1>3, <1>4, <1>5 DEF PathsNext

\* At a status byte read good every byte is where it belongs.
LEMMA StatusIsTrue ==
  ASSUME TransferInv, NEW cyc \in Cycles, ChannelStep(cyc), ~cut, StatusRead
  PROVE  /\ left = job.len - T.want
         /\ job.dir = "in" => written = {a \in Places : Landed(a)}
         /\ OddLast => status.odd /\ status.data_r = job.at + job.len - 1
<1> USE DEF TransferInv, PathsInv, ChannelInv, ChannelStep
<1>1. cyc = "status" /\ drv = "status" /\ T.ph = "status" /\ UnderWay
  BY DriverMoves DEF StatusRead, UnderWay, Cycles, Accesses
<1>2. eng.dst = "IDLE"
  BY <1>1, CpuClock DEF WoundUp, Accesses
<1>3. ~eng.adv /\ eng.hold = FALSE
  BY <1>2 DEF Acknowledged, Acking, AtStatus, EngineOK
<1>4. ~Erred
  <2>1. mpu.last = "fetch" /\ mpu.busy \notin {1, 2, 3}
    BY <1>1, CpuClock DEF Accesses
  <2> QED BY <1>1, <2>1 DEF AtStatus, Erred, StatusRead
<1>5. dma_addr = job.at + T.want /\ Met = dma_addr /\ dma_addr + left = job.at + job.len
  BY <1>1, <1>3 DEF AtStatus, Met, Tracks
<1>6. job.at \in Nat /\ job.len \in Nat /\ job.len # 0 /\ T.want \in Nat /\ left \in Nat /\ job.at + job.len <= 16
  BY Inside, ScsiAssumption DEF ChannelOK
<1>7. left = job.len - T.want
  BY <1>5, <1>6
<1>8. ASSUME job.dir = "in" PROVE written = {a \in Places : Landed(a)}
  <2>1. eng.stage_sel = {}
    BY <1>1, <1>2, <1>8 DEF OneWay
  <2>2. \A a \in Places : a \in written <=> job.at <= a /\ a < Met /\ ~Lone(a)
    BY <1>1, <1>4, <1>8, <2>1 DEF Accounted, Waits
  <2>3. ASSUME NEW a \in Places PROVE Landed(a) <=> job.at <= a /\ a < Met /\ ~Lone(a)
    <3>1. a \in Int /\ T.want <= job.len
      BY <1>5, <1>6 DEF Places
    <3>2. CASE OddLast
      BY <1>5, <1>6, <3>1, <3>2 DEF OddLast, Landed, Lone
    <3>3. CASE ~OddLast
      BY <1>5, <1>6, <1>8, <3>1, <3>3 DEF OddLast, Landed, Lone
    <3> QED BY <3>2, <3>3
  <2>4. written \subseteq Places
    BY DEF Agreed
  <2> QED BY <2>2, <2>3, <2>4
<1>9. ASSUME OddLast PROVE status.odd /\ status.data_r = job.at + job.len - 1
  <2> DEFINE a == job.at + job.len - 1
  <2>1. a \in Places /\ Lone(a) /\ Met = a + 1
    <3>1. job.word /\ job.len % 2 = 1 /\ T.want = job.len
      BY <1>9 DEF OddLast
    <3>2. a \in Places /\ Met = a + 1
      BY <1>5, <1>6, <3>1 DEF Places
    <3> QED BY <3>1, <3>2 DEF Lone
  <2> HIDE DEF a
  <2>2. status.odd /\ status.data_r = a
    BY <1>1, <1>3, <1>4, <1>9, <2>1 DEF Accounted, OddLast
  <2> QED BY <2>2 DEF a
<1> QED BY <1>7, <1>8, <1>9

\* A byte the target takes is the next of the buffer.
LEMMA TakenInOrder ==
  ASSUME TransferInv, NEW cyc \in Cycles, ChannelStep(cyc), ~cut, ByteTaken
  PROVE  dma_out_byte = job.at + T.n
<1> USE DEF TransferInv, PathsInv, ChannelInv, ChannelStep
<1>1. T.ph = "out" /\ Moving /\ job.dir = "out" /\ T.req /\ ack /\ ~icr.rst
  BY TargetMoves DEF ByteTaken, Moving, OneWay
<1>2. drv \in {"wait", "fail"} /\ UnderWay /\ Acking
  BY <1>1, NoStrayAck DEF InStep, Controlled, ChannelOK, Driver, UnderWay
<1>3. eng.dst = "OUTACK"
  BY <1>1, <1>2 DEF OneWay, Acking
<1>4. Holds(eng.stage, Met - 1) /\ eng.out_lane = (Met - 1) % 4
  BY <1>1, <1>2, <1>3 DEF Supplied
<1>5. Met = job.at + T.n + 1 /\ job.at \in Nat /\ T.n \in Nat
  <2>1. dma_addr + (IF eng.adv THEN 1 ELSE 0) = job.at + T.n + 1
    BY <1>1, <1>2 DEF Tracks
  <2>2. dma_addr \in Nat /\ job.at \in Nat /\ T.n \in Nat
    BY Inside DEF ChannelOK
  <2> QED BY <2>1, <2>2 DEF Met
<1> DEFINE a == Met - 1
<1>6. a = job.at + T.n /\ a \in Nat
  BY <1>5
<1> HIDE DEF a
<1>7. a % 4 \in 0 .. 3 /\ 4 * (a \div 4) + (a % 4) = a
  BY <1>6
<1>8. \A i \in 0 .. 3 : eng.stage[i] = 4 * (a \div 4) + i
  BY <1>4 DEF Holds, a
<1>9. eng.stage[a % 4] = a /\ eng.out_lane = a % 4
  BY <1>4, <1>7, <1>8 DEF a
<1> QED BY <1>6, <1>9 DEF dma_out_byte

\* For any transfers and any counts: what a driver is told went well is all in
\* memory, in place, with its residue and its odd byte, and what a target takes
\* is the buffer in order (sun2_scsi_core.sv 496-628).
THEOREM TransfersAreWhole == FairPaths => EveryByteInPlace
<1> DEFINE Whole == ~cut =>
             /\ StatusRead =>
                  /\ left = job.len - T.want
                  /\ job.dir = "in" => written = {a \in Places : Landed(a)}
                  /\ OddLast => status.odd /\ status.data_r = job.at + job.len - 1
             /\ ByteTaken => dma_out_byte = job.at + T.n
<1>1. PathsInit => TransferInv
  BY TransferStarts
<1>2. TransferInv /\ [PathsNext]_pathvars => TransferInv'
  BY TransferKept
<1>3. TransferInv /\ [PathsNext]_pathvars => [Whole]_<<channel, lanes>>
  <2>1. SUFFICES ASSUME TransferInv, PathsNext, ~UNCHANGED channel PROVE Whole
    <3>1. ASSUME UNCHANGED channel PROVE ~StatusRead /\ ~ByteTaken
      BY <3>1 DEF channel, host, StatusRead, ByteTaken
    <3> QED BY <3>1 DEF pathvars
  <2>2. ByScsi /\ Clk
    BY <2>1 DEF PathsNext, EveryWay
  <2>3. PICK cyc \in Cycles : ChannelStep(cyc)
    BY <2>2 DEF Clk, ChannelStep, Cycles
  <2> QED BY <2>1, <2>3, StatusIsTrue, TakenInOrder
<1> QED BY <1>1, <1>2, <1>3, PTL DEF FairPaths, EveryByteInPlace
=============================================================================
