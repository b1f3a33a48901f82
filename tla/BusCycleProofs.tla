--------------------------- MODULE BusCycleProofs ---------------------------
(***************************************************************************)
(* The bus cycle for every page map: whatever pages there are and whatever  *)
(* their entries allow and lead to, a refused access reaches nothing, every *)
(* cycle is acknowledged or in error, never both, the statistics bits are   *)
(* the accessed page's own and are never missed, the bus error register     *)
(* tells the truth, and an interrupt gets the kind of acknowledge promised. *)
(***************************************************************************)
EXTENDS BusCycle, TLAPS

Map == [of : Pages, acc : BOOLEAN, mod : BOOLEAN]

Spaces == {"general", "boot", "pmap", "berr", "quick", "iack"}

\* The registers' values.
RegistersOK ==
  /\ clk \in {"high", "low"} /\ as \in BOOLEAN /\ strobe \in BOOLEAN
  /\ space \in Spaces /\ rw \in {"r", "w"} /\ rmw \in BOOLEAN
  /\ seen \in {"none", "ack", "err"} /\ n \in 0 .. Last
  /\ page \in Pages /\ seg \in Pages
  /\ c3 \in BOOLEAN /\ TIMEOUT \in BOOLEAN /\ MMU_REFUSED \in BOOLEAN
  /\ w_ack \in BOOLEAN /\ mb_ack \in BOOLEAN
  /\ was \in [page : Pages, rw : {"r", "w"}, general : BOOLEAN]
  /\ out \in Map /\ pm \in [Pages -> Map] /\ \A q \in Pages : pm[q].of = q

\* The chain runs with AS and clears on the first positive edge without it;
\* the strobes and the master's answer belong to a cycle.
ChainOK ==
  /\ n >= 1 => c3
  /\ n >= 1 /\ ~as => clk = "low"
  /\ strobe => as
  /\ seen # "none" => as /\ strobe /\ n >= 1
  /\ seen # "none" /\ space = "general" => n >= 2
  /\ TIMEOUT => n = Last
  /\ MMU_REFUSED => n >= 2

\* From C_S4 on the segment map answers for the cycle's own page, from C_S6 on
\* the page map does; and the wires are those the cycle began with.
LookupOK ==
  /\ as => was.page = page
  /\ as \/ n >= 1 => was.rw = rw /\ (was.general <=> space = "general")
  /\ as /\ n >= 1 => seg = page
  /\ n >= 2 => out.of = was.page

\* A refused cycle is known as one, from C_S8's clock to after its end.
RefusalOK ==
  /\ clk = "high" /\ n >= 3 /\ space = "general" /\ ~Granted => MMU_REFUSED
  /\ seen # "none" /\ space = "general" /\ ~Granted => MMU_REFUSED
  /\ n >= 1 /\ ~as /\ space = "general" /\ ~Granted => MMU_REFUSED
  /\ as /\ MMU_REFUSED => space = "general" /\ ~Granted
  /\ seen = "ack" /\ space = "general" => Granted

\* What is on its way out of the page map misses at most what this very cycle
\* has just written.
StatisticsOK ==
  as /\ n >= 2 /\ space = "general" =>
    /\ out.acc => pm[page].acc
    /\ out.mod => pm[page].mod
    /\ pm[page].mod => out.mod \/ rw = "w"

Target == Entry[was.page].to

\* Only a read-modify-write of memory lets its strobes go.
StrobesOK ==
  /\ rmw => space = "general" /\ Target = "memory" /\ rw = "r" /\ as /\ strobe
  /\ as /\ ~strobe => space = "general" /\ Target = "memory"

\* What sun2_fpga answers itself is over before the chain can time it out, and
\* a boot fetch before its refusal could be one.
AtOnce == space \notin {"general", "pmap"}

OwnAnswerOK ==
  /\ as /\ AtOnce =>
       /\ n <= 2 /\ (n = 2 => clk = "high")
       /\ n >= 1 /\ clk = "low" => seen # "none"
       /\ n = 2 => seen # "none"
  /\ as /\ space = "pmap" =>
       /\ n <= 3 /\ (n = 3 => clk = "high")
       /\ n >= 2 /\ clk = "low" => seen # "none"
       /\ n = 3 => seen # "none"
  /\ as /\ space = "general" /\ Granted /\ Target \in {"device", "hole"} =>
       /\ n <= 4 /\ (n = 4 => clk = "high")
       /\ n >= 3 /\ clk = "low" => seen # "none"
       /\ n = 4 => seen # "none"

\* Memory is never timed out, and a card that answers does so in time.
LateAnswerOK ==
  /\ as /\ TIMEOUT /\ space = "general" => ~(Granted /\ Target = "memory")
  /\ mb_ack =>
       /\ as /\ strobe /\ n >= 2 /\ space = "general" /\ Granted /\ Target = "bus"
       /\ seen # "err" /\ ~TIMEOUT
       /\ seen = "none" => n <= Last - (IF clk = "high" THEN 1 ELSE 2)
       /\ seen # "none" => n <= Last - (IF clk = "high" THEN 0 ELSE 1)
  /\ seen # "none" /\ space = "general" /\ Granted /\ Target = "bus" => mb_ack \/ TIMEOUT

\* By the edge that ends a cycle, its statistics are in the page map; and a
\* refusal reaches the bus error register before any timeout of the same cycle.
TellsOK ==
  /\ seen # "none" /\ clk = "high" /\ space = "general" /\ Granted =>
       pm[page].acc /\ (rw = "w" => pm[page].mod)
  /\ as /\ TIMEOUT /\ space = "general" /\ ~Granted => berr_latched

IInv ==
  /\ RegistersOK /\ ChainOK /\ LookupOK /\ RefusalOK /\ StatisticsOK
  /\ StrobesOK /\ OwnAnswerOK /\ LateAnswerOK /\ TellsOK
-----------------------------------------------------------------------------
\* How far the chain has run is a number, and what the wires show are bits.
LEMMA Small == ASSUME IInv PROVE n \in 0 .. 11 /\ as \in BOOLEAN /\ seen \in {"none", "ack", "err"}
BY DEF IInv, RegistersOK, Last

\* Once the page map answers for the cycle's page, the verdict is the entry's.
LEMMA Verdict ==
  ASSUME IInv, n >= 2, as, space = "general"
  PROVE  /\ MMU_REFUSE <=> ~Granted
         /\ Entry[out.of] = Entry[was.page]
         /\ VALID <=> Entry[was.page].valid
         /\ PROTERR <=> ~Allows(Entry[was.page], was.rw)
         /\ MMU_OK <=> Granted
BY DEF IInv, LookupOK, RefusalOK, MMU_REFUSE, PROTERR_raw, PROTERR, VALID, S6, FC_GENERAL, Granted, MMU_OK

\* A match is the accessed page's, and granted -- after AS has gone as well.
LEMMA MatchIs ==
  ASSUME IInv, NEW to \in Targets, MATCH(to), ~MATCH_PROM_BOOT
  PROVE  was.general /\ Granted /\ Target = to /\ space = "general" /\ n >= 2
<1>1. space = "general" /\ n >= 2 /\ MMU_OK /\ Entry[out.of].to = to /\ ~MMU_REFUSED
  BY DEF MATCH, FC_GENERAL, MATCH_PROM_BOOT, S6, MMU_OK
<1>2. n >= 1
  BY <1>1, Small
<1>3. was.general /\ out.of = was.page
  BY <1>1, <1>2 DEF IInv, LookupOK
<1>4. Target = to
  BY <1>1, <1>3 DEF Target
<1>5. Granted
  <2>1. CASE as
    BY <1>1, <2>1, Verdict
  <2>2. CASE ~as
    BY <1>1, <1>2, <2>2 DEF IInv, RefusalOK
  <2>3. QED
    BY <2>1, <2>2
<1>6. QED
  BY <1>1, <1>3, <1>4, <1>5

\* The other way round, for a cycle in progress.
LEMMA MatchWhen ==
  ASSUME IInv, as, n >= 2, space = "general", Granted
  PROVE  MATCH(Target)
BY Verdict DEF MATCH, FC_GENERAL, S6, Target

\* What an error comes of.
LEMMA ErrIs ==
  ASSUME IInv, ERR, as
  PROVE  /\ space = "general" /\ n >= 3
         /\ ~Granted \/ (TIMEOUT /\ Target # "memory")
<1>1. n >= 3 /\ (MMU_REFUSE \/ TIMEOUT)
  BY DEF ERR, S8
<1>2. space = "general"
  <2>1. n \in 0 .. 11 /\ ~(AtOnce)
    BY <1>1, Small DEF IInv, OwnAnswerOK
  <2>2. ASSUME space = "pmap" PROVE FALSE
    <3>1. n <= 3 /\ ~MMU_REFUSE
      BY <2>2 DEF IInv, OwnAnswerOK, MMU_REFUSE, FC_GENERAL
    <3>2. TIMEOUT => n = 11
      BY DEF IInv, ChainOK, Last
    <3>3. QED
      BY <1>1, <3>1, <3>2
  <2>3. QED
    BY <2>1, <2>2 DEF AtOnce
<1>3. QED
  BY <1>1, <1>2, Small, Verdict DEF IInv, LateAnswerOK

\* What an answer comes of.
LEMMA AckIs ==
  ASSUME IInv, Answered, as
  PROVE  \/ space # "general" /\ n >= 1
         \/ /\ space = "general" /\ Granted /\ n >= 2
            /\ \/ Target \in {"device", "hole"} /\ n >= 3
               \/ Target = "memory" /\ w_ack
               \/ Target = "bus" /\ mb_ack
<1>1. CASE space # "general"
  BY <1>1, Small DEF Answered, VPA, IACK_VEC, DTACK, S4, S6, MATCH
<1>2. CASE space = "general"
  <2>1. PICK to \in Targets :
          /\ MATCH(to)
          /\ to \in {"device", "hole"} => n >= 3
          /\ to = "memory" => w_ack
          /\ to = "bus" => mb_ack
    BY <1>2 DEF Answered, VPA, IACK_VEC, DTACK, MATCH_PROM_BOOT, S8, Targets
  <2>2. QED
    BY <1>2, <2>1, MatchIs DEF Targets, MATCH_PROM_BOOT
<1>3. QED
  BY <1>1, <1>2

\* "Nothing behind the MMU may see a cycle the MMU is rejecting", from the
\* invariant.
LEMMA InvRefused == IInv => RefusedReachesNothing
BY MatchIs DEF RefusedReachesNothing, Target

\* Acknowledged or in error, from the invariant.
LEMMA InvAckOrError == IInv => AckOrError
<1> SUFFICES ASSUME IInv, as, Answered, ERR PROVE FALSE
  BY DEF AckOrError
<1>1. space = "general" /\ Granted /\ TIMEOUT /\ Target # "memory" /\ n = Last
  BY AckIs, ErrIs DEF IInv, ChainOK
<1>2. CASE Target \in {"device", "hole"}
  BY <1>1, <1>2 DEF IInv, OwnAnswerOK, Last
<1>3. CASE Target = "bus" /\ mb_ack
  BY <1>1, <1>3 DEF IInv, LateAnswerOK
<1>4. QED
  BY <1>1, <1>2, <1>3, AckIs
-----------------------------------------------------------------------------
\* Between two cycles nothing is on its way.
LEMMA InitIInv == Init => IInv
<1> SUFFICES ASSUME Init PROVE IInv
  OBVIOUS
<1>1. PICK q \in Pages : out = pm[q]
  BY DEF Init
<1>2. pm = [i \in Pages |-> [of |-> i, acc |-> FALSE, mod |-> FALSE]]
  BY DEF Init
<1>3. pm \in [Pages -> Map] /\ out \in Map /\ \A i \in Pages : pm[i].of = i
  BY <1>1, <1>2 DEF Map
<1>4. was \in [page : Pages, rw : {"r", "w"}, general : BOOLEAN]
  BY DEF Init
<1>5. RegistersOK
  <2>1. n \in 0 .. Last
    BY DEF Init, Last
  <2>2. QED
    BY <1>3, <1>4, <2>1 DEF Init, RegistersOK, Spaces
<1>6. n = 0 /\ ~as /\ seen = "none" /\ ~strobe /\ ~mb_ack /\ ~rmw /\ ~TIMEOUT /\ ~MMU_REFUSED
  BY DEF Init
<1>7. ~(n >= 1) /\ ~(n >= 2) /\ ~(n >= 3)
  BY <1>6
<1>8. ChainOK /\ LookupOK /\ RefusalOK
  <2>1. ChainOK
    BY <1>6, <1>7, Zenon DEF ChainOK
  <2>2. LookupOK
    BY <1>6, <1>7, Zenon DEF LookupOK
  <2>3. RefusalOK
    BY <1>6, <1>7, Zenon DEF RefusalOK
  <2>4. QED
    BY <2>1, <2>2, <2>3
<1>9. StatisticsOK /\ StrobesOK /\ OwnAnswerOK
  BY <1>6, <1>7 DEF StatisticsOK, StrobesOK, OwnAnswerOK
<1>10. LateAnswerOK /\ TellsOK
  BY <1>6, <1>7 DEF LateAnswerOK, TellsOK
<1>11. QED
  BY <1>5, <1>8, <1>9, <1>10 DEF IInv

\* While a cycle stays what it is, so does what its page allows and leads to.
LEMMA SamePage == was' = was => (Granted' <=> Granted) /\ Target' = Target
BY DEF Granted, Target

\* One step of the chain, in numbers.
LEMMA ChainStep ==
  ASSUME NEW x \in 0 .. 11, NEW y, NEW up \in BOOLEAN, NEW set \in BOOLEAN,
         y = IF up THEN (IF x = 0 THEN (IF set THEN 1 ELSE 0) ELSE IF x = 11 THEN 11 ELSE x + 1)
                   ELSE 0
  PROVE  /\ y \in 0 .. 11
         /\ y >= 1 => up /\ (x >= 1 \/ set)
         /\ up /\ x >= 1 => y >= 1
         /\ up /\ x >= 2 => y >= 2
         /\ y >= 2 => up /\ x >= 1
         /\ y >= 3 => up /\ x >= 2 /\ x >= 1
         /\ up /\ x = 11 => y = 11
         /\ up /\ x >= 1 /\ x # 11 => y = x + 1
         /\ up /\ x = 0 => y = IF set THEN 1 ELSE 0
<1>1. CASE up
  BY <1>1
<1>2. CASE ~up
  BY <1>2
<1>3. QED
  BY <1>1, <1>2

\* How far the chain has run after a positive edge, and what that tells of how
\* far it had run before.
LEMMA ChainWas ==
  ASSUME IInv, PosEdge
  PROVE  /\ n' \in 0 .. 11
         /\ n' >= 1 => as /\ (n >= 1 \/ c3)
         /\ as /\ n >= 1 => n' >= 1
         /\ as /\ n >= 2 => n' >= 2
         /\ n' >= 2 => as /\ n >= 1
         /\ n' >= 3 => as /\ n >= 2 /\ n >= 1
         /\ as /\ n = 11 => n' = 11
         /\ as /\ n >= 1 /\ n # 11 => n' = n + 1
         /\ as /\ n = 0 => n' = IF c3 THEN 1 ELSE 0
<1>1. ChainPos /\ n \in 0 .. 11 /\ Last = 11 /\ as \in BOOLEAN /\ c3 \in BOOLEAN
  BY Small DEF PosEdge, Last, IInv, RegistersOK
<1>2. n' = IF as THEN (IF n = 0 THEN (IF c3 THEN 1 ELSE 0) ELSE IF n = 11 THEN 11 ELSE n + 1)
                 ELSE 0
  BY <1>1, Zenon DEF ChainPos
<1>3. QED
  BY <1>1, <1>2, ChainStep, Zenon

\* What it makes of the timeout and of a refusal.
LEMMA ChainFlags ==
  ASSUME IInv, PosEdge
  PROVE  /\ TIMEOUT' \in BOOLEAN /\ MMU_REFUSED' \in BOOLEAN
         /\ TIMEOUT' <=> as /\ (TIMEOUT \/ (n = 11 /\ ~MATCH("memory")))
         /\ MMU_REFUSED' <=> as /\ (MMU_REFUSED \/ MMU_REFUSE)
<1>1. ChainPos /\ Last = 11 /\ (n >= 11 <=> n = 11)
  BY Small DEF PosEdge, Last
<1>2. QED
  BY <1>1, Zenon DEF ChainPos, S24

\* What a positive edge leaves alone.
LEMMA PosEdgeKeeps ==
  ASSUME PosEdge
  PROVE  /\ clk = "low" /\ clk' = "high"
         /\ c3' = c3 /\ as' = as /\ strobe' = strobe /\ space' = space /\ page' = page
         /\ rw' = rw /\ rmw' = rmw /\ seen' = seen /\ was' = was
         /\ w_ack' = w_ack /\ mb_ack' = mb_ack
         /\ (as' <=> as) /\ (strobe' <=> strobe) /\ (rmw' <=> rmw) /\ (mb_ack' <=> mb_ack)
BY DEF PosEdge, bus, acks

\* The entry that is written back is the accessed page's, and of a granted access.
LEMMA WriteBack ==
  ASSUME IInv, PosEdge
  PROVE  /\ seg' = page
         /\ \E idx \in Pages :
              /\ as /\ n >= 1 => idx = page
              /\ out' = pm[idx]
              /\ REFMOD_WR => /\ as /\ n >= 2 /\ space = "general" /\ Granted /\ idx = page
                              /\ out.of = page
                              /\ pm' = [pm EXCEPT ![idx] = ps_refmod]
              /\ ps_sw_wr => /\ as /\ n >= 2 /\ space = "pmap" /\ rw = "w" /\ idx = page
                             /\ \E ps_in \in [of : {idx}, acc : BOOLEAN, mod : BOOLEAN] :
                                  pm' = [pm EXCEPT ![idx] = ps_in]
              /\ ~REFMOD_WR /\ ~ps_sw_wr => pm' = pm
<1>1. PICK idx \in (IF seg = page THEN {page} ELSE Pages) :
        /\ out' = pm[idx]
        /\ \E ps_in \in [of : {idx}, acc : BOOLEAN, mod : BOOLEAN] :
             pm' = IF ps_sw_wr THEN [pm EXCEPT ![idx] = ps_in]
                   ELSE IF REFMOD_WR THEN [pm EXCEPT ![idx] = ps_refmod] ELSE pm
  BY DEF PosEdge, MapsPos
<1>2. idx \in Pages /\ (as /\ n >= 1 => idx = page)
  BY <1>1 DEF IInv, RegistersOK, LookupOK
<1>3. ASSUME REFMOD_WR
      PROVE  as /\ n >= 2 /\ space = "general" /\ Granted /\ idx = page /\ out.of = page
  <2>1. as /\ n >= 2 /\ n >= 1 /\ space = "general"
    BY <1>3, Small DEF REFMOD_WR, S6, FC_GENERAL, MATCH_PROM_BOOT
  <2>2. ~PROTERR_raw /\ VALID
    BY <1>3 DEF REFMOD_WR
  <2>3. out.of = was.page /\ was.page = page /\ was.rw = rw
    BY <2>1 DEF IInv, LookupOK
  <2>4. Granted
    BY <2>2, <2>3 DEF Granted, PROTERR_raw, VALID
  <2>5. QED
    BY <1>2, <2>1, <2>3, <2>4
<1>4. seg' = page
  BY DEF PosEdge, MapsPos
<1>5. ASSUME ps_sw_wr
      PROVE  as /\ n >= 2 /\ space = "pmap" /\ rw = "w" /\ idx = page
  <2>1. as /\ n >= 2 /\ n >= 1 /\ space = "pmap" /\ rw = "w"
    BY <1>5, Small DEF ps_sw_wr, S6
  <2>2. QED
    BY <1>2, <2>1
<1>6. ~(REFMOD_WR /\ ps_sw_wr)
  BY DEF REFMOD_WR, ps_sw_wr, FC_GENERAL
<1>7. QED
  BY <1>1, <1>2, <1>3, <1>4, <1>5, <1>6
-----------------------------------------------------------------------------
(* A positive edge. *)

\* The registers stay in range over a positive edge: the entry written back is
\* one of the page map's.
LEMMA PosRegisters == ASSUME IInv, PosEdge PROVE RegistersOK'
<1>1. PICK idx \in Pages :
        /\ seg' = page /\ out' = pm[idx]
        /\ REFMOD_WR => out.of = page /\ idx = page /\ pm' = [pm EXCEPT ![idx] = ps_refmod]
        /\ ps_sw_wr => \E ps_in \in [of : {idx}, acc : BOOLEAN, mod : BOOLEAN] :
                         pm' = [pm EXCEPT ![idx] = ps_in]
        /\ ~REFMOD_WR /\ ~ps_sw_wr => pm' = pm
  BY WriteBack
<1>2. RegistersOK
  BY DEF IInv
<1>3. page \in Pages /\ out \in Map /\ pm \in [Pages -> Map] /\ \A q \in Pages : pm[q].of = q
  BY <1>2 DEF RegistersOK
<1>4. ps_refmod \in Map /\ ps_refmod.of = out.of
  BY <1>3 DEF ps_refmod, Map
<1>5. pm' \in [Pages -> Map] /\ \A q \in Pages : pm'[q].of = q
  <2>1. \/ pm' = pm
        \/ \E e \in Map : e.of = idx /\ pm' = [pm EXCEPT ![idx] = e]
    BY <1>1, <1>3, <1>4 DEF Map
  <2>2. QED
    BY <1>3, <2>1
<1>6. out' \in Map /\ seg' \in Pages
  BY <1>1, <1>3
<1>7. n' \in 0 .. Last /\ TIMEOUT' \in BOOLEAN /\ MMU_REFUSED' \in BOOLEAN
  BY ChainWas, ChainFlags, Zenon DEF Last
<1>8. clk' \in {"high", "low"} /\ as' \in BOOLEAN /\ strobe' \in BOOLEAN /\ rmw' \in BOOLEAN
  BY <1>2, PosEdgeKeeps DEF RegistersOK
<1>9. /\ space' \in Spaces /\ rw' \in {"r", "w"}
      /\ seen' \in {"none", "ack", "err"} /\ page' \in Pages /\ c3' \in BOOLEAN
  BY <1>2, PosEdgeKeeps DEF RegistersOK
<1>10. /\ w_ack' \in BOOLEAN /\ mb_ack' \in BOOLEAN
       /\ was' \in [page : Pages, rw : {"r", "w"}, general : BOOLEAN]
  BY <1>2, PosEdgeKeeps DEF RegistersOK
<1>11. QED
  BY <1>5, <1>6, <1>7, <1>8, <1>9, <1>10, Zenon DEF RegistersOK

\* The chain advances one stage with AS up, and is clear after an edge with it down.
LEMMA PosChain == ASSUME IInv, PosEdge PROVE ChainOK'
<1>1. ChainOK
  BY DEF IInv
<1>2. n' >= 1 => as /\ c3
  BY <1>1, ChainWas, Zenon DEF ChainOK
<1>3. TIMEOUT' => n' = Last
  BY <1>1, ChainWas, ChainFlags, Zenon DEF ChainOK, Last
<1>4. seen # "none" => as /\ strobe /\ n' >= 1
  BY <1>1, ChainWas, Zenon DEF ChainOK
<1>5. n' >= 1 => c3'
  BY <1>2, PosEdgeKeeps, Zenon
<1>6. n' >= 1 /\ ~as' => clk' = "low"
  BY <1>2, PosEdgeKeeps, Zenon
<1>7. strobe' => as'
  BY <1>1, PosEdgeKeeps, Zenon DEF ChainOK
<1>8. seen' # "none" => as' /\ strobe' /\ n' >= 1
  BY <1>4, PosEdgeKeeps, Zenon
<1>9. seen' # "none" /\ space' = "general" => n' >= 2
  BY <1>1, ChainWas, PosEdgeKeeps, Zenon DEF ChainOK
<1>10. MMU_REFUSED' => n' >= 2
  <2>1. MMU_REFUSE => n >= 2
    BY Zenon DEF MMU_REFUSE, S6
  <2>2. QED
    BY <1>1, <2>1, ChainFlags, ChainWas, Zenon DEF ChainOK
<1>11. QED
  BY <1>3, <1>5, <1>6, <1>7, <1>8, <1>9, <1>10, Zenon DEF ChainOK

\* The maps catch up with the address, a stage each.
LEMMA PosLookup == ASSUME IInv, PosEdge PROVE LookupOK'
<1>1. LookupOK
  BY DEF IInv
<1>2. PICK idx \in Pages : (as /\ n >= 1 => idx = page) /\ out' = pm[idx] /\ seg' = page
  BY WriteBack
<1>3. pm[page].of = page
  BY DEF IInv, RegistersOK
<1>4. n' >= 2 => out'.of = was.page
  BY <1>1, <1>2, <1>3, ChainWas, Zenon DEF LookupOK
<1>5. as \/ n' >= 1 => was.rw = rw /\ (was.general <=> space = "general")
  BY <1>1, ChainWas, Zenon DEF LookupOK
<1>6. as' => was'.page = page'
  BY <1>1, PosEdgeKeeps, Zenon DEF LookupOK
<1>7. as' \/ n' >= 1 => was'.rw = rw' /\ (was'.general <=> space' = "general")
  BY <1>5, PosEdgeKeeps, Zenon
<1>8. as' /\ n' >= 1 => seg' = page'
  BY <1>2, PosEdgeKeeps, Zenon
<1>9. n' >= 2 => out'.of = was'.page
  BY <1>4, PosEdgeKeeps, Zenon
<1>10. QED
  BY <1>6, <1>7, <1>8, <1>9, Zenon DEF LookupOK

\* The refusal is latched by the edge that sets C_S8.
LEMMA PosRefusal == ASSUME IInv, PosEdge PROVE RefusalOK'
<1>1. RefusalOK
  BY DEF IInv
<1>2. (Granted' <=> Granted) /\ UNCHANGED <<as, space, seen>>
  BY PosEdgeKeeps, SamePage
<1>3. n' >= 3 /\ space = "general" /\ ~Granted => MMU_REFUSED'
  BY ChainWas, ChainFlags, Verdict, Zenon
<1>4. MMU_REFUSED' => space = "general" /\ ~Granted
  <2>1. MMU_REFUSE => n >= 2 /\ space = "general"
    <3>1. ASSUME MMU_REFUSE PROVE n >= 2 /\ as /\ space \in {"general", "boot"}
      BY <3>1 DEF MMU_REFUSE, S6, FC_GENERAL
    <3>2. ASSUME as, n >= 2 PROVE ~AtOnce
      BY <3>2, Small, PosEdgeKeeps DEF IInv, OwnAnswerOK
    <3>3. QED
      BY <3>1, <3>2 DEF AtOnce
  <2>2. QED
    BY <1>1, <2>1, ChainFlags, Verdict, Zenon DEF RefusalOK
<1>5. seen # "none" /\ space = "general" /\ ~Granted => MMU_REFUSED'
  <2>1. seen # "none" => as
    BY DEF IInv, ChainOK
  <2>2. QED
    BY <1>1, <2>1, ChainFlags, Zenon DEF RefusalOK
<1>6. n' >= 1 => as
  BY ChainWas
<1>7. QED
  BY <1>1, <1>2, <1>3, <1>4, <1>5, <1>6, Zenon DEF RefusalOK

\* The page map's output lags its array by this cycle's own write at most.
LEMMA PosStatistics == ASSUME IInv, PosEdge PROVE StatisticsOK'
<1> SUFFICES ASSUME as', n' >= 2, space = "general"
             PROVE  /\ out'.acc => pm'[page].acc
                    /\ out'.mod => pm'[page].mod
                    /\ pm'[page].mod => out'.mod \/ rw = "w"
  BY PosEdgeKeeps, Zenon DEF StatisticsOK
<1>1. as /\ n >= 1
  BY ChainWas, Zenon
<1>2. /\ out' = pm[page]
      /\ REFMOD_WR => n >= 2 /\ pm' = [pm EXCEPT ![page] = ps_refmod]
      /\ ~REFMOD_WR => pm' = pm
  BY <1>1, WriteBack DEF ps_sw_wr
<1>3. page \in Pages /\ out \in Map /\ pm \in [Pages -> Map]
  BY DEF IInv, RegistersOK
<1>4. CASE REFMOD_WR
  <2>1. ps_refmod.acc /\ (ps_refmod.mod <=> out.mod \/ rw = "w")
    BY <1>3 DEF ps_refmod, Map
  <2>2. pm'[page] = ps_refmod
    BY <1>2, <1>3, <1>4
  <2>3. /\ out.mod => pm[page].mod
        /\ pm[page].mod => out.mod \/ rw = "w"
    BY <1>1, <1>2, <1>4 DEF IInv, StatisticsOK
  <2>4. pm'[page].acc /\ (pm'[page].mod <=> out.mod \/ rw = "w")
    BY <2>1, <2>2, Zenon
  <2>5. (out'.mod => pm'[page].mod) /\ (pm'[page].mod => out'.mod \/ rw = "w")
    BY <1>2, <2>3, <2>4, Zenon
  <2>6. QED
    BY <2>4, <2>5, Zenon
<1>5. CASE ~REFMOD_WR
  BY <1>2, <1>5, Zenon
<1>6. QED
  BY <1>4, <1>5

\* The strobes are the master's: an edge of the chain leaves them alone.
LEMMA PosStrobes == ASSUME IInv, PosEdge PROVE StrobesOK'
<1>1. Target' = Target /\ UNCHANGED <<as, strobe, space, rmw, rw>>
  BY PosEdgeKeeps, SamePage
<1>2. QED
  BY <1>1, Zenon DEF IInv, StrobesOK

\* A cycle sun2_fpga answers itself is seen to be answered before it runs on.
LEMMA PosOwnAnswer == ASSUME IInv, PosEdge PROVE OwnAnswerOK'
<1>1. (Granted' <=> Granted) /\ Target' = Target
  BY PosEdgeKeeps, SamePage
<1>2. OwnAnswerOK
  BY DEF IInv
<1>3. ASSUME as, AtOnce
      PROVE  n' <= 2 /\ (n' = 2 => seen # "none")
  <2>1. n \in 0 .. 11 /\ n <= 2 /\ n # 2 /\ (n >= 1 => seen # "none")
    BY <1>2, <1>3, PosEdgeKeeps, Small DEF OwnAnswerOK
  <2>2. CASE n = 0
    BY <1>3, <2>2, ChainWas
  <2>3. CASE n = 1
    BY <1>3, <2>1, <2>3, ChainWas
  <2>4. QED
    BY <2>1, <2>2, <2>3
<1>4. ASSUME as, space = "general", Granted, Target \in {"device", "hole"}
      PROVE  n' <= 4 /\ (n' = 4 => seen # "none")
  <2>1. n \in 0 .. 11 /\ n <= 4 /\ n # 4 /\ (n >= 3 => seen # "none")
    BY <1>2, <1>4, PosEdgeKeeps, Small DEF OwnAnswerOK
  <2>2. CASE n = 0
    BY <1>4, <2>2, ChainWas
  <2>3. CASE n \in 1 .. 3
    <3>1. n' = n + 1
      BY <1>4, <2>3, ChainWas
    <3>2. QED
      BY <2>1, <2>3, <3>1
  <2>4. QED
    BY <2>1, <2>2, <2>3
<1>9. ASSUME as, space = "pmap"
      PROVE  n' <= 3 /\ (n' = 3 => seen # "none")
  <2>1. n \in 0 .. 11 /\ n <= 3 /\ n # 3 /\ (n >= 2 => seen # "none")
    BY <1>2, <1>9, PosEdgeKeeps, Small DEF OwnAnswerOK
  <2>2. CASE n = 0
    BY <1>9, <2>2, ChainWas
  <2>3. CASE n \in 1 .. 2
    <3>1. n' = n + 1
      BY <1>9, <2>3, ChainWas
    <3>2. QED
      BY <2>1, <2>3, <3>1
  <2>4. QED
    BY <2>1, <2>2, <2>3
<1>5. clk' = "high" /\ UNCHANGED <<space, seen>> /\ (as' <=> as) /\ (AtOnce' <=> AtOnce)
  BY PosEdgeKeeps DEF AtOnce
<1>10. ASSUME as', space' = "pmap"
       PROVE  /\ n' <= 3 /\ (n' = 3 => clk' = "high")
              /\ n' >= 2 /\ clk' = "low" => seen' # "none"
              /\ n' = 3 => seen' # "none"
  BY <1>5, <1>9, <1>10
<1>6. ASSUME as', AtOnce'
      PROVE  /\ n' <= 2 /\ (n' = 2 => clk' = "high")
             /\ n' >= 1 /\ clk' = "low" => seen' # "none"
             /\ n' = 2 => seen' # "none"
  BY <1>3, <1>5, <1>6
<1>7. ASSUME as', space' = "general", Granted', Target' \in {"device", "hole"}
      PROVE  /\ n' <= 4 /\ (n' = 4 => clk' = "high")
             /\ n' >= 3 /\ clk' = "low" => seen' # "none"
             /\ n' = 4 => seen' # "none"
  BY <1>1, <1>4, <1>5, <1>7
<1>8. QED
  BY <1>6, <1>7, <1>10, Zenon DEF OwnAnswerOK

\* The timeout passes memory by, and a cycle that a card has answered.
LEMMA PosLateAnswer == ASSUME IInv, PosEdge PROVE LateAnswerOK'
<1>1. (Granted' <=> Granted) /\ Target' = Target
  BY PosEdgeKeeps, SamePage
<1>2. LateAnswerOK
  BY DEF IInv
<1>3. clk = "low" /\ clk' = "high" /\ space' = space /\ seen' = seen
      /\ (as' <=> as) /\ (strobe' <=> strobe) /\ (mb_ack' <=> mb_ack)
  BY PosEdgeKeeps
<1>4. TIMEOUT' /\ space = "general" => ~(Granted /\ Target = "memory")
  <2> SUFFICES ASSUME TIMEOUT', space = "general", Granted, Target = "memory"
               PROVE  FALSE
    OBVIOUS
  <2>1. as /\ (TIMEOUT \/ (n = 11 /\ ~MATCH("memory")))
    BY ChainFlags, Zenon
  <2>2. ~TIMEOUT
    BY <1>2, <2>1, Zenon DEF LateAnswerOK
  <2>3. n = 11 /\ ~MATCH("memory")
    BY <2>1, <2>2, Zenon
  <2>4. n >= 2
    BY <2>3
  <2>5. QED
    BY <2>1, <2>3, <2>4, MatchWhen, Zenon
<1>5. ASSUME mb_ack
      PROVE  /\ as /\ strobe /\ n' >= 2
             /\ space = "general" /\ Granted /\ Target = "bus" /\ seen # "err"
             /\ ~TIMEOUT' /\ (seen = "none" => n' <= 10) /\ (seen # "none" => n' <= 11)
  <2>1. /\ as /\ strobe /\ n >= 2
        /\ space = "general" /\ Granted /\ Target = "bus" /\ seen # "err" /\ ~TIMEOUT
    BY <1>2, <1>5, Zenon DEF LateAnswerOK
  <2>2. n \in 0 .. 11 /\ (seen = "none" => n <= 9) /\ (seen # "none" => n <= 10)
    BY <1>2, <1>3, <1>5, Small DEF LateAnswerOK, Last
  <2>3. n # 11
    BY <2>2
  <2>4. ~TIMEOUT'
    BY <2>1, <2>3, ChainFlags, Zenon
  <2>5. (n <= 9 => n' <= 10) /\ n' <= 11
    <3>1. CASE n = 0
      BY <2>1, <3>1, ChainWas
    <3>2. CASE n \in 1 .. 10
      <4>1. n' = n + 1
        BY <2>1, <3>2, ChainWas
      <4>2. QED
        BY <3>2, <4>1
    <3>3. QED
      BY <2>2, <2>3, <3>1, <3>2
  <2>6. n' >= 2
    BY <2>1, ChainWas, Zenon
  <2>7. QED
    BY <2>1, <2>2, <2>4, <2>5, <2>6, Zenon
<1>6. seen # "none" /\ space = "general" /\ Granted /\ Target = "bus" => mb_ack \/ TIMEOUT'
  <2>1. seen # "none" => as
    BY DEF IInv, ChainOK
  <2>2. QED
    BY <1>2, <2>1, ChainFlags, Zenon DEF LateAnswerOK
<1>7. ASSUME mb_ack'
      PROVE  /\ as' /\ strobe' /\ n' >= 2 /\ space' = "general" /\ Granted' /\ Target' = "bus"
             /\ seen' # "err" /\ ~TIMEOUT'
             /\ seen' = "none" => n' <= Last - (IF clk' = "high" THEN 1 ELSE 2)
             /\ seen' # "none" => n' <= Last - (IF clk' = "high" THEN 0 ELSE 1)
  <2>1. mb_ack
    BY <1>3, <1>7, Zenon
  <2>2. /\ as' /\ strobe' /\ n' >= 2 /\ space' = "general" /\ Granted' /\ Target' = "bus"
        /\ seen' # "err" /\ ~TIMEOUT'
    BY <1>1, <1>3, <1>5, <2>1, Zenon
  <2>3. (seen' = "none" => n' <= 10) /\ (seen' # "none" => n' <= 11)
    BY <1>3, <1>5, <2>1, Zenon
  <2>4. Last - (IF clk' = "high" THEN 1 ELSE 2) = 10 /\ Last - (IF clk' = "high" THEN 0 ELSE 1) = 11
    BY <1>3 DEF Last
  <2>5. QED
    BY <2>2, <2>3, <2>4, Zenon
<1>8. as' /\ TIMEOUT' /\ space' = "general" => ~(Granted' /\ Target' = "memory")
  BY <1>1, <1>3, <1>4, Zenon
<1>9. seen' # "none" /\ space' = "general" /\ Granted' /\ Target' = "bus" => mb_ack' \/ TIMEOUT'
  BY <1>1, <1>3, <1>6, Zenon
<1>10. QED
  BY <1>7, <1>8, <1>9, Zenon DEF LateAnswerOK

\* By the edge that ends it, a granted cycle has written its statistics; and the
\* edge that times a refused cycle out finds the refusal already reported.
LEMMA PosTells == ASSUME IInv, PosEdge PROVE TellsOK'
<1>1. (Granted' <=> Granted) /\ space' = space /\ seen' = seen /\ page' = page /\ rw' = rw
  BY PosEdgeKeeps, SamePage
<1>2. TellsOK /\ ChainOK
  BY DEF IInv
<1>3. ASSUME seen # "none", space = "general", Granted
      PROVE  pm'[page].acc /\ (rw = "w" => pm'[page].mod)
  <2>1. as /\ n >= 2 /\ n >= 1
    BY <1>2, <1>3, Zenon DEF ChainOK
  <2>2. /\ REFMOD_WR => pm' = [pm EXCEPT ![page] = ps_refmod]
        /\ ~REFMOD_WR => pm' = pm
    BY <1>3, <2>1, WriteBack DEF ps_sw_wr
  <2>3. page \in Pages /\ out \in Map /\ pm \in [Pages -> Map]
    BY DEF IInv, RegistersOK
  <2>4. CASE REFMOD_WR
    <3>1. ps_refmod.acc /\ (rw = "w" => ps_refmod.mod)
      BY <2>3 DEF ps_refmod, Map
    <3>2. pm'[page] = ps_refmod
      BY <2>2, <2>3, <2>4
    <3>3. QED
      BY <3>1, <3>2, Zenon
  <2>5. CASE ~REFMOD_WR
    <3>1. VALID /\ ~PROTERR_raw
      <4>1. Entry[out.of] = Entry[was.page] /\ was.rw = rw
        BY <1>3, <2>1, Verdict, Zenon DEF IInv, LookupOK
      <4>2. QED
        BY <1>3, <4>1, Zenon DEF VALID, PROTERR_raw, Granted
    <3>2. out.acc /\ (rw = "w" => out.mod)
      BY <1>3, <2>1, <2>5, <3>1 DEF REFMOD_WR, FC_GENERAL, MATCH_PROM_BOOT, S6
    <3>3. pm[page].acc /\ (rw = "w" => pm[page].mod)
      BY <1>3, <2>1, <3>2 DEF IInv, StatisticsOK
    <3>4. QED
      BY <2>2, <2>5, <3>3, Zenon
  <2>6. QED
    BY <2>4, <2>5, Zenon
<1>4. ASSUME TIMEOUT', space = "general", ~Granted
      PROVE  berr_latched'
  <2>1. as /\ (TIMEOUT \/ n = 11)
    BY <1>4, ChainFlags, Zenon
  <2>2. berr_latched' <=> ERR \/ (berr_latched /\ ~berr_read)
    BY DEF PosEdge, RegsPos
  <2>3. CASE TIMEOUT
    <3>1. berr_latched
      BY <1>2, <1>4, <2>1, <2>3, Zenon DEF TellsOK
    <3>2. ~berr_read
      BY <1>4 DEF berr_read
    <3>3. QED
      BY <2>2, <3>1, <3>2, Zenon
  <2>4. CASE n = 11
    <3>1. n >= 2 /\ n >= 3
      BY <2>4
    <3>2. MMU_REFUSE
      BY <1>4, <2>1, <3>1, Verdict, Zenon
    <3>3. QED
      BY <2>2, <3>1, <3>2, Zenon DEF ERR, S8
  <2>5. QED
    BY <2>1, <2>3, <2>4, Zenon
<1>5. seen' # "none" /\ clk' = "high" /\ space' = "general" /\ Granted' =>
        pm'[page'].acc /\ (rw' = "w" => pm'[page'].mod)
  BY <1>1, <1>3, Zenon
<1>6. as' /\ TIMEOUT' /\ space' = "general" /\ ~Granted' => berr_latched'
  BY <1>1, <1>4, Zenon
<1>7. QED
  BY <1>5, <1>6, Zenon DEF TellsOK

\* A positive edge preserves the invariant.
LEMMA PosEdgeKeepsIInv == ASSUME IInv, PosEdge PROVE IInv'
BY PosRegisters, PosChain, PosLookup, PosRefusal, PosStatistics, PosStrobes, PosOwnAnswer,
   PosLateAnswer, PosTells, Zenon DEF IInv
-----------------------------------------------------------------------------
(* A negative edge: the chain's stages and the maps stand still. *)

\* The master samples: what it sees, it sees for a reason.
LEMMA SampleKeeps == ASSUME IInv, NegEdge, Sample PROVE IInv'
<1>1. /\ clk = "high" /\ clk' = "low" /\ c3' = as /\ seen = "none" /\ strobe
      /\ n' = n /\ (TIMEOUT' <=> TIMEOUT) /\ (MMU_REFUSED' <=> MMU_REFUSED)
      /\ (as' <=> as) /\ (strobe' <=> strobe) /\ (rmw' <=> rmw) /\ (mb_ack' <=> mb_ack)
      /\ (berr_latched' <=> berr_latched) /\ (w_ack' <=> w_ack)
      /\ seg' = seg /\ out' = out /\ pm' = pm /\ page' = page /\ space' = space
      /\ rw' = rw /\ was' = was
  BY DEF NegEdge, Sample, maps, regs, acks
<1>2. /\ seen' \in {"none", "ack", "err"}
      /\ seen' = "err" <=> ERR
      /\ seen' = "ack" <=> Answered /\ ~ERR
  BY DEF NegEdge, Sample
<1>3. (Granted' <=> Granted) /\ Target' = Target
  BY <1>1, SamePage
<1>4. as /\ strobe
  BY <1>1 DEF IInv, ChainOK
<1>5. RegistersOK'
  <2>1. /\ c3' \in BOOLEAN /\ as' \in BOOLEAN /\ strobe' \in BOOLEAN /\ rmw' \in BOOLEAN
        /\ mb_ack' \in BOOLEAN /\ w_ack' \in BOOLEAN
        /\ TIMEOUT' = TIMEOUT /\ MMU_REFUSED' = MMU_REFUSED
    BY DEF NegEdge, Sample, acks, IInv, RegistersOK
  <2>2. QED
    BY <1>1, <1>2, <2>1, Zenon DEF IInv, RegistersOK
<1>6. seen' # "none" => n >= 1 /\ (space = "general" => n >= 2)
  <2>1. seen' = "err" => n >= 1 /\ n >= 2
    BY <1>2, <1>4, ErrIs, Small
  <2>2. seen' = "ack" => n >= 1 /\ (space = "general" => n >= 2)
    BY <1>2, <1>4, AckIs, Small
  <2>3. QED
    BY <1>2, <2>1, <2>2, Zenon
<1>7. ChainOK'
  BY <1>1, <1>4, <1>6, Zenon DEF IInv, ChainOK
<1>8. LookupOK'
  BY <1>1, Zenon DEF IInv, LookupOK
<1>9. RefusalOK'
  <2>1. seen' = "err" /\ space = "general" /\ ~Granted => MMU_REFUSED
    BY <1>1, <1>2, <1>4, ErrIs, Zenon DEF IInv, RefusalOK
  <2>2. seen' = "ack" /\ space = "general" => Granted
    BY <1>2, <1>4, AckIs, Zenon
  <2>3. QED
    BY <1>1, <1>2, <1>3, <1>4, <2>1, <2>2, Zenon DEF IInv, RefusalOK
<1>10. StatisticsOK'
  BY <1>1, Zenon DEF IInv, StatisticsOK
<1>11. StrobesOK'
  BY <1>1, <1>3, Zenon DEF IInv, StrobesOK
<1>12. OwnAnswerOK'
  <2>1. AtOnce /\ n >= 1 => Answered
    BY DEF IInv, RegistersOK, Spaces, AtOnce, Answered, VPA, DTACK, MATCH_PROM_BOOT, S4
  <2>8. space = "pmap" /\ n >= 2 => Answered
    BY DEF Answered, DTACK, S6
  <2>2. space = "general" /\ Granted /\ Target \in {"device", "hole"} /\ n >= 3 => Answered
    <3>1. n >= 3 => n >= 2
      BY Small
    <3>2. QED
      BY <1>4, <3>1, MatchWhen DEF Answered, DTACK, S8
  <2>3. Answered => seen' # "none"
    BY <1>2, Zenon
  <2>4. OwnAnswerOK
    BY DEF IInv
  <2>5. /\ as /\ AtOnce => n <= 2 /\ n # 2
        /\ as /\ space = "pmap" => n <= 3 /\ n # 3
    BY <1>1, <2>4, Zenon DEF OwnAnswerOK, AtOnce
  <2>6. as /\ space = "general" /\ Granted /\ Target \in {"device", "hole"} => n <= 4 /\ n # 4
    BY <1>1, <2>4, Zenon DEF OwnAnswerOK, AtOnce
  <2>7. QED
    BY <1>1, <1>3, <2>1, <2>2, <2>3, <2>5, <2>6, <2>8, Zenon DEF OwnAnswerOK, AtOnce
<1>13. LateAnswerOK'
  <2>1. LateAnswerOK
    BY DEF IInv
  <2>2. ASSUME mb_ack
        PROVE  /\ as /\ strobe /\ n >= 2 /\ space = "general" /\ Granted /\ Target = "bus"
               /\ seen' # "err" /\ seen' # "none" /\ ~TIMEOUT /\ n <= 10
    <3>1. /\ as /\ strobe /\ n >= 2 /\ space = "general" /\ Granted /\ Target = "bus" /\ ~TIMEOUT
      BY <2>1, <2>2, Zenon DEF LateAnswerOK
    <3>2. n <= 10
      BY <1>1, <2>1, <2>2, Small DEF LateAnswerOK, Last
    <3>3. ~ERR
      BY <3>1, ErrIs, Zenon
    <3>4. Answered
      BY <2>2, <3>1, MatchWhen DEF Answered, DTACK
    <3>5. QED
      BY <1>2, <3>1, <3>2, <3>3, <3>4, Zenon
  <2>3. seen' # "none" /\ space = "general" /\ Granted /\ Target = "bus" => mb_ack \/ TIMEOUT
    <3>1. seen' = "ack" /\ space = "general" /\ Granted /\ Target = "bus" => mb_ack
      BY <1>2, <1>4, AckIs
    <3>2. seen' = "err" /\ Granted => TIMEOUT
      BY <1>2, <1>4, ErrIs, Zenon
    <3>3. QED
      BY <1>2, <3>1, <3>2, Zenon
  <2>4. Last - (IF clk' = "high" THEN 0 ELSE 1) = 10
    BY <1>1 DEF Last
  <2>5. ASSUME mb_ack'
        PROVE  /\ as' /\ strobe' /\ n' >= 2 /\ space' = "general" /\ Granted' /\ Target' = "bus"
               /\ seen' # "err" /\ ~TIMEOUT'
               /\ seen' = "none" => n' <= Last - (IF clk' = "high" THEN 1 ELSE 2)
               /\ seen' # "none" => n' <= Last - (IF clk' = "high" THEN 0 ELSE 1)
    BY <1>1, <1>3, <2>2, <2>4, <2>5, Zenon
  <2>6. as' /\ TIMEOUT' /\ space' = "general" => ~(Granted' /\ Target' = "memory")
    BY <1>1, <1>3, <2>1, Zenon DEF LateAnswerOK
  <2>7. seen' # "none" /\ space' = "general" /\ Granted' /\ Target' = "bus" => mb_ack' \/ TIMEOUT'
    BY <1>1, <1>3, <2>3, Zenon
  <2>8. QED
    BY <2>5, <2>6, <2>7, Zenon DEF LateAnswerOK
<1>14. TellsOK'
  BY <1>1, <1>3, Zenon DEF IInv, TellsOK
<1>15. QED
  BY <1>5, <1>7, <1>8, <1>9, <1>10, <1>11, <1>12, <1>13, <1>14, Zenon DEF IInv

\* The cycle ends: AS goes, and the chain still stands where it was.
LEMMA EndCycleKeeps == ASSUME IInv, NegEdge, EndCycle PROVE IInv'
<1>1. /\ clk = "high" /\ clk' = "low" /\ c3' = as /\ seen # "none"
      /\ n' = n /\ (TIMEOUT' <=> TIMEOUT) /\ (MMU_REFUSED' <=> MMU_REFUSED)
      /\ ~as' /\ ~strobe' /\ ~rmw' /\ ~mb_ack' /\ ~w_ack' /\ seen' = "none"
      /\ seg' = seg /\ out' = out /\ pm' = pm /\ page' = page /\ space' = space
      /\ rw' = rw /\ was' = was
  BY DEF NegEdge, EndCycle, maps, regs, acks
<1>2. (Granted' <=> Granted) /\ Target' = Target
  BY <1>1, SamePage
<1>3. as
  BY <1>1 DEF IInv, ChainOK
<1>4. RegistersOK'
  <2>1. as' \in BOOLEAN /\ strobe' \in BOOLEAN /\ rmw' \in BOOLEAN /\ mb_ack' \in BOOLEAN /\ w_ack' \in BOOLEAN
        /\ TIMEOUT' = TIMEOUT /\ MMU_REFUSED' = MMU_REFUSED
    BY DEF NegEdge, EndCycle
  <2>2. QED
    BY <1>1, <1>3, <2>1, Zenon DEF IInv, RegistersOK
<1>5. ChainOK'
  BY <1>1, <1>3, Zenon DEF IInv, ChainOK
<1>6. LookupOK'
  BY <1>1, <1>3, Zenon DEF IInv, LookupOK
<1>7. RefusalOK'
  BY <1>1, <1>2, Zenon DEF IInv, RefusalOK
<1>8. StatisticsOK' /\ StrobesOK' /\ OwnAnswerOK' /\ LateAnswerOK' /\ TellsOK'
  BY <1>1, Zenon DEF StatisticsOK, StrobesOK, OwnAnswerOK, AtOnce, LateAnswerOK, TellsOK
<1>9. QED
  BY <1>4, <1>5, <1>6, <1>7, <1>8, Zenon DEF IInv

\* Between the halves of a read-modify-write only the strobes go.
LEMMA TurnAroundKeeps == ASSUME IInv, NegEdge, TurnAround PROVE IInv'
<1>1. /\ clk = "high" /\ clk' = "low" /\ c3' = as /\ seen = "ack" /\ rmw
      /\ n' = n /\ (TIMEOUT' <=> TIMEOUT) /\ (MMU_REFUSED' <=> MMU_REFUSED)
      /\ (as' <=> as) /\ ~strobe' /\ ~rmw' /\ ~mb_ack' /\ ~w_ack' /\ seen' = "none"
      /\ (berr_latched' <=> berr_latched)
      /\ seg' = seg /\ out' = out /\ pm' = pm /\ page' = page /\ space' = space
      /\ rw' = "w" /\ was' = [was EXCEPT !.rw = "w"]
  BY DEF NegEdge, TurnAround, maps, regs
<1>2. was \in [page : Pages, rw : {"r", "w"}, general : BOOLEAN]
  BY DEF IInv, RegistersOK
<1>3. /\ was'.page = was.page /\ was'.rw = "w" /\ was'.general = was.general
      /\ was' \in [page : Pages, rw : {"r", "w"}, general : BOOLEAN]
  BY <1>1, <1>2
<1>4. Target' = Target
  BY <1>3 DEF Target
<1>5. as /\ space = "general" /\ Target = "memory" /\ Granted /\ ~MMU_REFUSED /\ ~TIMEOUT
  <2>1. as
    BY <1>1 DEF IInv, ChainOK
  <2>2. space = "general" /\ Target = "memory"
    BY <1>1, Zenon DEF IInv, StrobesOK
  <2>3. Granted
    BY <1>1, <2>2, Zenon DEF IInv, RefusalOK
  <2>4. QED
    BY <2>1, <2>2, <2>3, Zenon DEF IInv, RefusalOK, LateAnswerOK
<1>6. RegistersOK'
  <2>1. as' \in BOOLEAN /\ strobe' \in BOOLEAN /\ rmw' \in BOOLEAN /\ mb_ack' \in BOOLEAN /\ w_ack' \in BOOLEAN
        /\ TIMEOUT' = TIMEOUT /\ MMU_REFUSED' = MMU_REFUSED
    BY DEF NegEdge, TurnAround, IInv, RegistersOK
  <2>2. QED
    BY <1>1, <1>3, <2>1, Zenon DEF IInv, RegistersOK
<1>7. ChainOK'
  BY <1>1, <1>5, Zenon DEF IInv, ChainOK
<1>8. LookupOK'
  <2>1. was'.general <=> space' = "general"
    BY <1>1, <1>3, <1>5, Zenon DEF IInv, LookupOK
  <2>2. QED
    BY <1>1, <1>3, <1>5, <2>1, Zenon DEF IInv, LookupOK
<1>9. RefusalOK'
  BY <1>1, <1>5 DEF RefusalOK
<1>10. StatisticsOK'
  BY <1>1, Zenon DEF IInv, StatisticsOK
<1>11. StrobesOK'
  BY <1>1, <1>4, <1>5, Zenon DEF StrobesOK
<1>12. OwnAnswerOK'
  BY <1>1, <1>4, <1>5 DEF OwnAnswerOK, AtOnce
<1>13. LateAnswerOK' /\ TellsOK'
  BY <1>1, <1>5, Zenon DEF LateAnswerOK, TellsOK
<1>14. QED
  BY <1>6, <1>7, <1>8, <1>9, <1>10, <1>11, <1>12, <1>13, Zenon DEF IInv

\* No strobe out: nothing but C_S3 can move.
LEMMA IdleKeeps == ASSUME IInv, NegEdge, ~strobe, UNCHANGED <<bus, acks>> PROVE IInv'
<1>1. /\ clk = "high" /\ clk' = "low" /\ c3' = as /\ seen' = seen
      /\ n' = n /\ (TIMEOUT' <=> TIMEOUT) /\ (MMU_REFUSED' <=> MMU_REFUSED)
      /\ (as' <=> as) /\ (strobe' <=> strobe) /\ (rmw' <=> rmw) /\ (mb_ack' <=> mb_ack)
      /\ (berr_latched' <=> berr_latched)
      /\ seg' = seg /\ out' = out /\ pm' = pm /\ page' = page /\ space' = space
      /\ rw' = rw /\ was' = was
  BY DEF NegEdge, bus, maps, regs, acks
<1>2. (Granted' <=> Granted) /\ Target' = Target
  BY <1>1, SamePage
<1>4. seen = "none" /\ ~mb_ack
  BY DEF IInv, ChainOK, LateAnswerOK
<1>5. as => space = "general" /\ Target = "memory"
  BY DEF IInv, StrobesOK
<1>6. n >= 1 => as
  BY <1>1 DEF IInv, ChainOK
<1>7. RegistersOK'
  <2>1. /\ c3' \in BOOLEAN /\ as' \in BOOLEAN /\ strobe' \in BOOLEAN /\ rmw' \in BOOLEAN
        /\ mb_ack' \in BOOLEAN /\ w_ack' \in BOOLEAN
        /\ TIMEOUT' = TIMEOUT /\ MMU_REFUSED' = MMU_REFUSED
    BY DEF NegEdge, bus, acks, IInv, RegistersOK
  <2>2. QED
    BY <1>1, <2>1, Zenon DEF IInv, RegistersOK
<1>8. ChainOK'
  BY <1>1, <1>4, <1>6, Zenon DEF IInv, ChainOK
<1>9. LookupOK'
  BY <1>1, Zenon DEF IInv, LookupOK
<1>10. RefusalOK'
  BY <1>1, <1>2, <1>4, <1>6 DEF IInv, RefusalOK
<1>11. StatisticsOK'
  BY <1>1, Zenon DEF IInv, StatisticsOK
<1>12. StrobesOK'
  BY <1>1, <1>2, Zenon DEF IInv, StrobesOK
<1>13. OwnAnswerOK'
  BY <1>1, <1>2, <1>5 DEF OwnAnswerOK, AtOnce
<1>14. LateAnswerOK'
  BY <1>1, <1>2, <1>4, Zenon DEF IInv, LateAnswerOK
<1>15. TellsOK'
  BY <1>1, <1>2, Zenon DEF IInv, TellsOK
<1>16. QED
  BY <1>7, <1>8, <1>9, <1>10, <1>11, <1>12, <1>13, <1>14, <1>15, Zenon DEF IInv

\* A negative edge preserves the invariant.
LEMMA NegEdgeKeepsIInv == ASSUME IInv, NegEdge PROVE IInv'
BY SampleKeeps, EndCycleKeeps, TurnAroundKeeps, IdleKeeps DEF NegEdge
-----------------------------------------------------------------------------
(* What the masters and the cards do between the edges. *)

\* The address moves while AS is down.
LEMMA MoveAddressKeeps == ASSUME IInv, MoveAddress PROVE IInv'
<1>1. /\ ~as /\ clk' = clk /\ c3' = c3 /\ seen' = seen
      /\ n' = n /\ (TIMEOUT' <=> TIMEOUT) /\ (MMU_REFUSED' <=> MMU_REFUSED)
      /\ (as' <=> as) /\ (strobe' <=> strobe) /\ (rmw' <=> rmw) /\ (mb_ack' <=> mb_ack)
      /\ (berr_latched' <=> berr_latched)
      /\ seg' = seg /\ out' = out /\ pm' = pm /\ page' \in Pages /\ space' = space
      /\ rw' = rw /\ was' = was
  BY DEF MoveAddress, chain, maps, regs, acks
<1>2. (Granted' <=> Granted) /\ Target' = Target
  BY <1>1, SamePage
<1>3. ~as' /\ seen = "none" /\ ~mb_ack
  BY <1>1 DEF IInv, ChainOK, LateAnswerOK
<1>4. RegistersOK'
  <2>1. /\ c3' \in BOOLEAN /\ as' \in BOOLEAN /\ strobe' \in BOOLEAN /\ rmw' \in BOOLEAN
        /\ mb_ack' \in BOOLEAN /\ w_ack' \in BOOLEAN
        /\ TIMEOUT' = TIMEOUT /\ MMU_REFUSED' = MMU_REFUSED
    BY DEF MoveAddress, chain, acks, IInv, RegistersOK
  <2>2. QED
    BY <1>1, <2>1, Zenon DEF IInv, RegistersOK
<1>5. ChainOK'
  BY <1>1, Zenon DEF IInv, ChainOK
<1>6. LookupOK'
  BY <1>1, <1>3, Zenon DEF IInv, LookupOK
<1>7. RefusalOK'
  BY <1>1, <1>2, Zenon DEF IInv, RefusalOK
<1>8. StrobesOK'
  BY <1>1, <1>2, <1>3, Zenon DEF IInv, StrobesOK
<1>9. StatisticsOK' /\ OwnAnswerOK' /\ LateAnswerOK' /\ TellsOK'
  BY <1>1, <1>3, Zenon DEF StatisticsOK, OwnAnswerOK, AtOnce, LateAnswerOK, TellsOK
<1>10. QED
  BY <1>4, <1>5, <1>6, <1>7, <1>8, <1>9, Zenon DEF IInv

\* Function codes change, and an interrupt level comes and goes, with the chain
\* clear.
LEMMA LevelKeeps == ASSUME IInv, DriveLevel \/ DropLevel PROVE IInv'
<1>1. /\ ~as /\ n = 0 /\ clk' = clk /\ c3' = c3 /\ seen' = seen
      /\ n' = n /\ (TIMEOUT' <=> TIMEOUT) /\ (MMU_REFUSED' <=> MMU_REFUSED)
      /\ (as' <=> as) /\ (strobe' <=> strobe) /\ (rmw' <=> rmw) /\ (mb_ack' <=> mb_ack)
      /\ seg' = seg /\ out' = out /\ pm' = pm /\ rw' = rw /\ was' = was
  <2>1. CASE DriveLevel
    BY <2>1 DEF DriveLevel, chain, maps, acks
  <2>2. CASE DropLevel
    BY <2>2 DEF DropLevel, chain, maps, acks
  <2>3. QED
    BY <2>1, <2>2, Zenon
<1>2. page' \in Pages /\ space' \in Spaces
  BY BusAssumption DEF DriveLevel, DropLevel, LevelPage, Spaces
<1>3. ~as' /\ seen = "none" /\ ~mb_ack /\ ~rmw
  BY <1>1 DEF IInv, ChainOK, LateAnswerOK, StrobesOK
<1>4. n' = 0 /\ ~(n' >= 1) /\ ~(n' >= 2) /\ ~(n' >= 3)
  BY <1>1
<1>5. RegistersOK'
  <2>1. /\ c3' \in BOOLEAN /\ as' \in BOOLEAN /\ strobe' \in BOOLEAN /\ rmw' \in BOOLEAN
        /\ mb_ack' \in BOOLEAN /\ w_ack' \in BOOLEAN
        /\ TIMEOUT' = TIMEOUT /\ MMU_REFUSED' = MMU_REFUSED
    BY DEF DriveLevel, DropLevel, chain, acks, IInv, RegistersOK
  <2>2. QED
    BY <1>1, <1>2, <2>1, Zenon DEF IInv, RegistersOK
<1>6. ChainOK'
  BY <1>1, <1>3, <1>4, Zenon DEF IInv, ChainOK
<1>7. LookupOK' /\ RefusalOK'
  BY <1>1, <1>3, <1>4, Zenon DEF LookupOK, RefusalOK
<1>8. StatisticsOK' /\ StrobesOK' /\ OwnAnswerOK' /\ LateAnswerOK' /\ TellsOK'
  BY <1>1, <1>3, Zenon DEF StatisticsOK, StrobesOK, OwnAnswerOK, AtOnce, LateAnswerOK, TellsOK
<1>9. QED
  BY <1>5, <1>6, <1>7, <1>8, Zenon DEF IInv

\* A cycle begins with the chain clear.
LEMMA BeginCycleKeeps == ASSUME IInv, BeginCycle PROVE IInv'
<1>1. /\ ~as /\ n = 0 /\ clk' = clk /\ c3' = c3 /\ seen' = "none"
      /\ n' = n /\ (TIMEOUT' <=> TIMEOUT) /\ (MMU_REFUSED' <=> MMU_REFUSED)
      /\ as' /\ strobe' /\ (mb_ack' <=> mb_ack)
      /\ (berr_latched' <=> berr_latched)
      /\ seg' = seg /\ out' = out /\ pm' = pm /\ page' = page
      /\ was' = [page |-> page, rw |-> rw', general |-> space' = "general"]
  BY DEF BeginCycle, chain, maps, regs, acks
<1>2. /\ space' \in Spaces /\ rw' \in {"r", "w"} /\ rmw' \in BOOLEAN
      /\ rmw' => space' = "general" /\ rw' = "r" /\ Entry[page].to = "memory"
  BY DEF BeginCycle, Spaces
<1>3. /\ page \in Pages /\ was'.page = page /\ was'.rw = rw'
      /\ (was'.general <=> space' = "general")
      /\ was' \in [page : Pages, rw : {"r", "w"}, general : BOOLEAN]
  BY <1>1, <1>2 DEF IInv, RegistersOK
<1>4. Target' = Entry[page].to
  BY <1>3 DEF Target
<1>5. n' = 0 /\ ~(n' >= 1) /\ ~(n' >= 2) /\ ~(n' >= 3) /\ n' # 11 /\ n' <= 2 /\ n' # 2 /\ n' <= 3 /\ n' # 3 /\ n' <= 4 /\ n' # 4
  BY <1>1
<1>6. ~TIMEOUT' /\ ~MMU_REFUSED' /\ ~mb_ack'
  BY <1>1, <1>5 DEF IInv, ChainOK, LateAnswerOK, Last
<1>7. RegistersOK'
  <2>1. /\ as' \in BOOLEAN /\ strobe' \in BOOLEAN
        /\ mb_ack' \in BOOLEAN /\ w_ack' \in BOOLEAN
        /\ TIMEOUT' = TIMEOUT /\ MMU_REFUSED' = MMU_REFUSED
    BY DEF BeginCycle, chain, acks, IInv, RegistersOK
  <2>2. QED
    BY <1>1, <1>2, <1>3, <2>1, Zenon DEF IInv, RegistersOK
<1>8. ChainOK'
  BY <1>1, <1>5, <1>6, Zenon DEF ChainOK
<1>9. LookupOK'
  BY <1>1, <1>3, <1>5, Zenon DEF LookupOK
<1>10. RefusalOK'
  BY <1>1, <1>5, <1>6 DEF RefusalOK
<1>11. StatisticsOK' /\ OwnAnswerOK'
  BY <1>5, Zenon DEF StatisticsOK, OwnAnswerOK, AtOnce
<1>12. StrobesOK'
  BY <1>1, <1>2, <1>4, Zenon DEF StrobesOK
<1>13. LateAnswerOK' /\ TellsOK'
  BY <1>1, <1>6, Zenon DEF LateAnswerOK, TellsOK
<1>14. QED
  BY <1>7, <1>8, <1>9, <1>10, <1>11, <1>12, <1>13, Zenon DEF IInv

\* The strobes come back for the write half.
LEMMA StrobeAgainKeeps == ASSUME IInv, StrobeAgain PROVE IInv'
<1>1. /\ as /\ ~strobe /\ strobe' /\ clk' = clk /\ c3' = c3 /\ seen' = seen
      /\ n' = n /\ (TIMEOUT' <=> TIMEOUT) /\ (MMU_REFUSED' <=> MMU_REFUSED)
      /\ (as' <=> as) /\ (rmw' <=> rmw) /\ (mb_ack' <=> mb_ack)
      /\ (berr_latched' <=> berr_latched)
      /\ seg' = seg /\ out' = out /\ pm' = pm /\ page' = page /\ space' = space
      /\ rw' = rw /\ was' = was
  BY DEF StrobeAgain, chain, maps, regs, acks
<1>2. (Granted' <=> Granted) /\ Target' = Target
  BY <1>1, SamePage
<1>3. seen = "none" /\ ~mb_ack /\ space = "general" /\ Target = "memory"
  BY <1>1 DEF IInv, ChainOK, LateAnswerOK, StrobesOK
<1>4. RegistersOK'
  <2>1. /\ c3' \in BOOLEAN /\ as' \in BOOLEAN /\ strobe' \in BOOLEAN /\ rmw' \in BOOLEAN
        /\ mb_ack' \in BOOLEAN /\ w_ack' \in BOOLEAN
        /\ TIMEOUT' = TIMEOUT /\ MMU_REFUSED' = MMU_REFUSED
    BY DEF StrobeAgain, chain, acks, IInv, RegistersOK
  <2>2. QED
    BY <1>1, <2>1, Zenon DEF IInv, RegistersOK
<1>5. ChainOK'
  BY <1>1, <1>3, Zenon DEF IInv, ChainOK
<1>6. LookupOK'
  BY <1>1, Zenon DEF IInv, LookupOK
<1>7. RefusalOK'
  BY <1>1, <1>2, Zenon DEF IInv, RefusalOK
<1>8. StatisticsOK'
  BY <1>1, Zenon DEF IInv, StatisticsOK
<1>9. StrobesOK'
  BY <1>1, <1>2, Zenon DEF IInv, StrobesOK
<1>10. OwnAnswerOK'
  BY <1>1, <1>2, <1>3 DEF OwnAnswerOK, AtOnce
<1>11. LateAnswerOK'
  BY <1>1, <1>2, <1>3, Zenon DEF IInv, LateAnswerOK
<1>12. TellsOK'
  BY <1>1, <1>2, Zenon DEF IInv, TellsOK
<1>13. QED
  BY <1>4, <1>5, <1>6, <1>7, <1>8, <1>9, <1>10, <1>11, <1>12, Zenon DEF IInv

\* A card answers: the cycle it answers is its own, and in time.
LEMMA CardAnswersKeeps == ASSUME IInv, CardAnswers PROVE IInv'
<1>1. /\ clk' = clk /\ c3' = c3 /\ seen' = seen /\ n' = n
      /\ (TIMEOUT' <=> TIMEOUT) /\ (MMU_REFUSED' <=> MMU_REFUSED)
      /\ (as' <=> as) /\ (strobe' <=> strobe) /\ (rmw' <=> rmw)
      /\ (berr_latched' <=> berr_latched)
      /\ seg' = seg /\ out' = out /\ pm' = pm /\ page' = page /\ space' = space
      /\ rw' = rw /\ was' = was
  BY DEF CardAnswers, bus, chain, maps, regs
<1>2. MATCH("bus") /\ strobe /\ ~mb_ack /\ n <= 9 /\ mb_ack'
  BY BusAssumption, Small DEF CardAnswers, Last
<1>3. (Granted' <=> Granted) /\ Target' = Target
  BY <1>1, SamePage
<1>4. space = "general" /\ Granted /\ Target = "bus" /\ n >= 2
  BY <1>2, MatchIs DEF Targets, CardAnswers
<1>5. as /\ n # 11
  BY <1>2, Small DEF IInv, ChainOK
<1>6. ~TIMEOUT
  BY <1>5, Zenon DEF IInv, ChainOK, Last
<1>7. seen = "none"
  BY <1>2, <1>4, <1>6, Zenon DEF IInv, LateAnswerOK
<1>8. RegistersOK'
  <2>1. /\ c3' \in BOOLEAN /\ as' \in BOOLEAN /\ strobe' \in BOOLEAN /\ rmw' \in BOOLEAN
        /\ mb_ack' \in BOOLEAN /\ w_ack' \in BOOLEAN
        /\ TIMEOUT' = TIMEOUT /\ MMU_REFUSED' = MMU_REFUSED
    BY DEF CardAnswers, bus, chain, IInv, RegistersOK
  <2>2. QED
    BY <1>1, <2>1, Zenon DEF IInv, RegistersOK
<1>9. ChainOK'
  BY <1>1, <1>7, Zenon DEF IInv, ChainOK
<1>10. LookupOK'
  BY <1>1, Zenon DEF IInv, LookupOK
<1>11. RefusalOK'
  BY <1>1, <1>3, Zenon DEF IInv, RefusalOK
<1>12. StatisticsOK'
  BY <1>1, Zenon DEF IInv, StatisticsOK
<1>13. StrobesOK'
  BY <1>1, <1>3, Zenon DEF IInv, StrobesOK
<1>14. OwnAnswerOK'
  BY <1>1, <1>3, Zenon DEF IInv, OwnAnswerOK, AtOnce
<1>15. LateAnswerOK'
  <2>1. n' <= Last - (IF clk' = "high" THEN 1 ELSE 2)
    BY <1>1, <1>2, Small DEF Last
  <2>2. as' /\ TIMEOUT' /\ space' = "general" => ~(Granted' /\ Target' = "memory")
    BY <1>1, <1>6, Zenon
  <2>3. seen' = "none" /\ seen' # "err" /\ ~(seen' # "none")
    BY <1>1, <1>7
  <2>4. QED
    BY <1>1, <1>2, <1>3, <1>4, <1>5, <1>6, <2>1, <2>2, <2>3, Zenon DEF LateAnswerOK
<1>16. TellsOK'
  BY <1>1, <1>3, Zenon DEF IInv, TellsOK
<1>17. QED
  BY <1>8, <1>9, <1>10, <1>11, <1>12, <1>13, <1>14, <1>15, <1>16, Zenon DEF IInv

\* The bridge answers, a request for a vector comes or goes, or nothing happens:
\* of all the invariant is about only the bridge's answer can move.
LEMMA StandStillKeeps ==
  ASSUME IInv, UNCHANGED <<clk, bus, chain, maps, mb_ack, regs>>, w_ack' \in BOOLEAN
  PROVE  IInv'
<1>1. /\ clk' = clk /\ as' = as /\ strobe' = strobe /\ space' = space /\ page' = page /\ rw' = rw
      /\ rmw' = rmw /\ seen' = seen /\ was' = was /\ c3' = c3 /\ n' = n /\ TIMEOUT' = TIMEOUT
      /\ MMU_REFUSED' = MMU_REFUSED /\ seg' = seg /\ out' = out /\ pm' = pm /\ mb_ack' = mb_ack
      /\ (as' <=> as) /\ (strobe' <=> strobe) /\ (rmw' <=> rmw) /\ (mb_ack' <=> mb_ack)
      /\ (TIMEOUT' <=> TIMEOUT) /\ (MMU_REFUSED' <=> MMU_REFUSED)
      /\ (berr_latched' <=> berr_latched)
  BY DEF bus, chain, maps, regs
<1>2. (Granted' <=> Granted) /\ Target' = Target
  BY <1>1, SamePage
<1>3. RegistersOK'
  <2>1. as' \in BOOLEAN /\ strobe' \in BOOLEAN /\ rmw' \in BOOLEAN /\ mb_ack' \in BOOLEAN
    BY <1>1, Zenon DEF IInv, RegistersOK
  <2>2. c3' \in BOOLEAN /\ TIMEOUT' \in BOOLEAN /\ MMU_REFUSED' \in BOOLEAN
    BY <1>1, Zenon DEF IInv, RegistersOK
  <2>3. out' \in Map /\ pm' \in [Pages -> Map] /\ \A q \in Pages : pm'[q].of = q
    BY <1>1, Zenon DEF IInv, RegistersOK
  <2>4. QED
    BY <1>1, <2>1, <2>2, <2>3, Zenon DEF IInv, RegistersOK
<1>4. ChainOK' /\ LookupOK'
  BY <1>1, Zenon DEF IInv, ChainOK, LookupOK
<1>5. RefusalOK' /\ StatisticsOK' /\ StrobesOK'
  BY <1>1, <1>2, Zenon DEF IInv, RefusalOK, StatisticsOK, StrobesOK
<1>6. OwnAnswerOK'
  BY <1>1, <1>2, Zenon DEF IInv, OwnAnswerOK, AtOnce
<1>7. LateAnswerOK'
  BY <1>1, <1>2, Zenon DEF IInv, LateAnswerOK
<1>8. TellsOK'
  BY <1>1, <1>2, Zenon DEF IInv, TellsOK
<1>9. QED
  BY <1>3, <1>4, <1>5, <1>6, <1>7, <1>8, Zenon DEF IInv

\* Every step, and the stutter, preserves the invariant.
LEMMA NextIInv == IInv /\ [Next]_vars => IInv'
<1> SUFFICES ASSUME IInv, [Next]_vars PROVE IInv'
  OBVIOUS
<1>1. CASE MemoryAnswers
  <2>1. UNCHANGED <<clk, bus, chain, maps, mb_ack, regs>> /\ w_ack' = TRUE
    BY <1>1 DEF MemoryAnswers
  <2>2. QED
    BY <2>1, StandStillKeeps
<1>2. CASE UNCHANGED vars
  <2>1. UNCHANGED <<clk, bus, chain, maps, mb_ack, regs>> /\ w_ack' = w_ack
    BY <1>2 DEF vars, acks
  <2>2. w_ack \in BOOLEAN
    BY DEF IInv, RegistersOK
  <2>3. QED
    BY <2>1, <2>2, StandStillKeeps
<1>3. CASE RequestMoves
  <2>1. UNCHANGED <<clk, bus, chain, maps, mb_ack, regs>> /\ w_ack' = w_ack
    BY <1>3 DEF RequestMoves, acks
  <2>2. w_ack \in BOOLEAN
    BY DEF IInv, RegistersOK
  <2>3. QED
    BY <2>1, <2>2, StandStillKeeps
<1>4. QED
  BY <1>1, <1>2, <1>3, PosEdgeKeepsIInv, NegEdgeKeepsIInv, MoveAddressKeeps, LevelKeeps, BeginCycleKeeps,
     StrobeAgainKeeps, CardAnswersKeeps DEF Next
-----------------------------------------------------------------------------
(* The theorems. *)

\* What makes every cycle come out right, whatever the maps hold.
THEOREM CycleInvariant == Spec => []IInv
<1>1. Init => IInv
  BY InitIInv
<1>2. IInv /\ [Next]_vars => IInv'
  BY NextIInv
<1>3. QED
  BY <1>1, <1>2, PTL DEF Spec

\* "Nothing behind the MMU may see a cycle the MMU is rejecting".
THEOREM NothingSeesARefusal == Spec => []RefusedReachesNothing
BY CycleInvariant, InvRefused, PTL

\* A cycle is answered or in error, never both.
THEOREM OneAnswer == Spec => []AckOrError
BY CycleInvariant, InvAckOrError, PTL

\* Only the accessed page's statistics bits change: upward, and never of a
\* refused access or a boot fetch, or as software writes them.
THEOREM StatisticsAreTheirs == Spec => OnlyOwnStatistics
<1> DEFINE Theirs == \A q \in Pages : pm'[q] # pm[q] =>
                       /\ q = was.page /\ pm'[q].of = q
                       /\ \/ space = "pmap" /\ rw = "w"
                          \/ /\ space = "general" /\ Granted
                             /\ pm[q].acc => pm'[q].acc
                             /\ pm[q].mod => pm'[q].mod
<1>1. IInv /\ [Next]_vars => [Theirs]_vars
  <2> SUFFICES ASSUME IInv, Next, NEW q \in Pages, pm'[q] # pm[q]
               PROVE  /\ q = was.page /\ pm'[q].of = q
                      /\ \/ space = "pmap" /\ rw = "w"
                         \/ /\ space = "general" /\ Granted
                            /\ pm[q].acc => pm'[q].acc
                            /\ pm[q].mod => pm'[q].mod
    BY Zenon
  <2>1. PosEdge
    BY DEF Next, NegEdge, MoveAddress, DriveLevel, DropLevel, BeginCycle, StrobeAgain, MemoryAnswers,
           CardAnswers, RequestMoves, maps
  <2>2. /\ as /\ n >= 2
        /\ \/ /\ space = "general" /\ Granted /\ out.of = page
              /\ pm' = [pm EXCEPT ![page] = ps_refmod]
           \/ /\ space = "pmap" /\ rw = "w"
              /\ \E ps_in \in [of : {page}, acc : BOOLEAN, mod : BOOLEAN] :
                   pm' = [pm EXCEPT ![page] = ps_in]
    BY <2>1, WriteBack
  <2>3. page \in Pages /\ out \in Map /\ pm \in [Pages -> Map]
    BY DEF IInv, RegistersOK
  <2>4. q = page
    BY <2>2, <2>3
  <2>5. q = was.page
    BY <2>2, <2>4 DEF IInv, LookupOK
  <2>6. CASE space = "pmap"
    BY <2>2, <2>3, <2>4, <2>5, <2>6
  <2>7. CASE space = "general"
    <3>1. pm'[q] = ps_refmod /\ Granted /\ out.of = page
      BY <2>2, <2>3, <2>4, <2>7
    <3>2. ps_refmod.of = page /\ ps_refmod.acc /\ (ps_refmod.mod <=> out.mod \/ rw = "w")
      BY <2>3, <3>1 DEF ps_refmod, Map
    <3>3. pm[page].mod => out.mod \/ rw = "w"
      BY <2>2, <2>7 DEF IInv, StatisticsOK
    <3>4. QED
      BY <2>4, <2>5, <2>7, <3>1, <3>2, <3>3, Zenon
  <2>8. QED
    BY <2>2, <2>6, <2>7
<1>2. QED
  BY <1>1, CycleInvariant, PTL DEF Spec, OnlyOwnStatistics

\* Every granted cycle has set its statistics bits by the time it ends.
THEOREM StatisticsAreKept == Spec => StatisticsKept
<1> DEFINE Kept == seen # "none" /\ seen' = "none" /\ was.general /\ Granted =>
                     pm[was.page].acc /\ (was.rw = "w" => pm[was.page].mod)
<1>1. IInv /\ [Next]_vars => [Kept]_vars
  <2> SUFFICES ASSUME IInv, Next, seen # "none", seen' = "none", was.general, Granted
               PROVE  pm[was.page].acc /\ (was.rw = "w" => pm[was.page].mod)
    BY Zenon
  <2>1. as /\ n >= 1
    BY DEF IInv, ChainOK
  <2>2. NegEdge
    BY <2>1 DEF Next, PosEdge, MoveAddress, DriveLevel, DropLevel, BeginCycle, StrobeAgain, MemoryAnswers,
           CardAnswers, RequestMoves, bus
  <2>3. clk = "high"
    BY <2>2 DEF NegEdge
  <2>4. was.page = page /\ was.rw = rw /\ space = "general"
    BY <2>1 DEF IInv, LookupOK
  <2>5. QED
    BY <2>3, <2>4, Zenon DEF IInv, TellsOK
<1>2. QED
  BY <1>1, CycleInvariant, PTL DEF Spec, StatisticsKept

\* The first error the bus error register takes is the cycle's own.
THEOREM TheReportIsTrue == Spec => ReportTrue
<1> DEFINE True == ERR /\ ~berr_latched /\ clk = "low" /\ clk' = "high" /\ as =>
                     /\ berr'.valid = Entry[was.page].valid
                     /\ berr'.proterr = ~Allows(Entry[was.page], was.rw)
                     /\ berr'.timeout = Granted
<1>1. IInv /\ [Next]_vars => [True]_vars
  <2> SUFFICES ASSUME IInv, Next, ERR, ~berr_latched, clk = "low", clk' = "high", as
               PROVE  /\ berr'.valid = Entry[was.page].valid
                      /\ berr'.proterr = ~Allows(Entry[was.page], was.rw)
                      /\ berr'.timeout = Granted
    BY Zenon
  <2>1. PosEdge
    BY DEF Next, NegEdge, MoveAddress, DriveLevel, DropLevel, BeginCycle, StrobeAgain, MemoryAnswers,
           CardAnswers, RequestMoves
  <2>2. berr' = [valid |-> VALID, proterr |-> PROTERR, timeout |-> TIMEOUT]
    BY <2>1 DEF PosEdge, RegsPos
  <2>3. space = "general" /\ n >= 3 /\ (~Granted \/ TIMEOUT)
    BY ErrIs, Zenon
  <2>4. n >= 2
    BY <2>3, Small
  <2>5. Entry[out.of] = Entry[was.page] /\ was.rw = rw
    BY <2>3, <2>4, Verdict, Zenon DEF IInv, LookupOK
  <2>6. berr'.valid = Entry[was.page].valid
    BY <2>2, <2>5 DEF VALID
  <2>7. PROTERR <=> ~Allows(Entry[was.page], was.rw)
    BY <2>3, <2>4, Verdict, Zenon
  <2>8. TIMEOUT <=> Granted
    BY <2>3, Zenon DEF IInv, TellsOK
  <2>9. PROTERR = ~Allows(Entry[was.page], was.rw)
    BY <2>7 DEF PROTERR
  <2>10. TIMEOUT = Granted
    <3>1. Granted \in BOOLEAN /\ TIMEOUT \in BOOLEAN
      BY BusAssumption DEF IInv, RegistersOK, Granted, Allows
    <3>2. QED
      BY <2>8, <3>1
  <2>11. QED
    BY <2>2, <2>6, <2>9, <2>10
<1>2. QED
  BY <1>1, CycleInvariant, PTL DEF Spec, ReportTrue

\* A request that has stood since its level was driven is in the latch from the
\* positive edge before AS falls; and the level stays while AS is down.
IackOK ==
  space = "iack" /\ vec = "stands" /\ (as \/ clk = "high") => iack_lat

\* The latch's invariant needs nothing of the rest of the cycle.
LEMMA IackStep == IackOK /\ [Next]_vars => IackOK'
<1> SUFFICES ASSUME IackOK, [Next]_vars PROVE IackOK'
  OBVIOUS
<1>1. CASE PosEdge
  BY <1>1, PosEdgeKeeps DEF PosEdge, IackOK, iack_now
<1>2. CASE NegEdge
  BY <1>2 DEF NegEdge, Sample, EndCycle, TurnAround, bus, irq, IackOK
<1>3. CASE MoveAddress \/ BeginCycle \/ StrobeAgain
  BY <1>3 DEF MoveAddress, BeginCycle, StrobeAgain, irq, IackOK
<1>4. CASE DriveLevel \/ DropLevel
  BY <1>4 DEF DriveLevel, DropLevel, IackOK
<1>5. CASE MemoryAnswers \/ CardAnswers \/ UNCHANGED vars
  BY <1>5 DEF MemoryAnswers, CardAnswers, vars, bus, irq, IackOK
<1>6. CASE RequestMoves
  BY <1>6 DEF RequestMoves, IackOK
<1>7. QED
  BY <1>1, <1>2, <1>3, <1>4, <1>5, <1>6 DEF Next

\* An acknowledge cycle ends in the way it was promised, with requests coming
\* and going as they like.
THEOREM PromiseKept == Spec => VectorOrAutovector
<1> DEFINE Promised == as /\ as' /\ space = "iack" =>
                         /\ IACK_VEC' <=> IACK_VEC
                         /\ vec = "stands" => IACK_VEC
<1>1. Init => IackOK
  BY DEF Init, IackOK
<1>2. IackOK /\ [Next]_vars => [Promised]_vars
  <2> SUFFICES ASSUME IackOK, Next, as, as', space = "iack"
               PROVE  /\ IACK_VEC' <=> IACK_VEC
                      /\ vec = "stands" => IACK_VEC
    BY Zenon
  <2>1. space' = space /\ (iack_lat' <=> iack_lat)
    <3>1. CASE PosEdge
      BY <3>1, PosEdgeKeeps DEF PosEdge
    <3>2. CASE NegEdge
      BY <3>2 DEF NegEdge, Sample, EndCycle, TurnAround, bus, irq
    <3>3. CASE StrobeAgain \/ MemoryAnswers \/ CardAnswers \/ RequestMoves
      BY <3>3 DEF StrobeAgain, MemoryAnswers, CardAnswers, RequestMoves, bus, irq
    <3>4. QED
      BY <3>1, <3>2, <3>3 DEF Next, MoveAddress, DriveLevel, DropLevel, BeginCycle
  <2>2. IACK_VEC' <=> IACK_VEC
    BY <2>1 DEF IACK_VEC
  <2>3. vec = "stands" => IACK_VEC
    BY DEF IackOK, IACK_VEC
  <2>4. QED
    BY <2>2, <2>3
<1>3. QED
  BY <1>1, <1>2, IackStep, PTL DEF Spec, VectorOrAutovector
=============================================================================
