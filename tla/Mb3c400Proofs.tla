--------------------------- MODULE Mb3c400Proofs ----------------------------
(***************************************************************************)
(* The 3C400.  Receiving: who may write into a buffer, in which order two    *)
(* waiting frames came, and that each is whole, for any traffic, lengths and *)
(* pace.  Transmitting: what is on the wire is the frame in the buffer, for   *)
(* any texts and offsets, and however the two clocks interleave.             *)
(***************************************************************************)
EXTENDS Mb3c400, SequenceTheorems, TLAPS

Words == [end : BOOLEAN, f : Nat, i : Nat]

\* The sequencer's registers, as far as these proofs look at them.
RxOK(r) ==
  /\ DOMAIN r = {"state", "active", "last_b", "off", "n", "e", "b", "dst", "cnt", "f"}
  /\ r.state \in {"IDLE", "DATA", "FCS", "ST0", "ST1"} /\ r.b \in Bufs /\ r.f \in Nat

TypesOK ==
  /\ sent \in Seq(Frames) /\ at \in Nat /\ fifo \in Seq(Words) /\ RxOK(rx)
  /\ DOMAIN sw = Bufs /\ filled \in [Bufs -> Nat]
  /\ DOMAIN buf = Bufs /\ \A b \in Bufs : buf[b] = [c \in Cells |-> buf[b][c]]

\* A frame is only written into a buffer that is still the card's, and the last
\* byte of its status is the one that may land after the buffer was handed over.
Owns(r) == r.active /\ r.state # "IDLE" => sw[r.b]
MayLand(w, r) == w # None => sw[w.b] \/ (w.at = 1 /\ filled[w.b] = r.f)
OwnershipOK == Owns(rx) /\ MayLand(rxw, rx)

\* How many frames have been put into the FIFO to their end.
Ended == IF UnderWay THEN Len(sent) - 1 ELSE Len(sent)

\* The ends of frames come out of the FIFO in the order the frames came in.
InOrder(q, f, last) ==
  /\ f <= last
  /\ \A i \in 1 .. Len(q) : q[i].end => f < q[i].f /\ q[i].f <= last
  /\ \A i, j \in 1 .. Len(q) : i < j /\ q[i].end /\ q[j].end => q[i].f < q[j].f

\* What was handed over is older than what is being decided on.
HandedOver(r) ==
  \A b \in Bufs : IF r.state \in {"FCS", "ST0", "ST1"} THEN filled[b] < r.f ELSE filled[b] <= r.f

OrderOK == InOrder(fifo, rx.f, Ended) /\ HandedOver(rx)

IInv == TypesOK /\ OwnershipOK /\ OrderOK /\ RbbaMeansBOlder
-----------------------------------------------------------------------------
(* The FIFO. *)

\* A word more is not none.
LEMMA AppendNotEmpty == ASSUME NEW S, NEW q \in Seq(S), NEW w PROVE Append(q, w) # <<>>
<1>1. q \in Seq(S \cup {w}) /\ Len(q) \in Nat
  OBVIOUS
<1>2. Len(Append(q, w)) = Len(q) + 1
  BY <1>1
<1>3. Len(<<>>) = 0
  OBVIOUS
<1>4. QED
  BY <1>1, <1>2, <1>3

\* Taking the first word leaves the rest in order, and after what was taken.
LEMMA TailInOrder ==
  ASSUME NEW q \in Seq(Words), q # <<>>, NEW f \in Nat, NEW last \in Nat, InOrder(q, f, last)
  PROVE  /\ Tail(q) \in Seq(Words) /\ InOrder(Tail(q), f, last)
         /\ q[1].f \in Nat
         /\ q[1].end => f < q[1].f /\ InOrder(Tail(q), q[1].f, last)
<1>1. /\ Len(q) \in Nat /\ Len(q) >= 1 /\ Len(Tail(q)) = Len(q) - 1 /\ Tail(q) \in Seq(Words)
      /\ \A i \in 1 .. Len(Tail(q)) : Tail(q)[i] = q[i + 1]
  OBVIOUS
<1>2. q[1].f \in Nat /\ \A i \in 1 .. Len(q) : q[i].f \in Nat
  <2>1. 1 \in 1 .. Len(q) /\ \A i \in 1 .. Len(q) : q[i] \in Words
    BY <1>1, ElementOfSeq
  <2>2. \A w \in Words : w.f \in Nat
    BY DEF Words
  <2>3. QED
    BY <2>1, <2>2
<1>3. \A i \in 1 .. Len(Tail(q)) : i + 1 \in 1 .. Len(q) /\ 1 \in 1 .. Len(q) /\ 1 < i + 1
  BY <1>1
<1>4. InOrder(Tail(q), f, last)
  BY <1>1, <1>3 DEF InOrder
<1>5. ASSUME q[1].end PROVE f < q[1].f /\ InOrder(Tail(q), q[1].f, last)
  BY <1>1, <1>2, <1>3, <1>5 DEF InOrder
<1>6. QED
  BY <1>1, <1>2, <1>4, <1>5

\* A word that arrives comes after all that are there.
LEMMA AppendInOrder ==
  ASSUME NEW q \in Seq(Words), NEW f \in Nat, NEW last \in Nat, NEW w \in Words,
         InOrder(q, f, last)
  PROVE  /\ ~w.end => InOrder(Append(q, w), f, last)
         /\ w.end /\ w.f = last + 1 => InOrder(Append(q, w), f, last + 1)
<1>1. /\ Len(q) \in Nat /\ Len(Append(q, w)) = Len(q) + 1
      /\ \A i \in 1 .. Len(q) : Append(q, w)[i] = q[i]
      /\ Append(q, w)[Len(q) + 1] = w
  OBVIOUS
<1>2. \A i \in 1 .. Len(q) : q[i].f \in Nat
  <2>1. \A i \in 1 .. Len(q) : q[i] \in Words
    BY ElementOfSeq
  <2>2. \A u \in Words : u.f \in Nat
    BY DEF Words
  <2>3. QED
    BY <2>1, <2>2
<1>3. \A i \in 1 .. Len(q) + 1 : i \in 1 .. Len(q) \/ i = Len(q) + 1
  BY <1>1
<1>4. \A i, j \in 1 .. Len(q) + 1 : i < j => i \in 1 .. Len(q)
  BY <1>1
<1>5. ASSUME ~w.end PROVE InOrder(Append(q, w), f, last)
  BY <1>1, <1>3, <1>4, <1>5 DEF InOrder
<1>6. ASSUME w.end, w.f = last + 1 PROVE InOrder(Append(q, w), f, last + 1)
  BY <1>1, <1>2, <1>3, <1>4, <1>6 DEF InOrder
<1>7. QED
  BY <1>5, <1>6

\* The wire keeps the order, whatever the sequencer has left in the FIFO.
LEMMA ArrivesInOrder ==
  ASSUME sent \in Seq(Frames), at \in Nat,
         NEW q \in Seq(Words), NEW f \in Nat, InOrder(q, f, Ended), Arrives(q)
  PROVE  sent' \in Seq(Frames) /\ at' \in Nat /\ fifo' \in Seq(Words) /\ InOrder(fifo', f, Ended')
<1>1. Len(sent) \in Nat /\ (sent # <<>> => Len(sent) >= 1 /\ sent[Len(sent)].len \in Nat \ {0})
  <2>1. Len(sent) \in Nat /\ (sent # <<>> => Len(sent) >= 1 /\ Len(sent) \in 1 .. Len(sent))
    OBVIOUS
  <2>2. sent # <<>> => sent[Len(sent)] \in Frames
    BY <2>1, ElementOfSeq
  <2>3. \A fr \in Frames : fr.len \in Nat \ {0}
    BY DEF Frames
  <2>4. QED
    BY <2>1, <2>2, <2>3
<1>2. Ended \in Nat
  BY <1>1 DEF Ended, UnderWay
<1>3. CASE UnderWay /\ fifo' = Append(q, NextWord) /\ at' = at + 1 /\ sent' = sent
  <2>1. NextWord \in Words /\ sent # <<>> /\ at <= sent[Len(sent)].len
    BY <1>1, <1>3 DEF NextWord, Words, UnderWay
  <2>2. CASE at < sent[Len(sent)].len
    <3>1. ~NextWord.end
      BY <2>2 DEF NextWord
    <3>2. UnderWay'
      BY <1>1, <1>3, <2>1, <2>2 DEF UnderWay
    <3>3. Ended' = Ended
      BY <1>3, <3>2 DEF Ended
    <3>4. InOrder(Append(q, NextWord), f, Ended)
      BY <1>2, <2>1, <3>1, AppendInOrder
    <3>5. Append(q, NextWord) \in Seq(Words)
      BY <2>1
    <3>6. QED
      BY <1>3, <3>3, <3>4, <3>5
  <2>3. CASE ~(at < sent[Len(sent)].len)
    <3>1. NextWord.end /\ NextWord.f = Len(sent)
      BY <2>3 DEF NextWord
    <3>2. ~UnderWay'
      BY <1>1, <1>3, <2>1, <2>3 DEF UnderWay
    <3>3. Ended' = Ended + 1 /\ NextWord.f = Ended + 1
      BY <1>1, <1>3, <3>1, <3>2 DEF Ended
    <3>4. QED
      BY <1>2, <1>3, <2>1, <3>1, <3>3, AppendInOrder
  <2>4. QED
    BY <2>2, <2>3
<1>4. CASE /\ ~UnderWay /\ Len(sent) < Len(Traffic) /\ fifo' = q /\ at' = 0
           /\ \E fr \in Traffic[Len(sent) + 1] : sent' = Append(sent, fr)
  <2>1. Len(sent) + 1 \in 1 .. Len(Traffic) /\ Traffic \in Seq(SUBSET Frames)
    BY <1>1, <1>4, Mb3c400Assumption
  <2>2. PICK fr \in Frames : sent' = Append(sent, fr)
    BY <1>4, <2>1
  <2>3. sent' \in Seq(Frames) /\ Len(sent') = Len(sent) + 1 /\ sent'[Len(sent) + 1] = fr
    BY <2>2
  <2>4. UnderWay'
    BY <1>1, <1>4, <2>3 DEF UnderWay, Frames
  <2>5. Ended' = Ended
    BY <1>1, <1>4, <2>3, <2>4 DEF Ended
  <2>6. QED
    BY <1>4, <2>3, <2>5
<1>5. CASE fifo' = q /\ UNCHANGED <<sent, at>>
  BY <1>5 DEF Ended, UnderWay
<1>6. QED
  BY <1>3, <1>4, <1>5 DEF Arrives
\* How many frames have ended is a count.
LEMMA EndedType == ASSUME sent \in Seq(Frames) PROVE Ended \in Nat
<1>1. Len(sent) \in Nat /\ (sent # <<>> => Len(sent) >= 1)
  OBVIOUS
<1>2. QED
  BY <1>1 DEF Ended, UnderWay
-----------------------------------------------------------------------------
(* An edge. *)

\* At power-up the host owns both buffers and no frame has come.
LEMMA InitIInv == Init => IInv
<1> SUFFICES ASSUME Init PROVE IInv
  OBVIOUS
<1>1. /\ sent = <<>> /\ at = 0 /\ fifo = <<>> /\ rxw = None /\ filled = [b \in Bufs |-> 0]
      /\ sw = [b \in Bufs |-> FALSE] /\ buf = [b \in Bufs |-> [c \in Cells |-> [w |-> "old"]]]
      /\ rx = [state |-> "IDLE", active |-> FALSE, last_b |-> TRUE, off |-> 2, n |-> 0,
               e |-> "none", b |-> "A", dst |-> "other", cnt |-> 0, f |-> 0]
  BY DEF Init
<1>2. RxOK(rx)
  BY <1>1 DEF RxOK, Bufs
<1>3. TypesOK
  BY <1>1, <1>2 DEF TypesOK
<1>4. OwnershipOK
  BY <1>1 DEF OwnershipOK, Owns, MayLand
<1>5. OrderOK
  BY <1>1 DEF OrderOK, InOrder, HandedOver, Ended, UnderWay
<1>6. RbbaMeansBOlder
  BY <1>1 DEF RbbaMeansBOlder, Handed, Bufs
<1>7. QED
  BY <1>3, <1>4, <1>5, <1>6 DEF IInv

\* What any edge preserves, whatever registers it loads, write it starts and
\* buffers it hands over, as long as these go together.
LEMMA EngineStep ==
  ASSUME IInv, NEW newRx, NEW write, NEW fills, Engine(newRx, write, fills),
         RxOK(newRx), rx.state # "IDLE" => write = None \/ (rx.active /\ write.b = rx.b),
         rx.state = "IDLE" => write = None,
         fills = {} \/ (/\ fills = {rx.b} /\ rx.state = "ST1" /\ rx.active /\ write.at = 1
                        /\ newRx.state = "IDLE" /\ newRx.f = rx.f),
         newRx.active /\ newRx.state # "IDLE" => sw[newRx.b],
         \/ newRx.f = rx.f /\ (newRx.state \in {"FCS", "ST0", "ST1"} =>
                                 rx.state \in {"FCS", "ST0", "ST1"})
         \/ Takes /\ fifo[1].end /\ newRx.f = fifo[1].f
  PROVE  IInv'
<1>1. TypesOK /\ OwnershipOK /\ OrderOK
  BY DEF IInv
<1>2. RxOK(rx) /\ rx.b \in Bufs /\ rx.f \in Nat /\ newRx.f \in Nat
  BY <1>1 DEF TypesOK, RxOK
<1>3. RxOK(rx') /\ rx'.f = IF soft_reset THEN rx.f ELSE newRx.f
  BY <1>2 DEF Engine, ResetRx, RxOK
<1>4. Rest \in Seq(Words) /\ InOrder(Rest, rx.f, Ended) /\ InOrder(Rest, newRx.f, Ended)
  <2>1. fifo \in Seq(Words) /\ InOrder(fifo, rx.f, Ended) /\ Ended \in Nat
    BY <1>1, EndedType DEF TypesOK, OrderOK
  <2>2. Takes => /\ Rest = Tail(fifo) /\ Rest \in Seq(Words) /\ InOrder(Rest, rx.f, Ended)
                 /\ fifo[1].end => InOrder(Rest, fifo[1].f, Ended)
    BY <1>2, <2>1, TailInOrder DEF Rest, Takes
  <2>3. ~Takes => Rest = fifo
    BY DEF Rest
  <2>4. QED
    BY <2>1, <2>2, <2>3
<1>5. sent' \in Seq(Frames) /\ at' \in Nat /\ fifo' \in Seq(Words) /\ InOrder(fifo', rx'.f, Ended')
  <2>1. InOrder(Rest, rx'.f, Ended) /\ rx'.f \in Nat /\ Arrives(Rest)
    BY <1>2, <1>3, <1>4 DEF Engine
  <2>2. QED
    BY <1>1, <1>4, <2>1, ArrivesInOrder DEF TypesOK
<1>6. /\ DOMAIN sw' = Bufs /\ DOMAIN buf' = Bufs
      /\ \A b \in Bufs : buf'[b] = [c \in Cells |-> buf'[b][c]]
      /\ \A b \in Bufs : sw'[b] = IF b \in fills THEN FALSE
                                  ELSE IF soft_reset THEN FALSE ELSE sw[b] \/ HostSets(b)
  BY DEF Engine
<1>7. /\ filled' \in [Bufs -> Nat]
      /\ \A b \in Bufs :
           \/ filled'[b] = 0
           \/ ~soft_reset /\ b \in fills /\ filled'[b] = rx.f
           \/ ~soft_reset /\ b \notin fills /\ filled'[b] = filled[b]
  <2>1. filled' = [b \in Bufs |->
                 IF b \in fills /\ ~soft_reset THEN rx.f
                 ELSE IF PokesInto(b) \/ soft_reset \/ HostSets(b) THEN 0 ELSE filled[b]]
    BY DEF Engine
  <2>2. \A b \in Bufs : filled[b] \in Nat
    BY <1>1 DEF TypesOK
  <2>3. QED
    BY <1>2, <2>1, <2>2
<1>8. TypesOK'
  BY <1>3, <1>5, <1>6, <1>7 DEF TypesOK
<1>9. CASE soft_reset
  <2>1. rx' = ResetRx /\ rxw' = None /\ \A b \in Bufs : filled'[b] = 0
    BY <1>7, <1>9 DEF Engine
  <2>2. ~rx'.active /\ rx'.state = "IDLE"
    BY <1>2, <2>1 DEF ResetRx, RxOK
  <2>3. OwnershipOK'
    BY <2>1, <2>2 DEF OwnershipOK, Owns, MayLand
  <2>4. HandedOver(rx)'
    BY <1>2, <1>3, <1>9, <2>1, <2>2 DEF HandedOver
  <2>5. RbbaMeansBOlder'
    BY <2>1 DEF RbbaMeansBOlder, Handed, Bufs
  <2>6. QED
    BY <1>5, <1>8, <2>3, <2>4, <2>5 DEF IInv, OrderOK
<1>10. CASE ~soft_reset
  <2>1. rx' = newRx /\ rxw' = write
    BY <1>10 DEF Engine
  <2>2. rx.active /\ rx.state # "IDLE" => sw[rx.b]
    BY <1>1 DEF OwnershipOK, Owns
  <2>3. Owns(rx)'
    <3>1. SUFFICES ASSUME newRx.active, newRx.state # "IDLE" PROVE sw'[newRx.b]
      BY <2>1 DEF Owns
    <3>2. fills = {} /\ newRx.b \in Bufs
      BY <3>1 DEF RxOK
    <3>3. QED
      BY <1>6, <1>10, <3>1, <3>2
  <2>4. MayLand(rxw, rx)'
    <3>1. SUFFICES ASSUME write # None
                   PROVE  sw'[write.b] \/ (write.at = 1 /\ filled'[write.b] = newRx.f)
      BY <2>1 DEF MayLand
    <3>2. write.b = rx.b /\ sw[rx.b]
      BY <2>2, <3>1
    <3>3. CASE fills = {}
      BY <1>2, <1>6, <1>10, <3>2, <3>3
    <3>4. CASE fills # {}
      <4>1. rx.b \in fills /\ write.at = 1 /\ newRx.f = rx.f
        BY <3>4
      <4>2. filled'[rx.b] = rx.f
        BY <1>2, <1>10, <4>1 DEF Engine
      <4>3. QED
        BY <3>2, <4>1, <4>2
    <3>5. QED
      BY <3>3, <3>4
  <2>5. OwnershipOK'
    BY <2>3, <2>4 DEF OwnershipOK
  <2>6. /\ \A b \in Bufs : filled[b] \in Nat /\ filled[b] <= rx.f
        /\ rx.state \in {"FCS", "ST0", "ST1"} => \A b \in Bufs : filled[b] < rx.f
    BY <1>1, <1>2 DEF OrderOK, HandedOver, TypesOK
  <2>7. HandedOver(rx)'
    <3>1. SUFFICES ASSUME NEW b \in Bufs
                   PROVE  IF newRx.state \in {"FCS", "ST0", "ST1"} THEN filled'[b] < newRx.f
                          ELSE filled'[b] <= newRx.f
      BY <2>1 DEF HandedOver
    <3>2. Takes /\ fifo[1].end => rx.f < fifo[1].f
      BY <1>1, <1>2, EndedType, TailInOrder DEF TypesOK, OrderOK, Takes
    <3>3. QED
      BY <1>2, <1>7, <2>6, <3>1, <3>2
  <2>8. RbbaMeansBOlder'
    <3>1. SUFFICES ASSUME Handed("A")', Handed("B")', rbba' PROVE filled'["B"] < filled'["A"]
      BY DEF RbbaMeansBOlder
    <3>2. /\ "A" \in Bufs /\ "B" \in Bufs /\ ~sw'["A"] /\ ~sw'["B"]
          /\ filled'["A"] # 0 /\ filled'["B"] # 0
      BY <3>1 DEF Handed, Bufs
    <3>3. rbba' = IF "B" \in fills THEN sw["A"] ELSE rbba /\ ~soft_reset
      BY DEF Engine, NewRbba
    <3>4. CASE fills = {}
      <4>1. rbba /\ ~sw["A"] /\ ~sw["B"] /\ filled'["A"] = filled["A"] /\ filled'["B"] = filled["B"]
        BY <1>6, <1>7, <1>10, <3>1, <3>2, <3>3, <3>4
      <4>2. QED
        BY <3>2, <4>1 DEF IInv, RbbaMeansBOlder, Handed
    <3>5. CASE fills = {"A"}
      <4>1. rx.state = "ST1" /\ filled'["A"] = rx.f /\ filled'["B"] = filled["B"]
        BY <1>7, <3>2, <3>5
      <4>2. QED
        BY <2>6, <3>2, <4>1
    <3>6. CASE fills = {"B"}
      <4>1. sw["A"]
        BY <3>1, <3>3, <3>6
      <4>2. sw'["A"]
        BY <1>6, <1>10, <3>2, <3>6, <4>1
      <4>3. QED
        BY <3>2, <4>2
    <3>7. QED
      BY <1>2, <3>4, <3>5, <3>6 DEF Bufs
  <2>9. QED
    BY <1>5, <1>8, <2>5, <2>7, <2>8 DEF IInv, OrderOK
<1>11. QED
  BY <1>9, <1>10

\* A write goes where the frame goes.
LEMMA HereWrites ==
  \A cell, what : Here(cell, what) = None \/ (rx.active /\ Here(cell, what).b = rx.b)
BY DEF Here

\* The sequencer's five states are the cases of that.
LEMMA EdgeIInv == ASSUME IInv, Edge PROVE IInv'
<1>1. RxOK(rx) /\ Owns(rx)
  BY DEF IInv, TypesOK, OwnershipOK
<1>2. CASE Idle
  <2>1. \/ Engine(rx, None, {})
        \/ Engine([rx EXCEPT !.state = "DATA", !.b = IF pick_b THEN "B" ELSE "A",
                           !.active = pick_a \/ pick_b, !.off = 2, !.n = 0,
                           !.e = "none", !.dst = "other"], None, {})
    BY <1>2 DEF Idle, Waits
  <2>2. rx.state = "IDLE"
    BY <1>2 DEF Idle
  <2>3. CASE Engine(rx, None, {})
    BY <1>1, <2>2, <2>3, EngineStep
  <2>4. ASSUME NEW r, Engine(r, None, {}),
               r = [rx EXCEPT !.state = "DATA", !.b = IF pick_b THEN "B" ELSE "A",
                              !.active = pick_a \/ pick_b, !.off = 2, !.n = 0,
                              !.e = "none", !.dst = "other"]
        PROVE  IInv'
    <3>1. /\ RxOK(r) /\ r.state = "DATA" /\ r.f = rx.f
          /\ r.b = IF pick_b THEN "B" ELSE "A"
          /\ r.active <=> pick_a \/ pick_b
      BY <1>1, <2>4 DEF RxOK, Bufs
    <3>2. r.active => sw[r.b]
      BY <3>1 DEF pick_a, pick_b
    <3>3. QED
      BY <2>2, <2>4, <3>1, <3>2, EngineStep
  <2>5. QED
    BY <2>1, <2>3, <2>4
<1>3. CASE Data
  <2>1. rx.state = "DATA"
    BY <1>3 DEF Data
  <2>2. CASE Engine(rx, None, {})
    BY <1>1, <2>1, <2>2, EngineStep DEF Owns
  <2>3. ASSUME NEW r, Engine(r, None, {}), fifo # <<>>, fifo[1].end,
               r = [rx EXCEPT !.state = "FCS", !.cnt = 0, !.e = sent[fifo[1].f].err,
                              !.f = fifo[1].f]
        PROVE  IInv'
    <3>1. fifo[1].f \in Nat
      BY <2>3, TailInOrder, EndedType DEF IInv, TypesOK, OrderOK, RxOK
    <3>2. /\ RxOK(r) /\ r.f = fifo[1].f /\ r.b = rx.b /\ r.state = "FCS"
          /\ r.active = rx.active
      BY <1>1, <2>3, <3>1 DEF RxOK
    <3>3. Takes
      BY <2>1, <2>3 DEF Takes
    <3>4. QED
      BY <1>1, <2>1, <2>3, <3>2, <3>3, EngineStep DEF Owns
  <2>4. ASSUME NEW r, NEW w, NEW d, Engine(r, w, {}),
               r = [rx EXCEPT !.off = UpTo(rx.off, Sat), !.n = UpTo(rx.n, Sat), !.dst = d],
               w = None \/ (rx.active /\ w.b = rx.b)
        PROVE  IInv'
    <3>1. /\ RxOK(r) /\ r.f = rx.f /\ r.b = rx.b /\ r.state = "DATA"
          /\ r.active = rx.active
      BY <1>1, <2>1, <2>4 DEF RxOK
    <3>2. QED
      BY <1>1, <2>1, <2>4, <3>1, EngineStep DEF Owns
  <2>5. QED
    <3>1. CASE fifo = <<>>
      BY <1>3, <2>2, <3>1 DEF Data, Waits
    <3>2. CASE fifo # <<>> /\ fifo[1].end
      BY <1>3, <2>3, <3>2 DEF Data, Waits
    <3>3. CASE fifo # <<>> /\ ~fifo[1].end
      <4>1. PICK d \in Destination(fifo[1]) :
              Engine([rx EXCEPT !.off = UpTo(rx.off, Sat), !.n = UpTo(rx.n, Sat), !.dst = d],
                     IF rx.off < Limit THEN Here(rx.off, Byte(fifo[1].f, fifo[1].i)) ELSE None, {})
        BY <1>3, <3>3 DEF Data
      <4>2. QED
        BY <2>4, <4>1, HereWrites
    <3>4. QED
      BY <3>1, <3>2, <3>3
<1>4. CASE Fcs
  <2>1. ASSUME NEW r, NEW w, Engine(r, w, {}), w = None \/ (rx.active /\ w.b = rx.b),
               r = [rx EXCEPT !.off = UpTo(rx.off, Sat), !.cnt = rx.cnt + 1,
                              !.state = IF rx.cnt = FcsBytes - 1 THEN "ST0" ELSE "FCS"]
        PROVE  IInv'
    <3>1. rx.state = "FCS"
      BY <1>4 DEF Fcs
    <3>2. RxOK(r) /\ r.f = rx.f /\ r.b = rx.b /\ r.active = rx.active
      BY <1>1, <2>1 DEF RxOK
    <3>3. QED
      BY <1>1, <2>1, <3>1, <3>2, EngineStep DEF Owns
  <2>2. QED
    BY <1>4, <2>1, HereWrites DEF Fcs
<1>5. CASE St0
  <2>1. ASSUME NEW r, NEW w, Engine(r, w, {}), w = None \/ (rx.active /\ w.b = rx.b),
               r = [rx EXCEPT !.state = "ST1"]
        PROVE  IInv'
    <3>1. rx.state = "ST0"
      BY <1>5 DEF St0
    <3>2. RxOK(r) /\ r.f = rx.f /\ r.b = rx.b /\ r.active = rx.active
      BY <1>1, <2>1 DEF RxOK
    <3>3. QED
      BY <1>1, <2>1, <3>1, <3>2, EngineStep DEF Owns
  <2>2. QED
    BY <1>5, <2>1, HereWrites DEF St0
<1>6. CASE St1
  <2>1. ASSUME NEW r, NEW w, NEW fs, Engine(r, w, fs), w = None \/ (rx.active /\ w.b = rx.b),
               fs = {} \/ (fs = {rx.b} /\ rx.active /\ w.at = 1),
               r = [rx EXCEPT !.state = "IDLE", !.last_b = IF rx_accept THEN rx.b = "B" ELSE @]
        PROVE  IInv'
    <3>1. rx.state = "ST1"
      BY <1>6 DEF St1
    <3>2. RxOK(r) /\ r.f = rx.f /\ r.state = "IDLE"
      BY <1>1, <2>1 DEF RxOK
    <3>3. QED
      BY <2>1, <3>1, <3>2, EngineStep
  <2>2. Engine([rx EXCEPT !.state = "IDLE", !.last_b = IF rx_accept THEN rx.b = "B" ELSE @],
               Here(1, Status), IF rx_accept THEN {rx.b} ELSE {})
    BY <1>6 DEF St1
  <2>3. rx_accept => rx.active /\ Here(1, Status).at = 1
    BY DEF rx_accept, Here
  <2>4. QED
    BY <2>1, <2>2, <2>3, HereWrites
<1>7. QED
  BY <1>2, <1>3, <1>4, <1>5, <1>6 DEF Edge
-----------------------------------------------------------------------------
(* The theorems. *)

\* The ownership of the buffers and the order of the frames, in every reachable
\* state.
THEOREM InHand == Spec => []IInv
<1>1. ASSUME IInv, UNCHANGED vars PROVE IInv'
  BY <1>1 DEF vars, wire, IInv, TypesOK, RxOK, OwnershipOK, Owns, MayLand, OrderOK, InOrder,
              HandedOver, Ended, UnderWay, RbbaMeansBOlder, Handed
<1>2. QED
  BY InitIInv, EdgeIInv, <1>1, PTL DEF Spec

\* With both buffers waiting, RBBA tells the host which frame came first.
THEOREM OlderFirst == Spec => []RbbaMeansBOlder
<1>1. IInv => RbbaMeansBOlder
  BY DEF IInv
<1>2. QED
  BY InHand, <1>1, PTL

\* Every edge loads some registers, starts some write and hands something over.
LEMMA EdgeEngine == ASSUME Edge PROVE \E r, w, fs : Engine(r, w, fs)
<1>1. ASSUME Idle PROVE \E r, w, fs : Engine(r, w, fs)
  BY <1>1, Zenon DEF Idle, Waits
<1>2. ASSUME Data PROVE \E r, w, fs : Engine(r, w, fs)
  <2>1. CASE fifo = <<>>
    BY <1>2, <2>1, Zenon DEF Data, Waits
  <2>2. CASE fifo # <<>> /\ fifo[1].end
    BY <1>2, <2>2, Zenon DEF Data, Waits
  <2>3. CASE fifo # <<>> /\ ~fifo[1].end
    BY <1>2, <2>3, Zenon DEF Data
  <2>4. QED
    BY <2>1, <2>2, <2>3
<1>3. ASSUME Fcs PROVE \E r, w, fs : Engine(r, w, fs)
  BY <1>3, Zenon DEF Fcs
<1>4. ASSUME St0 PROVE \E r, w, fs : Engine(r, w, fs)
  BY <1>4, Zenon DEF St0
<1>5. ASSUME St1 PROVE \E r, w, fs : Engine(r, w, fs)
  BY <1>5, Zenon DEF St1
<1>6. QED
  BY <1>1, <1>2, <1>3, <1>4, <1>5 DEF Edge

\* The card keeps out of the buffers that are the host's.
THEOREM CardKeepsOut == Spec => KeepsOut
<1>1. ASSUME IInv, Edge, NEW b \in Bufs, ~sw[b], buf'[b] # buf[b], ~PokesInto(b)
      PROVE  Landing(b) /\ rxw.at = 1 /\ filled[b] = rx.f
  <2>1. /\ buf[b] = [c \in Cells |-> buf[b][c]]
        /\ MayLand(rxw, rx)
    BY <1>1 DEF IInv, TypesOK, OwnershipOK
  <2>2. buf'[b] = [c \in Cells |-> IF rxw # None /\ rxw.b = b /\ rxw.at = c THEN rxw.v ELSE buf[b][c]]
    <3>1. PICK r, w, fs : Engine(r, w, fs)
      BY <1>1, EdgeEngine
    <3>2. buf' = [x \in Bufs |-> [c \in Cells |->
                    IF rxw # None /\ rxw.b = x /\ rxw.at = c THEN rxw.v
                    ELSE IF /\ c = 2 /\ PokesInto(x)
                            /\ ~(rxw # None /\ rxw.b = x /\ rxw.at % 2 = 0)
                         THEN [w |-> "host"] ELSE buf[x][c]]]
      BY <3>1, Zenon DEF Engine
    <3>3. QED
      BY <1>1, <3>2
  <2>3. rxw # None /\ rxw.b = b
    BY <1>1, <2>1, <2>2
  <2>4. QED
    BY <1>1, <2>1, <2>3 DEF MayLand, Landing
<1>2. ASSUME IInv, [Edge]_vars
      PROVE  [\A b \in Bufs : (~sw[b] /\ buf'[b] # buf[b]) =>
                \/ PokesInto(b)
                \/ Landing(b) /\ rxw.at = 1 /\ filled[b] = rx.f]_vars
  BY <1>1, <1>2
<1>3. QED
  BY InHand, <1>2, PTL DEF Spec, KeepsOut
-----------------------------------------------------------------------------
(* The stream of words from the wire, and where in it the sequencer is.      *)

\* Where a word stands, and what comes after it.
Place(w) == [f |-> w.f, i |-> w.i]
After(w) == IF w.end THEN [f |-> w.f + 1, i |-> 0] ELSE [f |-> w.f, i |-> w.i + 1]

\* The next word to arrive, and the next to be taken.
Tip      == IF UnderWay THEN [f |-> Len(sent), i |-> at] ELSE [f |-> Len(sent) + 1, i |-> 0]
Ahead(q) == IF q = <<>> THEN Tip ELSE Place(q[1])

\* The words in the FIFO are those of the frames, one after another.
Chained(q) ==
  /\ \A k \in 1 .. Len(q) :
       /\ q[k].f \in 1 .. Len(sent) /\ q[k].i \in 0 .. sent[q[k].f].len
       /\ q[k].end <=> q[k].i = sent[q[k].f].len
  /\ \A k \in 1 .. Len(q) - 1 : Place(q[k + 1]) = After(q[k])
  /\ q # <<>> => After(q[Len(q)]) = Tip

\* A frame that has come, or is coming.
LEMMA FrameType ==
  ASSUME sent \in Seq(Frames)
  PROVE  /\ Len(sent) \in Nat /\ (UnderWay => Len(sent) >= 1)
         /\ \A f \in 1 .. Len(sent) : sent[f].len \in Nat /\ sent[f].len > 0
<1>1. Len(sent) \in Nat /\ (sent # <<>> => Len(sent) >= 1)
  OBVIOUS
<1>2. \A f \in 1 .. Len(sent) : sent[f] \in Frames
  BY ElementOfSeq
<1>3. \A fr \in Frames : fr.len \in Nat /\ fr.len > 0
  BY DEF Frames
<1>4. QED
  BY <1>1, <1>2, <1>3 DEF UnderWay

\* Taking a word moves on to the one after it.
LEMMA TakesOne ==
  ASSUME NEW q \in Seq(Words), q # <<>>, Chained(q)
  PROVE  Chained(Tail(q)) /\ Ahead(Tail(q)) = After(q[1])
<1>1. /\ Len(q) \in Nat /\ Len(q) >= 1 /\ Len(Tail(q)) = Len(q) - 1 /\ Tail(q) \in Seq(Words)
      /\ \A k \in 1 .. Len(Tail(q)) : Tail(q)[k] = q[k + 1]
      /\ Tail(q) = <<>> <=> Len(q) = 1
  <2>1. /\ Len(q) \in Nat /\ Len(q) >= 1 /\ Len(Tail(q)) = Len(q) - 1 /\ Tail(q) \in Seq(Words)
        /\ \A k \in 1 .. Len(Tail(q)) : Tail(q)[k] = q[k + 1]
    OBVIOUS
  <2>2. \A s \in Seq(Words) : s = <<>> <=> Len(s) = 0
    OBVIOUS
  <2>3. QED
    BY <2>1, <2>2
<1>2. \A k \in 1 .. Len(Tail(q)) : k + 1 \in 1 .. Len(q)
  BY <1>1
<1>3. \A k \in 1 .. Len(Tail(q)) - 1 : /\ k + 1 \in 1 .. Len(q) - 1
                                       /\ k \in 1 .. Len(Tail(q)) /\ k + 1 \in 1 .. Len(Tail(q))
  BY <1>1
<1>4. Tail(q) # <<>> => /\ Tail(q)[Len(Tail(q))] = q[Len(q)]
                        /\ Tail(q)[1] = q[1 + 1] /\ 1 \in 1 .. Len(q) - 1
  BY <1>1
<1>5. /\ \A k \in 1 .. Len(Tail(q)) :
           /\ Tail(q)[k].f \in 1 .. Len(sent) /\ Tail(q)[k].i \in 0 .. sent[Tail(q)[k].f].len
           /\ Tail(q)[k].end <=> Tail(q)[k].i = sent[Tail(q)[k].f].len
      /\ Tail(q) # <<>> => After(Tail(q)[Len(Tail(q))]) = Tip
  BY <1>1, <1>2, <1>4 DEF Chained
<1>6. \A k \in 1 .. Len(Tail(q)) - 1 : Place(Tail(q)[k + 1]) = After(Tail(q)[k])
  BY <1>1, <1>3 DEF Chained
<1>7. Ahead(Tail(q)) = After(q[1])
  <2>1. CASE Tail(q) = <<>>
    BY <1>1, <2>1 DEF Ahead, Chained
  <2>2. CASE Tail(q) # <<>>
    BY <1>4, <2>2 DEF Ahead, Chained
  <2>3. QED
    BY <2>1, <2>2
<1>8. QED
  BY <1>5, <1>6, <1>7 DEF Chained

\* What arrives is what comes next, and what was ahead stays ahead.
LEMMA ArrivesOne ==
  ASSUME sent \in Seq(Frames), at \in Nat, NEW q \in Seq(Words), Chained(q), Arrives(q)
  PROVE  /\ Chained(fifo)' /\ Ahead(fifo)' = Ahead(q)
         /\ Len(sent') \in Nat /\ Len(sent') >= Len(sent)
         /\ \A f \in 1 .. Len(sent) : sent'[f] = sent[f]
<1>1. /\ Len(sent) \in Nat /\ (UnderWay => Len(sent) >= 1) /\ Len(q) \in Nat
      /\ \A f \in 1 .. Len(sent) : sent[f].len \in Nat /\ sent[f].len > 0
  BY FrameType
<1>2. CASE UnderWay /\ fifo' = Append(q, NextWord) /\ at' = at + 1 /\ UNCHANGED sent
  <2> DEFINE w == NextWord
             f == Len(sent)
  <2>1. /\ f \in 1 .. Len(sent) /\ at <= sent[f].len /\ sent[f].len \in Nat
        /\ w.f = f /\ w.i = at /\ (w.end <=> at = sent[f].len)
    BY <1>1, <1>2 DEF UnderWay, NextWord
  <2>2. Place(w) = Tip
    BY <1>2, <2>1 DEF Place, Tip
  <2>3. After(w) = Tip'
    <3>1. UnderWay' <=> at + 1 <= sent[f].len
      BY <1>2 DEF UnderWay
    <3>2. QED
      BY <1>2, <2>1, <3>1 DEF After, Tip
  <2>4. /\ Len(fifo') = Len(q) + 1 /\ fifo' # <<>>
        /\ \A k \in 1 .. Len(q) : fifo'[k] = q[k]
        /\ fifo'[Len(q) + 1] = w
    <3> HIDE DEF w
    <3>1. fifo' = Append(q, w)
      BY <1>2 DEF w
    <3>2. QED
      BY <3>1
  <2> HIDE DEF w, f
  <2>5. ASSUME NEW k \in 1 .. Len(q) + 1
        PROVE  /\ fifo'[k].f \in 1 .. Len(sent) /\ fifo'[k].i \in 0 .. sent[fifo'[k].f].len
               /\ fifo'[k].end <=> fifo'[k].i = sent[fifo'[k].f].len
    <3>1. CASE k \in 1 .. Len(q)
      BY <2>4, <3>1 DEF Chained
    <3>2. CASE k = Len(q) + 1
      BY <1>1, <2>1, <2>4, <3>2
    <3>3. QED
      BY <1>1, <3>1, <3>2
  <2>6. ASSUME NEW k \in 1 .. Len(q) PROVE Place(fifo'[k + 1]) = After(fifo'[k])
    <3>1. CASE k = Len(q)
      <4>1. q # <<>>
        BY <1>1, <3>1
      <4>2. QED
        BY <2>2, <2>4, <3>1, <4>1 DEF Chained
    <3>2. CASE k # Len(q)
      <4>1. k \in 1 .. Len(q) - 1 /\ k + 1 \in 1 .. Len(q)
        BY <1>1, <3>2
      <4>2. QED
        BY <2>4, <4>1 DEF Chained
    <3>3. QED
      BY <3>1, <3>2
  <2>7. Chained(fifo)'
    <3>1. Len(fifo') - 1 = Len(q)
      BY <1>1, <2>4
    <3>2. QED
      BY <1>2, <2>3, <2>4, <2>5, <2>6, <3>1 DEF Chained, Place, After
  <2>8. Ahead(fifo)' = Ahead(q)
    <3>1. CASE q = <<>>
      <4>1. fifo'[1] = w
        BY <2>4, <3>1
      <4>2. QED
        BY <2>2, <2>4, <3>1, <4>1 DEF Ahead, Place
    <3>2. CASE q # <<>>
      <4>1. fifo'[1] = q[1]
        BY <1>1, <2>4, <3>2
      <4>2. QED
        BY <2>4, <3>2, <4>1 DEF Ahead, Place
    <3>3. QED
      BY <3>1, <3>2
  <2>9. QED
    BY <1>1, <1>2, <2>7, <2>8
<1>3. CASE /\ ~UnderWay /\ Len(sent) < Len(Traffic) /\ fifo' = q /\ at' = 0
           /\ \E fr \in Traffic[Len(sent) + 1] : sent' = Append(sent, fr)
  <2>1. Len(sent) + 1 \in 1 .. Len(Traffic) /\ Traffic \in Seq(SUBSET Frames)
    BY <1>1, <1>3, Mb3c400Assumption
  <2>2. PICK fr \in Frames : sent' = Append(sent, fr)
    BY <1>3, <2>1
  <2>3. /\ Len(sent') = Len(sent) + 1 /\ sent' # <<>> /\ sent'[Len(sent) + 1] = fr
        /\ \A f \in 1 .. Len(sent) : sent'[f] = sent[f]
    BY <2>2
  <2>4. UnderWay'
    BY <1>1, <1>3, <2>3 DEF UnderWay, Frames
  <2>5. Tip' = Tip
    BY <1>1, <1>3, <2>3, <2>4 DEF Tip
  <2>6. Ahead(fifo)' = Ahead(q)
    BY <1>3, <2>5 DEF Ahead, Place
  <2>7. Chained(fifo)'
    <3>1. \A k \in 1 .. Len(q) :
            /\ q[k].f \in 1 .. Len(sent') /\ q[k].i \in 0 .. sent'[q[k].f].len
            /\ q[k].end <=> q[k].i = sent'[q[k].f].len
      <4> TAKE k \in 1 .. Len(q)
      <4>1. /\ q[k].f \in 1 .. Len(sent) /\ q[k].i \in 0 .. sent[q[k].f].len
            /\ q[k].end <=> q[k].i = sent[q[k].f].len
        BY DEF Chained
      <4>2. sent'[q[k].f] = sent[q[k].f] /\ q[k].f \in 1 .. Len(sent')
        BY <1>1, <2>3, <4>1
      <4>3. QED
        BY <4>1, <4>2
    <3>2. QED
      BY <1>3, <2>5, <3>1 DEF Chained, Place, After
  <2>8. QED
    BY <1>1, <2>3, <2>6, <2>7
<1>4. CASE fifo' = q /\ UNCHANGED <<sent, at>>
  BY <1>1, <1>4 DEF Chained, Ahead, Tip, UnderWay, Place, After
<1>5. QED
  BY <1>2, <1>3, <1>4 DEF Arrives
-----------------------------------------------------------------------------
(* Who may be in the middle of a frame, and when.                            *)

\* The wire's clock and the host's; an access that resets has done so from its
\* second clock on.
ClocksOK ==
  /\ late \in 1 .. Pace
  /\ IF host = None THEN since \in 0 .. Gap ELSE since \in 1 .. HeldFor
  /\ soft_reset /\ since > 1 => rx.state = "IDLE"

\* The next word comes before the host can have given a buffer back.
Soon ==
  IF host = None THEN Pace - late <= Gap - since
  ELSE soft_reset /\ Pace - late <= Gap + HeldFor - since + 1

\* Idle in the middle of a frame, the card was reset, and owns nothing until
\* the next word sets it skipping the rest.
BetweenFrames ==
  /\ rx.state = "IDLE" /\ Ahead(fifo).i > 0 => (\A b \in Bufs : ~sw[b]) /\ (fifo = <<>> => Soon)
  /\ rx.state = "DATA" => Ahead(fifo).f <= Len(sent)
  /\ rx.state \in {"FCS", "ST0", "ST1"} => Ahead(fifo).i = 0 /\ rx.f \in 1 .. Len(sent)

\* What a buffer will hold when the write that is under way has landed.
Landed(b, c) == IF rxw # None /\ rxw.b = b /\ rxw.at = c THEN rxw.v ELSE buf[b][c]

\* The first n bytes of frame f are in the buffer, as far as they fit.
Bytes(b, f, n) == \A i \in 0 .. n - 1 : 2 + i < Limit => Landed(b, 2 + i) = Byte(f, i)

\* After n words of frame f, and k of the filler.
Building(f, n, k) ==
  /\ rx.n = Least(n, Sat) /\ rx.off = Least(2 + n + k, Sat)
  /\ rx.dst = IF n < DstBytes THEN "other" ELSE sent[f].cls
  /\ Bytes(rx.b, f, n)

\* While the card writes into a buffer, it is one frame from its start on.
Received ==
  rx.active =>
    /\ rx.state = "DATA" => Building(Ahead(fifo).f, Ahead(fifo).i, 0) /\ rx.e = "none"
    /\ rx.state = "FCS" => rx.cnt \in 0 .. FcsBytes - 1 /\ Building(rx.f, sent[rx.f].len, rx.cnt)
    /\ rx.state \in {"ST0", "ST1"} => Building(rx.f, sent[rx.f].len, FcsBytes)
    /\ rx.state \in {"FCS", "ST0", "ST1"} => rx.e = sent[rx.f].err
    /\ rx.state = "ST1" => Landed(rx.b, 0) = Status

\* The status of frame f.
StatusOf(f) ==
  [w |-> "status", e |-> sent[f].err, doff |-> Least(2 + sent[f].len + FcsBytes, Sat),
   rg |-> sent[f].len < MinLen \/ sent[f].len > MaxLen,
   dst |-> IF sent[f].len < DstBytes THEN "other" ELSE sent[f].cls]

\* What was handed over is a whole frame, but for what is about to land.
Kept ==
  \A b \in Bufs : Handed(b) =>
    /\ filled[b] \in 1 .. Len(sent)
    /\ Landed(b, 0) = StatusOf(filled[b]) /\ Landed(b, 1) = StatusOf(filled[b])
    /\ Bytes(b, filled[b], sent[filled[b]].len)

FInv == Chained(fifo) /\ ClocksOK /\ BetweenFrames /\ Received /\ Kept

\* Nothing has come, nothing is handed over.
LEMMA InitFInv == Init => FInv
<1> SUFFICES ASSUME Init PROVE FInv
  OBVIOUS
<1>1. /\ sent = <<>> /\ at = 0 /\ fifo = <<>> /\ rxw = None /\ filled = [b \in Bufs |-> 0]
      /\ late = Pace /\ host = None /\ since = 0 /\ rx.state = "IDLE" /\ ~rx.active
  BY DEF Init
<1>2. Chained(fifo) /\ Ahead(fifo).i = 0
  BY <1>1 DEF Chained, Ahead, Tip, UnderWay
<1>3. ~soft_reset
  BY <1>1 DEF soft_reset, CsrWrite, None
<1>4. ClocksOK
  BY <1>1, <1>3, Mb3c400Assumption DEF ClocksOK
<1>5. BetweenFrames
  BY <1>1, <1>2 DEF BetweenFrames
<1>6. Received /\ Kept
  BY <1>1 DEF Received, Kept, Handed
<1>7. QED
  BY <1>2, <1>4, <1>5, <1>6 DEF FInv

\* The numbers of the instance.
LEMMA Numbers ==
  /\ Limit \in Nat /\ Sat \in Nat /\ Limit > 2 /\ Sat = Limit + 1
  /\ MinLen \in Nat /\ MaxLen \in Nat /\ MinLen <= Limit /\ MaxLen <= Limit
  /\ DstBytes \in 1 .. Limit /\ FcsBytes \in Nat /\ FcsBytes > 0
  /\ Pace \in Nat /\ Pace >= 1 /\ HeldFor \in Nat /\ HeldFor > 0 /\ Gap \in Nat
<1>1. {MinLen, MaxLen, FcsBytes, DstBytes, Apart, Pace, HeldFor, Gap} \subseteq Nat
  BY Mb3c400Assumption
<1>2. MinLen \in Nat /\ MaxLen \in Nat /\ FcsBytes \in Nat /\ Pace \in Nat /\ HeldFor \in Nat /\ Gap \in Nat
  BY <1>1
<1>3. QED
  BY <1>2, Mb3c400Assumption DEF Sat

\* An edge takes the next word or none, and lets one arrive or none.
LEMMA StreamStep ==
  ASSUME IInv, FInv, NEW r, NEW w, NEW fs, Engine(r, w, fs)
  PROVE  /\ Chained(fifo)'
         /\ Ahead(fifo)' = IF Takes THEN After(fifo[1]) ELSE Ahead(fifo)
         /\ Len(sent) \in Nat /\ Len(sent') \in Nat /\ Len(sent') >= Len(sent)
         /\ \A f \in 1 .. Len(sent) : sent'[f] = sent[f] /\ sent[f].len \in Nat /\ sent[f].len > 0
         /\ fifo # <<>> => /\ Ahead(fifo) = Place(fifo[1])
                           /\ fifo[1].f \in 1 .. Len(sent) /\ fifo[1].i \in 0 .. sent[fifo[1].f].len
                           /\ fifo[1].end <=> fifo[1].i = sent[fifo[1].f].len
<1>1. sent \in Seq(Frames) /\ at \in Nat /\ fifo \in Seq(Words) /\ Chained(fifo) /\ Arrives(Rest)
  BY DEF IInv, TypesOK, FInv, Engine
<1>2. Rest \in Seq(Words) /\ Chained(Rest) /\ Ahead(Rest) = IF Takes THEN After(fifo[1]) ELSE Ahead(fifo)
  <2>1. CASE Takes
    <3>1. fifo # <<>> /\ Rest = Tail(fifo)
      BY <2>1 DEF Rest, Takes
    <3>2. Rest \in Seq(Words)
      BY <1>1, <3>1
    <3>3. QED
      BY <1>1, <2>1, <3>1, <3>2, TakesOne
  <2>2. CASE ~Takes
    BY <1>1, <2>2 DEF Rest
  <2>3. QED
    BY <2>1, <2>2
<1>3. fifo # <<>> => 1 \in 1 .. Len(fifo)
  BY <1>1
<1>4. fifo # <<>> => /\ Ahead(fifo) = Place(fifo[1])
                     /\ fifo[1].f \in 1 .. Len(sent) /\ fifo[1].i \in 0 .. sent[fifo[1].f].len
                     /\ fifo[1].end <=> fifo[1].i = sent[fifo[1].f].len
  BY <1>1, <1>3 DEF Chained, Ahead
<1>5. QED
  BY <1>1, <1>2, <1>4, ArrivesOne, FrameType

\* The clocks go on; where nothing arrives in a frame the next word is nearer.
LEMMA ClocksStep ==
  ASSUME IInv, FInv, NEW r, NEW w, NEW fs, Engine(r, w, fs)
  PROVE  /\ ClocksOK'
         /\ fifo' = <<>> /\ Ahead(fifo)'.i > 0 => late' = late + 1 /\ late < Pace
         /\ \/ host = None /\ host' = None /\ since' = (IF since < Gap THEN since + 1 ELSE Gap)
            \/ host = None /\ since = Gap
            \/ host # None /\ since < HeldFor /\ host' = host /\ since' = since + 1
            \/ host # None /\ since = HeldFor /\ host' = None /\ since' = 0
<1>1. Arrives(Rest) /\ HostMoves /\ rx' = IF soft_reset THEN ResetRx ELSE r
  BY DEF Engine
<1>2. /\ late \in 1 .. Pace
      /\ IF host = None THEN since \in 0 .. Gap ELSE since \in 1 .. HeldFor
  BY DEF FInv, ClocksOK
<1>3. late' \in 1 .. Pace
  BY <1>1, <1>2, Numbers DEF Arrives, UpTo
<1>4. /\ \/ host = None /\ host' = None /\ since' = (IF since < Gap THEN since + 1 ELSE Gap)
         \/ host = None /\ since = Gap /\ host' \in Accesses /\ since' = 1
         \/ host # None /\ since < HeldFor /\ host' = host /\ since' = since + 1
         \/ host # None /\ since = HeldFor /\ host' = None /\ since' = 0
  BY <1>1, <1>2, Numbers DEF HostMoves, UpTo
<1>5. None \notin Accesses
  BY DEF Accesses, None
<1>6. IF host' = None THEN since' \in 0 .. Gap ELSE since' \in 1 .. HeldFor
  BY <1>2, <1>4, <1>5, Numbers
<1>7. soft_reset' /\ since' > 1 => rx'.state = "IDLE"
  <2>1. SUFFICES ASSUME soft_reset', since' > 1 PROVE rx'.state = "IDLE"
    OBVIOUS
  <2>2. host' # None
    BY <2>1 DEF soft_reset, CsrWrite, None
  <2>3. host' = host
    BY <1>4, <2>1, <2>2
  <2>4. soft_reset
    BY <2>1, <2>3 DEF soft_reset, CsrWrite
  <2>5. QED
    BY <1>1, <2>4 DEF ResetRx
<1>8. fifo' = <<>> /\ Ahead(fifo)'.i > 0 => late' = late + 1 /\ late < Pace
  <2>1. SUFFICES ASSUME fifo' = <<>>, Ahead(fifo)'.i > 0 PROVE late' = late + 1 /\ late < Pace
    OBVIOUS
  <2>2. Tip'.i > 0
    BY <2>1 DEF Ahead
  <2>3. UnderWay' /\ at' > 0
    BY <2>2 DEF Tip
  <2>4. UNCHANGED <<sent, at>> /\ (UnderWay => late < Pace) /\ late' = UpTo(late, Pace)
    <3>1. fifo' # Append(Rest, NextWord)
      <4>1. fifo \in Seq(Words)
        BY DEF IInv, TypesOK
      <4>2. CASE Takes
        <5>1. Tail(fifo) \in Seq(Words)
          BY <4>1, <4>2 DEF Takes
        <5>2. Rest = Tail(fifo)
          BY <4>2 DEF Rest
        <5>3. QED
          BY <2>1, <5>1, <5>2, AppendNotEmpty
      <4>3. CASE ~Takes
        <5>1. Rest = fifo
          BY <4>3 DEF Rest
        <5>2. QED
          BY <2>1, <4>1, <5>1, AppendNotEmpty
      <4>4. QED
        BY <4>2, <4>3
    <3>2. at' # 0
      BY <2>3
    <3>3. UNCHANGED <<sent, at>> /\ (UnderWay => late < Pace) /\ late' = UpTo(late, Pace)
      BY <1>1, <3>1, <3>2 DEF Arrives
    <3>4. QED
      BY <3>3
  <2>5. UnderWay
    BY <2>3, <2>4 DEF UnderWay
  <2>6. QED
    BY <2>4, <2>5 DEF UpTo
<1>9. QED
  BY <1>3, <1>4, <1>6, <1>7, <1>8 DEF ClocksOK

\* What a buffer will hold, after an edge that is no reset: the write the edge
\* starts, over what was there.
LEMMA LandedNext ==
  ASSUME NEW r, NEW w, NEW fs, Engine(r, w, fs), ~soft_reset,
         NEW b \in Bufs, ~PokesInto(b), NEW c \in Cells
  PROVE  Landed(b, c)' = IF w # None /\ w.b = b /\ w.at = c THEN w.v ELSE Landed(b, c)
<1>1. rxw' = w
  BY DEF Engine
<1>2. buf'[b] = [x \in Cells |->
               IF rxw # None /\ rxw.b = b /\ rxw.at = x THEN rxw.v
               ELSE IF /\ x = 2 /\ PokesInto(b)
                       /\ ~(rxw # None /\ rxw.b = b /\ rxw.at % 2 = 0)
                    THEN [w |-> "host"] ELSE buf[b][x]]
  BY DEF Engine
<1>3. buf'[b][c] = Landed(b, c)
  BY <1>2 DEF Landed
<1>4. QED
  BY <1>1, <1>3 DEF Landed

\* The cells the status and the bytes are in.
LEMMA CellOf ==
  /\ 0 \in Cells /\ 1 \in Cells
  /\ \A i \in Nat : 2 + i < Limit => 2 + i \in Cells
BY Numbers DEF Cells

\* With the whole frame in, the status is the frame's.
LEMMA StatusIsTrue ==
  ASSUME sent \in Seq(Frames), NEW f \in 1 .. Len(sent),
         Building(f, sent[f].len, FcsBytes), rx.e = sent[f].err
  PROVE  Status = StatusOf(f)
<1>1. sent[f].len \in Nat /\ sent[f].len > 0
  BY FrameType
<1>2. rx_rg = (sent[f].len < MinLen \/ sent[f].len > MaxLen)
  <2>1. rx.n = IF sent[f].len < Sat THEN sent[f].len ELSE Sat
    BY DEF Building, Least
  <2>2. (rx.n < MinLen \/ rx.n > MaxLen) <=> (sent[f].len < MinLen \/ sent[f].len > MaxLen)
    BY <1>1, <2>1, Numbers
  <2>3. QED
    BY <2>2 DEF rx_rg
<1>3. QED
  BY <1>2 DEF Building, Status, StatusOf

\* A reset in mid-frame takes both buffers back, and the rest of the frame is
\* on its way before the host can give one again.
LEMMA OnReset ==
  ASSUME Pace <= HeldFor + Gap + 1,
         IInv, FInv, NEW r, NEW w, NEW fs, Engine(r, w, fs), soft_reset
  PROVE  BetweenFrames' /\ Received' /\ Kept'
<1>1. /\ rx' = ResetRx /\ \A b \in Bufs : sw'[b] = FALSE /\ filled'[b] = 0
  BY DEF Engine
<1>2. rx'.state = "IDLE" /\ rx'.active = FALSE
  BY <1>1 DEF ResetRx, IInv, TypesOK, RxOK
<1>3. Received' /\ Kept'
  BY <1>1, <1>2 DEF Received, Kept, Handed
<1>4. ASSUME fifo' = <<>>, Ahead(fifo)'.i > 0 PROVE Soon'
  <2>1. late' = late + 1 /\ late < Pace /\ late \in 1 .. Pace
    BY <1>4, ClocksStep DEF FInv, ClocksOK
  <2>2. host # None
    BY DEF soft_reset, CsrWrite, None
  <2>3. since \in 1 .. HeldFor
    BY <2>2 DEF FInv, ClocksOK
  <2>4. Pace - late <= Gap + HeldFor - since + 1
    <3>1. CASE since = 1
      BY <2>1, <3>1, Numbers
    <3>2. CASE since # 1
      <4>1. rx.state = "IDLE"
        BY <2>3, <3>2, Numbers DEF FInv, ClocksOK
      <4>2. ~Takes
        <5>1. SUFFICES ASSUME Takes PROVE FALSE
          OBVIOUS
        <5>2. Ahead(fifo)' = After(fifo[1]) /\ fifo[1].end
          BY <4>1, <5>1, StreamStep DEF Takes
        <5>3. QED
          BY <1>4, <5>2 DEF After
      <4>3. Ahead(fifo).i > 0
        BY <1>4, <4>2, StreamStep
      <4>4. fifo = <<>>
        <5>1. Arrives(fifo) /\ fifo \in Seq(Words)
          BY <4>2 DEF Engine, Rest, IInv, TypesOK
        <5>2. QED
          BY <1>4, <5>1 DEF Arrives
      <4>5. QED
        BY <2>2, <4>1, <4>3, <4>4 DEF FInv, BetweenFrames, Soon
    <3>3. QED
      BY <3>1, <3>2
  <2>5. CASE since < HeldFor /\ host' = host /\ since' = since + 1
    <3>1. soft_reset' /\ host' # None
      BY <2>2, <2>5 DEF soft_reset, CsrWrite
    <3>2. QED
      BY <2>1, <2>3, <2>4, <2>5, <3>1, Numbers DEF Soon
  <2>6. CASE since = HeldFor /\ host' = None /\ since' = 0
    BY <2>1, <2>3, <2>4, <2>6, Numbers DEF Soon
  <2>7. QED
    BY <2>2, <2>5, <2>6, ClocksStep
<1>5. BetweenFrames'
  BY <1>1, <1>2, <1>4 DEF BetweenFrames
<1>6. QED
  BY <1>3, <1>5

\* What was handed over stays as it is, and what is handed over now is whole.
LEMMA OnKept ==
  ASSUME IInv, FInv, NEW r, NEW w, NEW fs, Engine(r, w, fs), ~soft_reset,
         w = None \/ (rx.active /\ rx.state # "IDLE" /\ w.b = rx.b),
         fs = {} \/ (fs = {rx.b} /\ rx.active /\ rx.state = "ST1" /\ w = Here(1, Status))
  PROVE  Kept'
<1>1. /\ OwnershipOK /\ RxOK(rx) /\ sent \in Seq(Frames)
      /\ BetweenFrames /\ Received /\ Kept
  BY DEF IInv, TypesOK, FInv
<1>2. rx.active /\ rx.state # "IDLE" => sw[rx.b]
  BY <1>1 DEF OwnershipOK, Owns
<1>3. /\ Len(sent') >= Len(sent) /\ Len(sent) \in Nat /\ Len(sent') \in Nat
      /\ \A f \in 1 .. Len(sent) :
           f \in 1 .. Len(sent') /\ sent'[f] = sent[f] /\ sent[f].len \in Nat /\ sent[f].len > 0
  BY StreamStep
<1>4. SUFFICES ASSUME NEW b \in Bufs, Handed(b)'
               PROVE  /\ filled'[b] \in 1 .. Len(sent')
                      /\ Landed(b, 0)' = StatusOf(filled[b])' /\ Landed(b, 1)' = StatusOf(filled[b])'
                      /\ Bytes(b, filled[b], sent[filled[b]].len)'
  BY DEF Kept
<1>5. filled'[b] # 0 /\ ~sw'[b]
  BY <1>4 DEF Handed
<1>6. CASE b \notin fs
  <2>1. ~PokesInto(b) /\ filled'[b] = filled[b] /\ ~sw[b]
    <3>1. /\ filled'[b] = IF PokesInto(b) \/ HostSets(b) THEN 0 ELSE filled[b]
          /\ sw'[b] = (sw[b] \/ HostSets(b))
      BY <1>6 DEF Engine
    <3>2. QED
      BY <1>5, <3>1
  <2>2. Handed(b)
    BY <1>5, <2>1 DEF Handed
  <2>3. ~(w # None /\ w.b = b)
    BY <1>2, <2>1
  <2>4. \A c \in Cells : Landed(b, c)' = Landed(b, c)
    BY <2>1, <2>3, LandedNext
  <2>5. /\ filled[b] \in 1 .. Len(sent)
        /\ Landed(b, 0) = StatusOf(filled[b]) /\ Landed(b, 1) = StatusOf(filled[b])
        /\ Bytes(b, filled[b], sent[filled[b]].len)
    BY <1>1, <2>2 DEF Kept
  <2>6. sent'[filled'[b]] = sent[filled[b]] /\ sent[filled[b]].len \in Nat
    BY <1>3, <2>1, <2>5
  <2>7. StatusOf(filled[b])' = StatusOf(filled[b])
    BY <2>1, <2>6 DEF StatusOf
  <2>8. Bytes(b, filled[b], sent[filled[b]].len)'
    <3>1. ASSUME NEW i \in 0 .. sent[filled[b]].len - 1, 2 + i < Limit
          PROVE  Landed(b, 2 + i)' = Byte(filled[b], i)
      <4>1. i \in Nat /\ 2 + i \in Cells
        BY <2>6, <3>1, CellOf
      <4>2. QED
        BY <2>4, <2>5, <3>1, <4>1 DEF Bytes
    <3>2. QED
      BY <2>1, <2>6, <3>1 DEF Bytes, Byte
  <2>9. QED
    BY <1>3, <2>1, <2>4, <2>5, <2>7, <2>8, CellOf
<1>7. CASE b \in fs
  <2>1. b = rx.b /\ rx.active /\ rx.state = "ST1" /\ w = Here(1, Status) /\ filled'[b] = rx.f
    BY <1>7 DEF Engine
  <2>2. w = [kind |-> "write", b |-> b, at |-> 1, v |-> Status] /\ w # None
    BY <2>1 DEF Here, None
  <2>3. ~PokesInto(b)
    BY <1>2, <2>1 DEF PokesInto
  <2>4. \A c \in Cells : Landed(b, c)' = IF c = 1 THEN Status ELSE Landed(b, c)
    BY <2>2, <2>3, LandedNext
  <2>5. /\ rx.f \in 1 .. Len(sent) /\ Building(rx.f, sent[rx.f].len, FcsBytes)
        /\ rx.e = sent[rx.f].err /\ Landed(b, 0) = Status
    BY <1>1, <2>1 DEF BetweenFrames, Received
  <2>6. sent'[filled'[b]] = sent[rx.f] /\ sent[rx.f].len \in Nat
    BY <1>3, <2>1, <2>5
  <2>7. StatusOf(filled[b])' = Status
    <3>1. StatusOf(filled[b])' = StatusOf(rx.f)
      BY <2>1, <2>6 DEF StatusOf
    <3>2. QED
      BY <1>1, <2>5, <3>1, StatusIsTrue
  <2>8. Bytes(b, filled[b], sent[filled[b]].len)'
    <3>1. ASSUME NEW i \in 0 .. sent[rx.f].len - 1, 2 + i < Limit
          PROVE  Landed(b, 2 + i)' = Byte(rx.f, i)
      <4>1. i \in Nat /\ 2 + i \in Cells /\ 2 + i # 1
        BY <2>6, <3>1, CellOf
      <4>2. QED
        BY <2>1, <2>4, <2>5, <3>1, <4>1 DEF Building, Bytes
    <3>2. QED
      BY <2>1, <2>6, <3>1 DEF Bytes, Byte
  <2>9. QED
    BY <1>3, <2>1, <2>4, <2>5, <2>7, <2>8, CellOf
<1>8. QED
  BY <1>6, <1>7

\* Where the sequencer is in the stream is within a frame.
LEMMA AheadType ==
  ASSUME IInv, FInv
  PROVE  /\ Ahead(fifo).f \in Nat /\ Ahead(fifo).f >= 1 /\ Ahead(fifo).i \in Nat
         /\ Ahead(fifo).f <= Len(sent) => /\ Ahead(fifo).f \in 1 .. Len(sent)
                                          /\ Ahead(fifo).i \in 0 .. sent[Ahead(fifo).f].len
<1>1. sent \in Seq(Frames) /\ at \in Nat /\ fifo \in Seq(Words) /\ Chained(fifo)
  BY DEF IInv, TypesOK, FInv
<1>2. /\ Len(sent) \in Nat /\ (UnderWay => Len(sent) >= 1)
      /\ \A f \in 1 .. Len(sent) : sent[f].len \in Nat /\ sent[f].len > 0
  BY <1>1, FrameType
<1>3. CASE fifo = <<>>
  <2>1. Ahead(fifo) = IF UnderWay THEN [f |-> Len(sent), i |-> at]
                      ELSE [f |-> Len(sent) + 1, i |-> 0]
    BY <1>3 DEF Ahead, Tip
  <2>2. CASE UnderWay
    BY <1>1, <1>2, <2>1, <2>2 DEF UnderWay
  <2>3. CASE ~UnderWay
    BY <1>1, <1>2, <2>1, <2>3
  <2>4. QED
    BY <2>2, <2>3
<1>4. CASE fifo # <<>>
  <2>1. 1 \in 1 .. Len(fifo)
    BY <1>1, <1>4
  <2>2. fifo[1].f \in 1 .. Len(sent) /\ fifo[1].i \in 0 .. sent[fifo[1].f].len
    BY <1>1, <2>1 DEF Chained
  <2>3. Ahead(fifo).f = fifo[1].f /\ Ahead(fifo).i = fifo[1].i
    BY <1>4 DEF Ahead, Place
  <2>4. QED
    BY <1>2, <2>2, <2>3
<1>5. QED
  BY <1>3, <1>4

\* A write goes on: what was in the buffer of the frame stays there, and the
\* write of the edge is added.
LEMMA Fills ==
  ASSUME IInv, NEW r, NEW w, NEW fs, Engine(r, w, fs), ~soft_reset,
         rx.active, rx.state # "IDLE", w = None \/ w.b = rx.b, NEW c \in Cells
  PROVE  \A b : b = rx.b => Landed(b, c)' = IF w # None /\ w.at = c THEN w.v ELSE Landed(b, c)
<1>1. sw[rx.b] /\ rx.b \in Bufs
  BY DEF IInv, OwnershipOK, Owns, TypesOK, RxOK
<1>2. ~PokesInto(rx.b)
  BY <1>1 DEF PokesInto
<1>3. ASSUME NEW b, b = rx.b
      PROVE  Landed(b, c)' = IF w # None /\ w.at = c THEN w.v ELSE Landed(b, c)
  <2>1. Landed(b, c)' = IF w # None /\ w.b = b /\ w.at = c THEN w.v ELSE Landed(b, c)
    BY <1>1, <1>2, <1>3, LandedNext
  <2>2. QED
    BY <1>3, <2>1
<1>4. QED
  BY <1>3

\* With the write w, the buffer holds the first n bytes of frame f as far as it goes.
Lands(w, f, n) ==
  \A i \in 0 .. n - 1 : 2 + i < Limit =>
    (IF w # None /\ w.at = 2 + i THEN w.v ELSE Landed(rx.b, 2 + i)) = Byte(f, i)

\* So a frame grows: with its registers right and its bytes in the buffer or in
\* the write of the edge, it is built up as far as that.
LEMMA Built ==
  ASSUME IInv, NEW r, NEW w, NEW fs, Engine(r, w, fs), ~soft_reset,
         rx.active, rx.state # "IDLE", w = None \/ w.b = rx.b,
         NEW f, NEW n \in Nat, NEW k, r.b = rx.b,
         r.n = Least(n, Sat), r.off = Least(2 + n + k, Sat),
         r.dst = IF n < DstBytes THEN "other" ELSE sent[f].cls, sent'[f] = sent[f],
         Lands(w, f, n)
  PROVE  Building(f, n, k)'
<1>1. rx' = r
  BY DEF Engine
<1>2. ASSUME NEW b, b = rx.b, NEW i \in 0 .. n - 1, 2 + i < Limit
      PROVE  Landed(b, 2 + i)' = Byte(f, i)
  <2>1. 2 + i \in Cells
    BY <1>2, CellOf
  <2>2. Landed(b, 2 + i)' = IF w # None /\ w.at = 2 + i THEN w.v ELSE Landed(b, 2 + i)
    BY <1>2, <2>1, Fills
  <2>3. QED
    BY <1>2, <2>2 DEF Lands
<1>3. \A b : b = rx.b => Bytes(b, f, n)'
  BY <1>2 DEF Bytes, Byte
<1>4. Bytes(rx.b, f, n)'
  <2>1. rx'.b = rx.b
    BY <1>1
  <2>2. QED
    BY <1>3, <2>1 DEF Bytes, Landed, Byte
<1>5. QED
  BY <1>1, <1>4 DEF Building, Least

\* Idle, the card starts on a frame at its first word, or skips the rest of one.
LEMMA OnIdle ==
  ASSUME Pace <= HeldFor + Gap + 1, IInv, FInv, Idle, ~soft_reset
  PROVE  BetweenFrames' /\ Received' /\ Kept'
<1>1. rx.state = "IDLE" /\ RxOK(rx) /\ BetweenFrames /\ ClocksOK
  BY DEF Idle, IInv, TypesOK, FInv
<1>2. CASE fifo = <<>> \/ fifo[1].end
  <2>1. Engine(rx, None, {})
    BY <1>2 DEF Idle, Waits
  <2>2. rx' = rx /\ \A b \in Bufs : sw'[b] = (sw[b] \/ HostSets(b))
    BY <2>1 DEF Engine
  <2>3. Kept'
    BY <2>1, OnKept
  <2>4. Received'
    BY <1>1, <2>2 DEF Received
  <2>5. ASSUME Ahead(fifo)'.i > 0
        PROVE  (\A b \in Bufs : ~sw'[b]) /\ (fifo' = <<>> => Soon')
    <3>1. ~Takes
      <4>1. Takes => Ahead(fifo)' = After(fifo[1]) /\ fifo[1].end
        BY <1>1, <2>1, StreamStep DEF Takes
      <4>2. QED
        BY <2>5, <4>1 DEF After
    <3>2. fifo = <<>> /\ Ahead(fifo).i > 0
      BY <1>1, <1>2, <2>1, <2>5, <3>1, StreamStep DEF Takes
    <3>3. (\A b \in Bufs : ~sw[b]) /\ Soon
      BY <1>1, <3>2 DEF BetweenFrames
    <3>4. host = None /\ Pace - late <= Gap - since /\ since \in 0 .. Gap
      BY <1>1, <3>3 DEF Soon, ClocksOK
    <3>5. \A b \in Bufs : ~HostSets(b)
      BY <3>4 DEF HostSets, CsrWrite, None
    <3>6. fifo' = <<>> => Soon'
      <4>1. SUFFICES ASSUME fifo' = <<>> PROVE Soon'
        OBVIOUS
      <4>2. late' = late + 1 /\ late < Pace /\ late \in 1 .. Pace
        BY <1>1, <2>1, <2>5, <4>1, ClocksStep DEF FInv, ClocksOK
      <4>3. since < Gap
        BY <3>4, <4>2, Numbers
      <4>4. host' = None /\ since' = since + 1
        BY <2>1, <3>4, <4>3, ClocksStep, Numbers
      <4>5. QED
        BY <3>4, <4>2, <4>4, Numbers DEF Soon
    <3>7. QED
      BY <2>2, <3>3, <3>5, <3>6
  <2>6. QED
    BY <1>1, <2>2, <2>3, <2>4, <2>5 DEF BetweenFrames
<1>3. CASE fifo # <<>> /\ ~fifo[1].end
  <2>1. PICK r : /\ Engine(r, None, {})
                 /\ r = [rx EXCEPT !.state = "DATA", !.b = IF pick_b THEN "B" ELSE "A",
                                   !.active = pick_a \/ pick_b, !.off = 2, !.n = 0,
                                   !.e = "none", !.dst = "other"]
    BY <1>3 DEF Idle, Waits
  <2>2. /\ rx' = r /\ r.state = "DATA" /\ r.off = 2 /\ r.n = 0 /\ r.e = "none" /\ r.dst = "other"
        /\ r.active <=> pick_a \/ pick_b
    BY <1>1, <2>1 DEF Engine, RxOK
  <2>3. Kept'
    BY <2>1, OnKept
  <2>4. Ahead(fifo)' = Ahead(fifo) /\ Ahead(fifo) = Place(fifo[1]) /\ ~Takes
        /\ fifo[1].f \in 1 .. Len(sent) /\ fifo[1].i \in 0 .. sent[fifo[1].f].len
        /\ Len(sent') \in Nat /\ Len(sent') >= Len(sent) /\ Len(sent) \in Nat
        /\ sent[fifo[1].f].len \in Nat
    BY <1>1, <1>3, <2>1, StreamStep DEF Takes
  <2>5. BetweenFrames'
    BY <2>2, <2>4 DEF BetweenFrames, Place
  <2>6. Received'
    <3>1. SUFFICES ASSUME rx'.active
                   PROVE  Building(Ahead(fifo).f, Ahead(fifo).i, 0)'
      BY <2>2 DEF Received
    <3>2. \E b \in Bufs : sw[b]
      BY <2>2, <3>1 DEF pick_a, pick_b, Bufs
    <3>3. fifo[1].i = 0
      BY <1>1, <2>4, <3>2 DEF BetweenFrames, Place
    <3>4. Ahead(fifo)'.i = 0
      BY <2>4, <3>3 DEF Place
    <3>5. rx'.n = Least(0, Sat) /\ rx'.off = Least(2 + 0 + 0, Sat) /\ 0 < DstBytes
      BY <2>2, Numbers DEF Least
    <3>6. QED
      BY <2>2, <3>4, <3>5 DEF Building, Bytes
  <2>7. QED
    BY <2>3, <2>5, <2>6
<1>4. QED
  BY <1>2, <1>3

\* Every word goes to its place in the buffer, and the end word ends the frame.
LEMMA OnData ==
  ASSUME IInv, FInv, Data, ~soft_reset
  PROVE  BetweenFrames' /\ Received' /\ Kept'
<1>1. rx.state = "DATA" /\ RxOK(rx) /\ BetweenFrames /\ Received
  BY DEF Data, IInv, TypesOK, FInv
<1>2. /\ Ahead(fifo).f \in 1 .. Len(sent) /\ Ahead(fifo).i \in Nat
      /\ Ahead(fifo).i <= sent[Ahead(fifo).f].len
  BY <1>1, AheadType, FrameType DEF BetweenFrames, IInv, TypesOK
<1>3. CASE fifo = <<>>
  <2>1. Engine(rx, None, {})
    BY <1>3 DEF Data, Waits
  <2>2. rx' = rx
    BY <2>1 DEF Engine
  <2>3. Kept'
    BY <2>1, OnKept
  <2>4. /\ Ahead(fifo)' = Ahead(fifo) /\ Len(sent') >= Len(sent)
        /\ Len(sent) \in Nat /\ Len(sent') \in Nat
        /\ \A f \in 1 .. Len(sent) : sent'[f] = sent[f]
    BY <1>3, <2>1, StreamStep DEF Takes
  <2>5. BetweenFrames'
    BY <1>1, <1>2, <2>2, <2>4 DEF BetweenFrames
  <2>6. ASSUME rx.active, NEW f, NEW n, f = Ahead(fifo).f, n = Ahead(fifo).i
        PROVE  Building(f, n, 0)'
    <3>1. Building(f, n, 0)
      BY <1>1, <2>6 DEF Received
    <3>2. n \in Nat /\ sent'[f] = sent[f]
      BY <1>2, <2>4, <2>6
    <3>3. /\ rx.n = Least(n, Sat) /\ rx.off = Least(2 + n + 0, Sat)
          /\ rx.dst = IF n < DstBytes THEN "other" ELSE sent[f].cls
          /\ \A i \in 0 .. n - 1 : 2 + i < Limit => Landed(rx.b, 2 + i) = Byte(f, i)
      BY <3>1 DEF Building, Bytes
    <3>4. Lands(None, f, n)
      BY <3>3 DEF Lands
    <3>5. QED
      BY <1>1, <2>1, <2>6, <3>2, <3>3, <3>4, Built
  <2>7. Received'
    BY <1>1, <2>2, <2>4, <2>6 DEF Received, Building, Bytes, Landed, Byte
  <2>8. QED
    BY <2>3, <2>5, <2>7
<1>4. CASE fifo # <<>> /\ fifo[1].end
  <2> DEFINE r == [rx EXCEPT !.state = "FCS", !.cnt = 0, !.e = sent[fifo[1].f].err,
                             !.f = fifo[1].f]
  <2>1. Engine(r, None, {})
    BY <1>4 DEF Data, Waits
  <2>2. /\ rx' = r /\ r.state = "FCS" /\ r.cnt = 0 /\ r.e = sent[fifo[1].f].err
        /\ r.f = fifo[1].f /\ r.b = rx.b /\ r.n = rx.n /\ r.off = rx.off /\ r.dst = rx.dst
        /\ r.active = rx.active
    BY <1>1, <2>1 DEF Engine, RxOK
  <2> HIDE DEF r
  <2>3. Kept'
    BY <2>1, OnKept
  <2>4. /\ Ahead(fifo)' = After(fifo[1]) /\ Len(sent') >= Len(sent)
        /\ Len(sent) \in Nat /\ Len(sent') \in Nat
        /\ Ahead(fifo) = Place(fifo[1]) /\ fifo[1].f \in 1 .. Len(sent)
        /\ fifo[1].i = sent[fifo[1].f].len /\ sent[fifo[1].f].len \in Nat
        /\ sent'[fifo[1].f] = sent[fifo[1].f]
    BY <1>1, <1>4, <2>1, StreamStep DEF Takes
  <2>5. BetweenFrames'
    BY <1>4, <2>2, <2>4 DEF BetweenFrames, After
  <2>6. ASSUME rx.active, NEW f, NEW n, f = fifo[1].f, n = sent[f].len
        PROVE  Building(f, n, 0)'
    <3>1. Building(f, n, 0)
      BY <1>1, <2>4, <2>6 DEF Received, Place
    <3>2. n \in Nat /\ sent'[f] = sent[f]
      BY <2>4, <2>6
    <3>3. /\ r.n = Least(n, Sat) /\ r.off = Least(2 + n + 0, Sat)
          /\ r.dst = IF n < DstBytes THEN "other" ELSE sent[f].cls
          /\ \A i \in 0 .. n - 1 : 2 + i < Limit => Landed(rx.b, 2 + i) = Byte(f, i)
      BY <2>2, <3>1 DEF Building, Bytes
    <3>4. r.b = rx.b /\ rx.state # "IDLE"
      BY <1>1, <2>2
    <3>5. Lands(None, f, n)
      BY <2>2, <3>3 DEF Lands
    <3>6. QED
      BY <2>1, <2>6, <3>2, <3>3, <3>4, <3>5, Built
  <2>7. Received'
    <3>1. SUFFICES ASSUME rx'.active
                   PROVE  /\ rx'.cnt \in 0 .. FcsBytes - 1 /\ rx'.e = sent'[rx'.f].err
                          /\ Building(rx.f, sent[rx.f].len, rx.cnt)'
      BY <2>2 DEF Received
    <3>2. 0 \in 0 .. FcsBytes - 1
      BY Numbers
    <3>3. Building(rx.f, sent[rx.f].len, rx.cnt)'
      BY <2>2, <2>4, <2>6, <3>1 DEF Building, Bytes, Landed, Byte
    <3>4. QED
      BY <2>2, <2>4, <3>2, <3>3
  <2>8. QED
    BY <2>3, <2>5, <2>7
<1>5. CASE fifo # <<>> /\ ~fifo[1].end
  <2>1. PICK d \in Destination(fifo[1]) :
          Engine([rx EXCEPT !.off = UpTo(rx.off, Sat), !.n = UpTo(rx.n, Sat), !.dst = d],
                 IF rx.off < Limit THEN Here(rx.off, Byte(fifo[1].f, fifo[1].i)) ELSE None, {})
    BY <1>5 DEF Data
  <2> DEFINE r == [rx EXCEPT !.off = UpTo(rx.off, Sat), !.n = UpTo(rx.n, Sat), !.dst = d]
             w == IF rx.off < Limit THEN Here(rx.off, Byte(fifo[1].f, fifo[1].i)) ELSE None
  <2>2. Engine(r, w, {}) /\ (w = None \/ (rx.active /\ w.b = rx.b))
    BY <2>1, HereWrites
  <2>3. /\ rx' = r /\ r.state = "DATA" /\ r.b = rx.b /\ r.e = rx.e /\ r.active = rx.active
        /\ r.n = UpTo(rx.n, Sat) /\ r.off = UpTo(rx.off, Sat) /\ r.dst = d
    BY <1>1, <2>2 DEF Engine, RxOK
  <2>4. rx.active => IF rx.off < Limit
                     THEN /\ w # None /\ w.b = rx.b /\ w.at = rx.off
                          /\ w.v = Byte(fifo[1].f, fifo[1].i)
                     ELSE w = None
    BY DEF Here, None
  <2> HIDE DEF r, w
  <2>5. Kept'
    BY <1>1, <2>2, OnKept
  <2>6. /\ Ahead(fifo)' = After(fifo[1]) /\ Len(sent') >= Len(sent)
        /\ Len(sent) \in Nat /\ Len(sent') \in Nat
        /\ Ahead(fifo) = Place(fifo[1]) /\ fifo[1].f \in 1 .. Len(sent)
        /\ fifo[1].i \in Nat /\ fifo[1].i < sent[fifo[1].f].len
        /\ sent'[fifo[1].f] = sent[fifo[1].f]
    BY <1>1, <1>2, <1>5, <2>2, StreamStep DEF Takes, Place
  <2>7. BetweenFrames'
    BY <1>5, <2>3, <2>6 DEF BetweenFrames, After
  <2>8. ASSUME rx.active, NEW f, NEW n, f = fifo[1].f, n = fifo[1].i
        PROVE  Building(f, n + 1, 0)'
    <3>1. Building(f, n, 0)
      BY <1>1, <2>6, <2>8 DEF Received, Place
    <3>2. n \in Nat /\ sent'[f] = sent[f]
      BY <2>6, <2>8
    <3>3. /\ rx.n = Least(n, Sat) /\ rx.off = Least(2 + n + 0, Sat)
          /\ rx.dst = IF n < DstBytes THEN "other" ELSE sent[f].cls
          /\ \A i \in 0 .. n - 1 : 2 + i < Limit => Landed(rx.b, 2 + i) = Byte(f, i)
      BY <3>1 DEF Building, Bytes
    <3>4. r.n = Least(n + 1, Sat) /\ r.off = Least(2 + (n + 1) + 0, Sat)
      BY <2>3, <3>2, <3>3, Numbers DEF Least, UpTo
    <3>5. r.dst = IF n + 1 < DstBytes THEN "other" ELSE sent[f].cls
      <4>1. d \in IF rx.n + 1 # DstBytes THEN {rx.dst}
                  ELSE IF n + 1 = DstBytes THEN {sent[f].cls} ELSE Classes
        BY <2>1, <2>8 DEF Destination
      <4>2. rx.n + 1 = DstBytes <=> n + 1 = DstBytes
        BY <3>2, <3>3, Numbers DEF Least
      <4>3. n < DstBytes <=> n + 1 < DstBytes \/ n + 1 = DstBytes
        BY <3>2, Numbers
      <4>4. n + 1 = DstBytes => ~(n + 1 < DstBytes)
        BY <3>2, Numbers
      <4>5. QED
        BY <2>3, <3>3, <4>1, <4>2, <4>3, <4>4
    <3>6. ASSUME NEW i \in 0 .. (n + 1) - 1, 2 + i < Limit
          PROVE  (IF w # None /\ w.at = 2 + i THEN w.v ELSE Landed(rx.b, 2 + i)) = Byte(f, i)
      <4>1. i \in Nat /\ i <= n
        BY <3>2, <3>6
      <4>2. CASE i = n
        <5>1. rx.off < Limit /\ rx.off = 2 + i
          BY <3>3, <3>6, <4>1, <4>2, Numbers DEF Least
        <5>2. QED
          BY <2>4, <2>8, <4>2, <5>1
      <4>3. CASE i # n
        <5>1. i \in 0 .. n - 1
          BY <3>2, <4>1, <4>3
        <5>2. rx.off # 2 + i
          BY <3>2, <3>3, <3>6, <5>1, Numbers DEF Least
        <5>3. QED
          BY <2>4, <2>8, <3>3, <3>6, <5>1, <5>2
      <4>4. QED
        BY <4>2, <4>3
    <3>7. n + 1 \in Nat
      BY <3>2
    <3>8. Lands(w, f, n + 1)
      BY <3>6 DEF Lands
    <3>9. QED
      BY <1>1, <2>2, <2>3, <2>8, <3>2, <3>4, <3>5, <3>7, <3>8, Built
  <2>9. Received'
    <3>1. SUFFICES ASSUME rx'.active
                   PROVE  Building(Ahead(fifo).f, Ahead(fifo).i, 0)' /\ rx'.e = "none"
      BY <2>3 DEF Received
    <3>2. Ahead(fifo)'.f = fifo[1].f /\ Ahead(fifo)'.i = fifo[1].i + 1
      BY <1>5, <2>6 DEF After
    <3>3. \A f, n : f = fifo[1].f /\ n = fifo[1].i => Building(f, n + 1, 0)'
      BY <2>3, <2>8, <3>1
    <3>4. Building(Ahead(fifo).f, Ahead(fifo).i, 0)'
      BY <3>2, <3>3 DEF Building, Bytes, Landed, Byte
    <3>5. rx.e = "none"
      BY <1>1, <2>3, <3>1 DEF Received
    <3>6. QED
      BY <2>3, <3>4, <3>5
  <2>10. QED
    BY <2>5, <2>7, <2>9
<1>6. QED
  BY <1>3, <1>4, <1>5

\* The filler goes behind the bytes, as long as the FCS is.
LEMMA OnFcs ==
  ASSUME IInv, FInv, Fcs, ~soft_reset
  PROVE  BetweenFrames' /\ Received' /\ Kept'
<1>1. rx.state = "FCS" /\ RxOK(rx) /\ BetweenFrames /\ Received
  BY DEF Fcs, IInv, TypesOK, FInv
<1> DEFINE r == [rx EXCEPT !.off = UpTo(rx.off, Sat), !.cnt = rx.cnt + 1,
                           !.state = IF rx.cnt = FcsBytes - 1 THEN "ST0" ELSE "FCS"]
           w == IF rx.off < Limit THEN Here(rx.off, [w |-> "filler"]) ELSE None
<1>2. Engine(r, w, {}) /\ (w = None \/ (rx.active /\ w.b = rx.b))
  BY HereWrites DEF Fcs
<1>3. /\ rx' = r /\ r.state = (IF rx.cnt = FcsBytes - 1 THEN "ST0" ELSE "FCS")
      /\ r.b = rx.b /\ r.e = rx.e /\ r.active = rx.active /\ r.cnt = rx.cnt + 1
      /\ r.f = rx.f /\ r.n = rx.n /\ r.off = UpTo(rx.off, Sat) /\ r.dst = rx.dst
  BY <1>1, <1>2 DEF Engine, RxOK
<1>4. w # None => rx.off < Limit /\ w.at = rx.off
  BY DEF Here, None
<1> HIDE DEF r, w
<1>5. Kept'
  BY <1>1, <1>2, OnKept
<1>6. /\ Ahead(fifo)' = Ahead(fifo) /\ Ahead(fifo).i = 0
      /\ Len(sent) \in Nat /\ Len(sent') \in Nat /\ Len(sent') >= Len(sent)
      /\ rx.f \in 1 .. Len(sent) /\ sent'[rx.f] = sent[rx.f] /\ sent[rx.f].len \in Nat
  BY <1>1, <1>2, StreamStep DEF Takes, BetweenFrames
<1>7. BetweenFrames'
  BY <1>3, <1>6 DEF BetweenFrames
<1>8. ASSUME rx.active, NEW f, NEW n, NEW k, f = rx.f, n = sent[f].len, k = rx.cnt
      PROVE  k \in 0 .. FcsBytes - 1 /\ Building(f, n, k + 1)'
  <2>1. k \in 0 .. FcsBytes - 1 /\ Building(f, n, k)
    BY <1>1, <1>8 DEF Received
  <2>2. n \in Nat /\ k \in Nat /\ sent'[f] = sent[f]
    BY <1>6, <1>8, <2>1, Numbers
  <2>3. /\ rx.n = Least(n, Sat) /\ rx.off = Least(2 + n + k, Sat)
        /\ rx.dst = IF n < DstBytes THEN "other" ELSE sent[f].cls
        /\ \A i \in 0 .. n - 1 : 2 + i < Limit => Landed(rx.b, 2 + i) = Byte(f, i)
    BY <2>1 DEF Building, Bytes
  <2>4. r.off = Least(2 + n + (k + 1), Sat)
    BY <1>3, <2>2, <2>3, Numbers DEF Least, UpTo
  <2>5. ASSUME NEW i \in 0 .. n - 1, 2 + i < Limit
        PROVE  (IF w # None /\ w.at = 2 + i THEN w.v ELSE Landed(rx.b, 2 + i)) = Byte(f, i)
    <3>1. rx.off # 2 + i
      BY <2>2, <2>3, <2>5, Numbers DEF Least
    <3>2. QED
      BY <1>4, <2>3, <2>5, <3>1
  <2>6. r.b = rx.b /\ rx.state # "IDLE" /\ r.n = rx.n /\ r.dst = rx.dst
    BY <1>1, <1>3
  <2>7. Building(f, n, k + 1)'
    <3>1. Lands(w, f, n)
      BY <2>5 DEF Lands
    <3>2. QED
      BY <1>2, <1>8, <2>2, <2>3, <2>4, <2>6, <3>1, Built
  <2>8. QED
    BY <2>1, <2>7
<1>9. Received'
  <2>1. SUFFICES ASSUME rx.active PROVE Received'
    BY <1>3 DEF Received
  <2>2. \A f, n, k : f = rx.f /\ n = sent[f].len /\ k = rx.cnt => Building(f, n, k + 1)'
    BY <1>8, <2>1
  <2>3. rx.cnt \in 0 .. FcsBytes - 1
    BY <1>8, <2>1
  <2>4. Building(rx.f, sent[rx.f].len, rx.cnt)'
    BY <1>3, <1>6, <2>2 DEF Building, Bytes, Landed, Byte
  <2>5. rx'.e = sent'[rx'.f].err
    BY <1>1, <1>3, <1>6, <2>1 DEF Received
  <2>6. CASE rx.cnt = FcsBytes - 1
    <3>1. rx'.cnt = FcsBytes /\ rx'.state = "ST0"
      BY <1>3, <2>6, Numbers
    <3>2. Building(rx.f, sent[rx.f].len, FcsBytes)'
      BY <2>4, <3>1 DEF Building, Bytes, Landed, Byte
    <3>3. QED
      BY <2>5, <3>1, <3>2 DEF Received
  <2>7. CASE rx.cnt # FcsBytes - 1
    <3>1. rx'.cnt \in 0 .. FcsBytes - 1 /\ rx'.state = "FCS"
      BY <1>3, <2>3, <2>7, Numbers
    <3>2. QED
      BY <2>4, <2>5, <3>1 DEF Received
  <2>8. QED
    BY <2>6, <2>7
<1>10. QED
  BY <1>5, <1>7, <1>9

\* The first byte of the status goes in front of the bytes.
LEMMA OnSt0 ==
  ASSUME IInv, FInv, St0, ~soft_reset
  PROVE  BetweenFrames' /\ Received' /\ Kept'
<1>1. rx.state = "ST0" /\ RxOK(rx) /\ BetweenFrames /\ Received
  BY DEF St0, IInv, TypesOK, FInv
<1> DEFINE r == [rx EXCEPT !.state = "ST1"]
           w == Here(0, Status)
<1>2. Engine(r, w, {}) /\ (w = None \/ (rx.active /\ w.b = rx.b))
  BY HereWrites DEF St0
<1>3. /\ rx' = r /\ r.state = "ST1"
      /\ r.b = rx.b /\ r.e = rx.e /\ r.active = rx.active
      /\ r.f = rx.f /\ r.n = rx.n /\ r.off = rx.off /\ r.dst = rx.dst
  BY <1>1, <1>2 DEF Engine, RxOK
<1>4. /\ w # None => w.at = 0
      /\ rx.active => w # None /\ w.v = Status
  BY DEF Here, None
<1> HIDE DEF r, w
<1>5. Kept'
  BY <1>1, <1>2, OnKept
<1>6. /\ Ahead(fifo)' = Ahead(fifo) /\ Ahead(fifo).i = 0
      /\ Len(sent) \in Nat /\ Len(sent') \in Nat /\ Len(sent') >= Len(sent)
      /\ rx.f \in 1 .. Len(sent) /\ sent'[rx.f] = sent[rx.f] /\ sent[rx.f].len \in Nat
  BY <1>1, <1>2, StreamStep DEF Takes, BetweenFrames
<1>7. BetweenFrames'
  BY <1>3, <1>6 DEF BetweenFrames
<1>8. ASSUME rx.active, NEW f, NEW n, f = rx.f, n = sent[f].len
      PROVE  Building(f, n, FcsBytes)'
  <2>1. Building(f, n, FcsBytes)
    BY <1>1, <1>8 DEF Received
  <2>2. n \in Nat /\ sent'[f] = sent[f]
    BY <1>6, <1>8
  <2>3. /\ rx.n = Least(n, Sat) /\ rx.off = Least(2 + n + FcsBytes, Sat)
        /\ rx.dst = IF n < DstBytes THEN "other" ELSE sent[f].cls
        /\ \A i \in 0 .. n - 1 : 2 + i < Limit => Landed(rx.b, 2 + i) = Byte(f, i)
    BY <2>1 DEF Building, Bytes
  <2>4. ASSUME NEW i \in 0 .. n - 1, 2 + i < Limit
        PROVE  (IF w # None /\ w.at = 2 + i THEN w.v ELSE Landed(rx.b, 2 + i)) = Byte(f, i)
    BY <1>4, <2>2, <2>3, <2>4
  <2>5. r.b = rx.b /\ rx.state # "IDLE" /\ r.n = rx.n /\ r.off = rx.off /\ r.dst = rx.dst
    BY <1>1, <1>3
  <2>6. QED
    <3>1. Lands(w, f, n)
      BY <2>4 DEF Lands
    <3>2. QED
      BY <1>2, <1>8, <2>2, <2>3, <2>5, <3>1, Built
<1>9. Received'
  <2>1. SUFFICES ASSUME rx.active PROVE Received'
    BY <1>3 DEF Received
  <2>2. \A f, n : f = rx.f /\ n = sent[f].len => Building(f, n, FcsBytes)'
    BY <1>8, <2>1
  <2>3. Building(rx.f, sent[rx.f].len, FcsBytes)'
    BY <1>3, <1>6, <2>2 DEF Building, Bytes, Landed, Byte
  <2>4. rx'.e = sent'[rx'.f].err
    BY <1>1, <1>3, <1>6, <2>1 DEF Received
  <2>5. \A b : b = rx.b => Landed(b, 0)' = Status
    BY <1>1, <1>2, <1>4, <2>1, Fills, CellOf
  <2>6. Landed(rx.b, 0)' = Status
    BY <1>3, <2>5 DEF Landed
  <2>7. Status' = Status
    BY <1>3 DEF Status, rx_rg
  <2>8. QED
    BY <1>3, <2>3, <2>4, <2>6, <2>7 DEF Received
<1>10. QED
  BY <1>5, <1>7, <1>9

\* The second completes the frame, and an accepted one is handed over.
LEMMA OnSt1 ==
  ASSUME IInv, FInv, St1, ~soft_reset
  PROVE  BetweenFrames' /\ Received' /\ Kept'
<1>1. rx.state = "ST1" /\ RxOK(rx) /\ BetweenFrames
  BY DEF St1, IInv, TypesOK, FInv
<1> DEFINE r  == [rx EXCEPT !.state = "IDLE",
                            !.last_b = IF rx_accept THEN rx.b = "B" ELSE @]
           fs == IF rx_accept THEN {rx.b} ELSE {}
<1>2. Engine(r, Here(1, Status), fs)
  BY DEF St1
<1>3. rx' = r /\ r.state = "IDLE"
  BY <1>1, <1>2 DEF Engine, RxOK
<1>4. fs = {} \/ (fs = {rx.b} /\ rx.active)
  BY DEF rx_accept
<1> HIDE DEF r, fs
<1>5. Kept'
  BY <1>1, <1>2, <1>4, HereWrites, OnKept
<1>6. Ahead(fifo)' = Ahead(fifo) /\ Ahead(fifo).i = 0
  BY <1>1, <1>2, StreamStep DEF Takes, BetweenFrames
<1>7. BetweenFrames' /\ Received'
  BY <1>3, <1>6 DEF BetweenFrames, Received
<1>8. QED
  BY <1>5, <1>7

\* As long as the rest of a frame comes before a buffer can be given back, every
\* step of the card, the wire and the host keeps the frames whole.
LEMMA StepFInv ==
  ASSUME Pace <= HeldFor + Gap + 1, IInv, FInv, [Edge]_vars
  PROVE  FInv'
<1>1. CASE Edge
  <2>1. PICK r, w, fs : Engine(r, w, fs)
    BY <1>1, EdgeEngine
  <2>2. Chained(fifo)' /\ ClocksOK'
    BY <2>1, StreamStep, ClocksStep
  <2>3. BetweenFrames' /\ Received' /\ Kept'
    <3>1. CASE soft_reset
      BY <2>1, <3>1, OnReset
    <3>2. CASE ~soft_reset
      BY <1>1, <3>2, OnIdle, OnData, OnFcs, OnSt0, OnSt1 DEF Edge
    <3>3. QED
      BY <3>1, <3>2
  <2>4. QED
    BY <2>2, <2>3 DEF FInv
<1>2. CASE UNCHANGED vars
  <2>1. /\ UNCHANGED <<sent, at, late, fifo, sw, rbba>> /\ UNCHANGED <<pa, rx, rxw, buf>>
        /\ UNCHANGED <<host, since, filled>>
    BY <1>2 DEF vars, wire
  <2>2. Chained(fifo)' /\ Ahead(fifo)' = Ahead(fifo)
    BY <2>1 DEF FInv, Chained, Ahead, Tip, UnderWay, Place, After
  <2>3. soft_reset' = soft_reset /\ ClocksOK' /\ Soon' = Soon
    BY <2>1 DEF FInv, ClocksOK, Soon, soft_reset, CsrWrite
  <2>4. BetweenFrames'
    BY <2>1, <2>2, <2>3 DEF FInv, BetweenFrames
  <2>5. Received'
    BY <2>1, <2>2 DEF FInv, Received, Building, Bytes, Landed, Byte, Status, rx_rg
  <2>6. Kept'
    BY <2>1 DEF FInv, Kept, Handed, Landed, StatusOf, Bytes, Byte
  <2>7. QED
    BY <2>2, <2>3, <2>4, <2>5, <2>6 DEF FInv
<1>3. QED
  BY <1>1, <1>2

\* A buffer the host owns, once the last write has landed, holds one whole frame
\* and its status: for any traffic and any lengths, and for every pace of the
\* wire and the host at which the next word of a frame comes before the host,
\* having reset the card in mid-frame, can have given a buffer back.
THEOREM WholeFrames ==
  ASSUME Pace <= HeldFor + Gap + 1
  PROVE  Spec => []WholeFrame
<1>1. FInv => WholeFrame
  <2>1. SUFFICES ASSUME FInv, NEW b \in Bufs, Handed(b), ~Landing(b)
                 PROVE  Holds(b, filled[b])
    BY DEF WholeFrame
  <2>2. /\ Landed(b, 0) = StatusOf(filled[b]) /\ Landed(b, 1) = StatusOf(filled[b])
        /\ Bytes(b, filled[b], sent[filled[b]].len)
    BY <2>1 DEF FInv, Kept
  <2>3. \A c : Landed(b, c) = buf[b][c]
    BY <2>1 DEF Landed, Landing
  <2>4. QED
    BY <2>2, <2>3 DEF Holds, StatusOf, Bytes
<1>2. QED
  BY InHand, InitFInv, StepFInv, <1>1, PTL DEF Spec
-----------------------------------------------------------------------------
(* The card as a whole: its receive half is the one above. *)

\* Every behaviour of the card is one of its receive half, so that what is
\* proved of that holds of the card.
THEOREM ReceiveHalf == CardSpec => Spec
<1>1. CardInit => Init
  BY DEF CardInit
<1>2. [CardNext]_cardvars => [Edge]_vars
  BY DEF CardNext, cardvars, Transmit, Edge
<1>3. QED
  BY <1>1, <1>2, PTL DEF CardSpec, Spec
-----------------------------------------------------------------------------
(* The transmit half. *)

Bits == {tx_go, dn1, dn2, go1, go2, tbsw, disturbed} \subseteq BOOLEAN

\* A frame being sent is the card's, and so stays as it is.
Lent ==
  /\ tstate \in {"IDLE", "GO", "WAIT"} /\ mii \in {"IDLE", "SENDING", "DONE"}
  /\ tx_go <=> tstate = "GO"
  /\ tstate = "GO" => tbsw /\ tx_len = Top - mexhdr

\* The four phases of an exchange no reset has come upon: go rises through the
\* crossing, done after it, and both fall again in that order.
FourPhases ==
  ~disturbed =>
    /\ tstate = "IDLE" => T!Quiet
    /\ tstate = "GO" => /\ go2 => go1
                        /\ mii # "IDLE" => go2
                        /\ dn1 => mii = "DONE"
                        /\ dn2 => dn1
                        /\ mii # "IDLE" => seen = {<<tbuf, mexhdr, Top - mexhdr>>}
    /\ tstate = "WAIT" => /\ go1 => go2
                          /\ go2 => mii = "DONE"
                          /\ mii # "SENDING"
                          /\ mii = "DONE" => dn1
                          /\ dn1 => dn2

TxInv == Bits /\ Lent /\ FourPhases

\* Nothing is under way.
LEMMA InitTx == CardInit => TxInv
BY DEF CardInit, T!Init, TxInv, Bits, Lent, FourPhases, T!Quiet

\* An edge of CLK.
LEMMA ClkTx == ASSUME TxInv, T!Clk PROVE TxInv'
<1>1. /\ tbsw' = (~T!tx_take /\ ~T!soft_reset /\ (tbsw \/ txhost.kind = "give"))
      /\ dn1' = (mii = "DONE") /\ dn2' = dn1
      /\ disturbed' = (~T!Quiet /\ (disturbed \/ T!soft_reset))
      /\ UNCHANGED <<go1, go2, mii, seen>>
      /\ tbuf' = IF txhost.kind = "write" /\ ~tbsw THEN txhost.text ELSE tbuf
      /\ mexhdr' = IF T!soft_reset THEN 0
                   ELSE IF txhost.kind = "header" /\ ~tbsw THEN txhost.off ELSE mexhdr
  BY DEF T!Clk, T!buffer_write, T!phy
<1>2. T!Sequencer
  BY DEF T!Clk
<1>3. CASE T!soft_reset
  <2>1. tstate' = "IDLE" /\ tx_go' = FALSE
    BY <1>2, <1>3 DEF T!Sequencer
  <2>2. Bits'
    BY <1>1, <2>1 DEF TxInv, Bits
  <2>3. Lent'
    BY <1>1, <2>1 DEF TxInv, Lent
  <2>4. FourPhases'
    BY <1>1, <1>3, <2>1 DEF TxInv, Bits, FourPhases, T!Quiet
  <2>5. QED
    BY <2>2, <2>3, <2>4 DEF TxInv
<1>4. CASE ~T!soft_reset /\ tstate = "IDLE" /\ ~tbsw /\ UNCHANGED <<tstate, tx_go, tx_len>>
  <2>1. Bits'
    BY <1>1, <1>4 DEF TxInv, Bits
  <2>2. Lent'
    BY <1>1, <1>4 DEF TxInv, Lent
  <2>3. FourPhases'
    BY <1>1, <1>4 DEF TxInv, Bits, FourPhases, T!Quiet
  <2>4. QED
    BY <2>1, <2>2, <2>3 DEF TxInv
<1>5. CASE ~T!soft_reset /\ tstate = "IDLE" /\ tbsw /\ tx_len' = T!tx_length
           /\ tx_go' = TRUE /\ tstate' = "GO"
  <2>1. tbsw' = TRUE /\ tbuf' = tbuf /\ mexhdr' = mexhdr
    BY <1>1, <1>5 DEF T!tx_take, TxInv, Bits
  <2>2. Bits'
    BY <1>1, <1>5, <2>1 DEF TxInv, Bits
  <2>3. Lent'
    BY <1>1, <1>5, <2>1 DEF TxInv, Lent, T!tx_length
  <2>4. FourPhases'
    BY <1>1, <1>5, <2>1 DEF TxInv, Bits, FourPhases, T!Quiet
  <2>5. QED
    BY <2>2, <2>3, <2>4 DEF TxInv
<1>6. CASE ~T!soft_reset /\ tstate = "GO" /\ tx_go' = ~dn2
           /\ tstate' = (IF dn2 THEN "WAIT" ELSE "GO") /\ UNCHANGED tx_len
  <2>1. tbuf' = tbuf /\ mexhdr' = mexhdr /\ tbsw = TRUE /\ tx_go = TRUE
    BY <1>1, <1>6 DEF TxInv, Bits, Lent
  <2>2. Bits'
    BY <1>1, <1>6 DEF TxInv, Bits
  <2>3. Lent'
    BY <1>1, <1>6, <2>1, <2>2 DEF TxInv, Lent, Bits, T!tx_take
  <2>4. FourPhases'
    BY <1>1, <1>6, <2>1 DEF TxInv, Bits, Lent, FourPhases, T!Quiet
  <2>5. QED
    BY <2>2, <2>3, <2>4 DEF TxInv
<1>7. CASE ~T!soft_reset /\ tstate = "WAIT" /\ tstate' = (IF dn2 THEN "WAIT" ELSE "IDLE")
           /\ UNCHANGED <<tx_go, tx_len>>
  <2>1. Bits'
    BY <1>1, <1>7 DEF TxInv, Bits
  <2>2. Lent'
    BY <1>1, <1>7 DEF TxInv, Lent
  <2>3. FourPhases'
    BY <1>1, <1>7 DEF TxInv, Bits, Lent, FourPhases, T!Quiet
  <2>4. QED
    BY <2>1, <2>2, <2>3 DEF TxInv
<1>8. QED
  BY <1>2, <1>3, <1>4, <1>5, <1>6, <1>7 DEF T!Sequencer, T!HandedBack

\* An edge of mii_tx_clk.
LEMMA MiiTx == ASSUME TxInv, T!Mii PROVE TxInv'
<1>1. /\ go1' = tx_go /\ go2' = go1
      /\ UNCHANGED <<tbuf, mexhdr, tbsw, tstate, tx_go, tx_len, dn1, dn2, disturbed>>
      /\ \/ mii = "IDLE" /\ ~go2 /\ UNCHANGED <<mii, seen>>
         \/ mii = "IDLE" /\ go2 /\ mii' = "SENDING" /\ seen' = T!Watched({})
         \/ mii = "SENDING" /\ mii' \in {"SENDING", "DONE"} /\ seen' = T!Watched(seen)
         \/ mii = "DONE" /\ mii' = (IF go2 THEN "DONE" ELSE "IDLE") /\ UNCHANGED seen
  BY DEF T!Mii, T!buffer, T!seq
<1>2. Bits' /\ Lent'
  BY <1>1 DEF TxInv, Bits, Lent
<1>3. tstate = "GO" /\ ~disturbed =>
        \A before : T!Watched(before) = before \cup {<<tbuf, mexhdr, Top - mexhdr>>}
  BY DEF T!Watched, T!Reading, TxInv, Lent
<1>4. FourPhases'
  <2>1. SUFFICES ASSUME ~disturbed PROVE FourPhases'
    BY <1>1 DEF FourPhases
  <2>2. CASE tstate = "IDLE"
    BY <1>1, <2>1, <2>2 DEF TxInv, Bits, Lent, FourPhases, T!Quiet
  <2>3. CASE tstate = "GO"
    <3>1. /\ go2 => go1
          /\ mii # "IDLE" => go2
          /\ dn1 => mii = "DONE"
          /\ dn2 => dn1
          /\ mii # "IDLE" => seen = {<<tbuf, mexhdr, Top - mexhdr>>}
          /\ tx_go = TRUE
      BY <2>1, <2>3 DEF TxInv, Bits, Lent, FourPhases
    <3>2. mii' # "IDLE" => seen' = {<<tbuf, mexhdr, Top - mexhdr>>}
      BY <1>1, <1>3, <2>1, <2>3, <3>1
    <3>3. QED
      BY <1>1, <2>1, <2>3, <3>1, <3>2 DEF TxInv, Bits, FourPhases
  <2>4. CASE tstate = "WAIT"
    BY <1>1, <2>1, <2>4 DEF TxInv, Bits, Lent, FourPhases
  <2>5. QED
    BY <2>2, <2>3, <2>4 DEF TxInv, Lent
<1>5. QED
  BY <1>2, <1>4 DEF TxInv

\* When the card gives the buffer back, what has been on the wire is the frame
\* that is in it, all of it and nothing else, unless RESET came upon the
\* exchange: for any texts and offsets, and any way the two clocks interleave.
THEOREM TheFrameIsSent == CardSpec => SentIsTaken
<1>1. ASSUME TxInv, [CardNext]_cardvars PROVE TxInv'
  <2>1. CASE T!Clk
    BY <1>1, <2>1, ClkTx
  <2>2. CASE T!Mii
    BY <1>1, <2>2, MiiTx
  <2>3. CASE UNCHANGED txvars
    BY <1>1, <2>3 DEF txvars, TxInv, Bits, Lent, FourPhases, T!Quiet
  <2>4. QED
    BY <1>1, <2>1, <2>2, <2>3 DEF CardNext, cardvars, Receive
<1>2. TxInv => (T!tx_take /\ ~T!soft_reset /\ ~disturbed
                  => seen = {<<tbuf, mexhdr, Top - mexhdr>>})
  BY DEF T!tx_take, TxInv, Bits, Lent, FourPhases
<1>3. QED
  BY InitTx, <1>1, <1>2, PTL DEF CardSpec, SentIsTaken, T!SentIsTaken
=============================================================================
