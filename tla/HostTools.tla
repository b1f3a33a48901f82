----------------------------- MODULE HostTools ------------------------------
(***************************************************************************)
(* The tools under src/tools that run under SunOS or on the host:          *)
(*   patwr     a self-describing pattern on the disk, through the kernel's *)
(*             buffer cache, verified at once and again after a reboot     *)
(*   memdwell  the same idea in memory, left alone for a while             *)
(*   memchk    memory filled with constants and walked for wrong words     *)
(*   netchk    a pattern received over TCP in pieces of any size           *)
(*   rompatch  guarded patches applied to a PROM image                     *)
(* They share the variables of the boot blocks: m is what the tool runs    *)
(* against, with its faults, r the tool's own state.                       *)
(***************************************************************************)
EXTENDS ProbeMachine, Integers, FiniteSetsExt

CONSTANTS
  NSec,        \* sectors of the patwr file
  WPS,         \* words per sector, 256
  PosMod,      \* values of the sector field of a pattern word, 128
  MemWords,    \* memchk's buffer, NLONG
  LoopWords,   \* longwords one dbra of memloop.s counts, 32768
  NetBuf,      \* netchk's BUFSZ, in longwords
  NetTotal     \* longwords of the stream

ASSUME HostAssumption ==
  /\ {NSec, WPS, PosMod, MemWords, LoopWords, NetBuf, NetTotal} \subseteq Nat \ {0}
  /\ NetTotal % NetBuf = 0 /\ NSec < PosMod
-----------------------------------------------------------------------------
(* patwr.                                                                  *)

Offsets == 0..(WPS - 1)
SecIds  == 0..(NSec - 1)

\* A word: the generation in its tag bit, and the position in the rest.
patword(sec, off)  == [gen |-> "new", sec |-> sec % PosMod, off |-> off]
fillword(sec, off) == [gen |-> "old", sec |-> sec % PosMod, off |-> off]

\* What a zero word decodes to.
ZeroWord == [gen |-> "old", sec |-> 0, off |-> 0]

\* report(): the displacement, taken modulo the window.
Displacement(sec, off, w) ==
  LET dw == ((w.sec - (sec % PosMod)) % PosMod) * WPS + (w.off - off)
  IN IF dw > (PosMod \div 2) * WPS THEN dw - PosMod * WPS ELSE dw

Class(sec, off, w) ==
  IF w.gen = "old" /\ Displacement(sec, off, w) = 0 THEN "never written"
  ELSE IF w.gen = "new" THEN "new displaced" ELSE "old displaced"

PatFaults == {"dropped", "shifted", "badRead"}

\* The kernel: the medium, the blocks its cache holds, those not yet written,
\* and whether the one corruption of the run has happened.
Uncached == <<>>
PatInit ==
  /\ m \in [ faults : FaultSets(PatFaults), medium : {[s \in SecIds |-> [o \in Offsets |-> ZeroWord]]},
             cache : {[s \in SecIds |-> Uncached]}, dirty : {{}}, hit : {FALSE} ]
  /\ pc = "fill" /\ said = NoVerdict
  /\ r = [next |-> 0]

\* What reaches the medium when a block is written: the new generation may
\* lose one word, or carry the word before in its place.
Reaches(mm, s) ==
  LET c == mm.cache[s]
      strikes == ~mm.hit /\ c[0].gen = "new"
  IN {c} \cup
     (IF strikes /\ Has(mm, "dropped")
      THEN {[c EXCEPT ![o] = mm.medium[s][o]] : o \in Offsets} ELSE {}) \cup
     (IF strikes /\ Has(mm, "shifted")
      THEN {[c EXCEPT ![o] = c[o - 1]] : o \in Offsets \ {0}} ELSE {})

\* The kernel writes a dirty block when it likes, and forgets a clean one.
PatFlush ==
  /\ prog = "patwr"
  /\ \E s \in m.dirty : \E c \in Reaches(m, s) :
       m' = [m EXCEPT !.medium[s] = c, !.dirty = @ \ {s}, !.hit = @ \/ c # m.cache[s]]
  /\ UNCHANGED <<prog, pc, r, said>>

PatEvict ==
  /\ prog = "patwr"
  /\ \E s \in SecIds \ m.dirty :
       /\ m.cache[s] # Uncached
       /\ m' = [m EXCEPT !.cache[s] = Uncached]
  /\ UNCHANGED <<prog, pc, r, said>>

\* write() of one sector: -f the old generation, otherwise the new one.
PatWrite(place, gen, then) ==
  /\ At("patwr", place)
  /\ m' = [m EXCEPT !.cache[r.next] = [o \in Offsets |-> IF gen = "new" THEN patword(r.next, o)
                                                                  ELSE fillword(r.next, o)],
                    !.dirty = @ \cup {r.next}]
  /\ IF r.next + 1 < NSec
     THEN r' = [next |-> r.next + 1] /\ UNCHANGED <<prog, pc>>
     ELSE r' = [next |-> 0] /\ Goto(then)
  /\ UNCHANGED said

\* sync(), after the fill as after the pattern.
PatSync(place, then) ==
  /\ At("patwr", place) /\ m.dirty = {}
  /\ Goto(then) /\ UNCHANGED <<m, r, said>>

\* A block read from the medium: one word may come back as its neighbour.
Arrives(mm, s) ==
  LET c == mm.medium[s]
  IN {c} \cup (IF ~mm.hit /\ Has(mm, "badRead")
               THEN {[c EXCEPT ![o] = c[o - 1]] : o \in Offsets \ {0}} ELSE {})

\* read() and the comparison of one sector: through the cache when it is there.
PatVerify(place, then) ==
  /\ At("patwr", place)
  /\ LET s == r.next
     IN \E c \in (IF m.cache[s] # Uncached THEN {m.cache[s]} ELSE Arrives(m, s)) :
          /\ m' = [m EXCEPT !.cache[s] = c,
                            !.hit = @ \/ (m.cache[s] = Uncached /\ c # m.medium[s])]
          /\ Says(place, {Class(s, o, c[o]) : o \in {x \in Offsets : c[x] # patword(s, x)}})
          /\ IF s + 1 < NSec
             THEN r' = [next |-> s + 1] /\ UNCHANGED <<prog, pc>>
             ELSE r' = [next |-> 0] /\ Goto(then)

\* The reboot between the two verifies: the cache is gone, and synced before.
PatReboot ==
  /\ At("patwr", "reboot") /\ m.dirty = {}
  /\ m' = [m EXCEPT !.cache = [s \in SecIds |-> Uncached]]
  /\ Goto("cold") /\ UNCHANGED <<r, said>>

PatNext == \/ PatFlush \/ PatEvict
           \/ PatWrite("fill", "old", "fill sync") \/ PatSync("fill sync", "write")
           \/ PatWrite("write", "new", "sync") \/ PatSync("sync", "warm")
           \/ PatVerify("warm", "reboot") \/ PatReboot \/ PatVerify("cold", "done")

PatBlames(v) ==
  CASE v[2] = "never written" -> {"dropped"}
    [] v[2] = "new displaced" -> {"shifted", "badRead"}
    [] OTHER                  -> {}
-----------------------------------------------------------------------------
(* memdwell: pass 1 verifies at once, the later ones after the dwell.      *)

DwellFaults == {"rots", "reads"}
DwellInit ==
  /\ m \in [faults : FaultSets(DwellFaults), buf : {[i \in 0..(MemWords - 1) |-> 0]}]
  /\ pc = "control" /\ said = NoVerdict /\ r = [pass |-> 1]

Somewhere(f) == IF Has(m, f) THEN (SUBSET DOMAIN m.buf) \ {{}} ELSE {{}}

\* fill(), the wait, verify(): a word that rotted, or is read wrong.
DwellPass ==
  /\ prog = "memdwell" /\ pc \in {"control", "dwell"}
  /\ \E rot \in (IF pc = "control" THEN {{}} ELSE Somewhere("rots")), bad \in Somewhere("reads") :
       /\ m' = [m EXCEPT !.buf = [i \in DOMAIN @ |-> IF i \in rot THEN 0 ELSE i + 1]]
       /\ Says(pc, IF {i \in DOMAIN m.buf : m'.buf[i] # i + 1} \cup bad # {} THEN {"wrong"} ELSE {"right"})
  /\ Goto(IF pc = "control" THEN "dwell" ELSE "done") /\ UNCHANGED r

DwellBlames(v) ==
  CASE v = <<"control", "wrong">> -> {"reads"}
    [] v = <<"dwell", "wrong">>   -> {"reads", "rots"}
    [] OTHER                      -> {}
-----------------------------------------------------------------------------
(* memchk and memloop.s: longs p..p+n-1, chunk by chunk.                   *)

ChkFaults == {"intrudes", "survives", "elsewhere"}
ChkVals   == <<"zeros", "ones", "fives">>
ChkInit ==
  /\ m \in [faults : FaultSets(ChkFaults), buf : {[i \in 0..(MemWords - 1) |-> "boot"]}]
  /\ pc = "mfill" /\ said = NoVerdict
  /\ r = [i |-> 1, p |-> 0, n |-> 0, nbad |-> 0]

\* mfill: some words keep what the pass before left, or hold program text, or
\* come from elsewhere in this buffer, which a constant cannot show.
MFill ==
  /\ At("memchk", "mfill")
  /\ \E text \in Somewhere("intrudes"), old \in Somewhere("survives") :
       m' = [m EXCEPT !.buf = [i \in DOMAIN @ |-> IF i \in text THEN "text"
                                                 ELSE IF i \in old THEN @[i] ELSE ChkVals[r.i]]]
  /\ r' = [r EXCEPT !.p = 0, !.n = MemWords, !.nbad = 0]
  /\ Goto("walk") /\ UNCHANGED said

\* mcheck: the first word that differs, looked for in chunks of LoopWords.
Chunks_whole(p, n) == {k \in 0..(n - 1) : k % LoopWords = 0 /\ k + LoopWords <= n}
Chunks(p, n) == {k \in 0..(n - 1) : k % LoopWords = 0}
BadIn(p, n, k) ==
  {x \in (p + k)..(p + (IF n - k < LoopWords THEN n ELSE k + LoopWords) - 1) : m.buf[x] # ChkVals[r.i]}
MCheck(p, n) ==
  LET hit == {k \in Chunks(p, n) : BadIn(p, n, k) # {}}
  IN IF hit = {} THEN -1 ELSE Min(BadIn(p, n, Min(hit)))

\* The walk restarts past each bad word.
ChkWalk_again ==
  /\ At("memchk", "walk") /\ r.n > 0 /\ MCheck(r.p, r.n) # -1
  /\ LET bad == MCheck(r.p, r.n)
     IN r' = [r EXCEPT !.n = @ - (bad - r.p), !.p = bad, !.nbad = @ + 1]
  /\ UNCHANGED <<prog, pc, m, said>>
ChkWalk ==
  /\ At("memchk", "walk") /\ r.n > 0 /\ MCheck(r.p, r.n) # -1
  /\ LET bad == MCheck(r.p, r.n)
     IN r' = [r EXCEPT !.n = @ - ((bad - r.p) + 1), !.p = bad + 1, !.nbad = @ + 1]
  /\ UNCHANGED <<prog, pc, m, said>>

ChkPass ==
  /\ At("memchk", "walk") /\ (r.n > 0 => MCheck(r.p, r.n) = -1)
  /\ Says("memchk", IF r.nbad = 0 THEN {"right"} ELSE {"wrong"})
  /\ IF r.i < Len(ChkVals)
     THEN r' = [r EXCEPT !.i = @ + 1] /\ Goto("mfill")
     ELSE r' = r /\ Goto("done")
  /\ UNCHANGED m

\* Every wrong word behind the walk has been counted, once.
ChkCounted == pc = "walk" => r.nbad = Cardinality({x \in 0..(r.p - 1) : m.buf[x] # ChkVals[r.i]})

ChkBlames(v) == IF v = <<"memchk", "wrong">> THEN {"intrudes", "survives"} ELSE {}
-----------------------------------------------------------------------------
(* netchk: the receiving side.                                             *)

NetFaults == {"corrupts", "shifts", "cut"}
\* A stream whose pattern repeats with the buffer: position i carries i % NetBuf.
NetInit ==
  /\ m \in { [faults |-> f, sent |-> s, at |-> 0] : f \in FaultSets(NetFaults),
             s \in { [i \in 0..(NetTotal - 1) |-> IF i \in bad THEN -1 ELSE i % NetBuf] :
                       bad \in {b \in SUBSET (0..(NetTotal - 1)) : Cardinality(b) <= 1} } }
  /\ Has(m, "corrupts") <=> \E i \in DOMAIN m.sent : m.sent[i] = -1
  /\ pc = "connect" /\ said = NoVerdict
  /\ r = [buf |-> <<>>, done |-> 0, nbad |-> 0, end |-> FALSE]

\* connect(); a fault that shifts loses one longword before the first.
NetConnect ==
  /\ At("netchk", "connect")
  /\ m' = [m EXCEPT !.at = IF Has(m, "shifts") THEN 1 ELSE 0]
  /\ Goto("read") /\ UNCHANGED <<r, said>>

\* read() returns some of what is left, no more than the buffer has room for;
\* a whole buffer is compared and counted.
NetRead ==
  /\ At("netchk", "read") /\ r.done < NetTotal /\ ~r.end
  /\ \E n \in 1..(NetBuf - Len(r.buf)) :
       /\ m.at + n <= NetTotal
       /\ m' = [m EXCEPT !.at = @ + n]
       /\ LET b == r.buf \o [k \in 1..n |-> m.sent[m.at + k - 1]]
          IN r' = IF Len(b) < NetBuf THEN [r EXCEPT !.buf = b]
                  ELSE [r EXCEPT !.buf = <<>>, !.done = @ + NetBuf,
                                 !.nbad = @ + Cardinality({k \in 1..NetBuf : b[k] # k - 1})]
  /\ UNCHANGED <<prog, pc, said>>

\* read() returns 0 or less: the other end is gone.
NetEnd ==
  /\ At("netchk", "read") /\ r.done < NetTotal /\ ~r.end
  /\ m.at = NetTotal \/ Has(m, "cut")
  /\ r' = [r EXCEPT !.end = TRUE]
  /\ UNCHANGED <<prog, pc, m, said>>

\* The summary, and the exit status: nbad alone decides it.
NetSay ==
  /\ At("netchk", "read") /\ (r.done >= NetTotal \/ r.end)
  /\ Says("netchk", (IF r.nbad # 0 THEN {"wrong"} ELSE {}) \cup
                    (IF r.done < NetTotal THEN {"short"} ELSE {}))
  /\ Goto("done") /\ UNCHANGED <<m, r>>

\* The longwords counted wrong are those that were, of the ones compared.
NetCounted ==
  pc \in {"read", "done"} =>
    LET first == IF Has(m, "shifts") THEN 1 ELSE 0
    IN r.nbad = Cardinality({k \in 0..(r.done - 1) : m.sent[first + k] # k % NetBuf})

NetBlames(v) ==
  CASE v[2] = "wrong" -> {"corrupts", "shifts"}
    [] v[2] = "short" -> {"cut", "shifts"}
    [] OTHER          -> {}
-----------------------------------------------------------------------------
(* rompatch: two patches, the second building on the first.                *)

RomFaults == {"otherImage", "badPatch"}
Patches(f) == << <<0, "a", "b">>, <<IF "badPatch" \in f THEN 9 ELSE 0, "b", "c">> >>
RomInit ==
  /\ m \in { [faults |-> f, rom |-> [x \in {0, 1} |-> IF "otherImage" \in f THEN "z" ELSE "a"],
              out |-> {}] : f \in FaultSets(RomFaults) }
  /\ pc = "apply" /\ said = NoVerdict /\ r = [i |-> 1]

\* apply(): range, then the word expected there; anything else is the end of
\* the program, before the output file is opened.
RomApply ==
  /\ At("rompatch", "apply") /\ r.i <= Len(Patches(m.faults))
  /\ LET p == Patches(m.faults)[r.i]
     IN IF p[1] \notin DOMAIN m.rom
        THEN Says("rom", {"out of range"}) /\ Goto("done") /\ UNCHANGED <<m, r>>
        ELSE IF m.rom[p[1]] # p[2]
        THEN Says("rom", {"not expected"}) /\ Goto("done") /\ UNCHANGED <<m, r>>
        ELSE /\ m' = [m EXCEPT !.rom[p[1]] = p[3]]
             /\ r' = [i |-> r.i + 1]
             /\ UNCHANGED <<prog, pc, said>>

RomWrite ==
  /\ At("rompatch", "apply") /\ r.i > Len(Patches(m.faults))
  /\ m' = [m EXCEPT !.out = {m.rom}]
  /\ Says("rom", {"right"})
  /\ Goto("done") /\ UNCHANGED r

RomBlames(v) ==
  CASE v[2] = "out of range" -> {"badPatch"}
    [] v[2] = "not expected" -> {"otherImage"}
    [] OTHER                 -> {}
-----------------------------------------------------------------------------
HostNext == PatNext \/ DwellPass \/ MFill \/ ChkWalk \/ ChkPass
              \/ NetConnect \/ NetRead \/ NetEnd \/ NetSay \/ RomApply \/ RomWrite
=============================================================================
