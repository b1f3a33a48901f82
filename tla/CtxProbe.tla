------------------------------ MODULE CtxProbe ------------------------------
(***************************************************************************)
(* src/tools/ctxprobe: the fault a forked child takes, and the context     *)
(* that is supposed to isolate it.  One action per case, in the order the  *)
(* block runs them: A B C G F H E.  A case prepares the maps, makes the    *)
(* access under test, puts the maps back and says what it saw.             *)
(***************************************************************************)
EXTENDS ProbeMachine

\* arm(): the discarded read of the bus error register.
CtxArm_not(mm) == mm
CtxArm(mm) == Rearmed(mm)

\* go_user: fetch the program in USER_VA, store its marker, trap back.
CtxGoUser(i) ==
  LET f == Try(i, "UP", "r", "user")
  IN IF f.fault THEN f ELSE Access(f.m, "UD", "w", "user")

CtxFaults == {"timeout", "unchecked", "bithigh", "bothctx", "fc3sup", "segall", "usersup",
              "fetchStuck", "absStuck", "absWrong", "incStuck", "incWrong",
              "decStuck", "decWrong", "decCrash"}
-----------------------------------------------------------------------------
CtxInit ==
  /\ m \in Machines(CtxFaults)
  /\ pc = "ctx start"
  /\ r = [was |-> m, user |-> PME_ALLOW, stack |-> PME_ALLOW, seg |-> "user"]
  /\ said = NoVerdict

\* main up to case A.  Interrupts are masked before anything is touched;
\* one that came earlier found the maps as the monitor set them.
CtxStart ==
  /\ At("ctxprobe", "ctx start")
  /\ \E i \in Interrupted(m) :
       /\ m' = [i.m EXCEPT !.masked = TRUE]
       /\ r' = [r EXCEPT !.user = getpgmap(m', "user"), !.seg = getsegmap(m', "user")]
  /\ Goto("A") /\ UNCHANGED said

\* A register read that names the fault: 88 or 08 is right, bit 2 is wrong.
CtxRegister(be, right) ==
  IF be \cap {"VALID", "PROTERR", "TIMEOUT"} = right THEN {"right"}
  ELSE IF "TIMEOUT" \in be THEN {"timeout"} ELSE {}

\* A  a user instruction fetch of a page marked kernel-only
CtxCaseA ==
  /\ At("ctxprobe", "A")
  /\ \E i \in Interrupted(setpgmap(CtxArm(m), "user", WithPerm(r.user, PERM_KERNTEXT))) :
       LET t == CtxGoUser(i)
       IN /\ m' = setpgmap(Rearmed(t.m), "user", r.user)
          /\ Says("A", IF ~t.fault THEN {"no fault"}
                       ELSE CtxRegister(getbuserr(t.m), {"VALID", "PROTERR"}))
  /\ Goto("B") /\ UNCHANGED r

\* B  the two context registers holding different values: does the
\* supervisor one stay, does the segment map write reach context 1 only, and
\* does a user fetch through context 1's invalid segment fault?  A supervisor
\* context that moved may take the block's own code away.
CtxCaseB ==
  /\ At("ctxprobe", "B")
  /\ LET in1  == setusercontext(CtxArm(m), 1)
         inv  == setsegmap(in1, "user", SEGINV)
         in0  == setusercontext(inv, 0)
     IN \/ /\ in1.sx # 0
           /\ m' = setusercontext(in1, 0)
           /\ \/ Says("B", {"supervisor moved"}) /\ Goto("ctx done")
              \/ Says("B", NoVerdict) /\ Goto("lost")
        \/ /\ in1.sx = 0 /\ getsegmap(in0, "user") # r.seg
           /\ m' = setsegmap(in0, "user", r.seg)
           /\ Says("B", {"landed in context 0"}) /\ Goto("ctx done")
        \/ /\ in1.sx = 0 /\ getsegmap(in0, "user") = r.seg
           /\ \E i \in Interrupted(setusercontext(in0, 1)) :
                LET t == CtxGoUser(i)
                IN /\ m' = IF t.fault THEN Rearmed(t.m) ELSE t.m
                   /\ Says("B", IF ~t.fault THEN {"no fault"}
                                ELSE CtxRegister(getbuserr(t.m), {"PROTERR"}))
           /\ Goto("C")
  /\ UNCHANGED r

\* C  the recovery: fix the map in the handler and rerun the fetch, then find
\* out whether STACK_VA is a page the other cases can use.
CtxCaseC ==
  /\ At("ctxprobe", "C")
  /\ LET in1  == setsegmap(setusercontext(CtxArm(m), 1), "user", r.seg)
         deny == setpgmap(in1, "user", WithPerm(r.user, PERM_KERNTEXT))
     IN \E i \in Interrupted(deny) :
          LET t    == Rerun(i, "UP", "r", "user", WithPerm(r.user, PERM_ALL), "fetch")
              back == setusercontext(setpgmap(t.m, "user", r.user), 0)
          IN /\ m' = back
             /\ Says("C", CASE t.took = 0 -> {"no fault"}
                            [] t.took > 0 /\ t.at = "right" -> {"right"}
                            [] OTHER -> {"never completed"})
             /\ r' = [r EXCEPT !.stack = getpgmap(back, "stack")]
             /\ Goto(IF "V" \in getpgmap(back, "stack").bits THEN "G" ELSE "ctx done")

\* G, F and E share their shape: deny STACK_VA everything, run one
\* instruction in supervisor mode with berr_fixup installed, restore.
CtxRestart(case, rw, kind, next) ==
  /\ At("ctxprobe", case)
  /\ \E i \in Interrupted(setpgmap(CtxArm(m), "stack", WithPerm(r.stack, PERM_NONE))) :
       LET t == Rerun(i, "SD", rw, "stack", WithPerm(r.stack, PERM_ALL), kind)
       IN /\ m' = setpgmap(t.m, "stack", r.stack)
          /\ IF t.at = "lost"
             THEN Says(case, NoVerdict) /\ Goto("lost")
             ELSE /\ Says(case, IF t.took > FIXUP_CAP THEN {"never converged"}
                                ELSE IF t.at = "right" THEN {"right"} ELSE {"wrong"})
                  /\ Goto(next)
  /\ UNCHANGED r

CtxCaseG == CtxRestart("G", "w", "abs", "F")    \* movel #imm,(abs)
CtxCaseF == CtxRestart("F", "r", "inc", "H")    \* movel (An)+,Dn
CtxCaseE == CtxRestart("E", "w", "dec", "ctx done")    \* movel Dn,-(An)

\* H  one permission bit clear, the shape copy-on-write leaves: a user read
\* must be granted and a user write refused.
CtxCaseH ==
  /\ At("ctxprobe", "H")
  /\ \E i \in Interrupted(setpgmap(CtxArm(m), "stack", WithPerm(r.stack, PERM_NO_USRW))) :
       LET load  == Try(i, "UD", "r", "stack")
           store == Access(CtxArm(load.m), "UD", "w", "stack")
       IN /\ m' = setpgmap(store.m, "stack", r.stack)
          /\ Says("H", CASE ~load.fault /\ store.fault  -> {"right"}
                         [] ~load.fault /\ ~store.fault -> {"write allowed"}
                         [] OTHER                       -> {"read faulted"})
  /\ Goto("E") /\ UNCHANGED r

\* done: both contexts 0, the page and its segment as they were.
CtxDone ==
  /\ At("ctxprobe", "ctx done")
  /\ m' = setpgmap(setsegmap(setusercontext(m, 0), "user", r.seg), "user", r.user)
  /\ Goto("done") /\ UNCHANGED <<r, said>>

CtxNext == CtxStart \/ CtxCaseA \/ CtxCaseB \/ CtxCaseC \/ CtxCaseG \/ CtxCaseF
             \/ CtxCaseH \/ CtxCaseE \/ CtxDone
-----------------------------------------------------------------------------
(* What the verdicts say of the hardware.                                  *)

\* The faults a complaint lays the blame on.
CtxBlames(v) ==
  CASE v = <<"A", "no fault">>            -> {"unchecked"}
    [] v \in {<<"A", "timeout">>, <<"B", "timeout">>} -> {"timeout"}
    [] v = <<"B", "supervisor moved">>    -> {"bothctx"}
    [] v = <<"B", "landed in context 0">> -> {"fc3sup", "segall"}
    [] v = <<"B", "no fault">>            -> {"usersup"}
    [] v = <<"C", "no fault">>            -> {"unchecked"}
    [] v = <<"C", "never completed">>     -> {"fetchStuck"}
    [] v[1] = "G" /\ v[2] # "right"       -> {"absStuck", "absWrong"}
    [] v[1] = "F" /\ v[2] # "right"       -> {"incStuck", "incWrong"}
    [] v[1] = "E" /\ v[2] # "right"       -> {"decStuck", "decWrong"}
    [] v = <<"H", "write allowed">>       -> {"unchecked", "bithigh"}
    [] v = <<"H", "read faulted">>        -> {"bithigh"}
    [] OTHER                              -> {}
=============================================================================
