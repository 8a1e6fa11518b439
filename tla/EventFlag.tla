----------------------------- MODULE EventFlag -----------------------------
(***************************************************************************)
(* The eventflags of core/kernel/port/event.c.  A pattern is a set of bits.*)
(***************************************************************************)
EXTENDS WaitObject

CONSTANTS Flg, Bit    \* eventflag IDs, the bits of a pattern

ASSUME FlgAssumption == Flg \subseteq WaitObj

VARIABLES
  flgbmap,          \* the eventflags that exist
  flgptn, flgatr,   \* fields of eventflag_t
  wflgptn,          \* field of task_t
  wfmode            \* argument of wai_flg(), kept while the call waits

flgVars == <<flgbmap, flgptn, flgatr, wflgptn, wfmode>>

WfMode == {"TWF_ANDW", "TWF_ORW"}

FlgTypeOK ==
  /\ flgbmap \subseteq Flg
  /\ flgptn \in [Flg -> SUBSET Bit]
  /\ flgatr \in [Flg -> SUBSET {"TA_CLR", "TA_WMUL"}]
  /\ wflgptn \in [Task -> SUBSET Bit]
  /\ wfmode \in [Task -> WfMode]

FlgInit ==
  /\ flgbmap = {}
  /\ flgptn = [f \in Flg |-> {}] /\ flgatr = [f \in Flg |-> {}]
  /\ wflgptn = [t \in Task |-> {}]
  /\ wfmode = [t \in Task |-> "TWF_ANDW"]

cre_flg(t, f, atr) ==
  /\ Running(t, "user")
  /\ f \notin flgbmap
  /\ flgbmap' = flgbmap \cup {f}
  /\ flgptn' = [flgptn EXCEPT ![f] = {}]
  /\ flgatr' = [flgatr EXCEPT ![f] = atr]
  /\ waitq' = [waitq EXCEPT !.head[f] = NULL, !.tail[f] = NULL]
  /\ UNCHANGED <<readyVars, tmq, tcbVars, cpuVars, pc, resched, waitObjVars,
                 wflgptn, wfmode>>

del_flg(t, f) ==
  /\ f \in flgbmap
  /\ BeginDelete(t, f, "del_flg")
  /\ UNCHANGED flgVars

del_flg_release(t) == ReleaseWaiter(t, "del_flg") /\ UNCHANGED flgVars

del_flg_end(t) ==
  /\ EndDelete(t, "del_flg")
  /\ flgbmap' = flgbmap \ {victim}
  /\ UNCHANGED <<flgptn, flgatr, wflgptn, wfmode>>

clr_flg(t, f, clrptn) ==
  /\ Running(t, "user")
  /\ f \in flgbmap
  /\ flgptn' = [flgptn EXCEPT ![f] = @ \cap clrptn]
  /\ UNCHANGED <<schedVars, waitObjVars, flgbmap, flgatr, wflgptn, wfmode>>

(* The first waiter whose pattern is set.  wflgatr is assigned nowhere, so *)
(* that the test for TWF_ORW always finds an AND wait.  The search ends    *)
(* there: queue_remove() clears the link that the loop would follow.       *)
FirstReleased(f, ptn) ==
  LET Scan[t \in Task \cup {NULL}] ==
        IF t = NULL THEN NULL
        ELSE IF wflgptn[t] \subseteq ptn THEN t ELSE Scan[waitq.next[t]]
  IN Scan[waitq.head[f]]

(* Wrong variant: only the first waiter is looked at.                      *)
set_flg_headonly(t, f, setptn) ==
  LET ptn == flgptn[f] \cup setptn
      h == waitq.head[f]
      w == IF h # NULL /\ wflgptn[h] \subseteq ptn THEN h ELSE NULL
  IN /\ Running(t, "user")
     /\ f \in flgbmap /\ setptn # {}
     /\ IF w = NULL
        THEN /\ flgptn' = [flgptn EXCEPT ![f] = ptn]
             /\ UNCHANGED <<readyVars, waitq, tskstat>>
        ELSE /\ waitq' = queue_remove(waitq, f, w)
             /\ tskstat' = [tskstat EXCEPT ![w] = "RDY"]
             /\ rq_insert(w)
             /\ flgptn' = [flgptn EXCEPT ![f] =
                             IF "TA_CLR" \in flgatr[f] THEN {} ELSE ptn]
     /\ ThenSchedule(t, "user")
     /\ UNCHANGED <<tmq, tskpri, wobjid, wuptim, waitObjVars, flgbmap, flgatr,
                    wflgptn, wfmode>>

set_flg(t, f, setptn) ==
  LET ptn == flgptn[f] \cup setptn
      w == FirstReleased(f, ptn)
  IN /\ Running(t, "user")
     /\ f \in flgbmap /\ setptn # {}
     /\ IF w = NULL
        THEN /\ flgptn' = [flgptn EXCEPT ![f] = ptn]
             /\ UNCHANGED <<readyVars, waitq, tskstat>>
        ELSE /\ waitq' = queue_remove(waitq, f, w)
             /\ tskstat' = [tskstat EXCEPT ![w] = "RDY"]
             /\ rq_insert(w)
             /\ flgptn' = [flgptn EXCEPT ![f] =
                             IF "TA_CLR" \in flgatr[f] THEN {} ELSE ptn]
     /\ ThenSchedule(t, "user")
     /\ UNCHANGED <<tmq, tskpri, wobjid, wuptim, waitObjVars, flgbmap, flgatr,
                    wflgptn, wfmode>>

(* The condition tested when a wait begins.                                *)
Satisfied(waiptn, mode, ptn) ==
  IF mode = "TWF_ORW" THEN waiptn \cap ptn # {} ELSE waiptn \subseteq ptn

(* Without TA_WMUL a second waiter is refused with E_ILUSE.                *)
MayWait(f) == "TA_WMUL" \in flgatr[f] \/ queue_is_empty(waitq, f)

wai_flg_ok(t, f, waiptn, mode) ==
  /\ Running(t, "user")
  /\ f \in flgbmap /\ waiptn # {} /\ MayWait(f)
  /\ Satisfied(waiptn, mode, flgptn[f])
  /\ flgptn' = [flgptn EXCEPT ![f] = IF "TA_CLR" \in flgatr[f] THEN {} ELSE @]
  /\ UNCHANGED <<schedVars, waitObjVars, flgbmap, flgatr, wflgptn, wfmode>>

(* wobjid is not set: it keeps what an earlier wait left there.  Nor is    *)
(* wflgatr: the mode stays behind in the stack of the call.                *)
wai_flg(t, f, waiptn, mode) ==
  /\ Running(t, "user")
  /\ f \in flgbmap /\ waiptn # {} /\ MayWait(f)
  /\ ~Satisfied(waiptn, mode, flgptn[f])
  /\ wflgptn' = [wflgptn EXCEPT ![t] = waiptn]
  /\ wfmode' = [wfmode EXCEPT ![t] = mode]
  /\ Block(t, f)
  /\ ThenSchedule(t, "wai_flg")
  /\ UNCHANGED <<tmq, tskpri, wobjid, wuptim, waitObjVars, flgbmap, flgptn, flgatr>>

(* E_DLT is returned if wobjid says so; wobjid is not cleared.  The code   *)
(* leaves wflgptn too, but nothing reads it before the next wait sets it.  *)
wai_flg_end(t) ==
  /\ Running(t, "wai_flg")
  /\ pc' = [pc EXCEPT ![t] = "user"]
  /\ dltd' = dltd \ {t}
  /\ wflgptn' = [wflgptn EXCEPT ![t] = {}]
  /\ wfmode' = [wfmode EXCEPT ![t] = "TWF_ANDW"]
  /\ UNCHANGED <<readyVars, tmq, waitq, tcbVars, cpuVars, resched, extdat,
                 victim, flgbmap, flgptn, flgatr>>

FlgStep ==
  \/ \E t \in Task, f \in Flg :
       \/ \E atr \in SUBSET {"TA_CLR", "TA_WMUL"} : cre_flg(t, f, atr)
       \/ del_flg(t, f)
       \/ \E ptn \in SUBSET Bit :
            \/ set_flg(t, f, ptn) \/ clr_flg(t, f, ptn)
            \/ \E mode \in WfMode :
                 wai_flg_ok(t, f, ptn, mode) \/ wai_flg(t, f, ptn, mode)
  \/ \E t \in Task : del_flg_release(t) \/ del_flg_end(t) \/ wai_flg_end(t)
=============================================================================
