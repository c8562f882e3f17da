--------------------------- MODULE EventflagCalls ---------------------------
(***************************************************************************)
(* The service calls of kernel/eventflag.c on top of those of TaskCalls. A *)
(* bit pattern is the set of its bits.                                     *)
(***************************************************************************)
EXTENDS TaskCalls

CONSTANTS
    Flg,        \* the FLGCBs; an event flag is also the name of its wait queue
    Bit,        \* the bits of a pattern
    iflgptn,    \* initial patterns
    TA_CLR,     \* the event flags that are cleared when they release a task
    TA_WMUL     \* the event flags that several tasks may wait for

FLGPTN == SUBSET Bit
Mode   == {"TWF_ORW", "TWF_ANDW"}

(* Assumed of the constants by whoever instantiates this module.          *)
FlgAssumption ==
    /\ Flg \subseteq Wobj
    /\ \A f \in Flg : wfactor[f] = "FLG"
    /\ iflgptn \in [Flg -> FLGPTN]
    /\ TA_CLR \subseteq Flg /\ TA_WMUL \subseteq Flg

VARIABLES
    flgptn,     \* the current patterns
    winfo_flg   \* waiptn and wfmode of each task's WINFO_FLG: the pattern it
                \* waits for, then, for a step, the pattern that released it

flg_vars == <<k, flgptn, winfo_flg>>

FlgInit ==
    /\ TaskInit
    /\ flgptn = iflgptn     \* initialize_eventflag
    /\ winfo_flg = [t \in Task |-> NULL]

(* A WINFO_FLG lives as long as its task waits for an event flag.          *)
waits_in(j, t) == \E f \in Flg : Contains(j.wque[f], t)
alive_flg(w) == [t \in Task |-> IF waits_in(k', t) THEN w[t] ELSE NULL]

Satisfies(ptn, w) ==
    IF w.wfmode = "TWF_ORW" THEN ptn \cap w.waiptn # {} ELSE w.waiptn \subseteq ptn

\* mutant: the flag is never cleared
Bug_after_release(f, ptn) == ptn

\* the pattern left when check_flg_cond has returned true
after_release(f, ptn) == IF f \in TA_CLR THEN {} ELSE ptn

-----------------------------------------------------------------------------
\* mutant: a cleared flag goes on being compared with the rest of the queue
\* by the pattern it had
Bug_release_waiting(j, f, ptn, w) ==
    LET queue == j.wque[f]
        ok == {i \in 1 .. Len(queue) : Satisfies(ptn, w[queue[i]])}
        walk[n \in 0 .. Len(queue)] ==
          IF n = 0 THEN j
          ELSE IF n \in ok
               THEN wait_complete([walk[n - 1] EXCEPT !.wque[f] = queue_delete(@, queue[n])],
                                  queue[n])
               ELSE walk[n - 1]
    IN  [ k |-> walk[Len(queue)],
          ptn |-> IF ok = {} THEN ptn ELSE after_release(f, ptn),
          w |-> [t \in Task |-> IF \E i \in ok : queue[i] = t
                                THEN [w[t] EXCEPT !.waiptn = ptn] ELSE w[t]] ]

\* mutant: the walk ends with the first task it releases on any flag
Bug_release_first(j, f, ptn, w) ==
    LET queue == j.wque[f]
        ok    == {i \in 1 .. Len(queue) : Satisfies(ptn, w[queue[i]])}
        t     == queue[Min(ok)]
    IN  IF ok = {} THEN [k |-> j, ptn |-> ptn, w |-> w]
        ELSE [ k |-> wait_complete([j EXCEPT !.wque[f] = queue_delete(@, t)], t),
               ptn |-> after_release(f, ptn),
               w |-> [w EXCEPT ![t].waiptn = ptn] ]

(* The walk of set_flg along the wait queue: a task whose condition holds  *)
(* is given the pattern and released; on a TA_CLR flag the walk then ends. *)
release_waiting(j, f, ptn, w) ==
    LET queue == j.wque[f]
        step(s, t) ==
          IF s.done \/ ~Satisfies(s.ptn, s.w[t]) THEN s
          ELSE [ k |-> wait_complete([s.k EXCEPT !.wque[f] = queue_delete(@, t)], t),
                 w |-> [s.w EXCEPT ![t].waiptn = s.ptn],
                 ptn |-> after_release(f, s.ptn),
                 done |-> f \in TA_CLR ]
        walk[n \in 0 .. Len(queue)] ==
          IF n = 0 THEN [k |-> j, ptn |-> ptn, w |-> w, done |-> FALSE]
          ELSE step(walk[n - 1], queue[n])
    IN  walk[Len(queue)]

set_flg(f, setptn) ==
    /\ CHECK_UNL
    /\ LET s == release_waiting(k, f, flgptn[f] \cup setptn, winfo_flg)
       IN  /\ k' = dispatch(s.k)
           /\ flgptn' = [flgptn EXCEPT ![f] = s.ptn]
           /\ winfo_flg' = [t \in Task |-> IF waits_in(k, t) THEN s.w[t] ELSE NULL]

clr_flg(f, clrptn) ==
    /\ CHECK_TSKCTX_UNL
    /\ flgptn' = [flgptn EXCEPT ![f] = @ \cap clrptn]
    /\ UNCHANGED k
    /\ winfo_flg' = alive_flg(winfo_flg)

\* mutant: a second task may wait
Bug_may_wait(f) == TRUE

\* without TA_WMUL only one task may wait
may_wait(f) == f \in TA_WMUL \/ queue_empty(k.wque[f])

\* the condition holds already; the pattern goes to the caller's *p_flgptn
check_flg_cond(f, w) ==
    /\ Satisfies(flgptn[f], w)
    /\ flgptn' = [flgptn EXCEPT ![f] = after_release(f, @)]
    /\ UNCHANGED k
    /\ winfo_flg' = alive_flg(winfo_flg)

\* the caller waits with its pattern and mode in its WINFO_FLG
wait_flg(f, w, k1) ==
    /\ ~Satisfies(flgptn[f], w)
    /\ k' = dispatch(k1)
    /\ winfo_flg' = alive_flg([winfo_flg EXCEPT ![k.runtsk] = w])
    /\ UNCHANGED flgptn

wai_flg(f, w) ==
    /\ CHECK_DISPATCH
    /\ ~k.raster[k.runtsk]
    /\ may_wait(f)
    /\ \/ check_flg_cond(f, w)
       \/ wait_flg(f, w, wobj_make_wait(waiting_for("FLG"), f))

pol_flg(f, w) ==
    /\ CHECK_TSKCTX_UNL
    /\ may_wait(f)
    /\ check_flg_cond(f, w)

\* with a finite timeout; TMO_FEVR is wai_flg, TMO_POL is pol_flg's outcome
twai_flg(f, w) ==
    /\ CHECK_DISPATCH
    /\ ~k.raster[k.runtsk]
    /\ may_wait(f)
    /\ \/ check_flg_cond(f, w)
       \/ wait_flg(f, w, wobj_make_wait_tmout(waiting_for("FLG"), f))

ini_flg(f) ==
    /\ CHECK_TSKCTX_UNL
    /\ k' = dispatch(init_wait_queue(k, f))
    /\ flgptn' = [flgptn EXCEPT ![f] = iflgptn[f]]
    /\ winfo_flg' = alive_flg(winfo_flg)

-----------------------------------------------------------------------------
WInfoFlg == [waiptn : FLGPTN \ {{}}, wfmode : Mode]

FlgCall(f) ==
    \/ \E ptn \in FLGPTN : set_flg(f, ptn) \/ clr_flg(f, ptn)
    \/ \E w \in WInfoFlg : wai_flg(f, w) \/ pol_flg(f, w) \/ twai_flg(f, w)
    \/ ini_flg(f)

FlgNext ==
    \/ TaskNext /\ winfo_flg' = alive_flg(winfo_flg) /\ UNCHANGED flgptn
    \/ \E f \in Flg : FlgCall(f)

FlgSpec == FlgInit /\ [][FlgNext]_flg_vars

-----------------------------------------------------------------------------
(* No task is left waiting although its condition holds, whatever order    *)
(* the bits were set and cleared in and other tasks released before it;    *)
(* and without TA_WMUL at most one task waits (set_flg, wai_flg).          *)
FlagWaitOK ==
    \A f \in Flg :
        /\ \A t \in Range(k.wque[f]) : ~Satisfies(flgptn[f], winfo_flg[t])
        /\ f \notin TA_WMUL => Len(k.wque[f]) <= 1

(* What set_flg does to the queue as a whole, against its definition: all  *)
(* the tasks that the pattern satisfies are released with it, and it stays;*)
(* with TA_CLR the first of them is released, and the pattern is cleared.  *)
SetFlagReleases(f, setptn) ==
    LET ptn  == flgptn[f] \cup setptn
        q    == k.wque[f]
        hit  == {t \in Range(q) : Satisfies(ptn, winfo_flg[t])}
        gone == Range(q) \ Range(k'.wque[f])
        one  == \A t \in gone, u \in hit : u # t =>
                  \E h, i \in 1 .. Len(q) : h < i /\ q[h] = t /\ q[i] = u
    IN  /\ gone \subseteq hit
        /\ IF f \in TA_CLR THEN (gone = {} <=> hit = {}) /\ one ELSE gone = hit
        /\ flgptn'[f] = IF f \in TA_CLR /\ hit # {} THEN {} ELSE ptn
        /\ \A t \in gone : winfo_flg'[t].waiptn = ptn

(* Each set_flg releases just these tasks, those that were queued together *)
(* behind one that is released included, and none that waits for others    *)
(* (the loop in set_flg).                                                  *)
SetFlagStep(f) == \A setptn \in FLGPTN : set_flg(f, setptn) => SetFlagReleases(f, setptn)

(* The same of every flag and every step.                                  *)
SetFlagOK == [][\A f \in Flg : SetFlagStep(f)]_flg_vars
=============================================================================
