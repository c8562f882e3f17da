----------------------------- MODULE TaskCalls -----------------------------
(***************************************************************************)
(* The kernel as its users see it, without synchronisation objects: the    *)
(* service calls of kernel/task_manage.c, task_term.c, task_sync.c and     *)
(* sys_manage.c, chg_ipm of kernel/interrupt.c, the interrupt entry and    *)
(* exit of arch/arm_gcc/common/core_support.S, and the expiry of a wait.   *)
(*                                                                         *)
(* A service call works under the CPU lock, so it is one step; between     *)
(* two steps an interrupt may be taken, and its handler may call the       *)
(* services open to it, unless the CPU is locked by loc_cpu. An error      *)
(* return that changes nothing is a stuttering step.                       *)
(***************************************************************************)
EXTENDS MutexCtl

VARIABLE k      \* a KernelState

(* initialize_task makes the TA_ACT tasks active in the order of the task  *)
(* table, which may be any; start_dispatch then dispatches for the first   *)
(* time.                                                                   *)
Started(p) == {t \in TA_ACT : ipriority[t] = p}

FirstTask(q) ==
    IF \A p \in Pri : queue_empty(q[p]) THEN NULL
    ELSE Head(q[CHOOSE p \in Pri : ~queue_empty(q[p]) /\ \A o \in 0 .. p - 1 : queue_empty(q[o])])

initialize_task(q) ==
    [ tstat     |-> [t \in Task |-> IF t \in TA_ACT THEN {TS_RUNNABLE} ELSE {}],
      bpriority |-> ipriority,
      priority  |-> ipriority,
      actque    |-> [t \in Task |-> FALSE],
      wupque    |-> [t \in Task |-> FALSE],
      raster    |-> [t \in Task |-> FALSE],
      enater    |-> [t \in Task |-> TRUE],
      winfo     |-> [t \in Task |-> NULL],
      wobj      |-> [t \in Task |-> NULL],
      tmevtb    |-> [t \in Task |-> NULL],
      lastmtx   |-> [t \in Task |-> NULL],
      prevmtx   |-> [m \in Mutex |-> NULL],
      loctsk    |-> [m \in Mutex |-> NULL],
      readyq    |-> q,
      primap    |-> {p \in Pri : ~queue_empty(q[p])},
      wque      |-> [w \in Wobj |-> << >>],
      runtsk    |-> FirstTask(q),
      schedtsk  |-> FirstTask(q),
      enadsp    |-> TRUE,
      dspflg    |-> TRUE,
      ipm       |-> "TIPM_ENAALL",
      lock      |-> FALSE,
      nest      |-> 0,
      broken    |-> {} ]

TaskInit ==
    \E q \in [Pri -> UNION {SetToSeqs(Started(p)) : p \in Pri}] :
        /\ \A p \in Pri : q[p] \in SetToSeqs(Started(p))
        /\ k = initialize_task(q)

-----------------------------------------------------------------------------
(* kernel/check.h: the contexts in which a service call is accepted. With  *)
(* no task to run the processor idles, and nothing calls the kernel.       *)
CHECK_TSKCTX     == k.nest = 0 /\ k.runtsk # NULL
CHECK_UNL        == ~k.lock /\ (k.nest > 0 \/ k.runtsk # NULL)
CHECK_TSKCTX_UNL == CHECK_TSKCTX /\ CHECK_UNL
\* mutant: a blocking call does not look at dspflg
Bug_CHECK_DISPATCH == CHECK_TSKCTX_UNL
CHECK_DISPATCH   == CHECK_TSKCTX_UNL /\ k.dspflg

-----------------------------------------------------------------------------
(* kernel/task_manage.c *)

act_tsk(t) ==
    /\ CHECK_UNL
    /\ \/ /\ TSTAT_DORMANT(k.tstat[t])
          /\ k' = dispatch(make_active(k, t))
       \/ /\ ~TSTAT_DORMANT(k.tstat[t])
          /\ t \notin TA_NOACTQUE
          /\ k' = [k EXCEPT !.actque[t] = TRUE]

can_act(t) ==
    /\ CHECK_TSKCTX_UNL
    /\ k' = [k EXCEPT !.actque[t] = FALSE]

(* A held mutex with a ceiling keeps the current priority where it is.     *)
chg_pri(t, newbpri) ==
    /\ CHECK_TSKCTX_UNL
    /\ ~TSTAT_DORMANT(k.tstat[t])
    /\ k.lastmtx[t] # NULL \/ TSTAT_WAIT_MTX(k.tstat[t]) => mutex_check_ceilpri(k, t, newbpri)
    /\ LET k1 == [k EXCEPT !.bpriority[t] = newbpri]
       IN  k' = IF k.lastmtx[t] # NULL /\ mutex_scan_ceilmtx(k, t) THEN k1
                ELSE dispatch(change_priority(k1, t, newbpri, FALSE))

-----------------------------------------------------------------------------
(* kernel/task_term.c *)

(* Whatever the task has disabled is enabled again before it ends, and the *)
(* task to run is looked up anew. exit_and_dispatch always dispatches.     *)
ext_tsk ==
    /\ CHECK_TSKCTX
    /\ LET k1 == [k EXCEPT !.enadsp = TRUE, !.ipm = "TIPM_ENAALL", !.lock = FALSE]
           k2 == IF ~k.enadsp \/ k.ipm # "TIPM_ENAALL"
                 THEN [k1 EXCEPT !.dspflg = TRUE, !.schedtsk = search_schedtsk(k1)]
                 ELSE k1
       IN  k' = dispatcher(task_terminate(k2, k.runtsk))

ras_ter(t) ==
    /\ CHECK_TSKCTX_UNL
    /\ t # k.runtsk
    /\ ~TSTAT_DORMANT(k.tstat[t])
    /\ IF k.enater[t] THEN k' = dispatch(task_terminate(k, t))
       ELSE LET s  == k.tstat[t]
                k1 == [k EXCEPT !.raster[t] = TRUE]
                k2 == IF TSTAT_WAITING(s)
                      THEN set_wercd(wait_dequeue_tmevtb(wait_dequeue_wobj(k1, t), t), t, "E_RASTER")
                      ELSE k1
                k3 == [k2 EXCEPT !.tstat[t] = {TS_RUNNABLE}]
            IN  k' = IF TSTAT_RUNNABLE(s) THEN k1 ELSE dispatch(make_runnable(k3, t))

dis_ter ==
    /\ CHECK_TSKCTX_UNL
    /\ k' = [k EXCEPT !.enater[k.runtsk] = FALSE]

ena_ter ==
    /\ CHECK_TSKCTX_UNL
    /\ k' = IF k.raster[k.runtsk] /\ k.dspflg
            THEN dispatcher(task_terminate(k, k.runtsk))
            ELSE [k EXCEPT !.enater[k.runtsk] = TRUE]

ter_tsk(t) ==
    /\ CHECK_TSKCTX_UNL
    /\ t # k.runtsk
    /\ ~TSTAT_DORMANT(k.tstat[t])
    /\ k' = dispatch(task_terminate(k, t))

-----------------------------------------------------------------------------
(* kernel/task_sync.c *)

\* the state with the running task marked as waiting for the given reason
waiting_for(factor) == [k EXCEPT !.tstat[k.runtsk] = {factor}]

take_wupque == [k EXCEPT !.wupque[k.runtsk] = FALSE]

slp_tsk ==
    /\ CHECK_DISPATCH
    /\ ~k.raster[k.runtsk]
    /\ k' = IF k.wupque[k.runtsk] THEN take_wupque
            ELSE dispatch(make_wait(waiting_for(TS_WAITING_SLP)))

\* with a finite timeout; TMO_FEVR is slp_tsk, TMO_POL changes at most wupque
tslp_tsk ==
    /\ CHECK_DISPATCH
    /\ ~k.raster[k.runtsk]
    /\ k' = IF k.wupque[k.runtsk] THEN take_wupque
            ELSE dispatch(make_wait_tmout(waiting_for(TS_WAITING_SLP), "wait_tmout"))

wup_tsk(t) ==
    /\ CHECK_UNL
    /\ ~TSTAT_DORMANT(k.tstat[t])
    /\ k' = IF TSTAT_WAIT_SLP(k.tstat[t]) THEN dispatch(wait_complete(k, t))
            ELSE [k EXCEPT !.wupque[t] = TRUE]

can_wup(t) ==
    /\ CHECK_TSKCTX_UNL
    /\ ~TSTAT_DORMANT(k.tstat[t])
    /\ k' = [k EXCEPT !.wupque[t] = FALSE]

rel_wai(t) ==
    /\ CHECK_UNL
    /\ TSTAT_WAITING(k.tstat[t])
    /\ LET k1 == wait_dequeue_tmevtb(wait_dequeue_wobj(k, t), t)
       IN  k' = dispatch(make_non_wait(set_wercd(k1, t, "E_RLWAI"), t))

\* mutant: TS_SUSPENDED is added to the flags in every state
Bug_sus_tsk(t) ==
    /\ CHECK_TSKCTX_UNL
    /\ ~(t = k.runtsk /\ ~k.dspflg)
    /\ ~TSTAT_DORMANT(k.tstat[t])
    /\ ~k.raster[t]
    /\ ~TSTAT_SUSPENDED(k.tstat[t])
    /\ k' = [k EXCEPT !.tstat[t] = @ \cup {TS_SUSPENDED}]

sus_tsk(t) ==
    /\ CHECK_TSKCTX_UNL
    /\ ~(t = k.runtsk /\ ~k.dspflg)
    /\ ~TSTAT_DORMANT(k.tstat[t])
    /\ ~k.raster[t]
    /\ ~TSTAT_SUSPENDED(k.tstat[t])
    /\ k' = IF TSTAT_RUNNABLE(k.tstat[t])
            THEN dispatch(make_non_runnable(
                     [k EXCEPT !.tstat[t] = {TS_SUSPENDED}], t))
            ELSE [k EXCEPT !.tstat[t] = @ \cup {TS_SUSPENDED}]

rsm_tsk(t) ==
    /\ CHECK_TSKCTX_UNL
    /\ TSTAT_SUSPENDED(k.tstat[t])
    /\ k' = IF TSTAT_WAITING(k.tstat[t])
            THEN [k EXCEPT !.tstat[t] = @ \ {TS_SUSPENDED}]
            ELSE dispatch(make_runnable(
                     [k EXCEPT !.tstat[t] = {TS_RUNNABLE}], t))

dly_tsk ==
    /\ CHECK_DISPATCH
    /\ ~k.raster[k.runtsk]
    /\ k' = dispatch(make_wait_tmout(waiting_for(TS_WAITING_DLY), "wait_tmout_ok"))

-----------------------------------------------------------------------------
(* kernel/sys_manage.c and interrupt.c *)

\* TPRI_SELF reads the caller's priority before the lock: any priority
rot_rdq(pri) ==
    /\ CHECK_UNL
    /\ k' = dispatch(rotate_ready_queue(k, pri))

loc_cpu == CHECK_UNL /\ k' = [k EXCEPT !.lock = TRUE]

unl_cpu ==
    /\ k.lock
    /\ k' = [k EXCEPT !.lock = FALSE]

dis_dsp ==
    /\ CHECK_TSKCTX_UNL
    /\ k' = [k EXCEPT !.enadsp = FALSE, !.dspflg = FALSE]

\* mutant: the pending termination request is forgotten
Bug_enable_dispatch(k0) ==
    dispatch([k0 EXCEPT !.dspflg = TRUE, !.schedtsk = search_schedtsk(k0)])

(* Dispatching becomes possible again: the choice of the task to run is    *)
(* renewed, and a termination request that was kept back is carried out.   *)
enable_dispatch(k0) ==
    LET k1 == [k0 EXCEPT !.dspflg = TRUE, !.schedtsk = search_schedtsk(k0)]
    IN  IF k.raster[k.runtsk] /\ k.enater[k.runtsk]
        THEN dispatcher(task_terminate(k1, k.runtsk))
        ELSE dispatch(k1)

ena_dsp ==
    /\ CHECK_TSKCTX_UNL
    /\ LET k1 == [k EXCEPT !.enadsp = TRUE]
       IN  k' = IF k.ipm = "TIPM_ENAALL" THEN enable_dispatch(k1) ELSE k1

chg_ipm(ipm) ==
    /\ CHECK_TSKCTX_UNL
    /\ LET k1 == [k EXCEPT !.ipm = ipm]
       IN  k' = IF ipm = "TIPM_ENAALL" /\ k.enadsp THEN enable_dispatch(k1)
                ELSE [k1 EXCEPT !.dspflg = FALSE]

-----------------------------------------------------------------------------
(* Interrupts. A handler starts with the CPU unlocked; at its end the CPU  *)
(* is locked whatever it left, the state of the interrupted code comes     *)
(* back, and the outermost handler dispatches when the task to run has     *)
(* changed, or when there was none.                                        *)

irq_entry ==
    /\ ~k.lock
    /\ k.nest < MaxNest
    /\ k' = [k EXCEPT !.nest = @ + 1]

\* mutant: the handler that ends the idle loop does not dispatch
Bug_irq_exit ==
    /\ k.nest > 0
    /\ LET k1 == [k EXCEPT !.nest = @ - 1, !.lock = FALSE]
       IN  k' = IF k1.nest = 0 /\ k.runtsk # NULL /\ k.runtsk # k.schedtsk
                THEN dispatcher(k1)
                ELSE k1

irq_exit ==
    /\ k.nest > 0
    /\ LET k1 == [k EXCEPT !.nest = @ - 1, !.lock = FALSE]
       IN  k' = IF k1.nest = 0 /\ (k.runtsk = NULL \/ k.runtsk # k.schedtsk)
                THEN dispatcher(k1)
                ELSE k1

(* In a timer interrupt signal_time takes an expired TMEVTB out of the     *)
(* heap and calls it back; it lets other interrupts in after each.         *)
signal_time(t) ==
    /\ k.nest > 0
    /\ ~k.lock
    /\ k.tmevtb[t] # NULL
    /\ LET k1 == [k EXCEPT !.tmevtb[t] = NULL]
       IN  k' = IF k.tmevtb[t] = "wait_tmout" THEN wait_tmout(k1, t)
                ELSE wait_tmout_ok(k1, t)

-----------------------------------------------------------------------------
OwnCall ==
    ext_tsk \/ dis_ter \/ ena_ter \/ slp_tsk \/ tslp_tsk \/ dly_tsk \/ dis_dsp \/ ena_dsp

TaskNext ==
    \/ OwnCall
    \/ loc_cpu \/ unl_cpu
    \/ irq_entry \/ irq_exit
    \/ \E t \in Task :
         \/ act_tsk(t) \/ can_act(t) \/ ter_tsk(t) \/ ras_ter(t)
         \/ wup_tsk(t) \/ can_wup(t) \/ rel_wai(t) \/ sus_tsk(t) \/ rsm_tsk(t)
         \/ signal_time(t)
         \/ \E pri \in Pri : chg_pri(t, pri)
    \/ \E pri \in Pri : rot_rdq(pri)
    \/ \E ipm \in Ipm : chg_ipm(ipm)

TaskSpec == TaskInit /\ [][TaskNext]_k

-----------------------------------------------------------------------------
(* Every variable of the kernel keeps to its type.                         *)
TypeOK == k \in KernelState

(* A task is linked through the single field task_queue, so it is in at    *)
(* most one queue, once: a runnable task in the ready queue of its current *)
(* priority (make_runnable, change_priority), a task waiting for an object *)
(* in that object's wait queue, any other task in none; and the bitmap     *)
(* marks exactly the ready queues that are not empty (task.c, wait.h).     *)
LinksIn(q, t) == {i \in 1 .. Len(q) : q[i] = t}

QueueOK ==
    /\ \A t \in Task, p \in Pri :
         Cardinality(LinksIn(k.readyq[p], t)) =
             IF TSTAT_RUNNABLE(k.tstat[t]) /\ k.priority[t] = p THEN 1 ELSE 0
    /\ \A t \in Task, w \in Wobj :
         Cardinality(LinksIn(k.wque[w], t)) =
             IF TSTAT_WAIT_WOBJ(k.tstat[t]) /\ k.wobj[t] = w THEN 1 ELSE 0
    /\ k.primap = {p \in Pri : k.readyq[p] # << >>}

(* The task states of task.h, and no other combination of the flags: a     *)
(* task that waits or is suspended is not runnable, and waits for one      *)
(* thing (sus_tsk, rsm_tsk, make_non_wait, ras_ter).                       *)
TstatOK ==
    \A t \in Task : LET s == k.tstat[t] IN
        /\ TSTAT_RUNNABLE(s) => s = {TS_RUNNABLE}
        /\ Cardinality(s \cap WaitFactor) <= 1
        /\ TSTAT_WAIT_WOBJ(s) => s \cap WaitFactor = {wfactor[k.wobj[t]]}

(* p_schedtsk is the first task of the highest priority that has one,      *)
(* whatever was made runnable, blocked, moved or rotated (task.c), as long *)
(* as dispatching is possible; while it is not, it stays on the task that  *)
(* disabled it (task.h: "p_schedtsk is not updated while dspflg is false").*)
HighestTask(j) == IF primap_empty(j) THEN NULL ELSE search_schedtsk(j)

ScheduleOK ==
    /\ k.dspflg => k.schedtsk = HighestTask(k)
    /\ ~k.dspflg => k.schedtsk = k.runtsk /\ k.runtsk # NULL
    /\ k.dspflg <=> k.enadsp /\ k.ipm = "TIPM_ENAALL"

(* The task that has the processor can run, and outside interrupt handlers *)
(* it is the one that should (task.h, p_runtsk and p_schedtsk).            *)
RunningOK ==
    /\ k.runtsk # NULL => TSTAT_RUNNABLE(k.tstat[k.runtsk])
    /\ k.nest = 0 => k.runtsk = k.schedtsk

(* A task asked to terminate itself is never kept waiting or suspended,    *)
(* and once it allows termination (ena_ter) the request is only held back  *)
(* while it runs with dispatching disabled (task_term.c, task_sync.c).     *)
TerminationOK ==
    \A t \in Task : k.raster[t] =>
        /\ TSTAT_RUNNABLE(k.tstat[t])
        /\ k.enater[t] => t = k.runtsk /\ ~k.dspflg

(* A TMEVTB lives on the stack of the waiting task: it is registered       *)
(* exactly while the task waits with a timeout and its WINFO points to it, *)
(* so that the word holds wercd only when nothing reads it as a pointer    *)
(* (task.h, the comment on WINFO), and a delay ends with E_OK.             *)
WaitInfoOK ==
    \A t \in Task :
        /\ k.tmevtb[t] # NULL <=> TSTAT_WAITING(k.tstat[t]) /\ k.winfo[t] # NULL
        /\ k.tmevtb[t] # NULL => k.winfo[t] = PTMEVTB
        /\ k.tmevtb[t] = "wait_tmout_ok" <=> TS_WAITING_DLY \in k.tstat[t]

(* The asserts of make_non_runnable (dspflg) and make_non_wait hold, a     *)
(* TMEVTB is taken out of the heap only when it is there, and the          *)
(* dispatcher is only entered with dispatching enabled and no interrupt    *)
(* priority masked (the comment above dispatcher_0 in core_support.S).     *)
AssertsHold == k.broken = {}

(* The processor changes hands only where a dispatch is allowed, outside   *)
(* interrupt handlers and with dispatching enabled, and then goes to the   *)
(* task that is scheduled. So while dispatching is disabled it stays with  *)
(* the task that disabled it: no interrupt and no call of that task, short *)
(* of enabling it again, makes another task run.                           *)
NoPreemption ==
    [][k'.runtsk # k.runtsk => k'.nest = 0 /\ k'.dspflg /\ k'.runtsk = k'.schedtsk]_k

(* Tasks of one priority run in the order they became ready: a task that   *)
(* stays runnable at its priority loses its place before another only by   *)
(* going to the tail, because it was started again, was given a base       *)
(* priority anew or was rotated (make_runnable, change_priority,           *)
(* rotate_ready_queue); nothing else reorders a ready queue.               *)
Ahead(j, t, u) ==
    LET q == j.readyq[j.priority[t]]
    IN  \E i, h \in 1 .. Len(q) : i < h /\ q[i] = t /\ q[h] = u

FifoWithinPriority ==
    [][k.readyq # k'.readyq =>
         \A t, u \in Task :
             /\ k.priority[t] = k'.priority[t]
             /\ Ahead(k, t, u)
             /\ Ahead(k', u, t)
             => Last(k'.readyq[k'.priority[t]]) = t]_k
=============================================================================
