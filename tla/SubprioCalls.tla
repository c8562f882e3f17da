---------------------------- MODULE SubprioCalls ----------------------------
(***************************************************************************)
(* The kernel with the sub-priority extension (extension/subprio/kernel):  *)
(* in the ready queue of a priority that the configurator marks with       *)
(* ENA_SPR the tasks stand in the order of their sub-priorities. The       *)
(* routines of task.c that the extension changes, and the service calls    *)
(* that reach them; the others are those of TaskCalls. There are no        *)
(* objects: change_priority is only called with mtxmode false.             *)
(***************************************************************************)
EXTENDS TaskCB

CONSTANTS
    subprio_primap,     \* the priorities whose tasks have sub-priorities
    UINT_MAX            \* the sub-priority of a new task; 0 is the highest

(* Assumed of the constants by whoever instantiates this module.           *)
SubprioAssumption ==
    /\ subprio_primap \subseteq Pri
    /\ UINT_MAX \in Nat
    /\ Wobj = {}

VARIABLES
    k,          \* a KernelState
    subpri      \* the sub-priority of each task

K == INSTANCE TaskCalls

sub_vars == <<k, subpri>>
Subpri == 0 .. UINT_MAX

\* initialize_task: all sub-priorities are the same, the order is that of arrival
SubprioInit == K!TaskInit /\ subpri = [t \in Task |-> UINT_MAX]

-----------------------------------------------------------------------------
(* task.c. sp gives the sub-priorities.                                    *)

(* Insertion before the first entry of a strictly lower sub-priority.      *)
queue_insert_subprio(q, t, sp) == queue_insert_tpri(q, t, sp)

join(q, t, pri, sp) ==
    IF pri \in subprio_primap THEN queue_insert_subprio(q, t, sp) ELSE queue_insert_prev(q, t)

make_runnable(j, t, sp) ==
    LET pri == j.priority[t]
    IN  [j EXCEPT !.readyq[pri] = join(@, t, pri, sp),
                  !.primap = @ \cup {pri},
                  !.schedtsk = IF /\ j.dspflg
                                  /\ \/ j.schedtsk = NULL
                                     \/ pri < j.priority[j.schedtsk]
                               THEN t ELSE @]

make_active(j, t, sp) ==
    make_runnable([K!activate_context(j, t) EXCEPT !.tstat[t] = {TS_RUNNABLE}], t, sp)

change_priority(j, t, newpri, sp) ==
    LET oldpri == j.priority[t]
        j1 == [j EXCEPT !.priority[t] = newpri]
        j2 == [K!ready_unlink(j1, t, oldpri) EXCEPT
                 !.readyq[newpri] = join(@, t, newpri, sp),
                 !.primap = @ \cup {newpri}]
    IN  IF ~TSTAT_RUNNABLE(j.tstat[t]) THEN j1
        ELSE [j2 EXCEPT !.schedtsk =
                 IF ~j.dspflg THEN @
                 ELSE IF @ = t THEN (IF newpri >= oldpri THEN K!search_schedtsk(j2) ELSE @)
                 ELSE IF newpri < j1.priority[@] THEN t ELSE @]

\* mutant: the task keeps its place in the ready queue
Bug_change_subprio(j, t, sp) ==
    IF /\ TSTAT_RUNNABLE(j.tstat[t])
       /\ j.dspflg
       /\ j.priority[j.schedtsk] = j.priority[t]
    THEN [j EXCEPT !.schedtsk = Head(j.readyq[j.priority[t]])] ELSE j

(* The task goes to its new place, and the first task of its priority is   *)
(* the one to run if that priority is running. sp has the new sub-priority.*)
change_subprio(j, t, sp) ==
    LET pri == j.priority[t]
        j1 == IF pri \in subprio_primap
              THEN [j EXCEPT !.readyq[pri] =
                       queue_insert_subprio(queue_delete(@, t), t, sp)]
              ELSE j
    IN  IF ~TSTAT_RUNNABLE(j.tstat[t]) THEN j
        ELSE IF j.dspflg /\ j.priority[j.schedtsk] = pri
        THEN [j1 EXCEPT !.schedtsk = Head(j1.readyq[pri])]
        ELSE j1

task_terminate(j, t, sp) ==
    LET j1 == K!task_terminate([j EXCEPT !.actque[t] = FALSE], t)
    IN  IF j.actque[t] THEN make_active(j1, t, sp) ELSE j1

wait_complete(j, t, sp) ==
    LET j1 == K!set_wercd(K!wait_dequeue_tmevtb(j, t), t, E_OK)
    IN  IF TSTAT_SUSPENDED(j.tstat[t]) THEN [j1 EXCEPT !.tstat[t] = {TS_SUSPENDED}]
        ELSE make_runnable([j1 EXCEPT !.tstat[t] = {TS_RUNNABLE}], t, sp)

-----------------------------------------------------------------------------
(* The service calls of task_manage.c, task_term.c, task_sync.c and        *)
(* sys_manage.c.                                                           *)

act_tsk(t) ==
    /\ K!CHECK_UNL
    /\ k' = IF TSTAT_DORMANT(k.tstat[t]) THEN K!dispatch(make_active(k, t, subpri))
            ELSE [k EXCEPT !.actque[t] = t \notin TA_NOACTQUE]
    /\ UNCHANGED subpri

chg_pri(t, newbpri) ==
    /\ K!CHECK_TSKCTX_UNL
    /\ ~TSTAT_DORMANT(k.tstat[t])
    /\ k' = K!dispatch(change_priority([k EXCEPT !.bpriority[t] = newbpri], t, newbpri, subpri))
    /\ UNCHANGED subpri

\* of a task in any state, also a dormant one
chg_spr(t, newpri) ==
    /\ K!CHECK_TSKCTX_UNL
    /\ subpri' = [subpri EXCEPT ![t] = newpri]
    /\ k' = K!dispatch(change_subprio(k, t, subpri'))

ext_tsk ==
    /\ K!CHECK_TSKCTX
    /\ LET k1 == [k EXCEPT !.enadsp = TRUE, !.ipm = "TIPM_ENAALL", !.lock = FALSE]
           k2 == IF ~k.enadsp \/ k.ipm # "TIPM_ENAALL"
                 THEN [k1 EXCEPT !.dspflg = TRUE, !.schedtsk = K!search_schedtsk(k1)]
                 ELSE k1
       IN  k' = K!dispatcher(task_terminate(k2, k.runtsk, subpri))
    /\ UNCHANGED subpri

ter_tsk(t) ==
    /\ K!CHECK_TSKCTX_UNL
    /\ t # k.runtsk
    /\ ~TSTAT_DORMANT(k.tstat[t])
    /\ k' = K!dispatch(task_terminate(k, t, subpri))
    /\ UNCHANGED subpri

wup_tsk(t) ==
    /\ K!CHECK_UNL
    /\ ~TSTAT_DORMANT(k.tstat[t])
    /\ k' = IF TSTAT_WAIT_SLP(k.tstat[t]) THEN K!dispatch(wait_complete(k, t, subpri))
            ELSE [k EXCEPT !.wupque[t] = TRUE]
    /\ UNCHANGED subpri

rsm_tsk(t) ==
    /\ K!CHECK_TSKCTX_UNL
    /\ TSTAT_SUSPENDED(k.tstat[t])
    /\ k' = IF TSTAT_WAITING(k.tstat[t])
            THEN [k EXCEPT !.tstat[t] = @ \ {TS_SUSPENDED}]
            ELSE K!dispatch(make_runnable([k EXCEPT !.tstat[t] = {TS_RUNNABLE}], t, subpri))
    /\ UNCHANGED subpri

\* mutant: also a queue in the order of sub-priorities is rotated
Bug_rot_rdq(pri) == K!rot_rdq(pri) /\ UNCHANGED subpri

\* refused for a priority whose tasks have sub-priorities (E_ILUSE)
rot_rdq(pri) ==
    /\ pri \notin subprio_primap
    /\ K!rot_rdq(pri)
    /\ UNCHANGED subpri

\* what the extension leaves as it is
Unchanged ==
    /\ \/ K!slp_tsk \/ K!dis_dsp \/ K!ena_dsp
       \/ K!irq_entry \/ K!irq_exit
       \/ \E t \in Task : K!sus_tsk(t)
    /\ UNCHANGED subpri

SubprioNext ==
    \/ Unchanged \/ ext_tsk
    \/ \E t \in Task :
         \/ act_tsk(t) \/ ter_tsk(t) \/ wup_tsk(t) \/ rsm_tsk(t)
         \/ \E pri \in Pri : chg_pri(t, pri)
         \/ \E newpri \in Subpri : chg_spr(t, newpri)
    \/ \E pri \in Pri : rot_rdq(pri)

SubprioSpec == SubprioInit /\ [][SubprioNext]_sub_vars

-----------------------------------------------------------------------------
(* The ready queue of a priority with sub-priorities stays in their order, *)
(* whatever priorities and sub-priorities change when, and in which state  *)
(* of the task (chg_spr, chg_pri, make_runnable); and while dispatching is *)
(* possible the task to run is one of the highest priority, the first one  *)
(* where there are no sub-priorities.                                      *)
SubprioOK ==
    /\ K!QueueOK /\ K!RunningOK /\ K!AssertsHold
    /\ \A pri \in subprio_primap :
         LET q == k.readyq[pri]
         IN  \A i \in 2 .. Len(q) : subpri[q[i - 1]] <= subpri[q[i]]
    /\ k.dspflg /\ k.primap # {} =>
         LET pri == K!primap_search(k)
         IN  /\ k.schedtsk \in Range(k.readyq[pri])
             /\ pri \notin subprio_primap => k.schedtsk = Head(k.readyq[pri])
    /\ k.primap = {} => k.schedtsk = NULL
    /\ ~k.dspflg => k.schedtsk = k.runtsk

(* Test item (B-1) of test_subprio1.c: a task with a higher sub-priority   *)
(* has the higher precedence. The task to run is then never one of a lower *)
(* sub-priority than another runnable one of its priority.                 *)
SubprioOrder ==
    k.dspflg /\ k.schedtsk # NULL =>
        LET pri == k.priority[k.schedtsk]
        IN  pri \in subprio_primap =>
              \A t \in Range(k.readyq[pri]) : subpri[k.schedtsk] <= subpri[t]
=============================================================================
