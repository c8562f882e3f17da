------------------------------ MODULE MutexCtl ------------------------------
(***************************************************************************)
(* The internal routines of the mutexes (kernel/mutex.c): the hooks that   *)
(* the task routines call through function pointers, and the one task      *)
(* routine that needs them, task_terminate (kernel/task.c). A task's       *)
(* mutexes are chained from p_lastmtx by p_prevmtx, the last locked first. *)
(***************************************************************************)
EXTENDS TaskCtl

MTX_CEILING(m) == m \in TA_CEILING

\* what a walk along the chain from p_lastmtx visits
ChainOf(k, t) ==
    LET walk[n \in 0 .. Cardinality(Mutex)] ==
          IF n = 0 THEN {k.lastmtx[t]} \ {NULL}
          ELSE walk[n - 1] \cup ({k.prevmtx[m] : m \in walk[n - 1]} \ {NULL})
    IN  walk[Cardinality(Mutex)]

CeilingsOf(k, t) == {ceilpri[m] : m \in {x \in ChainOf(k, t) : MTX_CEILING(x)}}

\* mutant: the mutex the task waits for is not looked at
Bug_mutex_check_ceilpri(k, t, bpri) == \A c \in CeilingsOf(k, t) : c <= bpri

\* no mutex the task holds or waits for has a ceiling lower than bpri
mutex_check_ceilpri(k, t, bpri) ==
    /\ \A c \in CeilingsOf(k, t) : c <= bpri
    /\ TSTAT_WAIT_MTX(k.tstat[t]) /\ MTX_CEILING(k.wobj[t]) => ceilpri[k.wobj[t]] <= bpri

mutex_scan_ceilmtx(k, t) == CeilingsOf(k, t) # {}

\* mutant: the mutexes still held are forgotten
Bug_mutex_calc_priority(k, t) == k.bpriority[t]

mutex_calc_priority(k, t) == Min({k.bpriority[t]} \cup CeilingsOf(k, t))

\* m has been taken off t's chain
mutex_drop_priority(k, t, m) ==
    LET newpri == mutex_calc_priority(k, t)
    IN  IF /\ MTX_CEILING(m) /\ ceilpri[m] = k.priority[t]
           /\ newpri # k.priority[t]
        THEN change_priority(k, t, newpri, TRUE)
        ELSE k

\* m becomes the last mutex of t's chain
chain_push(k, t, m) ==
    [k EXCEPT !.loctsk[m] = t,
              !.prevmtx[m] = k.lastmtx[t],
              !.lastmtx[t] = m]

\* mutant: the owner is given the ceiling even when it runs above it
Bug_mutex_acquire(k, t, m) ==
    LET k1 == chain_push(k, t, m)
    IN  IF MTX_CEILING(m) THEN change_priority(k1, t, ceilpri[m], TRUE) ELSE k1

mutex_acquire(k, t, m) ==
    LET k1 == chain_push(k, t, m)
    IN  IF MTX_CEILING(m) /\ ceilpri[m] < k.priority[t]
        THEN change_priority(k1, t, ceilpri[m], TRUE)
        ELSE k1

\* mutants: the mutex goes to the waiter that came last; the timeout of
\* the new owner is left in the heap; the new owner keeps its priority
Bug_mutex_release(k, m) ==
    IF queue_empty(k.wque[m])
    THEN [k EXCEPT !.loctsk[m] = NULL]
    ELSE LET t  == Last(k.wque[m])
             k1 == wait_dequeue_tmevtb([k EXCEPT !.wque[m] = Front(@)], t)
             k2 == chain_push(set_wercd(k1, t, E_OK), t, m)
             k3 == IF MTX_CEILING(m) /\ ceilpri[m] < k2.priority[t]
                   THEN [k2 EXCEPT !.priority[t] = ceilpri[m]]
                   ELSE k2
         IN  make_non_wait(k3, t)

Bug_mutex_release_tmo(k, m) ==
    IF queue_empty(k.wque[m])
    THEN [k EXCEPT !.loctsk[m] = NULL]
    ELSE LET t  == Head(k.wque[m])
             k1 == [k EXCEPT !.wque[m] = Tail(@)]
             k2 == chain_push(set_wercd(k1, t, E_OK), t, m)
             k3 == IF MTX_CEILING(m) /\ ceilpri[m] < k2.priority[t]
                   THEN [k2 EXCEPT !.priority[t] = ceilpri[m]]
                   ELSE k2
         IN  make_non_wait(k3, t)

Bug_mutex_release_pri(k, m) ==
    IF queue_empty(k.wque[m])
    THEN [k EXCEPT !.loctsk[m] = NULL]
    ELSE LET t  == Head(k.wque[m])
             k1 == wait_dequeue_tmevtb([k EXCEPT !.wque[m] = Tail(@)], t)
             k2 == chain_push(set_wercd(k1, t, E_OK), t, m)
         IN  make_non_wait(k2, t)

(* The first waiter takes the mutex over, at its ceiling.                  *)
mutex_release(k, m) ==
    IF queue_empty(k.wque[m])
    THEN [k EXCEPT !.loctsk[m] = NULL]
    ELSE LET t  == Head(k.wque[m])
             k1 == wait_dequeue_tmevtb([k EXCEPT !.wque[m] = Tail(@)], t)
             k2 == chain_push(set_wercd(k1, t, E_OK), t, m)
             k3 == IF MTX_CEILING(m) /\ ceilpri[m] < k2.priority[t]
                   THEN [k2 EXCEPT !.priority[t] = ceilpri[m]]
                   ELSE k2
         IN  make_non_wait(k3, t)

mutex_release_all(k, t) ==
    LET after[n \in 0 .. Cardinality(Mutex)] ==
          IF n = 0 THEN k
          ELSE LET j == after[n - 1]
                   m == j.lastmtx[t]
               IN  IF m = NULL THEN j
                   ELSE mutex_release([j EXCEPT !.lastmtx[t] = j.prevmtx[m]], m)
    IN  after[Cardinality(Mutex)]

-----------------------------------------------------------------------------
\* mutant: the mutexes of the task stay locked
Bug_task_terminate(k, t) ==
    LET s  == k.tstat[t]
        k1 == IF TSTAT_RUNNABLE(s) THEN make_non_runnable(k, t)
              ELSE IF TSTAT_WAITING(s) THEN wait_dequeue_tmevtb(wait_dequeue_wobj(k, t), t)
              ELSE k
        k3 == activate_context(make_dormant(k1, t), t)
    IN  IF k3.actque[t]
        THEN make_active([k3 EXCEPT !.actque[t] = FALSE], t)
        ELSE k3

(* A task is terminated whatever its state: it leaves the queue it is in,  *)
(* gives back its mutexes, loses its stack, and is started again at once   *)
(* when an activation request is queued.                                   *)
task_terminate(k, t) ==
    LET s  == k.tstat[t]
        k1 == IF TSTAT_RUNNABLE(s) THEN make_non_runnable(k, t)
              ELSE IF TSTAT_WAITING(s) THEN wait_dequeue_tmevtb(wait_dequeue_wobj(k, t), t)
              ELSE k
        k2 == IF k1.lastmtx[t] # NULL THEN mutex_release_all(k1, t) ELSE k1
        k3 == activate_context(make_dormant(k2, t), t)
    IN  IF k3.actque[t]
        THEN make_active([k3 EXCEPT !.actque[t] = FALSE], t)
        ELSE k3
=============================================================================
