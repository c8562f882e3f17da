----------------------------- MODULE MutexCalls -----------------------------
(***************************************************************************)
(* The service calls of kernel/mutex.c on top of those of TaskCalls. The   *)
(* mutexes are plain (TA_NULL), in priority order (TA_TPRI) or with the    *)
(* priority ceiling protocol (TA_CEILING), which gives the owner the       *)
(* ceiling as its current priority for as long as it holds the mutex.      *)
(***************************************************************************)
EXTENDS TaskCalls

\* the ceiling must not be lower than the caller's base priority
within_ceiling(m) == MTX_CEILING(m) => ceilpri[m] <= k.bpriority[k.runtsk]

(* The caller locks a free mutex: its priority may rise, but no dispatch   *)
(* becomes necessary (the assert).                                         *)
lock_free(m) ==
    /\ k.loctsk[m] = NULL
    /\ LET k1 == mutex_acquire(k, k.runtsk, m)
       IN  k' = Check(k1, k1.runtsk = k1.schedtsk, "mutex")

\* the mutex belongs to another task
contended(m) == k.loctsk[m] \notin {NULL, k.runtsk}

loc_mtx(m) ==
    /\ CHECK_DISPATCH
    /\ ~k.raster[k.runtsk]
    /\ within_ceiling(m)
    /\ \/ lock_free(m)
       \/ /\ contended(m)
          /\ k' = dispatch(wobj_make_wait(waiting_for("MTX"), m))

ploc_mtx(m) ==
    /\ CHECK_TSKCTX_UNL
    /\ within_ceiling(m)
    /\ lock_free(m)

\* with a finite timeout; TMO_FEVR is loc_mtx, TMO_POL is ploc_mtx's outcome
tloc_mtx(m) ==
    /\ CHECK_DISPATCH
    /\ ~k.raster[k.runtsk]
    /\ within_ceiling(m)
    /\ \/ lock_free(m)
       \/ /\ contended(m)
          /\ k' = dispatch(wobj_make_wait_tmout(waiting_for("MTX"), m))

\* mutants: any mutex of the caller can be unlocked; the dispatch that the
\* lower priority or the new owner calls for is missing
Bug_unl_mtx(m) ==
    /\ CHECK_TSKCTX_UNL
    /\ k.loctsk[m] = k.runtsk
    /\ LET k1 == [k EXCEPT !.lastmtx[k.runtsk] = k.prevmtx[m]]
           k2 == mutex_drop_priority(k1, k.runtsk, m)
       IN  k' = dispatch(mutex_release(k2, m))

Bug_unl_mtx_nodispatch(m) ==
    /\ CHECK_TSKCTX_UNL
    /\ m = k.lastmtx[k.runtsk]
    /\ LET k1 == [k EXCEPT !.lastmtx[k.runtsk] = k.prevmtx[m]]
           k2 == mutex_drop_priority(k1, k.runtsk, m)
       IN  k' = mutex_release(k2, m)

\* only the mutex locked last can be unlocked

unl_mtx(m) ==
    /\ CHECK_TSKCTX_UNL
    /\ m = k.lastmtx[k.runtsk]
    /\ LET k1 == [k EXCEPT !.lastmtx[k.runtsk] = k.prevmtx[m]]
           k2 == mutex_drop_priority(k1, k.runtsk, m)
       IN  k' = dispatch(mutex_release(k2, m))

\* mutant: a mutex locked later goes on pointing to m
Bug_chain_remove(j, t, m) ==
    [j EXCEPT !.lastmtx[t] = IF @ = m THEN j.prevmtx[m] ELSE @]

\* m is taken out of the middle of t's chain
chain_remove(j, t, m) ==
    [j EXCEPT !.lastmtx[t] = IF @ = m THEN j.prevmtx[m] ELSE @,
              !.prevmtx = [x \in Mutex |->
                  IF x \in ChainOf(j, t) /\ @[x] = m THEN j.prevmtx[m] ELSE @[x]]]

ini_mtx(m) ==
    /\ CHECK_TSKCTX_UNL
    /\ LET k1 == init_wait_queue(k, m)
           t  == k1.loctsk[m]
           k2 == chain_remove([k1 EXCEPT !.loctsk[m] = NULL], t, m)
       IN  k' = dispatch(IF t = NULL THEN k1 ELSE mutex_drop_priority(k2, t, m))

-----------------------------------------------------------------------------
MutexCall(m) == loc_mtx(m) \/ ploc_mtx(m) \/ tloc_mtx(m) \/ unl_mtx(m) \/ ini_mtx(m)

MutexNext == TaskNext \/ \E m \in Mutex : MutexCall(m)

MutexSpec == TaskInit /\ [][MutexNext]_k

-----------------------------------------------------------------------------
(* A mutex knows its owner and the owner's chain knows the mutex: the      *)
(* mutexes that p_lastmtx and p_prevmtx lead to are those whose p_loctsk   *)
(* is the task; the chain ends; a dormant task holds none; nobody waits    *)
(* for a free mutex or for his own (mutex_acquire, mutex_release,          *)
(* mutex_release_all, ini_mtx).                                            *)
HeldBy(j, t) == {m \in Mutex : j.loctsk[m] = t}

OwnershipOK ==
    /\ \A t \in Task :
         /\ ChainOf(k, t) = HeldBy(k, t)
         /\ HeldBy(k, t) # {} => \E m \in HeldBy(k, t) : k.prevmtx[m] = NULL
         /\ TSTAT_DORMANT(k.tstat[t]) => HeldBy(k, t) = {}
    /\ \A m \in Mutex, t \in Task :
         Contains(k.wque[m], t) => k.loctsk[m] \notin {NULL, t}

(* The current priority is the best of the base priority and the ceilings  *)
(* of the mutexes held, at every moment (mutex.h), and the ceiling of a    *)
(* mutex held or waited for is never lower than the base priority, however *)
(* chg_pri changes it meanwhile (mutex_check_ceilpri).                     *)
CeilingOK ==
    \A t \in Task :
        /\ k.priority[t] = Min({k.bpriority[t]} \cup
               {ceilpri[m] : m \in HeldBy(k, t) \cap TA_CEILING})
        /\ \A m \in TA_CEILING :
             k.loctsk[m] = t \/ Contains(k.wque[m], t) => ceilpri[m] <= k.bpriority[t]

(* A wait queue in priority order stays so while the priorities of the     *)
(* tasks in it change, whoever changes them (wobj_change_priority): chg_pri*)
(* and ini_mtx act on waiting tasks.                                       *)
WaitOrderOK ==
    \A w \in TA_TPRI : \A i, j \in 1 .. Len(k.wque[w]) :
        i < j => k.priority[k.wque[w][i]] <= k.priority[k.wque[w][j]]

(* A mutex changes hands only from its owner to nobody, when nobody waits, *)
(* or to the first task that waits; from nobody to the running task.       *)
HandOver ==
    [][\A m \in Mutex : k'.loctsk[m] # k.loctsk[m] =>
         \/ k.loctsk[m] = NULL /\ k'.loctsk[m] = k.runtsk
         \/ k'.loctsk[m] = NULL /\ k'.wque[m] = << >>
         \/ k.wque[m] # << >> /\ k'.loctsk[m] \in Range(k.wque[m])
            /\ k'.wque[m] = Tail(k.wque[m]) /\ k'.loctsk[m] = Head(k.wque[m])]_k
=============================================================================
