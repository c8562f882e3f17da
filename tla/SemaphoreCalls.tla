--------------------------- MODULE SemaphoreCalls ---------------------------
(***************************************************************************)
(* The service calls of kernel/semaphore.c on top of those of TaskCalls.   *)
(***************************************************************************)
EXTENDS TaskCalls

CONSTANTS
    Sem,        \* the SEMCBs; a semaphore is also the name of its wait queue
    isemcnt,    \* initial number of resources
    maxsem      \* maximal number of resources

(* Assumed of the constants by whoever instantiates this module.          *)
SemAssumption ==
    /\ Sem \subseteq Wobj
    /\ \A s \in Sem : wfactor[s] = "SEM"
    /\ isemcnt \in [Sem -> Nat] /\ maxsem \in [Sem -> Nat \ {0}]
    /\ \A s \in Sem : isemcnt[s] <= maxsem[s]

VARIABLE semcnt     \* the number of free resources

sem_vars == <<k, semcnt>>

SemInit == TaskInit /\ semcnt = isemcnt   \* initialize_semaphore

\* mutant: the resource is counted although a waiting task has taken it
Bug_sig_sem(s) ==
    /\ CHECK_UNL
    /\ \/ /\ ~queue_empty(k.wque[s])
          /\ k' = dispatch(wait_complete([k EXCEPT !.wque[s] = Tail(@)], Head(k.wque[s])))
       \/ /\ queue_empty(k.wque[s])
          /\ k' = k
    /\ semcnt[s] < maxsem[s]
    /\ semcnt' = [semcnt EXCEPT ![s] = @ + 1]

(* The first waiting task takes the resource, else it is counted.          *)
sig_sem(s) ==
    /\ CHECK_UNL
    /\ \/ /\ ~queue_empty(k.wque[s])
          /\ k' = dispatch(wait_complete([k EXCEPT !.wque[s] = Tail(@)], Head(k.wque[s])))
          /\ UNCHANGED semcnt
       \/ /\ queue_empty(k.wque[s])
          /\ semcnt[s] < maxsem[s]
          /\ semcnt' = [semcnt EXCEPT ![s] = @ + 1]
          /\ UNCHANGED k

take_resource(s) ==
    /\ semcnt[s] >= 1
    /\ semcnt' = [semcnt EXCEPT ![s] = @ - 1]
    /\ UNCHANGED k

wai_sem(s) ==
    /\ CHECK_DISPATCH
    /\ ~k.raster[k.runtsk]
    /\ \/ take_resource(s)
       \/ /\ semcnt[s] = 0
          /\ k' = dispatch(wobj_make_wait(waiting_for("SEM"), s))
          /\ UNCHANGED semcnt

pol_sem(s) == CHECK_TSKCTX_UNL /\ take_resource(s)

\* with a finite timeout; TMO_FEVR is wai_sem, TMO_POL is pol_sem's outcome
twai_sem(s) ==
    /\ CHECK_DISPATCH
    /\ ~k.raster[k.runtsk]
    /\ \/ take_resource(s)
       \/ /\ semcnt[s] = 0
          /\ k' = dispatch(wobj_make_wait_tmout(waiting_for("SEM"), s))
          /\ UNCHANGED semcnt

ini_sem(s) ==
    /\ CHECK_TSKCTX_UNL
    /\ k' = dispatch(init_wait_queue(k, s))
    /\ semcnt' = [semcnt EXCEPT ![s] = isemcnt[s]]

-----------------------------------------------------------------------------
SemCall(s) == sig_sem(s) \/ wai_sem(s) \/ pol_sem(s) \/ twai_sem(s) \/ ini_sem(s)

SemNext ==
    \/ TaskNext /\ UNCHANGED semcnt
    \/ \E s \in Sem : SemCall(s)

SemSpec == SemInit /\ [][SemNext]_sem_vars

-----------------------------------------------------------------------------
(* No task is left waiting while a resource is free, whichever way it came *)
(* to be free or the task to wait (sig_sem, wai_sem, ini_sem), and the     *)
(* count stays within its bounds.                                          *)
SemOK ==
    \A s \in Sem :
        /\ semcnt[s] \in 0 .. maxsem[s]
        /\ semcnt[s] > 0 => queue_empty(k.wque[s])
=============================================================================
