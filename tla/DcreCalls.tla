----------------------------- MODULE DcreCalls -----------------------------
(***************************************************************************)
(* The kernel with dynamic creation: tasks and objects are created, used   *)
(* and deleted, in any order, by tasks that may themselves be deleted.     *)
(***************************************************************************)
EXTENDS DcreObjects

vars == <<k, dcre_vars, sync_vars, comm_vars>>

Init == DcreInit /\ SyncInit /\ CommInit

Next ==
    \/ DcreTaskCall /\ UNCHANGED dcre_vars /\ SyncRest /\ CommRest
    \/ KernelCall /\ UNCHANGED dcre_vars /\ SyncRest /\ CommRest
    \/ CreateOrDelete /\ SyncRest /\ CommRest
    \/ SyncCall /\ CommRest
    \/ CommCall /\ SyncRest

Spec == Init /\ [][Next]_vars

-----------------------------------------------------------------------------
Existing(objs) == {o \in objs : exists(o)}

\* the objects whose wait queue w is
ObjectOf(w) ==
    IF w = dataq_rwait THEN dataq ELSE IF w = pridataq_rwait THEN pridataq ELSE w

(* The lists of unused control blocks hold exactly the blocks of objects   *)
(* that do not exist, once each (acre_yyy, del_yyy: a block on two lists or*)
(* twice on one would be created twice). Nobody waits for an object that   *)
(* does not exist, no task owns a mutex that does not, and a task that does*)
(* not exist is dormant, so that no queue leads to its control block, and  *)
(* no request for it is stored.                                            *)
ExistenceOK ==
    /\ \A x \in DOMAIN free :
         /\ IsInjective(free[x])
         /\ Range(free[x]) = {o \in noexs : kind[o] = x}
    /\ \A w \in Wobj : ~exists(ObjectOf(w)) => queue_empty(k.wque[w])
    /\ \A t \in Task :
         /\ ChainOf(k, t) = {m \in Existing(Mutex) : k.loctsk[m] = t}
         /\ ~exists(t) => TSTAT_DORMANT(k.tstat[t]) /\ ~k.actque[t] /\ k.tmevtb[t] = NULL

(* The rest of the kernel does not suffer from creation and deletion: each *)
(* task is in the queue it should be in, the scheduled task is the right   *)
(* one, the TMEVTBs of waits are in order, current priorities fit the      *)
(* ceilings of the mutexes held, and no assert fails.                      *)
KernelOK ==
    /\ T!QueueOK /\ T!ScheduleOK /\ T!RunningOK /\ T!WaitInfoOK /\ T!AssertsHold
    /\ \A t \in Task :
         k.priority[t] = Min({k.bpriority[t]} \cup CeilingsOf(k, t))

(* What an object promises it promises from its creation on, whatever was  *)
(* left in its control block: no task waits for a semaphore, an event flag,*)
(* a message, room or a block that it could have.                          *)
ObjectsOK ==
    /\ \A s \in Existing(Sem) : semcnt[s] > 0 => queue_empty(k.wque[s])
    /\ F!FlagWaitOK
    /\ exists(dataq) => D!DtqOK
    /\ exists(pridataq) => P!PdqOK
    /\ exists(pool) => B!PoolOK /\ B!BlocksOK

(* The areas that the kernel allocated belong to existing objects, each to *)
(* one; and if memory can be freed at all, the creation of an object and   *)
(* its deletion leave no area allocated that belongs to nobody.            *)
NoSharedMemory ==
    \A o, p \in DOMAIN mem :
        /\ mem[o] # {} => exists(o) /\ mem[o] \subseteq allocated
        /\ o # p => mem[o] \cap mem[p] = {}

Lost == IF OMIT_KMM_ALLOCONLY THEN allocated \ UNION {mem[o] : o \in DOMAIN mem} ELSE {}

MemoryReturned == [][NoSharedMemory' /\ (noexs' # noexs => Lost' = Lost)]_vars

(* A creation that fails (E_NOMEM) gives back what it has allocated, as the*)
(* call of kernel_free on that path of acre_mpf means to: all that is      *)
(* allocated belongs to somebody.                                          *)
NoLeak == Lost = {}

(* Who waited for a deleted object, in any of its queues, waits no more, be*)
(* he suspended or waiting with a timeout, and is told so when he runs.    *)
DeletionReleases ==
    [][\A w \in Wobj : exists(ObjectOf(w)) /\ ~exists(ObjectOf(w))' =>
         \A t \in Range(k.wque[w]) :
             /\ ~TSTAT_WAITING(k'.tstat[t]) /\ k'.tmevtb[t] = NULL
             /\ k'.winfo[t] = "E_DLT" \/ t = k'.runtsk]_vars
=============================================================================
