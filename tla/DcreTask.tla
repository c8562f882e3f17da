------------------------------ MODULE DcreTask ------------------------------
(***************************************************************************)
(* The dynamic creation extension (extension/dcre/kernel): which control   *)
(* blocks hold an existing object, the lists of those that do not, the     *)
(* memory that the kernel allocates for its objects, the creation and      *)
(* deletion of tasks, and the service calls of task_manage.c, task_term.c  *)
(* and task_sync.c, which look under the CPU lock whether their task       *)
(* exists. A control block is created with the same attributes each time.  *)
(***************************************************************************)
EXTENDS MutexCtl

CONSTANTS
    kind,               \* of each control block: "tsk", "sem", ..
    Static,             \* the objects created by the configurator
    Configurations,     \* the possible sets of control blocks (AID_TSK, AID_SEM, ..)
    Area,               \* the pieces of the memory of DEF_KMM
    OMIT_KMM_ALLOCONLY  \* whether kernel_free makes an area free again

VARIABLES
    k,          \* a KernelState
    cb,         \* the control blocks of this configuration, never changed
    noexs,      \* those marked TA_NOEXS
    free,       \* free_tcb, free_semcb, ..: the unused ones, by kind of object
    mem,        \* the areas that the kernel allocated for each object's stack,
                \* buffer, blocks or marks of blocks: those that the flags
                \* TA_MEMALLOC and TA_MBALLOC say
    allocated   \* the areas that kernel_malloc has handed out

dcre_vars == <<cb, noexs, free, mem, allocated>>

T == INSTANCE TaskCalls

ASSUME DcreAssumption ==
    /\ \A conf \in Configurations : Static \subseteq conf /\ conf \subseteq DOMAIN kind
    /\ Static \cap Task = TA_ACT
    /\ \A t \in Task : kind[t] = "tsk"

exists(o) == o \in cb \ noexs

(* initialize_task, initialize_semaphore, ..: the control blocks that the  *)
(* configurator has left are put on the lists, in the order of the tables. *)
DcreInit ==
    /\ T!TaskInit
    /\ cb \in Configurations
    /\ noexs = cb \ Static
    /\ \E table \in SetToSeqs(noexs) :
         free = [x \in Range(kind) |-> SelectSeq(table, LAMBDA o : kind[o] = x)]
    /\ mem = [o \in DOMAIN kind |-> {}]
    /\ allocated = {}

-----------------------------------------------------------------------------
(* The memory manager of startup.c, which never reuses an area, or the one *)
(* that takes its place.                                                   *)
kernel_free(areas) == IF OMIT_KMM_ALLOCONLY THEN allocated \ areas ELSE allocated

(* acre_yyy gets the pieces of memory for an object from its caller, or    *)
(* allocates some of them, which it marks.                                 *)
with_memory(o, pieces) ==
    \E areas \in SUBSET (Area \ allocated) :
        /\ Cardinality(areas) <= pieces
        /\ mem' = [mem EXCEPT ![o] = areas]
        /\ allocated' = allocated \cup areas

\* del_yyy frees the marked pieces
without_memory(o) ==
    /\ mem' = [mem EXCEPT ![o] = {}]
    /\ allocated' = kernel_free(mem[o])

\* the first unused control block of a kind is taken
take_cb(x) ==
    /\ ~queue_empty(free[x])
    /\ noexs' = noexs \ {Head(free[x])}
    /\ free' = [free EXCEPT ![x] = Tail(@)]

release_cb(o) ==
    /\ noexs' = noexs \cup {o}
    /\ free' = [free EXCEPT ![kind[o]] = queue_insert_prev(@, o)]

-----------------------------------------------------------------------------
(* task_manage.c *)

acre_tsk(act) ==
    LET t  == Head(free.tsk)
        k1 == make_dormant([k EXCEPT !.actque[t] = FALSE], t)
    IN  /\ T!CHECK_TSKCTX_UNL
        /\ take_cb("tsk")
        /\ with_memory(t, 1)
        /\ k' = IF act THEN dispatch(make_active(k1, t)) ELSE k1
        /\ UNCHANGED cb

\* mutants: a task that is not dormant is deleted; its stack is not freed
Bug_del_tsk(t) ==
    /\ T!CHECK_TSKCTX_UNL
    /\ exists(t) /\ t \notin Static
    /\ without_memory(t)
    /\ release_cb(t)
    /\ UNCHANGED <<k, cb>>

Bug_del_tsk_leak(t) ==
    /\ T!CHECK_TSKCTX_UNL
    /\ exists(t) /\ t \notin Static
    /\ TSTAT_DORMANT(k.tstat[t])
    /\ mem' = [mem EXCEPT ![t] = {}]
    /\ release_cb(t)
    /\ UNCHANGED <<k, cb, allocated>>

del_tsk(t) ==
    /\ T!CHECK_TSKCTX_UNL
    /\ exists(t) /\ t \notin Static
    /\ TSTAT_DORMANT(k.tstat[t])
    /\ without_memory(t)
    /\ release_cb(t)
    /\ UNCHANGED <<k, cb>>

-----------------------------------------------------------------------------
act_tsk(t)      == exists(t) /\ T!act_tsk(t)
can_act(t)      == exists(t) /\ T!can_act(t)
chg_pri(t, pri) == exists(t) /\ T!chg_pri(t, pri)
ras_ter(t)      == exists(t) /\ T!ras_ter(t)
ter_tsk(t)      == exists(t) /\ T!ter_tsk(t)
wup_tsk(t)      == exists(t) /\ T!wup_tsk(t)
can_wup(t)      == exists(t) /\ T!can_wup(t)
rel_wai(t)      == exists(t) /\ T!rel_wai(t)
sus_tsk(t)      == exists(t) /\ T!sus_tsk(t)
rsm_tsk(t)      == exists(t) /\ T!rsm_tsk(t)

ext_tsk  == T!ext_tsk
dis_ter  == T!dis_ter
ena_ter  == T!ena_ter
slp_tsk  == T!slp_tsk
tslp_tsk == T!tslp_tsk
dly_tsk  == T!dly_tsk

DcreTaskCall ==
    \/ ext_tsk \/ dis_ter \/ ena_ter \/ slp_tsk \/ tslp_tsk \/ dly_tsk
    \/ \E t \in Task :
         \/ act_tsk(t) \/ can_act(t) \/ ter_tsk(t) \/ ras_ter(t)
         \/ wup_tsk(t) \/ can_wup(t) \/ rel_wai(t) \/ sus_tsk(t) \/ rsm_tsk(t)
         \/ \E pri \in Pri : chg_pri(t, pri)

\* what the extension leaves as it is
KernelCall ==
    \/ T!dis_dsp \/ T!ena_dsp \/ T!loc_cpu \/ T!unl_cpu
    \/ T!irq_entry \/ T!irq_exit
    \/ \E t \in Task : T!signal_time(t)
    \/ \E pri \in Pri : T!rot_rdq(pri)
    \/ \E ipm \in Ipm : T!chg_ipm(ipm)

CreateOrDelete == (\E act \in BOOLEAN : acre_tsk(act)) \/ \E t \in Task : del_tsk(t)
=============================================================================
