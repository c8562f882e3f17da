---------------------------- MODULE DcreObjects ----------------------------
(***************************************************************************)
(* The objects of the dynamic creation extension (extension/dcre/kernel):  *)
(* semaphores, event flags and mutexes (semaphore.c, eventflag.c and       *)
(* mutex.c), and at most one data queue, priority data queue and memory    *)
(* pool (dataqueue.c, pridataq.c and mempfix.c), whose buffers come from   *)
(* the caller of acre_yyy or from the kernel's memory. Their service calls *)
(* look under the CPU lock whether the object exists.                      *)
(***************************************************************************)
EXTENDS DcreTask

CONSTANTS Sem, isemcnt, maxsem,
          Flg, Bit, iflgptn, TA_CLR, TA_WMUL

VARIABLES semcnt, flgptn, winfo_flg

sync_vars == <<semcnt, flgptn, winfo_flg>>

S == INSTANCE SemaphoreCalls
F == INSTANCE EventflagCalls
M == INSTANCE MutexCalls

ASSUME SyncAssumption == S!SemAssumption /\ F!FlgAssumption

SyncInit ==
    /\ semcnt = isemcnt
    /\ flgptn = iflgptn
    /\ winfo_flg = [t \in Task |-> NULL]

(* The part of deletion that all objects with one wait queue have in       *)
(* common: who waits is released, the control block is put back.           *)
del_object(o, j) ==
    /\ T!CHECK_TSKCTX_UNL
    /\ exists(o) /\ o \notin Static
    /\ k' = dispatch(j)
    /\ release_cb(o)
    /\ UNCHANGED <<cb, mem, allocated>>

acre_object(x) ==
    /\ T!CHECK_TSKCTX_UNL
    /\ take_cb(x)
    /\ UNCHANGED <<cb, mem, allocated>>

-----------------------------------------------------------------------------
(* semaphore.c *)

acre_sem ==
    LET s == Head(free.sem)
    IN  /\ acre_object("sem")
        /\ k' = [k EXCEPT !.wque[s] = << >>]
        /\ semcnt' = [semcnt EXCEPT ![s] = isemcnt[s]]
        /\ UNCHANGED <<flgptn, winfo_flg>>

del_sem(s) ==
    /\ del_object(s, init_wait_queue(k, s))
    /\ UNCHANGED <<semcnt, flgptn, winfo_flg>>

sig_sem(s)  == exists(s) /\ S!sig_sem(s)
wai_sem(s)  == exists(s) /\ S!wai_sem(s)
pol_sem(s)  == exists(s) /\ S!pol_sem(s)
twai_sem(s) == exists(s) /\ S!twai_sem(s)
ini_sem(s)  == exists(s) /\ S!ini_sem(s)

SemCall(s) ==
    /\ sig_sem(s) \/ wai_sem(s) \/ pol_sem(s) \/ twai_sem(s) \/ ini_sem(s)
    /\ UNCHANGED <<dcre_vars, flgptn, winfo_flg>>

-----------------------------------------------------------------------------
(* eventflag.c *)

acre_flg ==
    LET f == Head(free.flg)
    IN  /\ acre_object("flg")
        /\ k' = [k EXCEPT !.wque[f] = << >>]
        /\ flgptn' = [flgptn EXCEPT ![f] = iflgptn[f]]
        /\ winfo_flg' = F!alive_flg(winfo_flg)
        /\ UNCHANGED semcnt

del_flg(f) ==
    /\ del_object(f, init_wait_queue(k, f))
    /\ winfo_flg' = F!alive_flg(winfo_flg)
    /\ UNCHANGED <<semcnt, flgptn>>

set_flg(f, setptn) == exists(f) /\ F!set_flg(f, setptn)
clr_flg(f, clrptn) == exists(f) /\ F!clr_flg(f, clrptn)
wai_flg(f, w)      == exists(f) /\ F!wai_flg(f, w)
pol_flg(f, w)      == exists(f) /\ F!pol_flg(f, w)
twai_flg(f, w)     == exists(f) /\ F!twai_flg(f, w)
ini_flg(f)         == exists(f) /\ F!ini_flg(f)

FlgCall(f) ==
    /\ \/ \E ptn \in F!FLGPTN : set_flg(f, ptn) \/ clr_flg(f, ptn)
       \/ \E w \in F!WInfoFlg : wai_flg(f, w) \/ pol_flg(f, w) \/ twai_flg(f, w)
       \/ ini_flg(f)
    /\ UNCHANGED <<dcre_vars, semcnt>>

-----------------------------------------------------------------------------
(* mutex.c *)

acre_mtx ==
    LET m == Head(free.mtx)
    IN  /\ acre_object("mtx")
        /\ k' = [k EXCEPT !.wque[m] = << >>, !.loctsk[m] = NULL]
        /\ UNCHANGED sync_vars

\* mutant: the mutex stays in its owner's chain
Bug_del_mtx(m) ==
    /\ del_object(m, init_wait_queue(k, m))
    /\ UNCHANGED sync_vars

(* p_loctsk is not reset: it is not looked at again before acre_mtx.       *)
del_mtx(m) ==
    LET k1 == init_wait_queue(k, m)
        t  == k1.loctsk[m]
    IN  /\ del_object(m, IF t = NULL THEN k1
                         ELSE mutex_drop_priority(M!chain_remove(k1, t, m), t, m))
        /\ UNCHANGED sync_vars

loc_mtx(m)  == exists(m) /\ M!loc_mtx(m)
ploc_mtx(m) == exists(m) /\ M!ploc_mtx(m)
tloc_mtx(m) == exists(m) /\ M!tloc_mtx(m)
unl_mtx(m)  == exists(m) /\ M!unl_mtx(m)
ini_mtx(m)  == exists(m) /\ M!ini_mtx(m)

MtxCall(m) ==
    /\ loc_mtx(m) \/ ploc_mtx(m) \/ tloc_mtx(m) \/ unl_mtx(m) \/ ini_mtx(m)
    /\ UNCHANGED <<dcre_vars, sync_vars>>

-----------------------------------------------------------------------------
SyncCall ==
    \/ \E s \in Sem : SemCall(s) \/ del_sem(s)
    \/ \E f \in Flg : FlgCall(f) \/ del_flg(f)
    \/ \E m \in Mutex : MtxCall(m) \/ del_mtx(m)
    \/ acre_sem \/ acre_flg \/ acre_mtx

\* what a step of another part does to these
SyncRest == winfo_flg' = F!alive_flg(winfo_flg) /\ UNCHANGED <<semcnt, flgptn>>

-----------------------------------------------------------------------------
(* Data queues, priority data queues and memory pools. *)

CONSTANTS dataq, Dtqcnt, dataq_rwait,   \* wait queues: a queue is named after the
          pridataq, Pdqcnt, maxdpri,    \* queue of its senders, through which it
          pridataq_rwait, Data,         \* is linked into the list of the unused
          pool, blkcnt

VARIABLES dtqcnt, dtq, sdata, rdata,    \* as in DataqueueCalls
          pdqcnt, pdq, psdata, prdata,  \* as in PridataqCalls
          mpf, held                     \* as in MempfixCalls

dtq_vars  == <<dtqcnt, dtq, sdata, rdata>>
pdq_vars  == <<pdqcnt, pdq, psdata, prdata>>
mpf_vars  == <<mpf, held>>
comm_vars == <<dtq_vars, pdq_vars, mpf_vars>>

nobody == [t \in Task |-> NULL]

D == INSTANCE DataqueueCalls WITH swait_queue <- dataq, rwait_queue <- dataq_rwait
P == INSTANCE PridataqCalls WITH
         swait_queue <- pridataq, rwait_queue <- pridataq_rwait,
         sdata <- psdata, rdata <- prdata
B == INSTANCE MempfixCalls WITH releasing <- [t \in Task |-> NULL]

ASSUME CommAssumption == D!DtqAssumption /\ P!PdqAssumption

CommInit ==
    /\ dtqcnt = 0 /\ dtq = D!initialize_dataqueue /\ sdata = nobody /\ rdata = nobody
    /\ pdqcnt = 0 /\ pdq = P!initialize_pridataq /\ psdata = nobody /\ prdata = nobody
    /\ mpf = B!initialize_mempfix /\ held = [t \in Task |-> {}]

\* what a step of another part does to each
DtqRest == sdata' = D!alive(sdata) /\ rdata' = nobody /\ UNCHANGED <<dtqcnt, dtq>>
PdqRest == psdata' = P!alive(psdata) /\ prdata' = nobody /\ UNCHANGED <<pdqcnt, pdq>>
CommRest == DtqRest /\ PdqRest /\ UNCHANGED mpf_vars

deletable(o) == T!CHECK_TSKCTX_UNL /\ exists(o) /\ o \notin Static

\* a buffer for n messages; none is needed for no message
buffer(o, n) == with_memory(o, IF n = 0 THEN 0 ELSE 1)

-----------------------------------------------------------------------------
(* dataqueue.c *)

\* mutant: the ring buffer's indices of the deleted data queue are left
Bug_acre_dtq(n) ==
    /\ T!CHECK_TSKCTX_UNL
    /\ buffer(dataq, n)
    /\ take_cb("dtq")
    /\ dtqcnt' = n
    /\ dtq' = [dtq EXCEPT !.p_dtqmb = [i \in 0 .. n - 1 |-> NULL]]
    /\ UNCHANGED <<k, cb, sdata, rdata, pdq_vars, mpf_vars>>

acre_dtq(n) ==
    /\ T!CHECK_TSKCTX_UNL
    /\ buffer(dataq, n)
    /\ take_cb("dtq")
    /\ k' = [k EXCEPT !.wque[dataq] = << >>, !.wque[dataq_rwait] = << >>]
    /\ dtqcnt' = n
    /\ dtq' = [count |-> 0, head |-> 0, tail |-> 0, p_dtqmb |-> [i \in 0 .. n - 1 |-> NULL]]
    /\ sdata' = nobody /\ rdata' = nobody
    /\ UNCHANGED <<cb, pdq_vars, mpf_vars>>

\* mutant: the receivers are not released
Bug_del_dtq ==
    /\ deletable(dataq)
    /\ k' = dispatch(init_wait_queue(k, dataq))
    /\ without_memory(dataq)
    /\ release_cb(dataq)
    /\ DtqRest
    /\ UNCHANGED <<cb, pdq_vars, mpf_vars>>

del_dtq ==
    /\ deletable(dataq)
    /\ k' = dispatch(init_wait_queue(init_wait_queue(k, dataq), dataq_rwait))
    /\ without_memory(dataq)
    /\ release_cb(dataq)
    /\ DtqRest
    /\ UNCHANGED <<cb, pdq_vars, mpf_vars>>

snd_dtq(data)  == exists(dataq) /\ D!snd_dtq(data)
psnd_dtq(data) == exists(dataq) /\ D!psnd_dtq(data)
tsnd_dtq(data) == exists(dataq) /\ D!tsnd_dtq(data)
fsnd_dtq(data) == exists(dataq) /\ D!fsnd_dtq(data)
rcv_dtq        == exists(dataq) /\ D!rcv_dtq
prcv_dtq       == exists(dataq) /\ D!prcv_dtq
trcv_dtq       == exists(dataq) /\ D!trcv_dtq
ini_dtq        == exists(dataq) /\ D!ini_dtq

DtqCall ==
    /\ \/ \E data \in Data : snd_dtq(data) \/ psnd_dtq(data) \/ tsnd_dtq(data) \/ fsnd_dtq(data)
       \/ rcv_dtq \/ prcv_dtq \/ trcv_dtq \/ ini_dtq
    /\ UNCHANGED <<dtqcnt, dcre_vars, pdq_vars, mpf_vars>>

-----------------------------------------------------------------------------
(* pridataq.c *)

acre_pdq(n) ==
    /\ T!CHECK_TSKCTX_UNL
    /\ buffer(pridataq, n)
    /\ take_cb("pdq")
    /\ k' = [k EXCEPT !.wque[pridataq] = << >>, !.wque[pridataq_rwait] = << >>]
    /\ pdqcnt' = n
    /\ pdq' = [ count |-> 0, p_head |-> NULL, unused |-> 0, p_freelist |-> NULL,
                p_next |-> [b \in 0 .. n - 1 |-> NULL], letter |-> [b \in 0 .. n - 1 |-> NULL] ]
    /\ psdata' = nobody /\ prdata' = nobody
    /\ UNCHANGED <<cb, dtq_vars, mpf_vars>>

del_pdq ==
    /\ deletable(pridataq)
    /\ k' = dispatch(init_wait_queue(init_wait_queue(k, pridataq), pridataq_rwait))
    /\ without_memory(pridataq)
    /\ release_cb(pridataq)
    /\ PdqRest
    /\ UNCHANGED <<cb, dtq_vars, mpf_vars>>

snd_pdq(x)  == exists(pridataq) /\ P!snd_pdq(x)
psnd_pdq(x) == exists(pridataq) /\ P!psnd_pdq(x)
tsnd_pdq(x) == exists(pridataq) /\ P!tsnd_pdq(x)
rcv_pdq     == exists(pridataq) /\ P!rcv_pdq
prcv_pdq    == exists(pridataq) /\ P!prcv_pdq
trcv_pdq    == exists(pridataq) /\ P!trcv_pdq
ini_pdq     == exists(pridataq) /\ P!ini_pdq

PdqCall ==
    /\ \/ \E x \in P!Letter : snd_pdq(x) \/ psnd_pdq(x) \/ tsnd_pdq(x)
       \/ rcv_pdq \/ prcv_pdq \/ trcv_pdq \/ ini_pdq
    /\ UNCHANGED <<pdqcnt, dcre_vars, dtq_vars, mpf_vars>>

-----------------------------------------------------------------------------
(* mempfix.c *)

\* memory for the blocks and for their marks
acre_mpf ==
    /\ T!CHECK_TSKCTX_UNL
    /\ with_memory(pool, 2)
    /\ take_cb("mpf")
    /\ k' = [k EXCEPT !.wque[pool] = << >>]
    /\ mpf' = B!initialize_mempfix
    /\ held' = [t \in Task |-> {}]
    /\ UNCHANGED <<cb, dtq_vars, pdq_vars>>

(* The blocks were allocated, and there is no memory for the marks:        *)
(* E_NOMEM. What was allocated is not freed, since the condition of that   *)
(* call of kernel_free is never true.                                      *)
acre_mpf_nomem ==
    /\ T!CHECK_TSKCTX_UNL
    /\ ~queue_empty(free.mpf)
    /\ \E a \in Area \ allocated : allocated' = allocated \cup {a}
    /\ UNCHANGED <<k, cb, noexs, free, mem, comm_vars>>

del_mpf ==
    /\ deletable(pool)
    /\ k' = dispatch(init_wait_queue(k, pool))
    /\ without_memory(pool)
    /\ release_cb(pool)
    /\ UNCHANGED <<cb, comm_vars>>

get_mpf  == exists(pool) /\ B!get_mpf
pget_mpf == exists(pool) /\ B!pget_mpf
tget_mpf == exists(pool) /\ B!tget_mpf
ini_mpf  == exists(pool) /\ B!ini_mpf

(* Here the block is checked under the lock.                               *)
rel_mpf(b) ==
    LET t == Head(k.wque[pool])
    IN  /\ T!CHECK_TSKCTX_UNL
        /\ exists(pool)
        /\ b < mpf.unused
        /\ mpf.next[b] = B!INDEX_ALLOC
        /\ \/ /\ ~queue_empty(k.wque[pool])
              /\ k' = dispatch(wait_complete([k EXCEPT !.wque[pool] = Tail(@)], t))
              /\ held' = [B!without(b) EXCEPT ![t] = @ \cup {b}]
              /\ UNCHANGED mpf
           \/ /\ queue_empty(k.wque[pool])
              /\ mpf' = [mpf EXCEPT !.fblkcnt = @ + 1,
                                    !.next[b] = mpf.freelist,
                                    !.freelist = b]
              /\ held' = B!without(b)
              /\ UNCHANGED k

MpfCall ==
    /\ get_mpf \/ pget_mpf \/ tget_mpf \/ ini_mpf \/ \E b \in B!Block : rel_mpf(b)
    /\ UNCHANGED <<dcre_vars, dtq_vars, pdq_vars>>

-----------------------------------------------------------------------------
CommCall ==
    \/ DtqCall \/ del_dtq \/ \E n \in Dtqcnt : acre_dtq(n)
    \/ PdqCall \/ del_pdq \/ \E n \in Pdqcnt : acre_pdq(n)
    \/ MpfCall \/ del_mpf \/ acre_mpf \/ acre_mpf_nomem
=============================================================================
