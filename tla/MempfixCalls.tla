---------------------------- MODULE MempfixCalls ----------------------------
(***************************************************************************)
(* The service calls of kernel/mempfix.c on top of those of TaskCalls, for *)
(* one fixed-sized memory pool (the MPFCBs share nothing). rel_mpf looks   *)
(* at the pool before it locks the CPU, so that it is two steps: other     *)
(* tasks and interrupt handlers may run between them.                      *)
(***************************************************************************)
EXTENDS TaskCalls

CONSTANTS
    pool,       \* its wait queue
    blkcnt      \* the number of blocks

ASSUME MpfAssumption ==
    /\ pool \in Wobj /\ wfactor[pool] = "MPF"
    /\ blkcnt \in Nat \ {0}
    /\ TA_NOACTQUE = Task   \* a task that is terminated is dormant for a step

Block == 0 .. blkcnt - 1
INDEX_NULL  == -1     \* ~0U
INDEX_ALLOC == -2     \* ~1U

VARIABLES
    mpf,        \* the MPFCB and the field next of its MPFMBs
    releasing,  \* the block each task is about to give back in rel_mpf
    held        \* history: the blocks each task was given and did not give back

mpf_vars == <<k, mpf, releasing, held>>

Mpfcb == [ fblkcnt : 0 .. blkcnt, unused : 0 .. blkcnt,
           freelist : Block \cup {INDEX_NULL},
           next : [Block -> Block \cup {INDEX_NULL, INDEX_ALLOC}] ]

initialize_mempfix ==
    [ fblkcnt |-> blkcnt, unused |-> 0, freelist |-> INDEX_NULL,
      next |-> [b \in Block |-> INDEX_NULL] ]

MpfInit ==
    /\ TaskInit
    /\ mpf = initialize_mempfix
    /\ releasing = [t \in Task |-> NULL]
    /\ held = [t \in Task |-> {}]

-----------------------------------------------------------------------------
\* the block that get_mpf_block hands out
first_free == IF mpf.freelist # INDEX_NULL THEN mpf.freelist ELSE mpf.unused

\* mutant: an allocated block is not marked
Bug_get_mpf_block ==
    [mpf EXCEPT !.freelist = IF @ # INDEX_NULL THEN mpf.next[@] ELSE @,
                !.unused   = IF mpf.freelist # INDEX_NULL THEN @ ELSE @ + 1,
                !.fblkcnt  = @ - 1]

get_mpf_block ==
    [mpf EXCEPT !.freelist = IF @ # INDEX_NULL THEN mpf.next[@] ELSE @,
                !.unused   = IF mpf.freelist # INDEX_NULL THEN @ ELSE @ + 1,
                !.fblkcnt  = @ - 1,
                !.next[first_free] = INDEX_ALLOC]

take_block ==
    /\ mpf.fblkcnt > 0
    /\ mpf' = get_mpf_block
    /\ held' = [held EXCEPT ![k.runtsk] = @ \cup {first_free}]
    /\ UNCHANGED <<k, releasing>>

\* the caller is in no other service call
at_leisure == k.runtsk # NULL => releasing[k.runtsk] = NULL

wait_block(k1) ==
    /\ mpf.fblkcnt = 0
    /\ k' = dispatch(k1)
    /\ UNCHANGED <<mpf, releasing, held>>

get_mpf ==
    /\ CHECK_DISPATCH /\ at_leisure
    /\ ~k.raster[k.runtsk]
    /\ take_block \/ wait_block(wobj_make_wait(waiting_for("MPF"), pool))

pget_mpf == CHECK_TSKCTX_UNL /\ at_leisure /\ take_block

\* with a finite timeout; TMO_FEVR is get_mpf, TMO_POL is pget_mpf's outcome
tget_mpf ==
    /\ CHECK_DISPATCH /\ at_leisure
    /\ ~k.raster[k.runtsk]
    /\ take_block \/ wait_block(wobj_make_wait_tmout(waiting_for("MPF"), pool))

\* rel_mpf up to lock_cpu: the block must be allocated
rel_mpf_check(b) ==
    /\ CHECK_TSKCTX_UNL /\ at_leisure
    /\ b < mpf.unused
    /\ mpf.next[b] = INDEX_ALLOC
    /\ releasing' = [releasing EXCEPT ![k.runtsk] = b]
    /\ UNCHANGED <<k, mpf, held>>

\* b is not among the blocks that are held any more
without(b) == [t \in Task |-> held[t] \ {b}]

\* mutant: the block goes to a waiting task, and to the free list
Bug_rel_mpf ==
    LET b == releasing[k.runtsk]
        t == Head(k.wque[pool])
    IN  /\ CHECK_TSKCTX_UNL /\ b # NULL
        /\ releasing' = [releasing EXCEPT ![k.runtsk] = NULL]
        /\ mpf' = [mpf EXCEPT !.fblkcnt = @ + 1,
                              !.next[b] = mpf.freelist,
                              !.freelist = b]
        /\ IF queue_empty(k.wque[pool]) THEN held' = without(b) /\ UNCHANGED k
           ELSE /\ k' = dispatch(wait_complete([k EXCEPT !.wque[pool] = Tail(@)], t))
                /\ held' = [without(b) EXCEPT ![t] = @ \cup {b}]

(* rel_mpf from lock_cpu on: the block goes to the first waiting task, or  *)
(* to the free list.                                                       *)
rel_mpf ==
    LET b == releasing[k.runtsk]
        t == Head(k.wque[pool])
    IN  /\ CHECK_TSKCTX_UNL /\ b # NULL
        /\ releasing' = [releasing EXCEPT ![k.runtsk] = NULL]
        /\ \/ /\ ~queue_empty(k.wque[pool])
              /\ k' = dispatch(wait_complete([k EXCEPT !.wque[pool] = Tail(@)], t))
              /\ held' = [without(b) EXCEPT ![t] = @ \cup {b}]
              /\ UNCHANGED mpf
           \/ /\ queue_empty(k.wque[pool])
              /\ mpf' = [mpf EXCEPT !.fblkcnt = @ + 1,
                                    !.next[b] = mpf.freelist,
                                    !.freelist = b]
              /\ held' = without(b)
              /\ UNCHANGED k

ini_mpf ==
    /\ CHECK_TSKCTX_UNL /\ at_leisure
    /\ k' = dispatch(init_wait_queue(k, pool))
    /\ mpf' = [mpf EXCEPT !.fblkcnt = blkcnt, !.unused = 0, !.freelist = INDEX_NULL]
    /\ held' = [t \in Task |-> {}]
    /\ UNCHANGED releasing

-----------------------------------------------------------------------------
(* A call of TaskCalls: of a task that is in no other service call, or of  *)
(* an interrupt handler. A task that has ended is in no service call. The  *)
(* blocks it held stay allocated: the kernel does not take them back.      *)
OtherCall(call) ==
    /\ k.nest = 0 => at_leisure
    /\ call
    /\ releasing' = [t \in Task |->
           IF TSTAT_DORMANT(k'.tstat[t]) THEN NULL ELSE releasing[t]]
    /\ UNCHANGED <<mpf, held>>

MpfCall ==
    \/ get_mpf \/ pget_mpf \/ tget_mpf \/ rel_mpf \/ ini_mpf
    \/ \E b \in Block : rel_mpf_check(b)

Interrupt == irq_entry /\ UNCHANGED <<mpf, releasing, held>>

MpfNext == MpfCall \/ Interrupt \/ OtherCall(TaskNext)

MpfSpec == MpfInit /\ [][MpfNext]_mpf_vars

(* An application that keeps to the rules: a task gives back only blocks   *)
(* that it was given, and the pool is not initialised again while a task   *)
(* is giving one back.                                                     *)
RightfulCall ==
    \/ get_mpf \/ pget_mpf \/ tget_mpf \/ rel_mpf
    \/ k.runtsk # NULL /\ \E b \in held[k.runtsk] : rel_mpf_check(b)
    \/ (\A t \in Task : releasing[t] = NULL) /\ ini_mpf

RightfulNext == RightfulCall \/ Interrupt \/ OtherCall(TaskNext)

RightfulSpec == MpfInit /\ [][RightfulNext]_mpf_vars

-----------------------------------------------------------------------------
(* The blocks that can be handed out, those of the free list and the ones  *)
(* never used, are fblkcnt in number (mempfix.h: the number of unallocated *)
(* blocks); every other block is marked INDEX_ALLOC.                       *)
FreeList ==
    LET walk[n \in 0 .. blkcnt] ==
          IF n = 0 THEN << >>
          ELSE LET list == walk[n - 1]
                   next == IF list = << >> THEN mpf.freelist ELSE mpf.next[Last(list)]
               IN  IF next \notin Block THEN list ELSE Append(list, next)
    IN  walk[blkcnt]

Unallocated == Range(FreeList) \cup {b \in Block : b >= mpf.unused}

PoolOK == mpf.fblkcnt = Cardinality(Unallocated)

(* No block is handed out to two tasks, or while it is on the free list;   *)
(* and no task waits while a block is free (get_mpf_block, rel_mpf).       *)
BlocksOK ==
    /\ mpf \in Mpfcb
    /\ \A b \in Block \ Unallocated : mpf.next[b] = INDEX_ALLOC
    /\ \A t \in Task : held[t] \cap Unallocated = {}
    /\ \A t, u \in Task : t # u => held[t] \cap held[u] = {}
    /\ mpf.fblkcnt > 0 => queue_empty(k.wque[pool])

(* Nobody starves in a queue in the order of arrival (wobj_queue_insert    *)
(* without TA_TPRI): while blocks are given back again and again, a task   *)
(* does not wait for ever, whichever tasks come, time out, are released or *)
(* terminated around it.                                                   *)
NeverStarves(t) ==
    pool \notin TA_TPRI =>
        ([]<><<rel_mpf>>_mpf_vars =>
            (Contains(k.wque[pool], t) ~> ~Contains(k.wque[pool], t)))
=============================================================================
