------------------------------ MODULE MCMutex ------------------------------
(***************************************************************************)
(* MutexCalls for TLC: two mutexes with different ceilings, and tasks that *)
(* may lock both. Other initial states are those of the time event heap    *)
(* (HeapCalls), which has no part in this: only one of the two is at work  *)
(* in a behaviour, and the other stays as it is in one initial state.      *)
(***************************************************************************)
EXTENDS MutexCalls, HeapCalls, TLC

CONSTANTS m1, m2

VARIABLE part       \* what is at work: "mutex" or "heap"

MCipriority == [t \in Task |-> TNUM_TPRI - 1]
MCwfactor == [w \in Wobj |-> "MTX"]
MCceilpri == [m \in TA_CEILING |-> IF m = m1 THEN 0 ELSE TNUM_TPRI - 2]
Symmetry == Permutations(Task)

(* The calls of MutexCalls, and of TaskCalls those that start, end,        *)
(* release and re-prioritise a task or rotate a ready queue.               *)
ContendNext ==
    \/ \E m \in Mutex : MutexCall(m)
    \/ ext_tsk \/ irq_entry \/ irq_exit
    \/ \E t \in Task :
         \/ act_tsk(t) \/ ter_tsk(t) \/ rel_wai(t) \/ signal_time(t)
         \/ \E pri \in Pri : chg_pri(t, pri)
    \/ \E pri \in Pri : rot_rdq(pri)

MCInit ==
    /\ TaskInit /\ HeapInit
    /\ part = "heap" \/ (part = "mutex" /\ h.current_evttim = 0)

MCNext ==
    /\ \/ part = "mutex" /\ ContendNext /\ UNCHANGED h
       \/ part = "heap" /\ HeapNext /\ UNCHANGED k
    /\ UNCHANGED part

MCSpec == MCInit /\ [][MCNext]_<<k, h, part>>

(* The events of HeapCalls differ only in their state, so that it does not *)
(* matter which of them is at a node: to TLC a state of the heap is the    *)
(* time of the event at each node, and the node that this event knows.     *)
(* Where HeapOK holds this says all: every registered event is at a node,  *)
(* and the others are alike.                                               *)
HeapView ==
    <<h.current_evttim, h.p_last, Cardinality(Registered(h)),
      [n \in Node |->
         LET e == h.tmevt_heap[n]
         IN  IF e = NONE THEN NONE ELSE <<h.evttim[e], h.p_tmevtn[e]>>]>>

View == IF part = "heap" THEN HeapView ELSE k
=============================================================================
