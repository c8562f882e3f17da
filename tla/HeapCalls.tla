----------------------------- MODULE HeapCalls -----------------------------
(***************************************************************************)
(* The heap of TimeHeap under any sequence of insertions and deletions:    *)
(* tmevtb_register, tmevtb_delete and tmevtb_delete_top of                 *)
(* kernel/time_event.c, with events of any time, while the current time,   *)
(* and the boundary with it, moves on or is set back.                      *)
(***************************************************************************)
EXTENDS TimeHeap

VARIABLE h

HeapInit ==
    \E t \in EVTTIM :
        h = [ tmevt_heap |-> [n \in Node |-> NONE], p_last |-> 0,
              p_tmevtn |-> [e \in Event |-> 0],
              evttim |-> [e \in Event |-> 0], current_evttim |-> t ]

register(e, t) ==
    /\ e \notin Registered(h)
    /\ h' = tmevtb_insert([h EXCEPT !.evttim[e] = t], e)

unregister(e) ==
    /\ e \in Registered(h)
    /\ h' = [tmevtb_delete(h, e) EXCEPT !.evttim[e] = 0]

expire ==
    /\ not_empty(h)
    /\ h' = [tmevtb_delete_top(h) EXCEPT !.evttim[h.tmevt_heap[1]] = 0]

(* update_current_evttim, or adj_tim, which may set the time back (d < 0). *)
(* The guard is what callers of this module owe to it: no registered event *)
(* falls behind the boundary, and none so far ahead that it comes out      *)
(* behind it. check_adjtim checks it of an adjustment; that the interrupts *)
(* of the timer come early enough for it is in TimeCalls, not here.        *)
pass(d) ==
    /\ \A e \in Registered(h) : EVTTIM_ADVANCE(h, h.evttim[e]) - d \in EVTTIM
    /\ h' = [h EXCEPT !.current_evttim = (@ + d) % EVTTIM_SPAN]

HeapNext ==
    \/ \E e \in Event : unregister(e) \/ \E t \in EVTTIM : register(e, t)
    \/ expire
    \/ \E d \in 1 - EVTTIM_SPAN .. EVTTIM_SPAN - 1 : pass(d)

HeapSpec == HeapInit /\ [][HeapNext]_h

-----------------------------------------------------------------------------
(* However events come and go and the boundary by which they are compared  *)
(* moves, the heap stays a heap (tmevtb_insert, tmevtb_delete,             *)
(* tmevtb_delete_top, update_current_evttim).                              *)
HeapOK == h \in HeapState /\ HeapOrdered(h)

(* No call loses or changes another event than its own, and the one that   *)
(* expires is one of the earliest.                                         *)
Undisturbed ==
    LET gone == Registered(h) \ Registered(h')
    IN  /\ Cardinality(gone) <= 1
        /\ \A e \in Registered(h) \ gone : h'.evttim[e] = h.evttim[e]
        /\ expire => \E e \in gone : \A o \in Registered(h) :
                        EVTTIM_LE(h, h.evttim[e], h.evttim[o])

OthersStay == [][Undisturbed]_h
=============================================================================
