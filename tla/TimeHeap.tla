------------------------------ MODULE TimeHeap ------------------------------
(***************************************************************************)
(* The time event heap of kernel/time_event.c: an array in which node n    *)
(* has the children 2n and 2n + 1, ordered by the times of its events. A   *)
(* time is an EVTTIM, which wraps around; two are compared relative to     *)
(* boundary_evttim, BOUNDARY_MARGIN before the current time. The routines  *)
(* are operators from one state of the heap to the next.                   *)
(***************************************************************************)
EXTENDS Integers, FiniteSets

CONSTANTS
    Event,            \* the TMEVTBs
    NONE,             \* no event, a null pointer in the code
    EVTTIM_SPAN,      \* the number of values of an EVTTIM (2^32)
    BOUNDARY_MARGIN   \* how far the boundary is behind the current time

ASSUME HeapAssumption ==
    /\ IsFiniteSet(Event) /\ NONE \notin Event
    /\ EVTTIM_SPAN \in Nat \ {0}
    /\ BOUNDARY_MARGIN \in 0 .. EVTTIM_SPAN - 1

EVTTIM == 0 .. EVTTIM_SPAN - 1
Node   == 1 .. Cardinality(Event)      \* of tmevt_heap; 0 is the node of p_last

(* p_tmevtn is the node of each registered event. What remains in the node *)
(* and the TMEVTB of an event that is taken out is not read any more: it   *)
(* is NONE and 0 here.                                                     *)
HeapState ==
    [ tmevt_heap     : [Node -> Event \cup {NONE}],
      p_last         : Node \cup {0},
      p_tmevtn       : [Event -> Node \cup {0}],
      evttim         : [Event -> EVTTIM],
      current_evttim : EVTTIM ]

\* every assignment to current_evttim is followed by this one
boundary_evttim(h) == (h.current_evttim - BOUNDARY_MARGIN) % EVTTIM_SPAN

EVTTIM_ADVANCE(h, t) == (t - boundary_evttim(h)) % EVTTIM_SPAN
EVTTIM_LT(h, t1, t2) == EVTTIM_ADVANCE(h, t1) < EVTTIM_ADVANCE(h, t2)
EVTTIM_LE(h, t1, t2) == EVTTIM_ADVANCE(h, t1) <= EVTTIM_ADVANCE(h, t2)

PARENT(n) == n \div 2
LCHILD(n) == 2 * n

time_at(h, n)  == h.evttim[h.tmevt_heap[n]]
top_evttim(h)  == time_at(h, 1)
not_empty(h)   == h.p_last >= 1

\* event e is put into node n
place(h, e, n) == [h EXCEPT !.tmevt_heap[n] = e, !.p_tmevtn[e] = n]

-----------------------------------------------------------------------------
(* The hole at node n goes up, towards the root, past the later events, or *)
(* down past the earlier ones, until evttim may be put there. [h, at] is   *)
(* the heap with the hole at node `at'.                                    *)
tmevt_up(h0, n0, evttim) ==
    LET climb[i \in 0 .. Cardinality(Event)] ==
          IF i = 0 THEN [h |-> h0, at |-> n0]
          ELSE LET s == climb[i - 1]
                   parent == PARENT(s.at)
               IN  IF s.at = 1 \/ EVTTIM_LE(h0, time_at(s.h, parent), evttim) THEN s
                   ELSE [h |-> place(s.h, s.h.tmevt_heap[parent], s.at), at |-> parent]
    IN  climb[Cardinality(Event)]

\* mutant: only the left child is looked at
Bug_earlier_child(h, n) == LCHILD(n)

earlier_child(h, n) ==
    LET left == LCHILD(n)
    IN  IF left + 1 <= h.p_last /\ EVTTIM_LT(h, time_at(h, left + 1), time_at(h, left))
        THEN left + 1 ELSE left

tmevt_down(h0, n0, evttim) ==
    LET sink[i \in 0 .. Cardinality(Event)] ==
          IF i = 0 THEN [h |-> h0, at |-> n0]
          ELSE LET s == sink[i - 1]
                   child == earlier_child(s.h, s.at)
               IN  IF LCHILD(s.at) > s.h.p_last \/ EVTTIM_LE(h0, evttim, time_at(s.h, child)) THEN s
                   ELSE [h |-> place(s.h, s.h.tmevt_heap[child], s.at), at |-> child]
    IN  sink[Cardinality(Event)]

tmevtb_insert(h, e) ==
    LET s == tmevt_up([h EXCEPT !.p_last = @ + 1], h.p_last + 1, h.evttim[e])
    IN  place(s.h, e, s.at)

\* what e leaves behind, and the node that was the last one
cleared(h, e, last) == [h EXCEPT !.tmevt_heap[last] = NONE, !.p_tmevtn[e] = 0]

\* mutant: the last event only ever goes down from the place of the deleted one
Bug_tmevtb_delete(h, e) ==
    LET h1 == [h EXCEPT !.p_last = @ - 1]
        last == h.tmevt_heap[h.p_last]
        s == tmevt_down(h1, h.p_tmevtn[e], h.evttim[last])
    IN  IF h1.p_last < 1 THEN cleared(h1, e, 1)
        ELSE cleared(place(s.h, last, s.at), e, h.p_last)

(* The last event fills the place of the deleted one: it goes up from the  *)
(* parent when it is earlier than the parent, else down.                   *)
tmevtb_delete(h, e) ==
    LET h1     == [h EXCEPT !.p_last = @ - 1]
        n      == h.p_tmevtn[e]
        last   == h.tmevt_heap[h.p_last]
        parent == PARENT(n)
        s == IF n > 1 /\ EVTTIM_LT(h, h.evttim[last], time_at(h, parent))
             THEN tmevt_up(place(h1, h.tmevt_heap[parent], n), parent, h.evttim[last])
             ELSE tmevt_down(h1, n, h.evttim[last])
    IN  IF h1.p_last < 1 THEN cleared(h1, e, 1)
        ELSE cleared(place(s.h, last, s.at), e, h.p_last)

\* the heap without its top event
tmevtb_delete_top(h) ==
    LET h1   == [h EXCEPT !.p_last = @ - 1]
        last == h.tmevt_heap[h.p_last]
        s    == tmevt_down(h1, 1, h.evttim[last])
    IN  IF h1.p_last < 1 THEN cleared(h1, h.tmevt_heap[1], 1)
        ELSE cleared(place(s.h, last, s.at), h.tmevt_heap[1], h.p_last)

-----------------------------------------------------------------------------
Registered(h) == {e \in Event : h.p_tmevtn[e] # 0}

(* The nodes up to p_last hold the registered events, each once, and each  *)
(* knows its node (tmevt_up and tmevt_down keep p_tmevtn in step with every*)
(* move); no event is earlier than the one above it, so that the first one *)
(* is the next to occur.                                                   *)
HeapOrdered(h) ==
    /\ h.p_last = Cardinality(Registered(h))
    /\ \A e \in Registered(h) : h.p_tmevtn[e] <= h.p_last /\ h.tmevt_heap[h.p_tmevtn[e]] = e
    /\ \A n \in 2 .. h.p_last : EVTTIM_LE(h, time_at(h, PARENT(n)), time_at(h, n))
=============================================================================
