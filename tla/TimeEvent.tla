----------------------------- MODULE TimeEvent -----------------------------
(***************************************************************************)
(* The time event management (kernel/time_event.c) with the high           *)
(* resolution timer it drives (arch/arm_gcc/rza1/chip_timer.c): the        *)
(* current time, which is brought up to date from the timer's counter      *)
(* whenever it is needed, and the timer interrupt, which is set for the    *)
(* first event of the heap. Like the heap's, the routines are operators    *)
(* from one state to the next.                                             *)
(***************************************************************************)
EXTENDS TimeHeap

CONSTANTS
    TCYC_HRTCNT,    \* the cycle of the timer's counter
    TSTEP_HRTCNT,   \* by how much it advances at once
    HRTCNT_BOUND,   \* the most that the timer interrupt is set ahead
    SYSTIM_SPAN,    \* the number of values of a SYSTIM (2^64)
    TMAX_ADJTIM     \* the most that the clock is adjusted at once

ASSUME TimeAssumption ==
    /\ TCYC_HRTCNT \in Nat /\ HRTCNT_BOUND \in 1 .. TCYC_HRTCNT - 1
    /\ TCYC_HRTCNT <= EVTTIM_SPAN
    /\ TSTEP_HRTCNT \in Nat \ {0}
    /\ SYSTIM_SPAN \in Nat \ {0} /\ SYSTIM_SPAN % EVTTIM_SPAN = 0
    /\ TMAX_ADJTIM \in Nat

HRTCNT == 0 .. TCYC_HRTCNT - 1

(* The heap, the clocks and the flag in_signal_time; whether each alarm or *)
(* cyclic notification is started (almsta, cycsta); of the timer the count,*)
(* the count with which it interrupts and the interrupt request. since is  *)
(* history: the true time since the count was last read.                   *)
TimeState ==
    [ tmevt_heap : [Node -> Event \cup {NONE}], p_last : Node \cup {0},
      p_tmevtn : [Event -> Node \cup {0}], evttim : [Event -> EVTTIM],
      current_evttim : EVTTIM, current_hrtcnt : HRTCNT,
      monotonic_evttim : EVTTIM, systim_offset : 0 .. SYSTIM_SPAN - 1,
      in_signal_time : BOOLEAN, sta : [Event -> BOOLEAN],
      cnt : HRTCNT, cmp : HRTCNT, intreq : BOOLEAN, since : Nat ]

-----------------------------------------------------------------------------
(* The timer. An interrupt set for h counts ahead is requested when the    *)
(* counter has got there.                                                  *)
target_hrt_set_event(t, h) == [t EXCEPT !.cmp = (t.cnt + h) % TCYC_HRTCNT]
target_hrt_raise_event(t)  == [t EXCEPT !.intreq = TRUE]

hrt_tick(t) ==
    LET cnt == (t.cnt + 1) % TCYC_HRTCNT
    IN  [t EXCEPT !.cnt = cnt, !.intreq = @ \/ cnt = t.cmp, !.since = @ + 1]

\* mutant: the upper half of the system time is carried at every reading
\* that gets past the end of the EVTTIMs, even when monotonic_evttim did
Bug_follow(t, previous, advance) ==
    LET carry == t.current_evttim < previous
    IN  IF (t.monotonic_evttim - previous) % EVTTIM_SPAN < advance
        THEN [t EXCEPT !.monotonic_evttim = t.current_evttim,
                       !.systim_offset = IF carry THEN (@ + EVTTIM_SPAN) % SYSTIM_SPAN ELSE @]
        ELSE t

\* monotonic_evttim follows current_evttim where that gets ahead of it
follow(t, previous, advance) ==
    IF (t.monotonic_evttim - previous) % EVTTIM_SPAN < advance
    THEN [t EXCEPT !.monotonic_evttim = t.current_evttim,
                   !.systim_offset = IF t.current_evttim < t.monotonic_evttim
                                     THEN (@ + EVTTIM_SPAN) % SYSTIM_SPAN ELSE @]
    ELSE t

\* mutant: the counter's wrapping around is not noticed
Bug_hrtcnt_advance(t) == (t.cnt - t.current_hrtcnt) % EVTTIM_SPAN

hrtcnt_advance(t) ==
    IF t.cnt < t.current_hrtcnt THEN t.cnt - t.current_hrtcnt + TCYC_HRTCNT
    ELSE t.cnt - t.current_hrtcnt

update_current_evttim(t) ==
    LET t1 == [t EXCEPT !.current_evttim = (@ + hrtcnt_advance(t)) % EVTTIM_SPAN,
                        !.current_hrtcnt = t.cnt,
                        !.since = 0]
    IN  follow(t1, t.current_evttim, hrtcnt_advance(t))

\* mutant: without an event the timer is not set at all
Bug_set_hrt_event(t) ==
    IF ~not_empty(t) THEN t
    ELSE IF EVTTIM_LE(t, top_evttim(t), t.current_evttim) THEN target_hrt_raise_event(t)
    ELSE LET hrtcnt == (top_evttim(t) - t.current_evttim) % EVTTIM_SPAN
         IN  target_hrt_set_event(t, IF hrtcnt > HRTCNT_BOUND THEN HRTCNT_BOUND ELSE hrtcnt)

set_hrt_event(t) ==
    IF ~not_empty(t) THEN target_hrt_set_event(t, HRTCNT_BOUND)
    ELSE IF EVTTIM_LE(t, top_evttim(t), t.current_evttim) THEN target_hrt_raise_event(t)
    ELSE LET hrtcnt == (top_evttim(t) - t.current_evttim) % EVTTIM_SPAN
         IN  target_hrt_set_event(t, IF hrtcnt > HRTCNT_BOUND THEN HRTCNT_BOUND ELSE hrtcnt)

tmevtb_register(t, e) == tmevtb_insert(t, e)

\* mutant: the timer is only set for the first event of an empty heap
Bug_tmevtb_enqueue(t, e, time) ==
    LET t1 == update_current_evttim(t)
        t2 == tmevtb_insert([t1 EXCEPT
                  !.evttim[e] = (t1.current_evttim + TSTEP_HRTCNT + time) % EVTTIM_SPAN], e)
    IN  IF ~t2.in_signal_time /\ t2.p_last = 1 THEN set_hrt_event(t2) ELSE t2

(* The time is counted from the next step of the counter on.               *)
tmevtb_enqueue(t, e, time) ==
    LET t1 == update_current_evttim(t)
        t2 == tmevtb_insert([t1 EXCEPT
                  !.evttim[e] = (t1.current_evttim + TSTEP_HRTCNT + time) % EVTTIM_SPAN], e)
    IN  IF ~t2.in_signal_time /\ t2.p_tmevtn[e] = 1 THEN set_hrt_event(t2) ELSE t2

tmevtb_dequeue(t, e) ==
    LET t1 == tmevtb_delete(t, e)
    IN  IF ~t.in_signal_time /\ t.p_tmevtn[e] = 1
        THEN set_hrt_event(update_current_evttim(t1)) ELSE t1

\* mutant: the clock may always be put forward
Bug_check_adjtim(t, adjtim) ==
    adjtim < 0 /\ (t.monotonic_evttim - t.current_evttim) % EVTTIM_SPAN >= TMAX_ADJTIM

\* whether the clock may not be adjusted
check_adjtim(t, adjtim) ==
    IF adjtim > 0
    THEN not_empty(t) /\ EVTTIM_LE(t, top_evttim(t), (t.current_evttim - TMAX_ADJTIM) % EVTTIM_SPAN)
    ELSE adjtim < 0 /\ (t.monotonic_evttim - t.current_evttim) % EVTTIM_SPAN >= TMAX_ADJTIM
=============================================================================
