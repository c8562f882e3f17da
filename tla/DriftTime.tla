----------------------------- MODULE DriftTime -----------------------------
(***************************************************************************)
(* The time events of the kernel with the drift adjustment extension       *)
(* (extension/drift/kernel): the event time goes on by drift_rate          *)
(* millionths at each count of the timer, a rate that set_dft changes. The *)
(* routines of time_event.c that the extension changes, with the alarm     *)
(* notifications and the timer interrupt of TimeCalls.                     *)
(***************************************************************************)
EXTENDS TimeHeap, DriftArith, TLC

CONSTANTS
    TCYC_HRTCNT, TSTEP_HRTCNT, HRTCNT_BOUND, SYSTIM_SPAN, TMAX_ADJTIM,
    Alarm, Cyclic, cycphs, cyctim, TA_STA, RelTim, AdjTim, SetTim, MaxDelay,
    DriftRate,      \* the drift rates that are set, in millionths
    TMAX_RELTIM     \* the longest relative time

VARIABLES t, signal, callflag, delay

C == INSTANCE TimeCalls

(* t is a TimeState with three more fields: current_evttim_frac and        *)
(* drift_rate, and the history variable exact, the event time as it really *)
(* goes on, in millionths. (evttim_step and evttim_step_frac are always    *)
(* those of the rate.)                                                     *)
initialize_tmevt ==
    [frac |-> 0, rate |-> Million, exact |-> 0] @@ C!initialize_tmevt

DriftInit ==
    /\ \E cnt \in C!HRTCNT :
         t = [initialize_tmevt EXCEPT !.cnt = cnt, !.current_hrtcnt = cnt,
                                      !.cmp = (cnt + HRTCNT_BOUND) % TCYC_HRTCNT]
    /\ signal = "off" /\ callflag = FALSE /\ delay = 0

-----------------------------------------------------------------------------
update_current_evttim(x) ==
    LET adv  == C!hrtcnt_advance(x)
        frac == x.frac + parts(adv, x.rate)
        gone == whole(adv, x.rate) + carry(frac)
        x1 == [x EXCEPT !.current_evttim = (@ + gone) % EVTTIM_SPAN,
                        !.frac = frac - carry(frac) * Million,
                        !.current_hrtcnt = x.cnt,
                        !.since = 0]
    IN  C!follow(x1, x.current_evttim, gone)

calc_current_evttim_ub(x) == x.current_evttim + ahead(x.frac, x.rate)

\* without an event, the longest time to one is waited
set_hrt_event(x) ==
    LET adv == IF not_empty(x) THEN (top_evttim(x) - x.current_evttim) % EVTTIM_SPAN
               ELSE TMAX_RELTIM
    IN  IF not_empty(x) /\ EVTTIM_LE(x, top_evttim(x), x.current_evttim)
        THEN C!target_hrt_raise_event(x)
        ELSE C!target_hrt_set_event(x, hrtcnt(adv, x.frac, x.rate, HRTCNT_BOUND))

tmevtb_enqueue(x, e, time) ==
    LET x1 == update_current_evttim(x)
        x2 == tmevtb_insert([x1 EXCEPT
                  !.evttim[e] = (calc_current_evttim_ub(x1) + time) % EVTTIM_SPAN], e)
    IN  IF ~x2.in_signal_time /\ x2.p_tmevtn[e] = 1 THEN set_hrt_event(x2) ELSE x2

tmevtb_dequeue(x, e) ==
    LET x1 == tmevtb_delete(x, e)
    IN  IF ~x.in_signal_time /\ x.p_tmevtn[e] = 1
        THEN set_hrt_event(update_current_evttim(x1)) ELSE x1

-----------------------------------------------------------------------------
tick ==
    /\ C!busy => delay < MaxDelay
    /\ t' = [C!hrt_tick(t) EXCEPT !.exact = (@ + t.rate) % (EVTTIM_SPAN * Million)]
    /\ delay' = IF C!busy THEN delay + 1 ELSE 0
    /\ UNCHANGED <<signal, callflag>>

\* mutant: the rate also counts for the time that has passed already
Bug_set_dft(rate) ==
    C!CHECK_UNL /\ t' = set_hrt_event(update_current_evttim([t EXCEPT !.rate = rate]))

\* mutant: the timer stays as it was set for the rate before
Bug_set_dft_timer(rate) ==
    C!CHECK_UNL /\ t' = [update_current_evttim(t) EXCEPT !.rate = rate]

set_dft(rate) ==
    /\ C!CHECK_UNL
    /\ t' = set_hrt_event([update_current_evttim(t) EXCEPT !.rate = rate])

sta_alm(e, almtim) ==
    /\ C!CHECK_UNL
    /\ LET t1 == IF t.sta[e] THEN tmevtb_dequeue(t, e) ELSE [t EXCEPT !.sta[e] = TRUE]
       IN  t' = tmevtb_enqueue(t1, e, almtim)

stp_alm(e) ==
    /\ C!CHECK_UNL
    /\ t.sta[e]
    /\ t' = C!stopped(tmevtb_dequeue(t, e), e)

signal_start ==
    /\ signal = "off" /\ t.intreq
    /\ t' = update_current_evttim([t EXCEPT !.intreq = FALSE, !.in_signal_time = TRUE])
    /\ signal' = "loop" /\ callflag' = FALSE
    /\ UNCHANGED delay

signal_again ==
    /\ signal = "loop" /\ ~C!event_due /\ callflag
    /\ t' = update_current_evttim(t)
    /\ callflag' = FALSE
    /\ UNCHANGED <<signal, delay>>

signal_end ==
    /\ signal = "loop" /\ ~C!event_due /\ ~callflag
    /\ t' = [set_hrt_event(t) EXCEPT !.in_signal_time = FALSE]
    /\ signal' = "off" /\ delay' = 0
    /\ UNCHANGED callflag

DriftNext ==
    \/ tick \/ signal_start \/ signal_again \/ signal_end
    \/ C!signal_call \/ C!handler_returns
    \/ \E e \in Alarm : stp_alm(e) \/ \E almtim \in RelTim : sta_alm(e, almtim)
    \/ \E rate \in DriftRate : set_dft(rate)

DriftSpec == DriftInit /\ [][DriftNext]_<<t, signal, callflag, delay>>

-----------------------------------------------------------------------------
(* The event time and its fraction are exact, whatever rates have been set *)
(* when (update_current_evttim, set_dft); the heap is in the order of the  *)
(* events' times; and unless signal_time is about to look at them, the     *)
(* timer's interrupt comes at the first count at which an event is due, or *)
(* earlier, late by what signal_time has taken at most (set_hrt_event,     *)
(* which set_dft has to call for the new rate).                            *)
due_in(e) ==
    (EVTTIM_ADVANCE(t, t.evttim[e]) - BOUNDARY_MARGIN) * Million - t.frac - t.since * t.rate

DriftOK ==
    /\ t.exact = (t.current_evttim * Million + t.frac + t.since * t.rate) % (EVTTIM_SPAN * Million)
    /\ t.frac \in 0 .. Million - 1 /\ t.since < TCYC_HRTCNT
    /\ HeapOrdered(t)
    /\ \A e \in Alarm : t.sta[e] <=> e \in Registered(t)
    /\ signal = "off" /\ ~t.intreq =>
         \A e \in Registered(t) : (C!to_interrupt - MaxDelay - 1) * t.rate < due_in(e)
=============================================================================
