----------------------------- MODULE TimeCalls -----------------------------
(***************************************************************************)
(* The users of the time events: the alarm and cyclic notifications        *)
(* (kernel/alarm.c, cyclic.c), the system time (time_manage.c) and the     *)
(* timer interrupt, whose signal_time calls the handlers with the CPU      *)
(* unlocked. A timeout of a waiting task is started and stopped like an    *)
(* alarm.                                                                  *)
(***************************************************************************)
EXTENDS TimeEvent

CONSTANTS
    Alarm, Cyclic,      \* the ALMCBs and CYCCBs
    cycphs, cyctim,     \* phase and period of each cyclic notification
    TA_STA,             \* the cyclic notifications started from the beginning
    RelTim, AdjTim,     \* relative times and adjustments that are asked for
    SetTim,             \* and system times that are set
    MaxDelay            \* bound on the delay of the timer interrupt

ASSUME NotifyAssumption ==
    /\ Event = Alarm \cup Cyclic /\ Alarm \cap Cyclic = {}
    /\ cycphs \in [Cyclic -> Nat] /\ cyctim \in [Cyclic -> Nat \ {0}]
    /\ TA_STA \subseteq Cyclic
    /\ RelTim \subseteq Nat /\ AdjTim \subseteq -TMAX_ADJTIM .. TMAX_ADJTIM
    /\ SetTim \subseteq 0 .. SYSTIM_SPAN - 1
    /\ NONE \notin Int /\ MaxDelay \in Nat /\ HRTCNT_BOUND + 2 * MaxDelay < TCYC_HRTCNT

(* What the times that are asked for, the adjustments and the delay of the *)
(* interrupt have to leave room for: no registered event may get so far    *)
(* ahead of the current time, or so far behind it, that the comparison     *)
(* relative to the boundary goes wrong.                                    *)
TimesFit ==
    /\ \A d \in RelTim \cup {cycphs[e] : e \in Cyclic} :
         TSTEP_HRTCNT + d + 2 * TMAX_ADJTIM + BOUNDARY_MARGIN < EVTTIM_SPAN
    /\ \A e \in Cyclic : cyctim[e] + 2 * TMAX_ADJTIM + BOUNDARY_MARGIN < EVTTIM_SPAN
    /\ 2 * TMAX_ADJTIM + MaxDelay <= BOUNDARY_MARGIN /\ 2 * MaxDelay <= BOUNDARY_MARGIN
    /\ TCYC_HRTCNT + 2 * TMAX_ADJTIM <= EVTTIM_SPAN

VARIABLES
    t,          \* a TimeState
    signal,     \* where signal_time is: "off", in its "loop", in a "handler"
    callflag,   \* of signal_time
    delay       \* for how long an interrupt has been pending or handled

time_vars == <<t, signal, callflag, delay>>

(* sta_ker: initialize_tmevt, then initialize_cyclic, then the first       *)
(* setting of the timer, whose counter may stand anywhere.                 *)
initialize_tmevt ==
    [ tmevt_heap |-> [n \in Node |-> NONE], p_last |-> 0,
      p_tmevtn |-> [e \in Event |-> 0], evttim |-> [e \in Event |-> 0],
      current_evttim |-> 0, current_hrtcnt |-> 0,
      monotonic_evttim |-> 0, systim_offset |-> 0,
      in_signal_time |-> FALSE, sta |-> [e \in Event |-> FALSE],
      cnt |-> 0, cmp |-> TCYC_HRTCNT - 1, intreq |-> FALSE, since |-> 0 ]

initialize_cyclic(t0, order) ==
    LET after[i \in 0 .. Cardinality(TA_STA)] ==
          IF i = 0 THEN t0
          ELSE LET e == order[i]
               IN  tmevtb_register([after[i - 1] EXCEPT !.evttim[e] = cycphs[e],
                                                        !.sta[e] = TRUE], e)
    IN  after[Cardinality(TA_STA)]

TimeInit ==
    /\ \E order \in [1 .. Cardinality(TA_STA) -> TA_STA], cnt \in HRTCNT :
         /\ \A e \in TA_STA : \E i \in DOMAIN order : order[i] = e
         /\ t = set_hrt_event([initialize_cyclic(initialize_tmevt, order) EXCEPT
                                  !.cnt = cnt, !.current_hrtcnt = cnt])
    /\ signal = "off" /\ callflag = FALSE /\ delay = 0

-----------------------------------------------------------------------------
busy == t.intreq \/ signal # "off"

(* A count of the timer goes by. An interrupt is served within MaxDelay    *)
(* counts: this is what the application owes the kernel.                   *)
tick ==
    /\ busy => delay < MaxDelay
    /\ t' = hrt_tick(t)
    /\ delay' = IF busy THEN delay + 1 ELSE 0
    /\ UNCHANGED <<signal, callflag>>

\* callable by tasks and handlers (CHECK_UNL), or by tasks (CHECK_TSKCTX_UNL)
CHECK_UNL        == signal # "loop" /\ UNCHANGED <<signal, callflag, delay>>
CHECK_TSKCTX_UNL == signal = "off" /\ CHECK_UNL

stopped(x, e) == [x EXCEPT !.sta[e] = FALSE, !.evttim[e] = 0]

\* mutant: an alarm that is started again stays where it is in the heap
Bug_sta_alm(e, almtim) ==
    CHECK_UNL /\ t' = tmevtb_enqueue([t EXCEPT !.sta[e] = TRUE], e, almtim)

sta_alm(e, almtim) ==
    /\ CHECK_UNL
    /\ LET t1 == IF t.sta[e] THEN tmevtb_dequeue(t, e) ELSE [t EXCEPT !.sta[e] = TRUE]
       IN  t' = tmevtb_enqueue(t1, e, almtim)

stp_alm(e) ==
    /\ CHECK_UNL
    /\ t.sta[e]
    /\ t' = stopped(tmevtb_dequeue(t, e), e)

sta_cyc(e) ==
    /\ CHECK_TSKCTX_UNL
    /\ LET t1 == IF t.sta[e] THEN tmevtb_dequeue(t, e) ELSE [t EXCEPT !.sta[e] = TRUE]
       IN  t' = tmevtb_enqueue(t1, e, cycphs[e])

stp_cyc(e) ==
    /\ CHECK_TSKCTX_UNL
    /\ t.sta[e]
    /\ t' = stopped(tmevtb_dequeue(t, e), e)

set_tim(systim) ==
    /\ CHECK_TSKCTX_UNL
    /\ LET t1 == update_current_evttim(t)
       IN  t' = [t1 EXCEPT !.systim_offset = (systim - t1.monotonic_evttim) % SYSTIM_SPAN]

get_tim == CHECK_TSKCTX_UNL /\ t' = update_current_evttim(t)

\* mutant: the timer is left as it was set for the time before
Bug_adj_tim(adjtim) ==
    /\ CHECK_UNL
    /\ LET t1 == update_current_evttim(t)
           t2 == [t1 EXCEPT !.current_evttim = (@ + adjtim) % EVTTIM_SPAN]
       IN  t' = IF check_adjtim(t1, adjtim) THEN t1
                ELSE IF adjtim > 0 THEN follow(t2, t1.current_evttim, adjtim) ELSE t2

adj_tim(adjtim) ==
    /\ CHECK_UNL
    /\ LET t1 == update_current_evttim(t)
           t2 == [t1 EXCEPT !.current_evttim = (@ + adjtim) % EVTTIM_SPAN]
           t3 == IF adjtim > 0 THEN follow(t2, t1.current_evttim, adjtim) ELSE t2
       IN  t' = IF check_adjtim(t1, adjtim) THEN t1 ELSE set_hrt_event(t3)

-----------------------------------------------------------------------------
(* signal_time, the timer interrupt's handler. The CPU is locked but while *)
(* a notification handler runs; it and the interrupts of a higher priority *)
(* may then start and stop notifications.                                  *)
signal_start ==
    /\ signal = "off" /\ t.intreq
    /\ t' = update_current_evttim([t EXCEPT !.intreq = FALSE, !.in_signal_time = TRUE])
    /\ signal' = "loop" /\ callflag' = FALSE
    /\ UNCHANGED delay

event_due == not_empty(t) /\ EVTTIM_LE(t, top_evttim(t), t.current_evttim)

call_alarm(e) ==
    t' = stopped(tmevtb_delete_top(t), e)

\* mutant: the next time of the cyclic notification is the same again
Bug_call_cyclic(e) == t' = tmevtb_register(tmevtb_delete_top(t), e)

call_cyclic(e) ==
    t' = tmevtb_register([tmevtb_delete_top(t) EXCEPT
             !.evttim[e] = (@ + cyctim[e]) % EVTTIM_SPAN], e)

signal_call ==
    /\ signal = "loop" /\ event_due
    /\ LET e == t.tmevt_heap[1]
       IN  IF e \in Alarm THEN call_alarm(e) ELSE call_cyclic(e)
    /\ signal' = "handler" /\ callflag' = TRUE
    /\ UNCHANGED delay

handler_returns ==
    /\ signal = "handler"
    /\ signal' = "loop"
    /\ UNCHANGED <<t, callflag, delay>>

\* time has passed in the handlers: more events may be due
signal_again ==
    /\ signal = "loop" /\ ~event_due /\ callflag
    /\ t' = update_current_evttim(t)
    /\ callflag' = FALSE
    /\ UNCHANGED <<signal, delay>>

signal_end ==
    /\ signal = "loop" /\ ~event_due /\ ~callflag
    /\ t' = [set_hrt_event(t) EXCEPT !.in_signal_time = FALSE]
    /\ signal' = "off" /\ delay' = 0
    /\ UNCHANGED callflag

signal_time == signal_start \/ signal_call \/ handler_returns \/ signal_again \/ signal_end

TimeNext ==
    \/ tick \/ signal_time \/ get_tim
    \/ \E e \in Alarm : stp_alm(e) \/ \E almtim \in RelTim : sta_alm(e, almtim)
    \/ \E e \in Cyclic : sta_cyc(e) \/ stp_cyc(e)
    \/ \E adjtim \in AdjTim : adj_tim(adjtim)
    \/ \E systim \in SetTim : set_tim(systim)

TimeSpec == TimeInit /\ [][TimeNext]_time_vars

-----------------------------------------------------------------------------
(* The heap is a heap, of just the events that are started, while the time *)
(* it is compared by moves on and wraps around.                            *)
EventsOK ==
    /\ t \in TimeState
    /\ t.since < TCYC_HRTCNT    \* no cycle of the counter is missed
    /\ HeapOrdered(t)
    /\ \A e \in Event : t.sta[e] <=> e \in Registered(t)

(* Unless signal_time is about to look at them, the timer interrupt comes  *)
(* in time for every event that is started: it is set for the first one, or*)
(* for a bound on the way to it (set_hrt_event; tmevtb_enqueue and         *)
(* tmevtb_dequeue call it only when the first event changes and not during *)
(* signal_time). It is late by what signal_time has taken at most: that    *)
(* sets the timer from the count of now, for a time that it read before.   *)
to_interrupt == IF t.cmp = t.cnt THEN TCYC_HRTCNT ELSE (t.cmp - t.cnt) % TCYC_HRTCNT

time_left(e) ==
    IF t.p_tmevtn[e] = 0 THEN NONE ELSE EVTTIM_ADVANCE(t, t.evttim[e]) - BOUNDARY_MARGIN

ArmedOK ==
    signal = "off" /\ ~t.intreq =>
        \A e \in Registered(t) : to_interrupt <= time_left(e) - t.since + MaxDelay

(* The wrapping times and the heap implement due times on a clock that     *)
(* never wraps: no event occurs early, late events occur in the order of   *)
(* their times, none is lost or changed by what is done to another.        *)
Service == INSTANCE TimerService WITH
    period <- cyctim,
    Delay <- {TSTEP_HRTCNT + d : d \in RelTim \cup {cycphs[e] : e \in Cyclic}}
             \cup {cycphs[e] : e \in Cyclic},
    Shift <- AdjTim,
    left <- [e \in Event |-> time_left(e)],
    elapsed <- t.since

ImplementsService == Service!ServiceSpec

(* The system time goes on with the true time and the adjustments, into its*)
(* upper half when the lower half wraps around; after an adjustment        *)
(* backwards it stands still until the current time has caught up. Only    *)
(* set_tim makes it jump.                                                  *)
systim(x) == (x.systim_offset + x.monotonic_evttim) % SYSTIM_SPAN
behind(x) == (x.monotonic_evttim - x.current_evttim) % EVTTIM_SPAN

SystemTime ==
    [][LET gone == ((t'.current_evttim - t.current_evttim + TMAX_ADJTIM) % EVTTIM_SPAN) - TMAX_ADJTIM
           peak == IF t'.since = 0 /\ t.since > gone THEN t.since ELSE gone
           new  == IF peak > behind(t) THEN peak - behind(t) ELSE 0
       IN  \/ systim(t') = (systim(t) + new) % SYSTIM_SPAN
           \/ \E s \in SetTim : set_tim(s) /\ systim(t') = s]_time_vars

(* A started alarm is called, or stopped first, if the clock is not        *)
(* adjusted and it is not started over and over again.                     *)
AlarmOccurs == \A e \in Alarm : t.sta[e] ~> ~t.sta[e]
=============================================================================
