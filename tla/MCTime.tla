------------------------------- MODULE MCTime -------------------------------
(***************************************************************************)
(* TimeCalls for TLC, with small cycles of the counters. In some initial   *)
(* states the clock is adjusted and set; in others it is left alone, and   *)
(* alarms are only started when they are not, so that they occur. The      *)
(* other initial states are those of MempfixCalls: it has no part in the   *)
(* time, but progress to check as well, and shares the run.                *)
(***************************************************************************)
EXTENDS MCMpf

CONSTANTS
    Event, NONE, Alarm, Cyclic, TA_STA, RelTim, AdjTim, SetTim,
    EVTTIM_SPAN, BOUNDARY_MARGIN, TCYC_HRTCNT, TSTEP_HRTCNT, HRTCNT_BOUND,
    SYSTIM_SPAN, TMAX_ADJTIM, cycphs, cyctim, MaxDelay,
    OffsetStep  \* bound: the differences set_tim makes are its multiples

VARIABLES
    clock, signal, callflag, delay,     \* of TimeCalls
    part        \* what is at work: "adjusted" or "once" (the time), or "pool"

T == INSTANCE TimeCalls WITH t <- clock

(* What the proofs about TimeCalls ask of the times.                       *)
ASSUME T!HeapAssumption /\ T!TimeAssumption /\ T!NotifyAssumption /\ T!TimesFit

MCcycphs == [e \in Cyclic |-> 1]
MCcyctim == [e \in Cyclic |-> 3]
MCAdjTim == {-TMAX_ADJTIM, TMAX_ADJTIM}

time_vars == <<clock, signal, callflag, delay>>

MCInit ==
    /\ T!TimeInit /\ MpfInit
    /\ \/ part \in {"adjusted", "once"}
       \/ part = "pool" /\ clock.cnt = 0

AdjustNext ==
    \/ T!tick \/ T!signal_time \/ T!get_tim
    \/ \E e \in Cyclic : T!sta_cyc(e) \/ T!stp_cyc(e)
    \/ \E adjtim \in AdjTim : T!adj_tim(adjtim)
    \/ \E newtim \in SetTim : T!set_tim(newtim) /\ clock'.systim_offset % OffsetStep = 0

OnceNext ==
    \/ T!tick \/ T!signal_time
    \/ \E e \in Alarm :
         \/ T!stp_alm(e)
         \/ ~clock.sta[e] /\ (\E almtim \in RelTim : T!sta_alm(e, almtim))
    \/ \E e \in Cyclic : T!sta_cyc(e) \/ T!stp_cyc(e)

MCNext ==
    /\ \/ part = "adjusted" /\ AdjustNext /\ UNCHANGED mpf_vars
       \/ part = "once" /\ OnceNext /\ UNCHANGED mpf_vars
       \/ part = "pool" /\ RightfulAround /\ UNCHANGED time_vars
    /\ UNCHANGED part

(* Where the clock is left alone, time goes on and the interrupt is served.*)
MCSpec ==
    /\ MCInit /\ [][MCNext]_<<time_vars, mpf_vars, part>>
    /\ WF_time_vars(part = "once" /\ T!tick)
    /\ WF_time_vars(part = "once" /\ T!signal_time)

(* The timer is set for the first event (ArmedOK), and events occur when   *)
(* they are due (ImplementsService), while the clock is adjusted and set.  *)
TimeKept == []T!ArmedOK /\ T!ImplementsService

(* The system time goes on as it should, and a started alarm is called     *)
(* (SystemTime and AlarmOccurs of TimeCalls).                              *)
SystemTime  == T!SystemTime
AlarmOccurs == T!AlarmOccurs

(* No task starves in the queue of the pool (NeverStarves). It is checked  *)
(* of one task, any: they have the same attributes and start alike.        *)
NoStarvation == NeverStarves(CHOOSE t \in Task : TRUE)
=============================================================================
