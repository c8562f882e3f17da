---------------------------- MODULE OverrunCalls ----------------------------
(***************************************************************************)
(* The kernel with the overrun handler extension (extension/ovrhdr/kernel):*)
(* the processor time of a task is counted by a timer that every way to    *)
(* and from the task has to start and stop (core_support.S), and that is   *)
(* dropped wherever the running task is terminated. With the calls of      *)
(* TaskCalls that start, end, block or preempt a task.                     *)
(*                                                                         *)
(* Time goes by in units; the driver's conversions round what is left up,  *)
(* so a task that is interrupted within a unit has it again.               *)
(***************************************************************************)
EXTENDS TaskCalls

CONSTANT OvrTim         \* the processor times given to sta_ovr

VARIABLE o              \* an OverrunState

MaxOtm == CHOOSE m \in OvrTim : \A x \in OvrTim : x <= m

(* otimer is what the overrun timer still has to count, NULL when it is    *)
(* stopped; it requests its interrupt at 0. intovr: the outermost interrupt*)
(* is the timer's, and its handler has not called the overrun handler yet. *)
(* used and given are about sta_ovr: the time used since, the time it gave.*)
OverrunState ==
    [ staovr        : [Task -> BOOLEAN],
      leftotm       : [Task -> 0 .. MaxOtm],
      ovrtimer_flag : BOOLEAN,
      otimer        : 0 .. MaxOtm \cup {NULL},
      intovr        : BOOLEAN,
      used          : [Task -> 0 .. MaxOtm],
      given         : [Task -> OvrTim \cup {0}],
      asserted      : BOOLEAN ]

initialize_overrun ==
    [ staovr        |-> [t \in Task |-> FALSE],
      leftotm       |-> [t \in Task |-> 0],
      ovrtimer_flag |-> FALSE,
      otimer        |-> NULL,
      intovr        |-> FALSE,
      used          |-> [t \in Task |-> 0],
      given         |-> [t \in Task |-> 0],
      asserted      |-> TRUE ]

OverrunInit == TaskInit /\ o = initialize_overrun

-----------------------------------------------------------------------------
(* overrun.c. The running task is passed: the timer is started for the one *)
(* that the dispatcher has chosen.                                         *)
ovrtimer_start(x, runtsk) ==
    IF runtsk # NULL /\ x.staovr[runtsk]
    THEN [x EXCEPT !.otimer = x.leftotm[runtsk], !.ovrtimer_flag = TRUE] ELSE x

ovrtimer_stop(x, runtsk) ==
    IF ~x.ovrtimer_flag THEN x
    ELSE IF runtsk = NULL \/ ~x.staovr[runtsk] THEN [x EXCEPT !.asserted = FALSE]
    ELSE [x EXCEPT !.leftotm[runtsk] = x.otimer, !.otimer = NULL, !.ovrtimer_flag = FALSE]

\* the handling of a task ends; nothing is counted for it
off(x, t) == [x EXCEPT !.staovr[t] = FALSE, !.used[t] = 0, !.given[t] = 0]

\* mutant: ovrtimer_flag is left as it is
Bug_drop(x) ==
    IF k.runtsk # NULL /\ x.staovr[k.runtsk] THEN [x EXCEPT !.otimer = NULL] ELSE x

\* what remains does not matter any more: stp_ovr, ext_tsk, ena_ter, ena_dsp, chg_ipm
drop(x) ==
    IF k.runtsk # NULL /\ x.staovr[k.runtsk]
    THEN [x EXCEPT !.otimer = NULL, !.ovrtimer_flag = FALSE] ELSE x

of_itself(t) == k.nest = 0 /\ t = k.runtsk

sta_ovr(t, ovrtim) ==
    /\ CHECK_UNL
    /\ LET x == IF of_itself(t) THEN [o EXCEPT !.otimer = ovrtim, !.ovrtimer_flag = TRUE] ELSE o
       IN  o' = [x EXCEPT !.staovr[t] = TRUE, !.leftotm[t] = ovrtim,
                          !.used[t] = 0, !.given[t] = ovrtim]
    /\ UNCHANGED k

stp_ovr(t) ==
    /\ CHECK_UNL
    /\ o' = off(IF of_itself(t) THEN drop(o) ELSE o, t)
    /\ UNCHANGED k

\* mutant: the handler is called without looking at what is left
Bug_call_ovrhdr ==
    /\ k.nest = 1 /\ ~k.lock /\ o.intovr
    /\ LET t == k.runtsk
           x == [o EXCEPT !.intovr = FALSE]
       IN  o' = IF t # NULL /\ o.staovr[t]
                THEN off([x EXCEPT !.asserted = @ /\ o.used[t] = o.given[t]], t) ELSE x
    /\ UNCHANGED k

(* The handler of the timer's interrupt calls the overrun handler, unless  *)
(* another interrupt handler has cancelled that meanwhile. (asserted: not  *)
(* before the task has used its time.)                                     *)
call_ovrhdr ==
    /\ k.nest = 1 /\ ~k.lock /\ o.intovr
    /\ LET t == k.runtsk
           x == [o EXCEPT !.intovr = FALSE]
       IN  o' = IF t # NULL /\ o.staovr[t] /\ o.leftotm[t] = 0
                THEN off([x EXCEPT !.asserted = @ /\ o.used[t] = o.given[t]], t) ELSE x
    /\ UNCHANGED k

-----------------------------------------------------------------------------
(* core_support.S: dispatch stops the timer for the task it leaves, and the*)
(* task it goes to starts it for itself (dispatch_r, start_r, ret_int_r).  *)
dispatched(x) ==
    IF k.nest = 0 /\ k'.runtsk # k.runtsk
    THEN ovrtimer_start(ovrtimer_stop(x, k.runtsk), k'.runtsk) ELSE x

Dispatching(call) == call /\ o' = dispatched(o)

\* make_dormant of another task
terminates(t) ==
    \/ ter_tsk(t) /\ o' = dispatched(off(o, t))
    \/ ras_ter(t) /\ o' = dispatched(IF k.enater[t] THEN off(o, t) ELSE o)

\* of the running task: the timer is dropped, and exit_and_dispatch does not stop it
exited == ovrtimer_start(off(drop(o), k.runtsk), k'.runtsk)

kept_back == k.raster[k.runtsk] /\ k.enater[k.runtsk]

ends_itself ==
    \/ ext_tsk /\ o' = exited
    \/ ena_ter /\ o' = IF k.raster[k.runtsk] /\ k.dspflg THEN exited ELSE o
    \/ ena_dsp /\ o' = IF k.ipm = "TIPM_ENAALL" /\ kept_back THEN exited ELSE dispatched(o)
    \/ \E ipm \in Ipm :
         /\ chg_ipm(ipm)
         /\ o' = IF ipm = "TIPM_ENAALL" /\ k.enadsp /\ kept_back THEN exited ELSE dispatched(o)

\* the outermost interrupt stops the timer; it is the timer's own or another one
irq_stops ==
    /\ irq_entry
    /\ IF k.nest > 0 THEN o' = o
       ELSE \E own \in {FALSE, o.otimer = 0} :
              o' = [ovrtimer_stop(o, k.runtsk) EXCEPT !.intovr = own]

\* mutant: it is only started where the task goes on without a dispatch
Bug_irq_starts ==
    /\ irq_exit
    /\ k.nest = 1 => ~o.intovr
    /\ o' = IF k.nest = 1 /\ k'.runtsk = k.runtsk THEN ovrtimer_start(o, k'.runtsk) ELSE o

irq_starts ==
    /\ irq_exit
    /\ k.nest = 1 => ~o.intovr
    /\ o' = IF k.nest = 1 THEN ovrtimer_start(o, k'.runtsk) ELSE o

\* a unit of time in a task whose processor time is counted
run ==
    /\ k.nest = 0 /\ k.runtsk # NULL
    /\ o.otimer # NULL /\ o.otimer > 0
    /\ o' = [o EXCEPT !.otimer = @ - 1, !.used[k.runtsk] = @ + 1]
    /\ UNCHANGED k

OverrunNext ==
    \/ run \/ call_ovrhdr \/ irq_stops \/ irq_starts \/ ends_itself
    \/ Dispatching(slp_tsk \/ dis_ter \/ dis_dsp)
    \/ \E t \in Task :
         \/ terminates(t) \/ stp_ovr(t)
         \/ Dispatching(act_tsk(t) \/ wup_tsk(t))
         \/ \E ovrtim \in OvrTim : sta_ovr(t, ovrtim)
    \/ \E pri \in Pri : Dispatching(rot_rdq(pri))

OverrunSpec == OverrunInit /\ [][OverrunNext]_<<k, o>>

-----------------------------------------------------------------------------
(* The timer runs just while a task runs whose time is counted, whatever   *)
(* way it came to run or is left: so what a task has left and what it has  *)
(* used of the processor are what it was given, however often it is        *)
(* preempted, interrupted and resumed; the overrun handler is called only  *)
(* for a task that has used it all, and what ovrtimer_stop asserts holds   *)
(* (ovrtimer_start and ovrtimer_stop in core_support.S, and the four places*)
(* that terminate the running task).                                       *)
left(t) == IF o.ovrtimer_flag /\ t = k.runtsk THEN o.otimer ELSE o.leftotm[t]

OverrunOK ==
    /\ o \in OverrunState /\ o.asserted
    /\ o.ovrtimer_flag <=> o.otimer # NULL
    /\ o.ovrtimer_flag <=> k.nest = 0 /\ k.runtsk # NULL /\ o.staovr[k.runtsk]
    /\ \A t \in Task : o.staovr[t] => o.used[t] + left(t) = o.given[t]
=============================================================================
