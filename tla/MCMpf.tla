------------------------------- MODULE MCMpf -------------------------------
(* MempfixCalls for TLC.                                                   *)
EXTENDS MempfixCalls, TLC

MCipriority == [t \in Task |-> TNUM_TPRI - 1]
MCwfactor == [w \in Wobj |-> "MPF"]
MCceilpri == [m \in TA_CEILING |-> 0]
Symmetry == Permutations(Task)

(* Of TaskCalls the calls that release, preempt, end or start a task, and  *)
(* the interrupts.                                                         *)
AroundNext ==
    \/ irq_entry \/ irq_exit
    \/ \E t \in Task : act_tsk(t) \/ ter_tsk(t) \/ rel_wai(t) \/ signal_time(t)
    \/ \E pri \in Pri : rot_rdq(pri)

RightfulAround == RightfulCall \/ Interrupt \/ OtherCall(AroundNext)

RightfulAroundSpec == MpfInit /\ [][RightfulAround]_mpf_vars

(* Every task gives back only its own blocks, but another one may          *)
(* initialise the pool again while it does.                                *)
ReinitAround == RightfulCall \/ ini_mpf \/ Interrupt \/ OtherCall(AroundNext)

ReinitSpec == MpfInit /\ [][ReinitAround]_mpf_vars
=============================================================================
