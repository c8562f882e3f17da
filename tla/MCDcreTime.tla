----------------------------- MODULE MCDcreTime -----------------------------
(***************************************************************************)
(* DcreTime for TLC, with small cycles of the counters. Other initial      *)
(* states are those of the kernel with the drift adjustment extension,     *)
(* which has a timer and alarms of its own.                                *)
(***************************************************************************)
EXTENDS DcreTime, DriftArith

CONSTANTS
    DriftRelTim, DriftRate, TMAX_RELTIM

VARIABLES dt, dsignal, dcallflag, ddelay    \* of DriftTime; dt is NONE without it

drift_vars == <<dt, dsignal, dcallflag, ddelay>>

D == INSTANCE DriftTime WITH
         t <- dt, signal <- dsignal, callflag <- dcallflag, delay <- ddelay,
         RelTim <- DriftRelTim

MCcycphs == [e \in Cyclic |-> 1]
MCcyctim == [e \in Cyclic |-> 3]
Symmetry == Permutations(Alarm)

MCInit ==
    \/ /\ Init /\ t.cnt = 0
       /\ dt = NONE /\ dsignal = NONE /\ dcallflag = NONE /\ ddelay = NONE
    \/ /\ D!DriftInit
       /\ TimeInit /\ t.cnt = 0
       /\ noexs = {} /\ free_almcb = << >> /\ free_cyccb = << >>

MCNext ==
    \/ dt = NONE /\ DcreNext /\ UNCHANGED drift_vars
    \/ dt # NONE /\ D!DriftNext /\ UNCHANGED vars

MCSpec == MCInit /\ [][MCNext]_<<vars, drift_vars>>

(* Whatever is created and deleted, and whatever drift rates are set, the  *)
(* events are right, and with the drift the timer (NotificationsOK,        *)
(* DriftTime; for the timer without the drift see ArmedOK of TimeCalls).   *)
TimersOK == NotificationsOK /\ (dt # NONE => D!DriftOK)
=============================================================================
