------------------------------- MODULE MCTask -------------------------------
(***************************************************************************)
(* TaskCalls for TLC: tasks of two priorities and no object. Two more      *)
(* initial states are those of the kernel with an extension: sub-priorities*)
(* with tasks of its own, and the overrun handler.                         *)
(***************************************************************************)
EXTENDS TaskCalls, TLC

CONSTANTS SubTask, subprio_primap, UINT_MAX, OvrTim

VARIABLES
    ks,         \* the state of SubprioCalls; NULL when TaskCalls is at work
    subpri,
    ov          \* the state of OverrunCalls beside k; NULL without the extension

MCipriority == [t \in Task |-> 1]
MCwfactor == [w \in Wobj |-> "SEM"]
MCceilpri == [m \in TA_CEILING |-> 0]
Symmetry == Permutations(Task) \cup Permutations(SubTask)

S == INSTANCE SubprioCalls WITH
         k <- ks, Task <- SubTask, MaxNest <- 1,
         ipriority <- [t \in SubTask |-> 1], TA_ACT <- SubTask

ASSUME S!SubprioAssumption

O == INSTANCE OverrunCalls WITH o <- ov, MaxNest <- 1

MCInit ==
    /\ TaskInit
    /\ \/ ks = NULL /\ subpri = NULL /\ (ov = NULL \/ O!OverrunInit)
       \/ S!SubprioInit /\ ov = NULL

MCNext ==
    \/ ks = NULL /\ ov = NULL /\ TaskNext /\ UNCHANGED <<ks, subpri, ov>>
    \/ ks # NULL /\ S!SubprioNext /\ UNCHANGED <<k, ov>>
    \/ ov # NULL /\ O!OverrunNext /\ UNCHANGED <<ks, subpri>>

MCSpec == MCInit /\ [][MCNext]_<<k, ks, subpri, ov>>

(* The extensions work: the ready queues are in the order of the           *)
(* sub-priorities (SubprioCalls), and the processor time of a task is      *)
(* counted just while it runs (OverrunCalls).                              *)
ExtensionsOK ==
    /\ ks # NULL => S!SubprioOK
    /\ ov # NULL => O!OverrunOK

(* The task to run is one of the highest sub-priority (SubprioCalls).      *)
SubprioOrder == ks # NULL => S!SubprioOrder
=============================================================================
