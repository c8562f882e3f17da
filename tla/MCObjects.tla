----------------------------- MODULE MCObjects -----------------------------
(***************************************************************************)
(* The objects that tasks wait for, for TLC: semaphores, event flags, data *)
(* queues, priority data queues and message buffers. They share the tasks, *)
(* the queues and the dispatcher, but no state of their own: each initial  *)
(* state uses one of them.                                                 *)
(***************************************************************************)
EXTENDS MutexCtl, TLC

CONSTANTS
    sem, Flg, dtq_swait, dtq_rwait, pdq_swait, pdq_rwait, mbf_swait, mbf_rwait,
    Bit, TA_CLR, TA_WMUL, Data, Dtqcnt, Pdqcnt, maxdpri,
    Message, msgsz, Mbfsz, UINT_SZ,
    single, several, cleared,   \* the event flags: for one waiting task, for
                                \* several, and cleared when one is released
    small, big                  \* the messages of the message buffer

VARIABLES
    k, inuse,                   \* the object in use, or its senders' queue
    semcnt,                     \* of SemaphoreCalls
    flgptn, winfo_flg,          \* of EventflagCalls
    dtqcnt, dtq, sdata, rdata,  \* of DataqueueCalls
    pdqcnt, pdq, psdata, prdata,
    mbfsz, mbf, smsg, rmsg      \* of MessagebufCalls

MCipriority == [t \in Task |-> TNUM_TPRI - 1]
MCwfactor == sem :> "SEM" @@ dtq_swait :> "SDTQ" @@ dtq_rwait :> "RDTQ"
             @@ pdq_swait :> "SPDQ" @@ pdq_rwait :> "RPDQ"
             @@ mbf_swait :> "SMBF" @@ mbf_rwait :> "RMBF" @@ [f \in Flg |-> "FLG"]
MCceilpri == [m \in TA_CEILING |-> 0]
MCmsgsz == small :> 1 @@ big :> 3
Symmetry == Permutations(Task) \cup Permutations(Data)

S == INSTANCE SemaphoreCalls WITH
         Sem <- {sem}, isemcnt <- [s \in {sem} |-> 0], maxsem <- [s \in {sem} |-> 2]
F == INSTANCE EventflagCalls WITH iflgptn <- [f \in Flg |-> {}]
D == INSTANCE DataqueueCalls WITH swait_queue <- dtq_swait, rwait_queue <- dtq_rwait
P == INSTANCE PridataqCalls WITH
         swait_queue <- pdq_swait, rwait_queue <- pdq_rwait, sdata <- psdata, rdata <- prdata
B == INSTANCE MessagebufCalls WITH swait_queue <- mbf_swait, rwait_queue <- mbf_rwait

ASSUME ObjectsAssumption ==
    /\ S!SemAssumption /\ F!FlgAssumption
    /\ D!DtqAssumption /\ P!PdqAssumption /\ B!MbfAssumption

flg_vars == <<flgptn, winfo_flg>>
dtq_vars == <<dtqcnt, dtq, sdata, rdata>>
pdq_vars == <<pdqcnt, pdq, psdata, prdata>>
mbf_vars == <<mbfsz, mbf, smsg, rmsg>>
object_vars == <<semcnt, flg_vars, dtq_vars, pdq_vars, mbf_vars>>

ObjectsInit ==
    /\ S!SemInit /\ F!FlgInit /\ D!DtqInit /\ P!PdqInit /\ B!MbfInit
    /\ inuse \in {sem, dtq_swait, pdq_swait, mbf_swait} \cup Flg
    /\ dtqcnt = 0 \/ inuse = dtq_swait   \* the numbers and sizes vary only
    /\ pdqcnt = 0 \/ inuse = pdq_swait   \* of what is in use
    /\ mbfsz = 0 \/ inuse = mbf_swait

-----------------------------------------------------------------------------
(* Of TaskCalls the calls that start, end and release tasks, and the       *)
(* interrupts; suspension where it does not multiply the states too much.  *)
Around ==
    \/ S!irq_entry \/ S!irq_exit
    \/ \E t \in Task :
         \/ S!act_tsk(t) \/ S!ter_tsk(t) \/ S!rel_wai(t) \/ S!signal_time(t)
         \/ inuse \in {sem, cleared, dtq_swait} /\ (S!sus_tsk(t) \/ S!rsm_tsk(t))

SemStep ==
    /\ inuse = sem
    /\ S!SemCall(sem) \/ (Around /\ UNCHANGED semcnt)
    /\ UNCHANGED <<flg_vars, dtq_vars, pdq_vars, mbf_vars>>

FlgStep ==
    /\ inuse \in Flg
    /\ \/ F!FlgCall(inuse)
       \/ Around /\ winfo_flg' = F!alive_flg(winfo_flg) /\ UNCHANGED flgptn
    /\ UNCHANGED <<semcnt, dtq_vars, pdq_vars, mbf_vars>>

DtqStep ==
    /\ inuse = dtq_swait
    /\ \/ D!DtqCall
       \/ Around /\ sdata' = D!alive(sdata) /\ rdata' = D!nothing /\ UNCHANGED dtq
    /\ UNCHANGED <<dtqcnt, semcnt, flg_vars, pdq_vars, mbf_vars>>

PdqStep ==
    /\ inuse = pdq_swait
    /\ \/ P!PdqCall
       \/ Around /\ psdata' = P!alive(psdata) /\ prdata' = P!nothing /\ UNCHANGED pdq
    /\ UNCHANGED <<pdqcnt, semcnt, flg_vars, dtq_vars, mbf_vars>>

MbfStep ==
    /\ inuse = mbf_swait
    /\ \/ B!MbfCall \/ B!OtherCall(Around)
       \/ \E t \in Task : B!SenderCall(t)
    /\ UNCHANGED <<mbfsz, semcnt, flg_vars, dtq_vars, pdq_vars>>

ObjectsNext ==
    /\ SemStep \/ FlgStep \/ DtqStep \/ PdqStep \/ MbfStep
    /\ UNCHANGED inuse

ObjectsSpec == ObjectsInit /\ [][ObjectsNext]_<<k, inuse, object_vars>>

-----------------------------------------------------------------------------
(* No task waits for a semaphore or an event flag that it could have       *)
(* (sig_sem, set_flg), and only so many as may.                            *)
SemFlagOK == S!SemOK /\ F!FlagWaitOK

(* No task waits with a message that there is room for, nor for one that   *)
(* there is; and the counts, indices and lists of each queue agree         *)
(* (dataqueue.c, pridataq.c, messagebuf.c).                                *)
QueuesOK ==
    /\ inuse = dtq_swait => D!DtqOK
    /\ inuse = pdq_swait => P!PdqOK
    /\ inuse = mbf_swait => B!MbfOK

(* set_flg releases exactly the tasks it should, all or the first of them  *)
(* (the SetFlagOK of EventflagCalls for the flag in use).                  *)
SetFlagOK == [][\A f \in Flg \cap {inuse} : F!SetFlagStep(f)]_<<k, flg_vars>>

(* The data queue, the priority data queue and the message buffer are the  *)
(* channels that they promise to be.                                       *)
ImplementChannels ==
    /\ D!ImplementsChannel
    /\ P!ImplementsPriChannel
    /\ B!ImplementsMessageChannel
=============================================================================
