------------------------------- MODULE MCDcre -------------------------------
(* DcreCalls for TLC: a static task and two that are created and deleted,  *)
(* and in each initial state one object, or a semaphore and a mutex; or    *)
(* the static task and one other, without any object or with a mutex, for  *)
(* the calls that tasks make of each other.                                *)
EXTENDS DcreCalls, TLC

CONSTANTS boss, sem, flg, mtx

MCkind == [o \in Task |-> "tsk"] @@ sem :> "sem" @@ flg :> "flg" @@ mtx :> "mtx"
          @@ dataq :> "dtq" @@ pridataq :> "pdq" @@ pool :> "mpf"
MCConfigurations ==
    {{boss, t} : t \in Task \ {boss}} \cup {{boss, t, mtx} : t \in Task \ {boss}}
    \cup {Task \cup {sem, mtx}}
    \cup {Task \cup {o} : o \in {flg, dataq, pridataq, pool}}
MCipriority == [t \in Task |-> IF t = boss THEN 0 ELSE 1]
MCwfactor == sem :> "SEM" @@ flg :> "FLG" @@ mtx :> "MTX" @@ dataq :> "SDTQ"
             @@ dataq_rwait :> "RDTQ" @@ pridataq :> "SPDQ" @@ pridataq_rwait :> "RPDQ"
             @@ pool :> "MPF"
MCceilpri == [m \in TA_CEILING |-> 0]
MCisemcnt == [s \in Sem |-> 1]
MCmaxsem == [s \in Sem |-> 1]
MCiflgptn == [f \in Flg |-> {}]
Symmetry == Permutations(Task \ {boss})

(* Of the calls of tasks those that start, end or release them, and the    *)
(* interrupts.                                                             *)
AroundCall ==
    \/ ext_tsk
    \/ T!irq_entry \/ T!irq_exit
    \/ \E t \in Task :
         \/ act_tsk(t) \/ ter_tsk(t) \/ rel_wai(t) \/ T!signal_time(t)
         \/ mtx \in cb /\ t # boss /\ \E pri \in Pri : chg_pri(t, pri)

\* with one dynamic task and a mutex, suspension and deferred termination
SuspendCall ==
    /\ mtx \in cb /\ sem \notin cb
    /\ \/ dis_ter \/ ena_ter
       \/ \E t \in Task : ras_ter(t) \/ sus_tsk(t) \/ rsm_tsk(t)

\* with one dynamic task and no object, all calls
TaskNext == cb \subseteq Task /\ (DcreTaskCall \/ KernelCall)

MCNext ==
    \/ TaskNext /\ UNCHANGED dcre_vars /\ SyncRest /\ CommRest
    \/ (AroundCall \/ SuspendCall) /\ UNCHANGED dcre_vars /\ SyncRest /\ CommRest
    \/ CreateOrDelete /\ SyncRest /\ CommRest
    \/ SyncCall /\ CommRest
    \/ CommCall /\ SyncRest

MCSpec == Init /\ [][MCNext]_vars
=============================================================================
