------------------------------- MODULE TaskCB -------------------------------
(***************************************************************************)
(* The state every kernel routine works on: the task control blocks, the   *)
(* ready queue, the wait queues and the dispatcher's variables             *)
(* (kernel/task.h, kernel/wait.h, kernel/mutex.h).                         *)
(*                                                                         *)
(* All of it is guarded by the CPU lock, so it is one record: a kernel     *)
(* routine is an operator from such a record to the next one, and a        *)
(* service call composes the routines it calls.                            *)
(***************************************************************************)
EXTENDS Integers, Sequences, SequencesExt

CONSTANTS
    Task,        \* the TCBs
    Wobj,        \* the wait queues of the synchronisation objects
    Mutex,       \* the MTXCBs; a mutex is also the name of its wait queue
    NULL,        \* a null pointer, and 0, which is E_OK
    TNUM_TPRI,   \* number of task priorities, 0 the highest
    ipriority,   \* initial priority of each task (TINIB)
    TA_ACT,      \* the tasks created in the runnable state
    TA_NOACTQUE, \* the tasks whose activation requests are not queued
    wfactor,     \* the waiting factor (a TS_WAITING_ flag) of each wait queue
    TA_TPRI,     \* the wait queues kept in task priority order
    TA_CEILING,  \* the mutexes with the priority ceiling protocol
    ceilpri,     \* their ceiling priorities
    MaxNest      \* bound on the nesting of interrupt handlers

Pri == 0 .. TNUM_TPRI - 1

-----------------------------------------------------------------------------
(* tstat is a word of flags: a set of them here, the empty set is          *)
(* TS_DORMANT.                                                             *)
TS_RUNNABLE  == "RUNNABLE"
TS_SUSPENDED == "SUSPENDED"
TS_WAITING_SLP == "SLP"
TS_WAITING_DLY == "DLY"
\* SMBF and RMBF with the message buffer extension
WobjcbFactor == {"SEM", "FLG", "SDTQ", "SPDQ", "MTX", "SMBF", "MPF"} \* bits 1xxxx
OtherFactor  == {"RDTQ", "RPDQ", "RMBF"}                             \* bits 01xxx
WobjFactor   == WobjcbFactor \cup OtherFactor
WaitFactor   == {TS_WAITING_SLP, TS_WAITING_DLY} \cup WobjFactor
TStat == SUBSET ({TS_RUNNABLE, TS_SUSPENDED} \cup WaitFactor)

TSTAT_DORMANT(s)   == s = {}
TSTAT_RUNNABLE(s)  == TS_RUNNABLE \in s
TSTAT_SUSPENDED(s) == TS_SUSPENDED \in s
TSTAT_WAITING(s)   == s \cap WaitFactor # {}
TSTAT_WAIT_SLP(s)  == s \ {TS_SUSPENDED} = {TS_WAITING_SLP}
TSTAT_WAIT_MTX(s)  == s \ {TS_SUSPENDED} = {"MTX"}
TSTAT_WAIT_WOBJ(s)   == s \cap WobjFactor # {}
TSTAT_WAIT_WOBJCB(s) == s \cap WobjcbFactor # {}

(* The union WINFO: a pointer to the waiting task's TMEVTB, or the error   *)
(* code of the finished wait, in the same word. E_OK is 0, and reads as a  *)
(* null pointer.                                                           *)
E_OK     == NULL
PTMEVTB  == "p_tmevtb"
WaitErcd == {E_OK, "E_TMOUT", "E_RLWAI", "E_RASTER", "E_DLT"}
WInfo    == WaitErcd \cup {PTMEVTB}

CallBack == {"wait_tmout", "wait_tmout_ok"}

(* Only whether the interrupt priority mask is TIPM_ENAALL matters.        *)
Ipm == {"TIPM_ENAALL", "masked"}

-----------------------------------------------------------------------------
ASSUME TaskAssumption ==
    /\ IsFiniteSet(Task)
    /\ TNUM_TPRI \in Nat \ {0}
    /\ MaxNest \in Nat \ {0}
    /\ NULL \notin Task \cup Mutex \cup Wobj
    /\ NULL \notin {PTMEVTB, "E_TMOUT", "E_RLWAI", "E_RASTER", "E_DLT"}
    /\ NULL \notin CallBack
    /\ ipriority \in [Task -> Pri]
    /\ TA_ACT \subseteq Task
    /\ TA_NOACTQUE \subseteq Task

ASSUME WobjAssumption ==
    /\ Mutex \subseteq Wobj /\ IsFiniteSet(Mutex)
    /\ wfactor \in [Wobj -> WobjFactor]
    /\ \A w \in Wobj : w \in Mutex <=> wfactor[w] = "MTX"
    /\ TA_TPRI \subseteq Wobj
    /\ TA_CEILING \subseteq Mutex \cap TA_TPRI   \* TA_CEILING contains the bit TA_TPRI
    /\ ceilpri \in [TA_CEILING -> Pri]

(* The routines that assert, or that follow a pointer which must be good.  *)
Asserting == {"make_non_runnable", "make_non_wait", "tmevtb_enqueue", "tmevtb_dequeue",
              "dispatcher", "mutex"}

(* The kernel's variables. tmevtb[t] is the callback with which the TMEVTB *)
(* on t's stack is registered in the time event heap, NULL when it is not; *)
(* wque[w] the tasks linked in wait queue w; nest is excpt_nest_count;     *)
(* broken collects the names of the routines whose assert failed or that   *)
(* used a pointer that does not point where they take it to.               *)
KernelState ==
    [ tstat     : [Task -> TStat],
      bpriority : [Task -> Pri],
      priority  : [Task -> Pri],
      actque    : [Task -> BOOLEAN],
      wupque    : [Task -> BOOLEAN],
      raster    : [Task -> BOOLEAN],
      enater    : [Task -> BOOLEAN],
      winfo     : [Task -> WInfo],
      wobj      : [Task -> Wobj \cup {NULL}],
      tmevtb    : [Task -> CallBack \cup {NULL}],
      lastmtx   : [Task -> Mutex \cup {NULL}],
      prevmtx   : [Mutex -> Mutex \cup {NULL}],
      loctsk    : [Mutex -> Task \cup {NULL}],
      readyq    : [Pri -> Seq(Task)],
      primap    : SUBSET Pri,
      wque      : [Wobj -> Seq(Task)],
      runtsk    : Task \cup {NULL},
      schedtsk  : Task \cup {NULL},
      enadsp    : BOOLEAN,
      dspflg    : BOOLEAN,
      ipm       : Ipm,
      lock      : BOOLEAN,
      nest      : 0 .. MaxNest,
      broken    : SUBSET Asserting ]

(* An assert of the source: a failure is recorded.                         *)
Check(k, ok, who) == IF ok THEN k ELSE [k EXCEPT !.broken = @ \cup {who}]

-----------------------------------------------------------------------------
(* include/queue.h on a circular list read from its header.                *)
\* mutants: insertion at the wrong end, an emptiness test off by one
Bug_queue_insert_prev(q, t) == <<t>> \o q
Bug_queue_empty(q) == Len(q) <= 1
queue_insert_prev(q, t) == Append(q, t)
queue_insert_next(q, t) == <<t>> \o q
queue_delete(q, t) == RemoveAt(q, CHOOSE i \in 1 .. Len(q) : q[i] = t)
queue_empty(q) == q = << >>

(* Insertion before the first entry of a strictly lower priority.          *)
queue_insert_tpri(q, t, priority) ==
    LET ahead == {i \in 1 .. Len(q) : \A j \in 1 .. i : priority[q[j]] <= priority[t]}
    IN  InsertAt(q, 1 + Cardinality(ahead), t)
=============================================================================
