------------------------------ MODULE TaskCtl ------------------------------
(***************************************************************************)
(* The task control and waiting routines shared by all service calls       *)
(* (kernel/task.c, kernel/wait.h, kernel/wait.c), and the dispatcher as    *)
(* they see it. Each is run under the CPU lock.                            *)
(***************************************************************************)
EXTENDS TaskCB

primap_empty(k)      == k.primap = {}

\* bitmap_search returns the lowest bit that is set
primap_search(k) == CHOOSE p \in k.primap : \A q \in k.primap : p <= q

search_schedtsk(k) == Head(k.readyq[primap_search(k)])

\* mutant: p_schedtsk is updated although dispatching is disabled
Bug_make_runnable(k, t) ==
    LET pri == k.priority[t]
    IN  [k EXCEPT !.readyq[pri] = queue_insert_prev(@, t),
                  !.primap = @ \cup {pri},
                  !.schedtsk = IF @ = NULL \/ pri < k.priority[@] THEN t ELSE @]

(* A task becomes runnable: it joins the tail of its priority's queue, and *)
(* is the one to run if it beats the current choice.                       *)
make_runnable(k, t) ==
    LET pri == k.priority[t]
    IN  [k EXCEPT !.readyq[pri] = queue_insert_prev(@, t),
                  !.primap = @ \cup {pri},
                  !.schedtsk = IF /\ k.dspflg
                                  /\ \/ k.schedtsk = NULL
                                     \/ pri < k.priority[k.schedtsk]
                               THEN t ELSE @]

\* t leaves the ready queue of priority pri; the bitmap follows
ready_unlink(k, t, pri) ==
    LET rest == queue_delete(k.readyq[pri], t)
    IN  [k EXCEPT !.readyq[pri] = rest,
                  !.primap = IF queue_empty(rest) THEN @ \ {pri} ELSE @]

(* A task stops being runnable. Only when dispatching is enabled can it be *)
(* the one that is scheduled.                                              *)
make_non_runnable(k, t) ==
    LET pri  == k.priority[t]
        k1   == ready_unlink(k, t, pri)
        next == IF ~queue_empty(k1.readyq[pri]) THEN Head(k1.readyq[pri])
                ELSE IF primap_empty(k1) THEN NULL ELSE search_schedtsk(k1)
    IN  IF k.schedtsk = t
        THEN Check([k1 EXCEPT !.schedtsk = next], k.dspflg, "make_non_runnable")
        ELSE k1

\* mutant: the priority is left in its external representation
Bug_make_dormant(k, t) ==
    [k EXCEPT !.tstat[t] = {},
              !.bpriority[t] = ipriority[t] + 1,
              !.priority[t] = ipriority[t] + 1,
              !.wupque[t] = FALSE,
              !.raster[t] = FALSE,
              !.enater[t] = TRUE]

make_dormant(k, t) ==
    [k EXCEPT !.tstat[t] = {},
              !.bpriority[t] = ipriority[t],
              !.priority[t] = ipriority[t],
              !.wupque[t] = FALSE,
              !.raster[t] = FALSE,
              !.enater[t] = TRUE]

(* activate_context gives the task a fresh stack: what it kept in the old  *)
(* one, its WINFO, is gone.                                                *)
activate_context(k, t) ==
    [k EXCEPT !.winfo[t] = NULL,
              !.wobj[t] = NULL]

make_active(k, t) ==
    LET k1 == activate_context(k, t)
    IN  make_runnable([k1 EXCEPT !.tstat[t] = {TS_RUNNABLE}], t)

\* mutant: the choice of the task to run follows the rotation even while
\* dispatching is disabled
Bug_rotate_ready_queue(k, pri) ==
    LET q  == k.readyq[pri]
        q1 == queue_insert_prev(Tail(q), Head(q))
    IN  IF Len(q) < 2 THEN k
        ELSE [k EXCEPT !.readyq[pri] = q1,
                       !.schedtsk = IF @ = Head(q) THEN Head(q1) ELSE @]

rotate_ready_queue(k, pri) ==
    LET q     == k.readyq[pri]
        entry == Head(q)
        q1    == queue_insert_prev(Tail(q), entry)
    IN  IF Len(q) < 2 THEN k
        ELSE [k EXCEPT !.readyq[pri] = q1,
                       !.schedtsk = IF k.dspflg /\ @ = entry THEN Head(q1) ELSE @]

-----------------------------------------------------------------------------
(* Where a waiting task stands in a priority ordered wait queue follows    *)
(* its priority.                                                           *)
Bug_wobj_change_priority(k, w, t) == k   \* mutant: the task keeps its place
wobj_change_priority(k, w, t) ==
    IF w \in TA_TPRI
    THEN [k EXCEPT !.wque[w] =
             queue_insert_tpri(queue_delete(@, t), t, k.priority)]
    ELSE k

(* mtxmode puts the task at the head of its new priority's queue.          *)
change_priority(k, t, newpri, mtxmode) ==
    LET oldpri == k.priority[t]
        k1 == [k EXCEPT !.priority[t] = newpri]
        k2 == [ready_unlink(k1, t, oldpri) EXCEPT
                 !.readyq[newpri] = IF mtxmode THEN queue_insert_next(@, t)
                                               ELSE queue_insert_prev(@, t),
                 !.primap = @ \cup {newpri}]
        beats == \/ newpri < k1.priority[k.schedtsk]
                 \/ mtxmode /\ newpri = k1.priority[k.schedtsk]
    IN  IF TSTAT_RUNNABLE(k.tstat[t])
        THEN [k2 EXCEPT !.schedtsk =
                 IF ~k.dspflg THEN @
                 ELSE IF @ = t THEN (IF newpri >= oldpri THEN search_schedtsk(k2) ELSE @)
                 ELSE IF beats THEN t ELSE @]
        ELSE IF TSTAT_WAIT_WOBJCB(k.tstat[t])
        THEN wobj_change_priority(k1, k.wobj[t], t)
        ELSE k1

-----------------------------------------------------------------------------
(* The time event heap, as the waiting routines use it.                    *)
tmevtb_enqueue(k, t, callback) ==
    Check([k EXCEPT !.tmevtb[t] = callback],
          k.tmevtb[t] = NULL, "tmevtb_enqueue")
tmevtb_dequeue(k, t) ==
    Check([k EXCEPT !.tmevtb[t] = NULL],
          k.winfo[t] = PTMEVTB /\ k.tmevtb[t] # NULL, "tmevtb_dequeue")

(* The running task leaves the ready queue; its WINFO says whether a       *)
(* TMEVTB watches over the wait.                                           *)
make_wait(k) ==
    LET t == k.runtsk
        k1 == make_non_runnable(k, t)
    IN  [k1 EXCEPT !.winfo[t] = NULL]

make_wait_tmout(k, callback) ==
    LET t == k.runtsk
        k1 == make_non_runnable(k, t)
    IN  tmevtb_enqueue([k1 EXCEPT !.winfo[t] = PTMEVTB], t, callback)

make_non_wait(k, t) ==
    LET s  == k.tstat[t]
        k1 == Check(k, TSTAT_WAITING(s), "make_non_wait")
    IN  IF ~TSTAT_SUSPENDED(s)
        THEN make_runnable([k1 EXCEPT !.tstat[t] = {TS_RUNNABLE}], t)
        ELSE [k1 EXCEPT !.tstat[t] = {TS_SUSPENDED}]

Bug_wait_dequeue_wobj(k, t) == k   \* mutant: the task stays in the wait queue
wait_dequeue_wobj(k, t) ==
    IF TSTAT_WAIT_WOBJ(k.tstat[t])
    THEN [k EXCEPT !.wque[k.wobj[t]] = queue_delete(@, t)]
    ELSE k

wait_dequeue_tmevtb(k, t) ==
    IF k.winfo[t] # NULL THEN tmevtb_dequeue(k, t) ELSE k

set_wercd(k, t, ercd) == [k EXCEPT !.winfo[t] = ercd]

\* mutant: wercd is stored before the TMEVTB is taken out of the heap
Bug_wait_complete(k, t) ==
    make_non_wait(wait_dequeue_tmevtb(set_wercd(k, t, E_OK), t), t)

wait_complete(k, t) ==
    make_non_wait(set_wercd(wait_dequeue_tmevtb(k, t), t, E_OK), t)

(* The callbacks of the time event: signal_time has taken the TMEVTB out   *)
(* of the heap before it calls them.                                       *)
wait_tmout(k, t)    == make_non_wait(set_wercd(wait_dequeue_wobj(k, t), t, "E_TMOUT"), t)
wait_tmout_ok(k, t) == make_non_wait(set_wercd(k, t, E_OK), t)

\* mutant: the last to wait is served first
Bug_wobj_queue_insert(k, w) ==
    [k EXCEPT !.wque[w] = queue_insert_next(@, k.runtsk)]

wobj_queue_insert(k, w) ==
    LET t == k.runtsk
    IN  [k EXCEPT !.wque[w] = IF w \in TA_TPRI
                                           THEN queue_insert_tpri(@, t, k.priority)
                                           ELSE queue_insert_prev(@, t)]

wobj_make_wait(k, w) ==
    LET k1 == wobj_queue_insert(make_wait(k), w)
    IN  [k1 EXCEPT !.wobj[k.runtsk] = w]

wobj_make_wait_tmout(k, w) ==
    LET k1 == wobj_queue_insert(make_wait_tmout(k, "wait_tmout"), w)
    IN  [k1 EXCEPT !.wobj[k.runtsk] = w]

(* Every task waiting in the queue is released with E_DLT, from its head.  *)
init_wait_queue(k, w) ==
    LET after[n \in 0 .. Len(k.wque[w])] ==
          IF n = 0 THEN k
          ELSE LET j == after[n - 1]
                   t == Head(j.wque[w])
                   j1 == wait_dequeue_tmevtb([j EXCEPT !.wque[w] = Tail(@)], t)
               IN  make_non_wait(set_wercd(j1, t, "E_DLT"), t)
    IN  after[Len(k.wque[w])]

-----------------------------------------------------------------------------
(* The dispatcher: the processor takes up the context of p_schedtsk. The   *)
(* chosen task returns from its service call, reads wercd and leaves the   *)
(* stack frame that held its WINFO. It may only be entered with            *)
(* dispatching enabled and all interrupt priorities unmasked.              *)
dispatcher(k) ==
    LET t == k.schedtsk
        k1 == Check(k, k.dspflg /\ k.enadsp /\ k.ipm = "TIPM_ENAALL", "dispatcher")
    IN  [k1 EXCEPT !.runtsk = t,
                   !.winfo = [x \in Task |-> IF x = t THEN NULL ELSE @[x]],
                   !.wobj  = [x \in Task |-> IF x = t THEN NULL ELSE @[x]]]

(* if (p_runtsk != p_schedtsk): dispatch from a task; from an interrupt    *)
(* handler request_dispatch, which leaves it to the handler's exit.        *)
dispatch(k) ==
    IF k.nest = 0 /\ k.runtsk # k.schedtsk THEN dispatcher(k) ELSE k
=============================================================================
