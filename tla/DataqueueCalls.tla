--------------------------- MODULE DataqueueCalls ---------------------------
(***************************************************************************)
(* The service calls of kernel/dataqueue.c on top of those of TaskCalls,   *)
(* for one data queue (the DTQCBs share nothing).                          *)
(***************************************************************************)
EXTENDS TaskCalls

CONSTANTS
    swait_queue, rwait_queue,   \* the wait queues of its senders and receivers
    Data,
    Dtqcnt                      \* the possible numbers of messages it stores

(* Assumed of the constants by whoever instantiates this module.          *)
DtqAssumption ==
    /\ {swait_queue, rwait_queue} \subseteq Wobj
    /\ wfactor[swait_queue] = "SDTQ" /\ wfactor[rwait_queue] = "RDTQ"
    /\ rwait_queue \notin TA_TPRI
    /\ Dtqcnt \subseteq Nat
    /\ NULL \notin Data

VARIABLES
    dtqcnt,   \* the number of messages it stores: in its DTQINIB, never changed
    dtq,      \* the DTQCB: count, head, tail and the ring buffer p_dtqmb
    sdata,    \* the data in each task's WINFO_SDTQ
    rdata     \* the data each task received in the last step: in its
              \* WINFO_RDTQ or in *p_data

dtq_vars == <<k, dtqcnt, dtq, sdata, rdata>>

Dtqcb == [ count : 0 .. dtqcnt, head : Nat, tail : Nat,
           p_dtqmb : [0 .. dtqcnt - 1 -> Data \cup {NULL}] ]

initialize_dataqueue ==
    [count |-> 0, head |-> 0, tail |-> 0, p_dtqmb |-> [i \in 0 .. dtqcnt - 1 |-> NULL]]

nothing == [t \in Task |-> NULL]

DtqInit ==
    /\ TaskInit
    /\ dtqcnt \in Dtqcnt
    /\ dtq = initialize_dataqueue
    /\ sdata = nothing
    /\ rdata = nothing

(* A WINFO_SDTQ lives as long as its task waits in the senders' queue.     *)
alive(d) == [t \in Task |-> IF Contains(k'.wque[swait_queue], t) THEN d[t] ELSE NULL]

-----------------------------------------------------------------------------
\* the next place in the ring
successor(i) == IF i + 1 >= dtqcnt THEN 0 ELSE i + 1

enqueue_data(q, data) ==
    [q EXCEPT !.p_dtqmb[q.tail] = data,
              !.count = @ + 1,
              !.tail = successor(@)]

\* mutant: the oldest place is overwritten, but stays the oldest
Bug_force_enqueue_data(q, data) ==
    [q EXCEPT !.p_dtqmb[q.tail] = data,
              !.tail = successor(@),
              !.count = IF @ < dtqcnt THEN @ + 1 ELSE @]

(* The message is stored in any case; it replaces the oldest one when the  *)
(* buffer is full.                                                         *)
force_enqueue_data(q, data) ==
    [q EXCEPT !.p_dtqmb[q.tail] = data,
              !.tail = successor(@),
              !.count = IF @ < dtqcnt THEN @ + 1 ELSE @,
              !.head = IF q.count < dtqcnt THEN @ ELSE successor(q.tail)]

dequeue_data(q) == [q EXCEPT !.count = @ - 1, !.head = successor(@)]

\* the first task of a wait queue is taken out and its wait is over
release_first(j, w) == wait_complete([j EXCEPT !.wque[w] = Tail(@)], Head(j.wque[w]))

\* the first waiting receiver gets the message
to_receiver(data) ==
    /\ ~queue_empty(k.wque[rwait_queue])
    /\ k' = dispatch(release_first(k, rwait_queue))
    /\ rdata' = [nothing EXCEPT ![Head(k.wque[rwait_queue])] = data]
    /\ UNCHANGED <<dtq, sdata>>

send_data(data) ==
    \/ to_receiver(data)
    \/ /\ queue_empty(k.wque[rwait_queue])
       /\ dtq.count < dtqcnt
       /\ dtq' = enqueue_data(dtq, data)
       /\ rdata' = nothing
       /\ UNCHANGED <<k, sdata>>

send_data_fails == queue_empty(k.wque[rwait_queue]) /\ dtq.count >= dtqcnt

force_send_data(data) ==
    \/ to_receiver(data)
    \/ /\ queue_empty(k.wque[rwait_queue])
       /\ dtq' = force_enqueue_data(dtq, data)
       /\ rdata' = nothing
       /\ UNCHANGED <<k, sdata>>

\* mutant: the room that a receiver makes is not given to the first sender
Bug_receive_data ==
    LET sender == Head(k.wque[swait_queue])
    IN  \/ /\ dtq.count > 0
           /\ rdata' = [nothing EXCEPT ![k.runtsk] = dtq.p_dtqmb[dtq.head]]
           /\ dtq' = dequeue_data(dtq)
           /\ UNCHANGED <<k, sdata>>
        \/ /\ dtq.count = 0
           /\ ~queue_empty(k.wque[swait_queue])
           /\ rdata' = [nothing EXCEPT ![k.runtsk] = sdata[sender]]
           /\ k' = dispatch(release_first(k, swait_queue))
           /\ sdata' = alive(sdata)
           /\ UNCHANGED dtq

(* The oldest message goes to the caller, and the first waiting sender's   *)
(* message into the place it leaves; without a buffer it comes straight    *)
(* from the sender.                                                        *)
receive_data ==
    LET sender == Head(k.wque[swait_queue])
    IN  \/ /\ dtq.count > 0
           /\ rdata' = [nothing EXCEPT ![k.runtsk] = dtq.p_dtqmb[dtq.head]]
           /\ IF queue_empty(k.wque[swait_queue])
              THEN dtq' = dequeue_data(dtq) /\ UNCHANGED k
              ELSE /\ dtq' = enqueue_data(dequeue_data(dtq), sdata[sender])
                   /\ k' = dispatch(release_first(k, swait_queue))
           /\ sdata' = alive(sdata)
        \/ /\ dtq.count = 0
           /\ ~queue_empty(k.wque[swait_queue])
           /\ rdata' = [nothing EXCEPT ![k.runtsk] = sdata[sender]]
           /\ k' = dispatch(release_first(k, swait_queue))
           /\ sdata' = alive(sdata)
           /\ UNCHANGED dtq

\* mutant: the waiting senders are not looked at
Bug_receive_data_fails == dtq.count = 0
receive_data_fails == dtq.count = 0 /\ queue_empty(k.wque[swait_queue])

-----------------------------------------------------------------------------
\* the caller waits for room with its message in its WINFO_SDTQ
wait_to_send(data, k1) ==
    /\ send_data_fails
    /\ k' = dispatch(k1)
    /\ sdata' = alive([sdata EXCEPT ![k.runtsk] = data])
    /\ rdata' = nothing
    /\ UNCHANGED dtq

snd_dtq(data) ==
    /\ CHECK_DISPATCH
    /\ ~k.raster[k.runtsk]
    /\ send_data(data) \/ wait_to_send(data, wobj_make_wait(waiting_for("SDTQ"), swait_queue))

psnd_dtq(data) == CHECK_UNL /\ send_data(data)

\* with a finite timeout; TMO_FEVR is snd_dtq, TMO_POL is psnd_dtq's outcome
tsnd_dtq(data) ==
    /\ CHECK_DISPATCH
    /\ ~k.raster[k.runtsk]
    /\ send_data(data)
       \/ wait_to_send(data, wobj_make_wait_tmout(waiting_for("SDTQ"), swait_queue))

fsnd_dtq(data) == CHECK_UNL /\ dtqcnt > 0 /\ force_send_data(data)

(* The caller waits for a message. The receivers' queue is always in the   *)
(* order of arrival, and the task is linked into it without                *)
(* wobj_queue_insert.                                                      *)
wait_to_receive(k1) ==
    /\ receive_data_fails
    /\ k' = dispatch([k1 EXCEPT !.wque[rwait_queue] = queue_insert_prev(@, k.runtsk),
                                !.wobj[k.runtsk] = rwait_queue])
    /\ rdata' = nothing
    /\ UNCHANGED <<dtq, sdata>>

rcv_dtq ==
    /\ CHECK_DISPATCH
    /\ ~k.raster[k.runtsk]
    /\ receive_data \/ wait_to_receive(make_wait(waiting_for("RDTQ")))

prcv_dtq == CHECK_TSKCTX_UNL /\ receive_data

trcv_dtq ==
    /\ CHECK_DISPATCH
    /\ ~k.raster[k.runtsk]
    /\ receive_data \/ wait_to_receive(make_wait_tmout(waiting_for("RDTQ"), "wait_tmout"))

\* mutant: the waiting senders are forgotten
Bug_ini_dtq ==
    /\ CHECK_TSKCTX_UNL
    /\ k' = dispatch(init_wait_queue(k, rwait_queue))
    /\ dtq' = [dtq EXCEPT !.count = 0, !.head = 0, !.tail = 0]
    /\ sdata' = alive(sdata)
    /\ rdata' = nothing

ini_dtq ==
    /\ CHECK_TSKCTX_UNL
    /\ k' = dispatch(init_wait_queue(init_wait_queue(k, swait_queue), rwait_queue))
    /\ dtq' = [dtq EXCEPT !.count = 0, !.head = 0, !.tail = 0]
    /\ sdata' = alive(sdata)
    /\ rdata' = nothing

-----------------------------------------------------------------------------
DtqCall ==
    \/ \E data \in Data : snd_dtq(data) \/ psnd_dtq(data) \/ tsnd_dtq(data) \/ fsnd_dtq(data)
    \/ rcv_dtq \/ prcv_dtq \/ trcv_dtq \/ ini_dtq

DtqNext ==
    /\ \/ DtqCall
       \/ TaskNext /\ sdata' = alive(sdata) /\ rdata' = nothing /\ UNCHANGED dtq
    /\ UNCHANGED dtqcnt

DtqSpec == DtqInit /\ [][DtqNext]_dtq_vars

-----------------------------------------------------------------------------
(* The ring buffer's indices agree (enqueue_data, dequeue_data,            *)
(* force_enqueue_data), senders wait only while it is full, receivers only *)
(* while there is no message at all.                                       *)
DtqOK ==
    /\ dtq \in Dtqcb
    /\ dtqcnt > 0 => dtq.head < dtqcnt /\ dtq.tail = (dtq.head + dtq.count) % dtqcnt
    /\ ~queue_empty(k.wque[swait_queue]) => dtq.count = dtqcnt
    /\ ~queue_empty(k.wque[rwait_queue]) =>
         dtq.count = 0 /\ queue_empty(k.wque[swait_queue])

(* With its senders in the order of arrival the data queue is a Channel:   *)
(* the messages in the ring buffer, then those of the waiting senders,     *)
(* come out in the order they went in, each once, whichever calls, releases*)
(* and timeouts come between.                                              *)
Stored == [i \in 1 .. dtq.count |-> dtq.p_dtqmb[(dtq.head + i - 1) % dtqcnt]]
Pending == [i \in 1 .. Len(k.wque[swait_queue]) |-> sdata[k.wque[swait_queue][i]]]

AbsChannel == INSTANCE Channel WITH
    Receiver <- Task, Message <- Data, capacity <- dtqcnt,
    chan <- Stored \o Pending, got <- rdata

ImplementsChannel == AbsChannel!ChannelSpec
=============================================================================
