--------------------------- MODULE PridataqCalls ---------------------------
(***************************************************************************)
(* The service calls of kernel/pridataq.c on top of those of TaskCalls,    *)
(* for one priority data queue (the PDQCBs share nothing). The messages    *)
(* are kept in blocks, linked from p_head in the order of their            *)
(* priorities; the blocks given back are linked from p_freelist, those     *)
(* from `unused' on have never been used.                                  *)
(***************************************************************************)
EXTENDS TaskCalls

CONSTANTS
    swait_queue, rwait_queue,   \* the wait queues of its senders and receivers
    Data,
    Pdqcnt,                     \* the possible numbers of messages it stores
    maxdpri                     \* the lowest message priority

(* Assumed of the constants by whoever instantiates this module.          *)
PdqAssumption ==
    /\ {swait_queue, rwait_queue} \subseteq Wobj
    /\ wfactor[swait_queue] = "SPDQ" /\ wfactor[rwait_queue] = "RPDQ"
    /\ rwait_queue \notin TA_TPRI
    /\ Pdqcnt \subseteq Nat /\ maxdpri \in Nat \ {0}
    /\ NULL \notin Data

DataPri == 1 .. maxdpri
Letter == [data : Data, datapri : DataPri]    \* what a WINFO_SPDQ holds

VARIABLES
    pdqcnt,   \* the number of messages it stores: in its PDQINIB, never changed
    pdq,      \* the PDQCB and its blocks
    sdata,    \* the message in each task's WINFO_SPDQ
    rdata     \* the message each task received in the last step: in its
              \* WINFO_RPDQ, or in *p_data and *p_datapri

pdq_vars == <<k, pdqcnt, pdq, sdata, rdata>>

Block == 0 .. pdqcnt - 1

Pdqcb == [ count : Nat, p_head : Block \cup {NULL}, unused : Nat,
           p_freelist : Block \cup {NULL},
           p_next : [Block -> Block \cup {NULL}], letter : [Block -> Letter \cup {NULL}] ]

initialize_pridataq ==
    [ count |-> 0, p_head |-> NULL, unused |-> 0, p_freelist |-> NULL,
      p_next |-> [b \in Block |-> NULL], letter |-> [b \in Block |-> NULL] ]

nothing == [t \in Task |-> NULL]

PdqInit ==
    /\ TaskInit
    /\ pdqcnt \in Pdqcnt
    /\ pdq = initialize_pridataq
    /\ sdata = nothing
    /\ rdata = nothing

(* A WINFO_SPDQ lives as long as its task waits in the senders' queue.     *)
alive(d) == [t \in Task |-> IF Contains(k'.wque[swait_queue], t) THEN d[t] ELSE NULL]

-----------------------------------------------------------------------------
\* the blocks linked from b, at most pdqcnt of them
ListFrom(q, b) ==
    LET walk[n \in 0 .. pdqcnt] ==
          IF n = 0 THEN << >>
          ELSE LET list == walk[n - 1]
                   next == IF n = 1 THEN b
                           ELSE IF list = << >> THEN NULL ELSE q.p_next[Last(list)]
               IN  IF next = NULL THEN list ELSE Append(list, next)
    IN  walk[pdqcnt]

\* a block for a new message
allocate(q) ==
    IF q.p_freelist # NULL
    THEN [block |-> q.p_freelist, q |-> [q EXCEPT !.p_freelist = q.p_next[q.p_freelist]]]
    ELSE [block |-> q.unused, q |-> [q EXCEPT !.unused = @ + 1]]

\* mutant: a message goes before those of its own priority
Bug_behind(list, q, x) == SelectSeq(list, LAMBDA b : q.letter[b].datapri < x.datapri)

\* the messages that stay before a new one
behind(list, q, x) == SelectSeq(list, LAMBDA b : q.letter[b].datapri <= x.datapri)

enqueue_pridata(q, x) ==
    LET b      == allocate(q).block
        q1     == [allocate(q).q EXCEPT !.letter[b] = x, !.count = @ + 1]
        list   == ListFrom(q, q.p_head)
        before == behind(list, q, x)
        prev   == Last(before)
    IN  IF before = << >>
        THEN [q1 EXCEPT !.p_next[b] = q.p_head, !.p_head = b]
        ELSE [q1 EXCEPT !.p_next[b] = q.p_next[prev], !.p_next[prev] = b]

\* mutant: the free list is cut off at the block that is given back
Bug_dequeue_pridata(q) ==
    [q EXCEPT !.p_head = q.p_next[q.p_head],
              !.count = @ - 1,
              !.p_next[q.p_head] = NULL,
              !.p_freelist = q.p_head]

\* the first block is given back
dequeue_pridata(q) ==
    [q EXCEPT !.p_head = q.p_next[q.p_head],
              !.count = @ - 1,
              !.p_next[q.p_head] = q.p_freelist,
              !.p_freelist = q.p_head]

\* the first task of a wait queue is taken out and its wait is over
release_first(j, w) == wait_complete([j EXCEPT !.wque[w] = Tail(@)], Head(j.wque[w]))

send_pridata(x) ==
    \/ /\ ~queue_empty(k.wque[rwait_queue])
       /\ k' = dispatch(release_first(k, rwait_queue))
       /\ rdata' = [nothing EXCEPT ![Head(k.wque[rwait_queue])] = x]
       /\ UNCHANGED <<pdq, sdata>>
    \/ /\ queue_empty(k.wque[rwait_queue])
       /\ pdq.count < pdqcnt
       /\ pdq' = enqueue_pridata(pdq, x)
       /\ rdata' = nothing
       /\ UNCHANGED <<k, sdata>>

send_pridata_fails == queue_empty(k.wque[rwait_queue]) /\ pdq.count >= pdqcnt

(* The first message goes to the caller, and the first waiting sender's    *)
(* message is stored; without blocks it comes straight from the sender.    *)
receive_pridata ==
    LET sender == Head(k.wque[swait_queue])
    IN  \/ /\ pdq.count > 0
           /\ rdata' = [nothing EXCEPT ![k.runtsk] = pdq.letter[pdq.p_head]]
           /\ IF queue_empty(k.wque[swait_queue])
              THEN pdq' = dequeue_pridata(pdq) /\ UNCHANGED k
              ELSE /\ pdq' = enqueue_pridata(dequeue_pridata(pdq), sdata[sender])
                   /\ k' = dispatch(release_first(k, swait_queue))
           /\ sdata' = alive(sdata)
        \/ /\ pdq.count = 0
           /\ ~queue_empty(k.wque[swait_queue])
           /\ rdata' = [nothing EXCEPT ![k.runtsk] = sdata[sender]]
           /\ k' = dispatch(release_first(k, swait_queue))
           /\ sdata' = alive(sdata)
           /\ UNCHANGED pdq

receive_pridata_fails == pdq.count = 0 /\ queue_empty(k.wque[swait_queue])

-----------------------------------------------------------------------------
\* the caller waits for room with its message in its WINFO_SPDQ
wait_to_send(x, k1) ==
    /\ send_pridata_fails
    /\ k' = dispatch(k1)
    /\ sdata' = alive([sdata EXCEPT ![k.runtsk] = x])
    /\ rdata' = nothing
    /\ UNCHANGED pdq

snd_pdq(x) ==
    /\ CHECK_DISPATCH
    /\ ~k.raster[k.runtsk]
    /\ send_pridata(x) \/ wait_to_send(x, wobj_make_wait(waiting_for("SPDQ"), swait_queue))

psnd_pdq(x) == CHECK_UNL /\ send_pridata(x)

\* with a finite timeout; TMO_FEVR is snd_pdq, TMO_POL is psnd_pdq's outcome
tsnd_pdq(x) ==
    /\ CHECK_DISPATCH
    /\ ~k.raster[k.runtsk]
    /\ send_pridata(x)
       \/ wait_to_send(x, wobj_make_wait_tmout(waiting_for("SPDQ"), swait_queue))

\* the caller waits for a message, in the order of arrival
wait_to_receive(k1) ==
    /\ receive_pridata_fails
    /\ k' = dispatch([k1 EXCEPT !.wque[rwait_queue] = queue_insert_prev(@, k.runtsk),
                                !.wobj[k.runtsk] = rwait_queue])
    /\ rdata' = nothing
    /\ UNCHANGED <<pdq, sdata>>

rcv_pdq ==
    /\ CHECK_DISPATCH
    /\ ~k.raster[k.runtsk]
    /\ receive_pridata \/ wait_to_receive(make_wait(waiting_for("RPDQ")))

prcv_pdq == CHECK_TSKCTX_UNL /\ receive_pridata

trcv_pdq ==
    /\ CHECK_DISPATCH
    /\ ~k.raster[k.runtsk]
    /\ receive_pridata \/ wait_to_receive(make_wait_tmout(waiting_for("RPDQ"), "wait_tmout"))

\* mutant: the list of free blocks survives
Bug_ini_pdq ==
    /\ CHECK_TSKCTX_UNL
    /\ k' = dispatch(init_wait_queue(init_wait_queue(k, swait_queue), rwait_queue))
    /\ pdq' = [pdq EXCEPT !.count = 0, !.p_head = NULL, !.unused = 0]
    /\ sdata' = alive(sdata)
    /\ rdata' = nothing

ini_pdq ==
    /\ CHECK_TSKCTX_UNL
    /\ k' = dispatch(init_wait_queue(init_wait_queue(k, swait_queue), rwait_queue))
    /\ pdq' = [pdq EXCEPT !.count = 0, !.p_head = NULL, !.unused = 0, !.p_freelist = NULL]
    /\ sdata' = alive(sdata)
    /\ rdata' = nothing

-----------------------------------------------------------------------------
PdqCall ==
    \/ \E x \in Letter : snd_pdq(x) \/ psnd_pdq(x) \/ tsnd_pdq(x)
    \/ rcv_pdq \/ prcv_pdq \/ trcv_pdq \/ ini_pdq

PdqNext ==
    /\ \/ PdqCall
       \/ TaskNext /\ sdata' = alive(sdata) /\ rdata' = nothing /\ UNCHANGED pdq
    /\ UNCHANGED pdqcnt

PdqSpec == PdqInit /\ [][PdqNext]_pdq_vars

-----------------------------------------------------------------------------
(* Every block below `unused' is in exactly one of the two lists, and      *)
(* `count' in the list of messages: no block is lost or handed out twice   *)
(* however messages come and go (enqueue_pridata, dequeue_pridata,         *)
(* ini_pdq). Senders wait only while all blocks hold messages, receivers   *)
(* only while none does.                                                   *)
PdqOK ==
    LET used == ListFrom(pdq, pdq.p_head)
        free == ListFrom(pdq, pdq.p_freelist)
    IN  /\ pdq \in Pdqcb /\ pdq.unused <= pdqcnt
        /\ Len(used) = pdq.count
        /\ \A b \in Block :
             Cardinality(LinksIn(used \o free, b)) = IF b < pdq.unused THEN 1 ELSE 0
        /\ ~queue_empty(k.wque[swait_queue]) => pdq.count = pdqcnt
        /\ ~queue_empty(k.wque[rwait_queue]) =>
             pdq.count = 0 /\ queue_empty(k.wque[swait_queue])

(* With its senders in the order of arrival the priority data queue is a   *)
(* PriChannel: a receiver gets the oldest message of the best priority that*)
(* is stored, and no message is lost, doubled or overtaken by one of its   *)
(* own priority.                                                           *)
StoredAt(p) ==
    LET at == SelectSeq(ListFrom(pdq, pdq.p_head), LAMBDA b : pdq.letter[b].datapri = p)
    IN  [i \in 1 .. Len(at) |-> pdq.letter[at[i]].data]
Pending == [i \in 1 .. Len(k.wque[swait_queue]) |-> sdata[k.wque[swait_queue][i]]]

AbsChannel == INSTANCE PriChannel WITH
    Receiver <- Task, Message <- Data, capacity <- pdqcnt,
    chan <- [p \in DataPri |-> StoredAt(p)], pend <- Pending, got <- rdata

ImplementsPriChannel == AbsChannel!ChannelSpec
=============================================================================
