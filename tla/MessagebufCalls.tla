-------------------------- MODULE MessagebufCalls --------------------------
(***************************************************************************)
(* The message buffer extension (extension/messagebuf/kernel): the service *)
(* calls of messagebuf.c for one message buffer, and the hook in           *)
(* wait_dequeue_wobj (wait.c) by which the end of a sender's wait, whatever*)
(* ends it, lets in the senders behind it whose messages fit.              *)
(***************************************************************************)
EXTENDS TaskCalls

CONSTANTS
    swait_queue, rwait_queue,   \* the wait queues of its senders and receivers
    Message, msgsz,             \* messages, and the size of each in bytes
    Mbfsz,                      \* the possible sizes of its ring buffer
    UINT_SZ                     \* sizeof(uint_t)

(* Assumed of the constants by whoever instantiates this module.          *)
MbfAssumption ==
    /\ {swait_queue, rwait_queue} \subseteq Wobj
    /\ wfactor[swait_queue] = "SMBF" /\ wfactor[rwait_queue] = "RMBF"
    /\ rwait_queue \notin TA_TPRI
    /\ UINT_SZ \in Nat \ {0}
    /\ msgsz \in [Message -> Nat \ {0}]                      \* CHECK_PAR
    /\ Mbfsz \subseteq {n \in Nat : n % UINT_SZ = 0}         \* messagebuf.trb

VARIABLES
    mbfsz,    \* the size of the ring buffer: in its MBFINIB, never changed
    mbf,      \* the MBFCB: fmbfsz, head, tail, smbfcnt and the ring buffer
    smsg,     \* the message in each task's WINFO_SMBF
    rmsg      \* the bytes each task received in the last step: where msg of
              \* its WINFO_RMBF or of its call points to

mbf_vars == <<k, mbfsz, mbf, smsg, rmsg>>

(* A message as the ring buffer holds it: bytes that only it has, behind   *)
(* its size. The places that hold none are NULL; no code reads them.       *)
bytes(m)     == [i \in 1 .. msgsz[m] |-> <<m, i>>]
size_word(n) == <<"msgsz", n>>

ROUND_SZ(n) == ((n + UINT_SZ - 1) \div UINT_SZ) * UINT_SZ
allocsz(n)  == UINT_SZ + ROUND_SZ(n)

initialize_messagebuf ==
    [fmbfsz |-> mbfsz, head |-> 0, tail |-> 0, smbfcnt |-> 0,
     mbuffer |-> [i \in 0 .. mbfsz - 1 |-> NULL]]

nothing == [t \in Task |-> NULL]

MbfInit ==
    /\ TaskInit
    /\ mbfsz \in Mbfsz
    /\ mbf = initialize_messagebuf
    /\ smsg = nothing
    /\ rmsg = nothing

\* a WINFO_SMBF lives as long as its task waits in the senders' queue
alive(m) == [t \in Task |-> IF Contains(k'.wque[swait_queue], t) THEN m[t] ELSE NULL]

-----------------------------------------------------------------------------
(* The ring buffer. head and tail go round, and so does a message in the   *)
(* middle of which the buffer ends.                                        *)
enqueue_message(q, m) ==
    LET at  == (q.tail + UINT_SZ) % mbfsz
        put == [i \in {(at + j - 1) % mbfsz : j \in 1 .. msgsz[m]} |->
                    bytes(m)[((i - at) % mbfsz) + 1]]
    IN  [q EXCEPT !.mbuffer = put @@ (q.tail :> size_word(msgsz[m])) @@ @,
                  !.tail = (at + ROUND_SZ(msgsz[m])) % mbfsz,
                  !.fmbfsz = @ - allocsz(msgsz[m]),
                  !.smbfcnt = @ + 1]

fits(q, m) == allocsz(msgsz[m]) <= q.fmbfsz

size_at(q, i) == q.mbuffer[i][2]
message_at(q, i) ==
    [j \in 1 .. size_at(q, i) |-> q.mbuffer[(i + UINT_SZ + j - 1) % mbfsz]]
next_message(q, i) == (i + allocsz(size_at(q, i))) % mbfsz

\* mutant: the padding behind the message is not given back
Bug_dequeue_message(q) ==
    [q EXCEPT !.head = next_message(q, @),
              !.fmbfsz = @ + UINT_SZ + size_at(q, q.head),
              !.smbfcnt = @ - 1]

dequeue_message(q) ==
    LET taken == {(q.head + j) % mbfsz : j \in 0 .. allocsz(size_at(q, q.head)) - 1}
    IN  [q EXCEPT !.mbuffer = [i \in taken |-> NULL] @@ @,
                  !.head = next_message(q, @),
                  !.fmbfsz = @ + allocsz(size_at(q, q.head)),
                  !.smbfcnt = @ - 1]

\* the first task of a wait queue is taken out and its wait is over
release_first(j, w) == wait_complete([j EXCEPT !.wque[w] = Tail(@)], Head(j.wque[w]))

\* mutant: one sender is let in at most
Bug_messagebuf_signal(x) ==
    LET senders == x.j.wque[swait_queue]
    IN  IF queue_empty(senders) \/ ~fits(x.q, smsg[Head(senders)]) THEN x
        ELSE [j |-> release_first(x.j, swait_queue),
              q |-> enqueue_message(x.q, smsg[Head(senders)])]

(* From the kernel's state j and the buffer q: senders are let in, the     *)
(* first one first, until one's message does not fit.                      *)
messagebuf_signal(x) ==
    LET after[n \in 0 .. Len(x.j.wque[swait_queue])] ==
          IF n = 0 THEN x
          ELSE LET y       == after[n - 1]
                   senders == y.j.wque[swait_queue]
               IN  IF queue_empty(senders) \/ ~fits(y.q, smsg[Head(senders)]) THEN y
                   ELSE [j |-> release_first(y.j, swait_queue),
                         q |-> enqueue_message(y.q, smsg[Head(senders)])]
    IN  after[Len(x.j.wque[swait_queue])]

-----------------------------------------------------------------------------
\* mutant: a small message overtakes those that wait for room
Bug_stored(m) == queue_empty(k.wque[rwait_queue]) /\ fits(mbf, m)

\* whether send_message stores the message
stored(m) ==
    /\ queue_empty(k.wque[rwait_queue])
    /\ queue_empty(k.wque[swait_queue]) /\ fits(mbf, m)

send_message(m) ==
    \/ /\ ~queue_empty(k.wque[rwait_queue])
       /\ k' = dispatch(release_first(k, rwait_queue))
       /\ rmsg' = [nothing EXCEPT ![Head(k.wque[rwait_queue])] = bytes(m)]
       /\ UNCHANGED <<mbf, smsg>>
    \/ /\ stored(m)
       /\ mbf' = enqueue_message(mbf, m)
       /\ rmsg' = nothing
       /\ UNCHANGED <<k, smsg>>

(* The oldest message goes to the caller, and the room it leaves to the    *)
(* waiting senders; with nothing stored the message comes straight from    *)
(* the first of them.                                                      *)
receive_message ==
    \/ /\ mbf.smbfcnt > 0
       /\ rmsg' = [nothing EXCEPT ![k.runtsk] = message_at(mbf, mbf.head)]
       /\ LET x == messagebuf_signal([j |-> k, q |-> dequeue_message(mbf)])
          IN  k' = dispatch(x.j) /\ mbf' = x.q
       /\ smsg' = alive(smsg)
    \/ /\ mbf.smbfcnt = 0
       /\ ~queue_empty(k.wque[swait_queue])
       /\ rmsg' = [nothing EXCEPT ![k.runtsk] = bytes(smsg[Head(k.wque[swait_queue])])]
       /\ k' = dispatch(release_first(k, swait_queue))
       /\ smsg' = alive(smsg)
       /\ UNCHANGED mbf

-----------------------------------------------------------------------------
wait_to_send(m, k1) ==
    /\ queue_empty(k.wque[rwait_queue]) /\ ~stored(m)
    /\ k' = dispatch(k1)
    /\ smsg' = alive([smsg EXCEPT ![k.runtsk] = m])
    /\ rmsg' = nothing
    /\ UNCHANGED mbf

snd_mbf(m) ==
    /\ CHECK_DISPATCH
    /\ ~k.raster[k.runtsk]
    /\ \/ send_message(m)
       \/ wait_to_send(m, wobj_make_wait(waiting_for("SMBF"), swait_queue))

psnd_mbf(m) == CHECK_TSKCTX_UNL /\ send_message(m)

\* with a finite timeout; TMO_FEVR is snd_mbf, TMO_POL is psnd_mbf's outcome
tsnd_mbf(m) ==
    /\ CHECK_DISPATCH
    /\ ~k.raster[k.runtsk]
    /\ \/ send_message(m)
       \/ wait_to_send(m, wobj_make_wait_tmout(waiting_for("SMBF"), swait_queue))

\* the caller, out of the ready queue, waits for a message
wait_to_receive(k1) ==
    LET t == k.runtsk
    IN  /\ mbf.smbfcnt = 0 /\ queue_empty(k.wque[swait_queue])
        /\ k' = dispatch([k1 EXCEPT !.wque[rwait_queue] = queue_insert_prev(@, t),
                                    !.wobj[t] = rwait_queue])
        /\ rmsg' = nothing
        /\ UNCHANGED <<mbf, smsg>>

rcv_mbf ==
    /\ CHECK_DISPATCH
    /\ ~k.raster[k.runtsk]
    /\ receive_message \/ wait_to_receive(make_wait(waiting_for("RMBF")))

prcv_mbf == CHECK_TSKCTX_UNL /\ receive_message

trcv_mbf ==
    /\ CHECK_DISPATCH
    /\ ~k.raster[k.runtsk]
    /\ \/ receive_message
       \/ wait_to_receive(make_wait_tmout(waiting_for("RMBF"), "wait_tmout"))

ini_mbf ==
    /\ CHECK_TSKCTX_UNL
    /\ k' = dispatch(init_wait_queue(init_wait_queue(k, swait_queue), rwait_queue))
    /\ mbf' = initialize_messagebuf
    /\ smsg' = alive(smsg)
    /\ rmsg' = nothing

MbfCall ==
    \/ \E m \in Message : snd_mbf(m) \/ psnd_mbf(m) \/ tsnd_mbf(m)
    \/ rcv_mbf \/ prcv_mbf \/ trcv_mbf \/ ini_mbf
-----------------------------------------------------------------------------
(* The calls that end the wait of a sender before its message is stored.   *)
(* wait_dequeue_wobj, which all of them make, takes the task out of the    *)
(* queue and then lets in those behind it.                                 *)
\* mutant: the hook is not called
Bug_wait_dequeue_smbf(t) ==
    [j |-> [k EXCEPT !.wque[swait_queue] = queue_delete(@, t)], q |-> mbf]

wait_dequeue_smbf(t) ==
    messagebuf_signal([j |-> [k EXCEPT !.wque[swait_queue] = queue_delete(@, t)],
                       q |-> mbf])

waits_to_send(t) == "SMBF" \in k.tstat[t]

sender_leaves(t) ==
    /\ mbf' = wait_dequeue_smbf(t).q
    /\ smsg' = alive(smsg)
    /\ rmsg' = nothing

rel_wai_smbf(t) ==
    /\ CHECK_UNL
    /\ waits_to_send(t)
    /\ LET j == wait_dequeue_tmevtb(wait_dequeue_smbf(t).j, t)
       IN  k' = dispatch(make_non_wait(set_wercd(j, t, "E_RLWAI"), t))
    /\ sender_leaves(t)

wait_tmout_smbf(t) ==
    /\ k.nest > 0 /\ ~k.lock
    /\ k.tmevtb[t] = "wait_tmout"
    /\ waits_to_send(t)
    /\ LET j == [wait_dequeue_smbf(t).j EXCEPT !.tmevtb[t] = NULL]
       IN  k' = make_non_wait(set_wercd(j, t, "E_TMOUT"), t)
    /\ sender_leaves(t)

\* task_terminate of a task whose wait is over, and that does not run
terminate_smbf(t) ==
    LET j == wait_dequeue_tmevtb(wait_dequeue_smbf(t).j, t)
    IN  task_terminate([j EXCEPT !.tstat[t] = {TS_SUSPENDED}], t)

ter_tsk_smbf(t) ==
    /\ CHECK_TSKCTX_UNL
    /\ waits_to_send(t)
    /\ k' = dispatch(terminate_smbf(t))
    /\ sender_leaves(t)

ras_ter_smbf(t) ==
    /\ CHECK_TSKCTX_UNL
    /\ waits_to_send(t)
    /\ IF k.enater[t] THEN k' = dispatch(terminate_smbf(t))
       ELSE LET j == wait_dequeue_tmevtb(wait_dequeue_smbf(t).j, t)
                j1 == [set_wercd(j, t, "E_RASTER") EXCEPT !.raster[t] = TRUE,
                                                          !.tstat[t] = {TS_RUNNABLE}]
            IN  k' = dispatch(make_runnable(j1, t))
    /\ sender_leaves(t)

SenderCall(t) ==
    rel_wai_smbf(t) \/ wait_tmout_smbf(t) \/ ter_tsk_smbf(t) \/ ras_ter_smbf(t)

\* a call of TaskCalls that ends no wait of a sender
OtherCall(call) ==
    /\ call
    /\ Range(k.wque[swait_queue]) \subseteq Range(k'.wque[swait_queue])
    /\ rmsg' = nothing
    /\ UNCHANGED <<mbf, smsg>>

MbfNext ==
    /\ MbfCall \/ (\E t \in Task : SenderCall(t)) \/ OtherCall(TaskNext)
    /\ UNCHANGED mbfsz

MbfSpec == MbfInit /\ [][MbfNext]_mbf_vars

-----------------------------------------------------------------------------
(* The ring buffer's indices and sizes agree (enqueue_message,             *)
(* dequeue_message), and no message waits that could be stored: the first  *)
(* waiting sender's does not fit, whatever made room or took away those    *)
(* before it (messagebuf_signal, messagebuf_dequeue_wobj). Receivers wait  *)
(* only while there is no message at all. (For senders in the order of     *)
(* arrival: chg_pri may put another sender first, and does not look.)      *)
MbfOK ==
    LET at[n \in 0 .. mbf.smbfcnt] ==
          IF n = 0 THEN mbf.head ELSE next_message(mbf, at[n - 1])
        taken[n \in 0 .. mbf.smbfcnt] ==
          IF n = 0 THEN 0 ELSE taken[n - 1] + allocsz(size_at(mbf, at[n - 1]))
    IN  /\ mbf.fmbfsz = mbfsz - taken[mbf.smbfcnt]
        /\ mbfsz > 0 => mbf.tail = at[mbf.smbfcnt]
        /\ ~queue_empty(k.wque[swait_queue]) => ~fits(mbf, smsg[Head(k.wque[swait_queue])])
        /\ ~queue_empty(k.wque[rwait_queue]) =>
             mbf.smbfcnt = 0 /\ queue_empty(k.wque[swait_queue])

(* With its senders in the order of arrival the message buffer is a        *)
(* MessageChannel: every message comes out whole, once and in its turn,    *)
(* wherever in the ring it lies and however senders give up before it.     *)
Stored ==
    LET at[n \in 1 .. mbf.smbfcnt] ==
          IF n = 1 THEN mbf.head ELSE next_message(mbf, at[n - 1])
    IN  [n \in 1 .. mbf.smbfcnt |-> message_at(mbf, at[n])]
Pending == [i \in 1 .. Len(k.wque[swait_queue]) |-> bytes(smsg[k.wque[swait_queue][i]])]

RoomOf(message) == allocsz(Len(message))

AbsChannel == INSTANCE MessageChannel WITH
    Receiver <- Task, Message <- {bytes(m) : m \in Message}, Size <- RoomOf,
    room <- mbfsz, chan <- Stored \o Pending, got <- rmsg

ImplementsMessageChannel == AbsChannel!ChannelSpec
=============================================================================
